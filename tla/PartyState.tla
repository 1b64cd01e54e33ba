------------------------------ MODULE PartyState ------------------------------
(***************************************************************************)
(* What one party keeps, in memory and in state.bin, and the operations    *)
(* that the update, query and maintenance protocols perform on it locally. *)
(*                                                                         *)
(* A bucket's row of power sums is the linear image of the net multiset of *)
(* the ids edited into it, so a row is that multiset: a function from ids  *)
(* to net multiplicities.  Adding an id, deleting it and comparing two     *)
(* rows mean the same thing on both representations, as long as a bucket   *)
(* never nets more than K = 7 ids.                                         *)
(***************************************************************************)
EXTENDS Integers, FiniteSets, FiniteSetsExt

CONSTANTS
    Id,         \* the ids the parties may hold
    M,          \* Params::M, the number of buckets
    UMax,       \* Params::U_MAX, the padded size of a dirty set
    T,          \* Params::T, the largest symmetric difference a bucket decodes
    P,          \* the modulus of the field the shares live in
    Salt,       \* the salts a bucket oracle may be built from
    EpochZero,  \* the all-zero salt of a fresh party
    Oracle      \* Oracle[salt][x] is BucketOracle(salt).of(x)

Bucket == 1..M
Index  == 0..M      \* what an index read off the wire may be; 0 is never sampled
Fp     == 0..(P - 1)

ASSUME ConstantsAssumption ==
    /\ M \in Nat \ {0}
    /\ UMax \in Nat /\ UMax <= M
    /\ T \in Nat
    /\ P \in Nat /\ P > 2 /\ P % 2 = 1
    /\ EpochZero \in Salt
    /\ Oracle \in [Salt -> [Id -> Bucket]]
    /\ IsFiniteSet(Id)

CapM(n) == IF n <= M THEN n ELSE M

-------------------------------------------------------------------------------
(* The table of power sums.                                                  *)

ZeroRow == [x \in Id |-> 0]

Table == [Index -> [Id -> Int]]

TableOf(ids, salt) ==
    [b \in Index |->
        [x \in Id |-> IF x \in ids /\ Oracle[salt][x] = b THEN 1 ELSE 0]]

BucketsOf(ids, salt) == {Oracle[salt][x] : x \in ids}

\* One table.edit(x, +1) for each x in ins and one table.edit(x, -1) for each
\* x in del, all under the oracle of salt.
EditTable(table, ins, del, salt) ==
    [b \in Index |->
        [x \in Id |->
            IF Oracle[salt][x] # b
            THEN table[b][x]
            ELSE table[b][x] + (IF x \in ins THEN 1 ELSE 0)
                             - (IF x \in del THEN 1 ELSE 0)]]

-------------------------------------------------------------------------------
(* A party's state.  The cache map is total: a missing entry reads as 0, and   *)
(* cached is the key set of the map.  rows is that of the table's map: an edit *)
(* creates a row, and no edit ever erases one, so a row may be present and     *)
(* zero.                                                                       *)

States ==
    [my_ids : SUBSET Id, table : Table, rows : SUBSET Index, J : SUBSET Index,
     cache : [Index -> Fp], cached : SUBSET Index, t_share : Fp,
     my_size : Int, query_no : Nat, oracle_salt : Salt]

\* What a party starts from when it has no state file.
Fresh ==
    [my_ids |-> {}, table |-> TableOf({}, EpochZero), rows |-> {}, J |-> {},
     cache |-> [b \in Index |-> 0], cached |-> {}, t_share |-> 0,
     my_size |-> 0, query_no |-> 0, oracle_salt |-> EpochZero]

SaltMatches(s, salt) == s.oracle_salt = salt

\* check_against: the table is that of ids, whatever zero rows it holds besides.
CheckAgainst(s, ids, salt) ==
    \A b \in BucketsOf(ids, salt) \cup s.rows : s.table[b] = TableOf(ids, salt)[b]

\* Mutant: every row the map holds, zero or not.
OccupiedRows(s) == s.rows

\* The rows run_full publishes: those with a nonzero power sum.
Occupied(s) == {b \in s.rows : s.table[b] # ZeroRow}

-------------------------------------------------------------------------------
(* Update::apply.  I and D are the deduplicated edit lists.                   *)

\* Mutant: no membership filter.
InsertedUnfiltered(s, I, D) == I \ D

Inserted(s, I, D) == (I \ D) \ s.my_ids
Deleted(s, I, D)  == (D \ I) \cap s.my_ids

\* Mutant: a delete does not mark its bucket dirty.
ApplyForgettingDeletes(s, I, D, salt) ==
    LET ins == Inserted(s, I, D)
        del == Deleted(s, I, D)
    IN  [s EXCEPT !.my_ids  = (@ \cup ins) \ del,
                  !.table   = EditTable(@, ins, del, salt),
                  !.rows    = @ \cup BucketsOf(ins \cup del, salt),
                  !.J       = @ \cup BucketsOf(ins, salt),
                  !.my_size = @ + Cardinality(ins) - Cardinality(del)]

Apply(s, I, D, salt) ==
    LET ins == Inserted(s, I, D)
        del == Deleted(s, I, D)
    IN  [s EXCEPT !.my_ids  = (@ \cup ins) \ del,
                  !.table   = EditTable(@, ins, del, salt),
                  !.rows    = @ \cup BucketsOf(ins \cup del, salt),
                  !.J       = @ \cup BucketsOf(ins \cup del, salt),
                  !.my_size = @ + Cardinality(ins) - Cardinality(del)]

\* The state file of a first --update-only run that inserts ids.
LoadedWith(ids) == Apply(Fresh, ids, {}, EpochZero)

-------------------------------------------------------------------------------
(* SaltManager.                                                              *)

\* Mutant: the flag is not looked at.
DueUnforced(queryNo, phi, maintenance, force) ==
    \/ maintenance
    \/ phi # 0 /\ queryNo # 0 /\ queryNo % phi = 0

Due(queryNo, phi, maintenance, force) ==
    \/ force
    \/ maintenance
    \/ phi # 0 /\ queryNo # 0 /\ queryNo % phi = 0

\* Mutant: the new salt is recorded, the table keeps its old buckets.
RebuiltSaltOnly(s, salt) == [s EXCEPT !.oracle_salt = salt]

Rebuilt(s, salt) ==
    [s EXCEPT !.oracle_salt = salt, !.table = TableOf(s.my_ids, salt),
              !.rows = BucketsOf(s.my_ids, salt)]

-------------------------------------------------------------------------------
(* Query: the path, the padding and the commit.                              *)

Announces(s) == Cardinality(s.J) > UMax

\* Mutant: the counterpart's announcement is not listened to.
DecideAlone(nA, nB, announces, first, peerAnnounces) ==
    IF first \/ 2 * UMax >= CapM(nA) + CapM(nB) \/ announces
    THEN "full" ELSE "incremental"

Decide(nA, nB, announces, first, peerAnnounces) ==
    IF \/ first
       \/ 2 * UMax >= CapM(nA) + CapM(nB)
       \/ announces
       \/ peerAnnounces
    THEN "full" ELSE "incremental"

\* The k bucket indices sample_pad_indices may draw beside those of exclude.
Pads(k, exclude) ==
    IF k < 0 THEN {} ELSE kSubset(k, Bucket \ exclude)

SumOver(f, S) == MapThenSumSet(LAMBDA b : f[b], S)

AddShares(f, S) == SumOver(f, S) % P

\* Mutant: the total is added to the old one.
ReplaceAddingUp(s, betas, fresh) ==
    [s EXCEPT !.cache    = [b \in Index |-> IF b \in betas THEN fresh[b] ELSE 0],
              !.cached   = betas,
              !.t_share  = (@ + AddShares(fresh, betas)) % P,
              !.J        = {},
              !.query_no = @ + 1]

\* Mutant: every cached bucket gets the first bucket's share.
ReplacePartially(s, betas, fresh) ==
    LET first == CHOOSE b \in betas : \A c \in betas : b <= c
    IN  [s EXCEPT !.cache    = [b \in Index |-> IF b \in betas THEN fresh[first] ELSE 0],
                  !.cached   = betas,
                  !.t_share  = AddShares(fresh, betas),
                  !.J        = {},
                  !.query_no = @ + 1]

CommitReplace(s, betas, fresh) ==
    [s EXCEPT !.cache    = [b \in Index |-> IF b \in betas THEN fresh[b] ELSE 0],
              !.cached   = betas,
              !.t_share  = AddShares(fresh, betas),
              !.J        = {},
              !.query_no = @ + 1]

\* Mutant: the new shares are added without the old ones being taken away.
AccumulateTotals(s, betas, fresh) ==
    [s EXCEPT !.cache    = [b \in Index |-> IF b \in betas THEN fresh[b] ELSE @[b]],
              !.cached   = @ \cup betas,
              !.t_share  = (@ + AddShares(fresh, betas)) % P,
              !.J        = {},
              !.query_no = @ + 1]

\* Mutant: the sum is not reduced.
AccumulateUnreduced(s, betas, fresh) ==
    [s EXCEPT !.cache    = [b \in Index |-> IF b \in betas THEN fresh[b] ELSE @[b]],
              !.cached   = @ \cup betas,
              !.t_share  = @ + AddShares([b \in betas |-> fresh[b] - s.cache[b]],
                                         betas),
              !.J        = {},
              !.query_no = @ + 1]

CommitAccumulate(s, betas, fresh) ==
    [s EXCEPT !.cache    = [b \in Index |-> IF b \in betas THEN fresh[b] ELSE @[b]],
              !.cached   = @ \cup betas,
              !.t_share  = (@ + AddShares([b \in betas |-> fresh[b] - s.cache[b]],
                                          betas)) % P,
              !.J        = {},
              !.query_no = @ + 1]

Commit(s, path, betas, fresh) ==
    IF path = "full" THEN CommitReplace(s, betas, fresh)
                     ELSE CommitAccumulate(s, betas, fresh)

Inv2 == (P + 1) \div 2

\* Mutant: both parties add the public constant.
ConvertOnBothSides(role, tShare, nA, nB) == (Inv2 * (nA + nB - tShare)) % P

\* Only the Receiver adds the public nA + nB.
Convert(role, tShare, nA, nB) ==
    (Inv2 * ((IF role = "R" THEN nA + nB ELSE 0) - tShare)) % P

===============================================================================
