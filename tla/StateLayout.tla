------------------------------ MODULE StateLayout ------------------------------
(***************************************************************************)
(* The bytes of state.bin: what PartyState::save puts into its buffer and  *)
(* what PartyState::load makes of the bytes it finds.  Words are little    *)
(* endian and wrap; the widths and the number of values of a byte are      *)
(* parameters, so that small ones show the same cases.                     *)
(***************************************************************************)
EXTENDS Integers, Sequences, FiniteSets, SequencesExt

CONSTANTS
    Byte,           \* the values of a byte: 256
    U64, U32,       \* the bytes of a length or field element and of an index: 8, 4
    SaltBytes,      \* the bytes of a salt: 32
    K,              \* Params::K, the power sums of a row
    P               \* the modulus of the field

ASSUME LayoutAssumption ==
    /\ Byte \in Nat \ {0, 1}
    /\ {U64, U32, SaltBytes, K} \subseteq Nat \ {0} /\ U32 < U64

\* What a byte at offset n counts for.
Weight[n \in Nat] == IF n = 0 THEN 1 ELSE Byte * Weight[n - 1]

Word    == 0..(Weight[U64] - 1)
Index   == 0..(Weight[U32] - 1)
Salt    == 0..(Weight[SaltBytes] - 1)
Element == 0..(P - 1)

ASSUME ModulusAssumption == P \in Nat \ {0} /\ Element \subseteq Word

-------------------------------------------------------------------------------
(* save()                                                                    *)

Le(x, width) == [i \in 1..width |-> (x \div Weight[i - 1]) % Byte]

\* The keys of a map in ascending order.
Ascending(S) ==
    CHOOSE f \in [1..Cardinality(S) -> S] : \A i, j \in DOMAIN f : i < j => f[i] < f[j]

\* Their number, and the entries, bytes by key, in ascending order.
Sorted(entries) ==
    LET order == Ascending(DOMAIN entries)
    IN  Le(Len(order), U64) \o FlattenSeq([i \in DOMAIN order |-> entries[order[i]]])

U64Vec(values) ==
    Le(Len(values), U64) \o FlattenSeq([i \in DOMAIN values |-> Le(values[i], U64)])

Serialize(s) ==
    U64Vec(s.my_ids)
        \o Sorted([b \in DOMAIN s.table |->
               Le(b, U32) \o FlattenSeq([k \in 1..K |-> Le(s.table[b][k], U64)])])
        \o Sorted([b \in s.J |-> Le(b, U32)])
        \o Sorted([b \in DOMAIN s.cache |-> Le(b, U32) \o Le(s.cache[b], U64)])
        \o Le(s.t_share, U64) \o Le(s.my_size, U64) \o Le(s.query_no, U64)
        \o Le(s.oracle_salt, SaltBytes)

-------------------------------------------------------------------------------
(* load().  at counts the bytes in front.  Every check is that of the rest   *)
(* against what is read next; a position beyond the end reads as 0, and is   *)
(* always behind a check that refuses the file.                              *)

ByteAt(bytes, i) == IF i \in DOMAIN bytes THEN bytes[i] ELSE 0

Number(bytes, at, width) ==
    LET read[i \in 0..width] ==
            IF i = 0 THEN 0 ELSE read[i - 1] + ByteAt(bytes, at + i) * Weight[i - 1]
    IN  read[width]

\* u64_vec_wire_size, which wraps.
WireSize(n) == (U64 + U64 * n) % Weight[U64]

\* Mutant: the length is compared with the wrapped size.
FitsWrapped(n, room) == WireSize(n) <= room

\* read_u64_vec's own check of a length against the bytes it was given.
Fits(n, room) == U64 <= room /\ n <= (room - U64) \div U64

\* Mutant: the fields added to the format later may be missing.
OlderTrailer == 2 * U64

Trailer == 3 * U64 + SaltBytes

\* The map of entries read one after the other; the last of a key stays.
MapOf(entries) ==
    [b \in {e.key : e \in ToSet(entries)} |->
        entries[Max({i \in DOMAIN entries : entries[i].key = b})].value]

\* The state the bytes hold, or none when a check refuses them.
Load(bytes) ==
    LET idsN   == Number(bytes, 0, U64)
        rowsAt == WireSize(idsN)
        rowW   == U32 + K * U64
        rowsN  == Number(bytes, rowsAt, U64)
        row(i) == rowsAt + U64 + i * rowW
        jAt    == row(rowsN)
        jN     == Number(bytes, jAt, U64)
        ccAt   == jAt + U64 + jN * U32
        ccN    == Number(bytes, ccAt, U64)
        cc(i)  == ccAt + U64 + i * (U32 + U64)
        tailAt == cc(ccN)
        Fp(at) == Number(bytes, at, U64)
        share  == Fp(tailAt)
    IN  IF /\ Fits(idsN, rowsAt)
           /\ tailAt + Trailer <= Len(bytes)
           /\ \A i \in 0..(rowsN - 1), k \in 0..(K - 1) : Fp(row(i) + U32 + k * U64) < P
           /\ \A i \in 0..(ccN - 1) : Fp(cc(i) + U32) < P
           /\ share < P
        THEN {[my_ids |-> [i \in 1..idsN |-> Number(bytes, i * U64, U64)],
               table  |-> MapOf([i \in 1..rowsN |->
                   [key   |-> Number(bytes, row(i - 1), U32),
                    value |-> [k \in 1..K |-> Fp(row(i - 1) + U32 + (k - 1) * U64)]]]),
               J      |-> {Number(bytes, jAt + U64 + i * U32, U32) : i \in 0..(jN - 1)},
               cache  |-> MapOf([i \in 1..ccN |->
                   [key |-> Number(bytes, cc(i - 1), U32), value |-> Fp(cc(i - 1) + U32)]]),
               t_share     |-> share,
               my_size     |-> Number(bytes, tailAt + U64, U64),
               query_no    |-> Number(bytes, tailAt + 2 * U64, U64),
               oracle_salt |-> Number(bytes, tailAt + 3 * U64, SaltBytes)]}
        ELSE {}
===============================================================================
