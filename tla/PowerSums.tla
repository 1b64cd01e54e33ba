------------------------------- MODULE PowerSums -------------------------------
(***************************************************************************)
(* The rows two parties keep of one bucket, as field elements, while ids   *)
(* come and go: what the rows of PartyState and the rank in Session        *)
(* abstract.                                                               *)
(***************************************************************************)
EXTENDS Minors, FiniteSets

CONSTANTS
    Id,         \* the ids that fall into the bucket
    MaxLoad     \* bound on the ids a party has in the bucket at once

ASSUME PowerSumsAssumption ==
    /\ Id \subseteq 0..(IdLimit - 1)
    /\ MaxLoad \in 0..K

\* What a row's telling its ids rests on: the field is that of a prime above K, and
\* the generator test leaves out no prime factor of its order.
ASSUME PrimeAssumption == PrimeField /\ AllFactors /\ K < P

Party == {"R", "S"}

VARIABLES
    ids,    \* the ids each party holds in the bucket
    row     \* the row each party keeps of it

vars == <<ids, row>>

Init ==
    /\ ids = [p \in Party |-> {}]
    /\ row = [p \in Party |-> ZeroRow]

Insert(p, x) ==
    /\ x \notin ids[p]
    /\ Cardinality(ids[p]) < MaxLoad
    /\ ids' = [ids EXCEPT ![p] = @ \cup {x}]
    /\ row' = [row EXCEPT ![p] = EditRow(@, x, 1)]

Delete(p, x) ==
    /\ x \in ids[p]
    /\ ids' = [ids EXCEPT ![p] = @ \ {x}]
    /\ row' = [row EXCEPT ![p] = EditRow(@, x, -1)]

Next == \E p \in Party, x \in Id : Insert(p, x) \/ Delete(p, x)

Spec == Init /\ [][Next]_vars

-------------------------------------------------------------------------------

\* Every entry of a row is canonical.
TypeOK == ids \in [Party -> SUBSET Id] /\ row \in [Party -> Row]

\* Whatever edits led here, a row is zero exactly when the party has no id in
\* the bucket, and two rows are equal exactly when the two sets are: run_full
\* leaves a bucket out on the strength of the first (query.cpp:343-379), and
\* PartyState keeps multisets for rows on the strength of both.
RowsTell ==
    /\ \A p \in Party : row[p] = ZeroRow <=> ids[p] = {}
    /\ row["R"] = row["S"] <=> ids["R"] = ids["S"]

Difference == (ids["R"] \ ids["S"]) \cup (ids["S"] \ ids["R"])

\* The minors of the joint syndrome tell the size of the symmetric difference
\* as long as that is at most T = 4, interior zero minors included
\* (minors.cpp:118-124).
MinorsTell ==
    LET d == [k \in 1..K |-> Add(Syndrome("R", row["R"])[k], Syndrome("S", row["S"])[k])]
    IN  Cardinality(Difference) <= T
          => TOf(MinorsInClear(d)) = Cardinality(Difference)
===============================================================================
