---------------------------- MODULE JointEvaluation ----------------------------
(***************************************************************************)
(* What an evaluation of buckets promises the query that asks for it, and  *)
(* all that Session's Evaluate makes use of: for each bucket the two       *)
(* parties get shares of the number of its differences, or of some number  *)
(* up to T if there are more than T, each party once, in either order.     *)
(***************************************************************************)
EXTENDS Integers

CONSTANTS
    Field,      \* the field elements
    Plus(_, _), \* its addition
    Limit       \* T

Party == {"R", "S"}
Peer(p) == IF p = "R" THEN "S" ELSE "R"

VARIABLES
    differences,    \* differences[b]: how many ids bucket b's two sides differ in
    shares          \* shares[p][b], <<>> while p has none

vars == <<differences, shares>>

Buckets == DOMAIN differences

Decoded(b) == IF differences[b] <= Limit THEN {differences[b]} ELSE 0..Limit

Init ==
    /\ \A b \in Buckets : differences[b] >= 0
    /\ shares = [p \in Party |-> <<>>]

\* The first party gets its shares, which may be any.
First(p) ==
    /\ shares[p] = <<>> /\ shares[Peer(p)] = <<>>
    /\ shares'[p] \in [Buckets -> Field]
    /\ shares' = [shares EXCEPT ![p] = shares'[p]]
    /\ UNCHANGED differences

\* The other party's shares complete them.
Second(p) ==
    /\ shares[p] = <<>> /\ shares[Peer(p)] # <<>>
    /\ shares'[p] \in [Buckets -> Field]
    /\ shares' = [shares EXCEPT ![p] = shares'[p]]
    /\ \A b \in Buckets : Plus(shares'[p][b], shares[Peer(p)][b]) \in Decoded(b)
    /\ UNCHANGED differences

Next == \E p \in Party : First(p) \/ Second(p)

Spec == Init /\ [][Next]_vars
===============================================================================
