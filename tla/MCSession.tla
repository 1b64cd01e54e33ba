------------------------------ MODULE MCSession ------------------------------
(***************************************************************************)
(* Instances of Session small enough for TLC: three ids in three buckets,  *)
(* dirty sets of one index, so that an incremental query, an announced one *)
(* and a padded one all happen, and shares modulo 7.  Recovery, with its   *)
(* three sessions of full queries, has two ids in two buckets.             *)
(***************************************************************************)
EXTENDS SessionProperties, TLC

MCOracle ==
    [s \in 0..4 |->
        CASE s = 0 -> 1 :> 1 @@ 2 :> 2 @@ 3 :> 3
          [] s = 1 -> 1 :> 1 @@ 2 :> 1 @@ 3 :> 2
          [] s = 2 -> 1 :> 3 @@ 2 :> 1 @@ 3 :> 2
          [] s = 3 -> 1 :> 2 @@ 2 :> 3 @@ 3 :> 2
          [] OTHER -> 1 :> 3 @@ 2 :> 2 @@ 3 :> 1]

\* Two ids share a bucket from the start.
MCCollide == [s \in 0..4 |-> 1 :> 1 @@ 2 :> 1 @@ 3 :> 2]

\* Two ids in two buckets.
MCOracleOfTwo == [s \in 0..4 |-> [x \in 1..2 |-> 1 + (MCOracle[s][x] % 2)]]

\* Not symmetric in its arguments, as a hash of r_R || r_S is not.
MCRefreshed == [rs \in Contribution \X Contribution |-> 1 + ((rs[1] + 2 * rs[2]) % 4)]

DayOf(l, q, m) == [label |-> l, query |-> q, maintenance |-> m]
Quiet(l)  == DayOf(l, FALSE, FALSE)
Ask(l)    == DayOf(l, TRUE, FALSE)
Refresh(l) == DayOf(l, TRUE, TRUE)

MCDay == [label : 1..4, query : BOOLEAN, maintenance : BOOLEAN]

Asking     == {<<Ask(1), Quiet(2), Ask(3)>>}
Refreshing == {<<Ask(1), Ask(2), Ask(3)>>, <<Ask(1), Refresh(2), Ask(3)>>}
Single     == {<<Ask(1)>>}
Pairs      == {<<Ask(1), Ask(2)>>}
Maintained == {<<Ask(1), Refresh(2)>>, <<Ask(1)>>}

NoForce   == {[p \in Party |-> FALSE]}
AnyForce  == [Party -> BOOLEAN]

ApartBases == {{1, 2}, {3}}
OneBase == {{1, 2}}
OneId == {{1}}
===============================================================================
