---------------------------- MODULE PsiCardinality ----------------------------
(***************************************************************************)
(* What SYMPSICA promises to its two users, with no buckets, shares or     *)
(* messages: each party edits a set; now and then the parties ask for the  *)
(* size of the intersection, and whoever is told is told that size, of the *)
(* sets as they stood when it was asked.  A party's set may fall back to   *)
(* the last one it saved, but an answer is never about anything else than  *)
(* the two sets in use.                                                    *)
(***************************************************************************)
EXTENDS Integers, FiniteSets

CONSTANTS Id, Party

None == -1

VARIABLES
    held,   \* the set each party is working with
    saved,  \* the set each party would come back with after a restart
    asked,  \* the count of the outstanding query, or None
    told    \* the count each party was told last, or None

vars == <<held, saved, asked, told>>

Count == Cardinality({x \in Id : \A p \in Party : x \in held[p]})

Init ==
    /\ held \in [Party -> SUBSET Id]
    /\ saved = held
    /\ asked = None
    /\ told = [p \in Party |-> None]

\* A set does not change while its owner, or the peer, awaits an answer about it.
Edit(p) ==
    /\ asked = None
    /\ \E set \in SUBSET Id : held' = [held EXCEPT ![p] = set]
    /\ UNCHANGED <<saved, asked, told>>

EditSaved(p) ==
    /\ \E set \in SUBSET Id : saved' = [saved EXCEPT ![p] = set]
    /\ UNCHANGED <<held, asked, told>>

Ask ==
    /\ asked = None
    /\ asked' = Count
    /\ UNCHANGED <<held, saved, told>>

Save(p) ==
    /\ asked # None
    /\ saved' = [saved EXCEPT ![p] = held[p]]
    /\ UNCHANGED <<held, asked, told>>

Tell(p, more) ==
    /\ asked # None
    /\ told' = [told EXCEPT ![p] = asked]
    /\ asked' = IF more THEN asked ELSE None
    /\ UNCHANGED <<held, saved>>

Forget(p) ==
    /\ told' = [told EXCEPT ![p] = None]
    /\ UNCHANGED <<held, saved, asked>>

\* The rest of the query is given up.
Abandon ==
    /\ asked' = None
    /\ UNCHANGED <<held, saved, told>>

Restart ==
    /\ held' = saved
    /\ asked' = None
    /\ told' = [p \in Party |-> None]
    /\ UNCHANGED saved

Next ==
    \/ \E p \in Party :
          \/ Edit(p) \/ EditSaved(p) \/ Save(p) \/ Forget(p)
          \/ \E more \in BOOLEAN : Tell(p, more)
    \/ Ask \/ Abandon \/ Restart

Spec == Init /\ [][Next]_vars
===============================================================================
