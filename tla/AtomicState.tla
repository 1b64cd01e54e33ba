----------------------------- MODULE AtomicState -----------------------------
(***************************************************************************)
(* What a caller of PartyState::save may rely on: one register that        *)
(* survives the process, replaced as a whole, by nothing but the state a   *)
(* save was called with, and always before that save returns.  Only a loss *)
(* of power may bring an earlier value back.                               *)
(***************************************************************************)
CONSTANTS State, Fresh

VARIABLES
    saved,   \* the state a new process would start from
    settled, \* the one it would start from after a power loss
    saving,  \* the state of the save that has not returned, if there is one
    held     \* the state a running process works on, if there is one

vars == <<saved, settled, saving, held>>

Init == saved = Fresh /\ settled = Fresh /\ saving = {} /\ held = {Fresh}

Begin ==
    /\ saving = {} /\ held # {}
    /\ \E s \in State : saving' = {s} /\ held' = {s}
    /\ UNCHANGED <<saved, settled>>

Take ==
    /\ \E s \in saving : saved' = s
    /\ UNCHANGED <<settled, saving, held>>

Return ==
    /\ saving = {saved}
    /\ saving' = {}
    /\ UNCHANGED <<saved, settled, held>>

Settle ==
    /\ settled' = saved
    /\ UNCHANGED <<saved, saving, held>>

Die ==
    /\ saving' = {} /\ held' = {}
    /\ UNCHANGED <<saved, settled>>

LosePower ==
    /\ saving' = {} /\ held' = {}
    /\ saved' = settled
    /\ UNCHANGED settled

Restart ==
    /\ held = {}
    /\ held' = {saved}
    /\ UNCHANGED <<saved, settled, saving>>

Next == Begin \/ Take \/ Return \/ Settle \/ Die \/ LosePower \/ Restart

Spec == Init /\ [][Next]_vars
===============================================================================
