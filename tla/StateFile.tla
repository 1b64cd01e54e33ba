------------------------------ MODULE StateFile ------------------------------
(***************************************************************************)
(* PartyState::save and PartyState::load against a file system: the state  *)
(* is written to a temporary file, flushed, synced, closed and renamed     *)
(* over the state file.  The process may be killed between any two of      *)
(* these calls, any of them may fail, and the machine may lose power and   *)
(* with it what is not on the disk yet.                                    *)
(***************************************************************************)
EXTENDS Integers, Sequences

CONSTANTS
    State,      \* the states a party may hold
    Fresh,      \* the one it starts from without a state file
    Size,       \* Size[s]: the number of blocks state s takes, serialized
    MaxSaves    \* bound on the saves begun

ASSUME StateFileAssumption ==
    /\ Fresh \in State
    /\ Size \in [State -> Nat \ {0}]
    /\ MaxSaves \in Nat

\* A file as readers see it.  Of a file not yet synced, the disk may hold less.
File ==
    {f \in [state : State, blocks : Nat, synced : BOOLEAN] : f.blocks <= Size[f.state]}
NoFile == [state |-> Fresh, blocks |-> -1, synced |-> TRUE]

Exists(f)  == f # NoFile
Whole(f)   == f.blocks = Size[f.state]

VARIABLES
    st,       \* the state in memory
    pc,       \* the next call of save(), or "run", "dead" or "unloadable"
    buffer,   \* the blocks written to the stream and not yet to the file
    tmp,      \* path + ".tmp"
    path,     \* the state file
    dir,      \* what the directory on the disk names path
    saves     \* the saves begun so far

vars == <<st, pc, buffer, tmp, path, dir, saves>>

Saving == {"open", "write", "flush", "sync", "close", "rename", "return"}

-------------------------------------------------------------------------------
(* save()                                                                    *)

\* An edit or a commit changes the state, and save() is called.
BeginSave ==
    /\ pc = "run"
    /\ saves < MaxSaves
    /\ \E s \in State : st' = s
    /\ saves' = saves + 1
    /\ pc' = "open"
    /\ UNCHANGED <<buffer, tmp, path, dir>>

OpenTmp ==
    /\ pc = "open"
    /\ tmp' = [state |-> st, blocks |-> 0, synced |-> FALSE]
    /\ buffer' = 0
    /\ pc' = "write"
    /\ UNCHANGED <<st, path, dir, saves>>

\* fwrite: the stream passes on some blocks and keeps the others.
Write ==
    /\ pc = "write"
    /\ \E n \in 0..Size[st] :
         /\ tmp' = [tmp EXCEPT !.blocks = n]
         /\ buffer' = Size[st] - n
    /\ pc' = "flush"
    /\ UNCHANGED <<st, path, dir, saves>>

\* Mutant: the whole state is written again behind what already was.
FlushAll ==
    /\ pc = "flush"
    /\ tmp' = [tmp EXCEPT !.blocks = @ + Size[st]]
    /\ buffer' = 0
    /\ pc' = "sync"
    /\ UNCHANGED <<st, path, dir, saves>>

Flush ==
    /\ pc = "flush"
    /\ tmp' = [tmp EXCEPT !.blocks = @ + buffer]
    /\ buffer' = 0
    /\ pc' = "sync"
    /\ UNCHANGED <<st, path, dir, saves>>

\* Mutant: the file is not synced.
SyncNothing ==
    /\ pc = "sync"
    /\ pc' = "close"
    /\ UNCHANGED <<st, buffer, tmp, path, dir, saves>>

Sync ==
    /\ pc = "sync"
    /\ tmp' = [tmp EXCEPT !.synced = TRUE]
    /\ pc' = "close"
    /\ UNCHANGED <<st, buffer, path, dir, saves>>

Close ==
    /\ pc = "close"
    /\ pc' = "rename"
    /\ UNCHANGED <<st, buffer, tmp, path, dir, saves>>

\* Mutant: a rename that fails goes unnoticed.
RenameUnchecked ==
    /\ pc = "rename"
    /\ \/ path' = tmp /\ tmp' = NoFile
       \/ UNCHANGED <<path, tmp>>
    /\ pc' = "return"
    /\ UNCHANGED <<st, buffer, dir, saves>>

\* Readers see the new file at once.  Nobody syncs the directory, so the one on
\* the disk lags.
Rename ==
    /\ pc = "rename"
    /\ path' = tmp
    /\ tmp' = NoFile
    /\ pc' = "return"
    /\ UNCHANGED <<st, buffer, dir, saves>>

Return ==
    /\ pc = "return"
    /\ pc' = "run"
    /\ UNCHANGED <<st, buffer, tmp, path, dir, saves>>

-------------------------------------------------------------------------------
(* What may go wrong, and the restart.                                       *)

\* The process is killed, or a call of save() fails and SYMPSICA_REQUIRE
\* aborts it.
Die ==
    /\ pc = "run" \/ pc \in Saving
    /\ pc' = "dead"
    /\ buffer' = 0
    /\ UNCHANGED <<st, tmp, path, dir, saves>>

\* The disk catches up with the directory.
SettleDir ==
    /\ dir # path
    /\ dir' = path
    /\ UNCHANGED <<st, pc, buffer, tmp, path, saves>>

\* What is left of a file after the power is back.
Remains(f) ==
    IF f.synced THEN {f} ELSE {[f EXCEPT !.blocks = n] : n \in 0..f.blocks}

LosePower ==
    /\ pc' = "dead"
    /\ buffer' = 0
    /\ path' \in Remains(dir)
    /\ dir' = path'
    /\ tmp' \in Remains(tmp) \cup {NoFile}
    /\ UNCHANGED <<st, saves>>

\* party_main: load the state file if there is one; a truncated one aborts.
Restart ==
    /\ pc = "dead"
    /\ IF Exists(path) /\ ~Whole(path)
       THEN pc' = "unloadable" /\ UNCHANGED st
       ELSE pc' = "run" /\ st' = path.state
    /\ UNCHANGED <<buffer, tmp, path, dir, saves>>

\* Nothing can be started any more, or everything the bound allows is done.
Stuck ==
    /\ \/ pc = "unloadable"
       \/ pc = "run" /\ saves = MaxSaves
    /\ UNCHANGED vars

-------------------------------------------------------------------------------

Init ==
    /\ st = Fresh
    /\ pc = "run"
    /\ buffer = 0
    /\ tmp = NoFile /\ path = NoFile /\ dir = NoFile
    /\ saves = 0

Next ==
    \/ BeginSave \/ OpenTmp \/ Write \/ Flush \/ Sync \/ Close \/ Rename \/ Return
    \/ Die \/ SettleDir \/ LosePower \/ Restart \/ Stuck

Spec == Init /\ [][Next]_vars

-------------------------------------------------------------------------------
(* Properties.                                                               *)

TypeOK ==
    /\ st \in State
    /\ pc \in Saving \cup {"run", "dead", "unloadable"}
    /\ buffer \in Nat
    /\ {tmp, path, dir} \subseteq File \cup {NoFile}
    /\ saves \in 0..MaxSaves

\* Whatever fails, and wherever: the state file, if there is one, is a whole
\* state, and so is the one a power loss would leave (state.cpp:126-150).
NeverTorn ==
    /\ pc # "unloadable"
    /\ \A f \in {path, dir} : Exists(f) => Whole(f) /\ f.synced

\* save() is the register the session protocol takes it for: whatever dies or
\* fails, a restart finds the state of the last save that returned, or of the
\* one under way, and after a power loss an earlier one at worst
\* (query.cpp:258-264, state.cpp:143-150).
Register == INSTANCE AtomicState WITH
    saved   <- path.state,
    settled <- dir.state,
    saving  <- IF pc \in Saving THEN {st} ELSE {},
    held    <- IF pc = "run" \/ pc \in Saving THEN {st} ELSE {}

SavesAtomically == Register!Spec

===============================================================================
