------------------------------ MODULE StateBytes ------------------------------
(***************************************************************************)
(* StateFile with the bytes of its files, a block being a byte in the      *)
(* layout of state.bin.                                                    *)
(***************************************************************************)
EXTENDS StateFile, StateLayout

\* What memory can hold, with rows and cached shares of any buckets.
Held(rows, shares) ==
    [my_ids : Seq(Word), table : [rows -> [1..K -> Element]], J : SUBSET Index,
     cache : [shares -> Element], t_share : Element, my_size : Word, query_no : Word,
     oracle_salt : Salt]

\* The states are of that kind, their ids no more bytes than a word can count, and
\* their sizes those of their bytes.
HeldInBytes ==
    \A s \in State :
        /\ \E rows, shares \in SUBSET Index : s \in Held(rows, shares)
        /\ U64 + U64 * Len(s.my_ids) \in Word
        /\ Size[s] = Len(Serialize(s))

-------------------------------------------------------------------------------
\* What a file of n blocks of a state loads as.
Loads ==
    [s \in State |-> [n \in 0..Size[s] |-> Load(SubSeq(Serialize(s), 1, n))]]

\* load() tells a whole file from one cut short at any byte, files of the older
\* formats without query_no or oracle_salt among them, and gives back the very
\* state a whole one was made of: StateFile's Restart relies on both
\* (state.cpp:153-238, 222-235).
OnlyWholeFilesLoad ==
    \A f \in {tmp, path, dir} :
        Exists(f) => Loads[f.state][f.blocks] = IF Whole(f) THEN {f.state} ELSE {}

\* The state file with another number in place of its first length.
LoadsWithLength ==
    [s \in State |-> [n \in Word |->
        Load(Le(n, U64) \o SubSeq(Serialize(s), U64 + 1, Size[s]))]]

\* Whatever number stands in front of a file, one whose size wraps among them,
\* load() refuses it or finds all it takes within the file (serdes.cpp:49-55).
NothingFromBeyond ==
    Exists(path) =>
        \A n \in Word : \A s \in LoadsWithLength[path.state][n] :
            Len(Serialize(s)) <= Size[path.state]
===============================================================================
