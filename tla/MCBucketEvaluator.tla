--------------------------- MODULE MCBucketEvaluator ---------------------------
(***************************************************************************)
(* BucketEvaluator over the field of 127 elements, with buckets of every   *)
(* difference from 0 to 5, vanishing interior minors among them, and dealt *)
(* randomness scrambled from a seed.                                       *)
(***************************************************************************)
EXTENDS BucketEvaluator

Side(r, s) == [p \in Party |-> IF p = "R" THEN r ELSE s]

\* 3^0 + 3^63 = 0, so the first minor of {0, 63} vanishes, at either party.
MCSides ==
    {Side({}, {}), Side({5, 7}, {5, 7}), Side({5}, {}), Side({0, 63}, {}),
     Side({}, {0, 63}), Side({1, 2, 3}, {3, 4}), Side({0, 9, 63}, {17, 40}),
     Side({1, 64 - 3}, {2, 8}), Side({1, 2, 3}, {4, 5})}

Scrambled(s, i, k) == (s * s * 31 + i * 47 + k * 71 + i * k * 13 + s * i * 5) % P

MCDealt ==
    [s \in Seeds |-> [i \in 0..(3 * TriplesPerBucket) |->
        [a  |-> Scrambled(s, i, 1), b  |-> Scrambled(s, i, 2),
         aR |-> Scrambled(s, i, 3), bR |-> Scrambled(s, i, 4),
         cR |-> Scrambled(s, i, 5)]]]

MCMask ==
    [s \in Seeds |-> [i \in 0..(2 * GatesPerBucket - 1) |->
        Side(Scrambled(s, i, 6), Scrambled(s, i, 7))]]

MCLeaf ==
    [s \in Seeds |-> [i \in 0..(3 * GatesPerBucket * Digits) |-> Scrambled(s, i, 8)]]
===============================================================================
