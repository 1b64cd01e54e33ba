-------------------------- MODULE MCTripleGeneration --------------------------
(***************************************************************************)
(* TripleGeneration over the field of 7 elements: every choice of the six  *)
(* OTs of a triple, over pads scrambled from a seed, words that are no     *)
(* field elements among them; the next triple has the choices of the one   *)
(* before it, read backwards.                                              *)
(***************************************************************************)
EXTENDS TripleGeneration

CONSTANT Seeds

Scrambled(s, i, bit) == (s * s * 7 + i * 13 + bit * 29 + s * i * 5 + i * i * bit) % WordSize

PerTriple == 2 * OlePerCallOts

MCOtPools ==
    {[i \in 1..PoolSize |->
        [pads   |-> [bit \in {0, 1} |-> Scrambled(s, i, bit)],
         choice |-> IF i <= PerTriple THEN choices[i] ELSE choices[PoolSize + 1 - i]]] :
        s \in Seeds, choices \in [1..PerTriple -> {0, 1}]}
===============================================================================
