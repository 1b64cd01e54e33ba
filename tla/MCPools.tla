-------------------------------- MODULE MCPools --------------------------------
(***************************************************************************)
(* Pools with batches of two: a refill takes up to three batches of        *)
(* triples and two of gates, the last of them short or not.                *)
(***************************************************************************)
EXTENDS Pools

Sized(triples, gates) == [k \in Kind |-> IF k = "triples" THEN triples ELSE gates]

MCPerEvaluation == Sized(3, 2)
MCOtsPerItem    == Sized(4, 9)
MCInitialSizes  == {Sized(0, 0), Sized(3, 0), Sized(0, 3), Sized(1, 1)}
===============================================================================
