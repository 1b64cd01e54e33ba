------------------------------ MODULE MCStateFile ------------------------------
(***************************************************************************)
(* StateFile with the bytes of its files, a block being a byte: three      *)
(* states of different lengths, in the layout of state.bin with bytes of   *)
(* four values, words of two bytes and indices and salts of one.           *)
(***************************************************************************)
EXTENDS StateBytes, TLC

NoMap == [b \in {} |-> 0]

FreshState ==
    [my_ids |-> <<>>, table |-> NoMap, J |-> {}, cache |-> NoMap, t_share |-> 0,
     my_size |-> 0, query_no |-> 0, oracle_salt |-> 0]

EditedState ==
    [FreshState EXCEPT !.my_ids = <<9>>, !.table = 1 :> <<5, 4>>, !.J = {1},
                       !.my_size = 1]

QueriedState ==
    [my_ids |-> <<13, 2>>, table |-> 1 :> <<6, 0>> @@ 3 :> <<2, 4>>, J |-> {},
     cache |-> 1 :> 3 @@ 2 :> 6, t_share |-> 2, my_size |-> 2, query_no |-> 5,
     oracle_salt |-> 3]

MCState == {FreshState, EditedState, QueriedState}
MCSize  == [s \in MCState |-> Len(Serialize(s))]

ASSUME StatesAssumption == HeldInBytes
===============================================================================
