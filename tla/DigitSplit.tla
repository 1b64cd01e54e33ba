------------------------------ MODULE DigitSplit ------------------------------
(***************************************************************************)
(* The digits a zero test splits a masked value into, and a gate its mask. *)
(***************************************************************************)
EXTENDS Field

CONSTANTS DigitBits, TopDigitBits   \* 16 and 13

Digits   == 4
MaskBits == (Digits - 1) * DigitBits + TopDigitBits

ASSUME DigitAssumption ==
    /\ DigitBits \in Nat \ {0} /\ TopDigitBits \in Nat \ {0}
    /\ 2 ^ MaskBits = Base

\* Digit j of z, the top one narrower than the others.
Digit(z, j) ==
    (z \div (2 ^ (DigitBits * (j - 1))))
        % (2 ^ (IF j = Digits THEN TopDigitBits ELSE DigitBits))
===============================================================================
