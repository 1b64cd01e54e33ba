-------------------------------- MODULE Field --------------------------------
(***************************************************************************)
(* The arithmetic of Fp, modulo the Mersenne number P = Base - 1, on       *)
(* machine words: a bitwise "and" with P keeps what is below Base, a shift *)
(* by 61 divides by Base, and unsigned words wrap at WordSize.             *)
(***************************************************************************)
EXTENDS Integers

CONSTANTS
    Base,       \* 2^61
    WordSize    \* 2^64

P  == Base - 1
Fp == 0..(P - 1)

ASSUME FieldAssumption ==
    /\ Base \in Nat /\ Base > 2
    /\ WordSize \in Nat /\ WordSize >= 4 * Base /\ WordSize <= Base * (Base - 2)

Word(x) == x % WordSize

\* Mutant: P itself is let through.
AddLoosely(a, b) ==
    LET r == Word(a + b) IN IF r > P THEN r - P ELSE r

Add(a, b) ==
    LET r == Word(a + b) IN IF r >= P THEN r - P ELSE r

\* The difference wraps; a borrow shows as a result above a.
Sub(a, b) ==
    LET r == Word(a - b) IN IF r > a THEN Word(r + P) ELSE r

Neg(a) == IF a = 0 THEN 0 ELSE P - a

Fold(t) == Word(t % Base) + Word(t \div Base)

\* The double fold and the conditional subtraction.
Reduce(t) ==
    LET r == Fold(Fold(t)) IN IF r >= P THEN r - P ELSE r

Mul(a, b) == Reduce(a * b)

FromU64(x) == Reduce(x)

\* Left-to-right square and multiply over the bits of e.
Bit(e, i) == (e \div (2 ^ i)) % 2

Pow(x, e) ==
    IF e = 0 THEN 1
    ELSE LET top  == CHOOSE i \in 0..e : 2 ^ i <= e /\ e < 2 ^ (i + 1)
             r[i \in 0..top] ==
                IF i = top THEN x
                ELSE LET sq == Mul(r[i + 1], r[i + 1])
                     IN  IF Bit(e, i) = 1 THEN Mul(sq, x) ELSE sq
         IN  r[0]
===============================================================================
