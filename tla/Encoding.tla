------------------------------- MODULE Encoding -------------------------------
(***************************************************************************)
(* The encoding of ids as powers of a generator of the field, and the rows *)
(* of K power sums a bucket keeps of the ids edited into it.               *)
(***************************************************************************)
EXTENDS Field

CONSTANTS
    Factors,    \* the prime factors of P - 1
    IdLimit     \* 2^60: an id is below it

ASSUME EncodingAssumption ==
    /\ Factors \subseteq 2..(P - 1)
    /\ IdLimit \in Nat /\ 2 * (IdLimit - 1) <= P - 1

K == 7
Row == [1..K -> Fp]
ZeroRow == [k \in 1..K |-> 0]

IsGenerator(g) == \A q \in Factors : Pow(g, (P - 1) \div q) # 1

\* The smallest candidate from 2 on that passes the generator test.
Generator ==
    CHOOSE g \in 2..(P - 1) : IsGenerator(g) /\ \A h \in 2..(g - 1) : ~IsGenerator(h)

\* P is a prime.
PrimeField == \A a, b \in 2..(P - 1) : a * b # P

\* No prime factor of P - 1 is missing: a candidate that passes generates every
\* nonzero element.
AllFactors ==
    \A q \in 2..(P - 1) :
        (P - 1) % q = 0 /\ (\A r \in 2..(q - 1) : q % r # 0) => q \in Factors

\* The search ends.
ASSUME GeneratorAssumption == \E g \in 2..(P - 1) : IsGenerator(g)

Sigma(id) == Pow(Generator, id)

\* acc as it is when row[k] is edited: y, y^2, ..., y^K.
Powers(y) == LET acc[k \in 1..K] == IF k = 1 THEN y ELSE Mul(acc[k - 1], y) IN acc

\* Mutant: acc is advanced before the row is touched, on deletion.
EditRowUnaligned(row, id, sign) ==
    LET acc == Powers(Sigma(id))
    IN  [k \in 1..K |-> IF sign = 1 THEN Add(row[k], acc[k])
                        ELSE Sub(row[k], Mul(acc[k], acc[1]))]

\* PowerSumTable::edit on the row of the id's bucket.
EditRow(row, id, sign) ==
    LET acc == Powers(Sigma(id))
    IN  [k \in 1..K |-> IF sign = 1 THEN Add(row[k], acc[k]) ELSE Sub(row[k], acc[k])]

\* A party's share of a bucket's syndrome, which is the difference of the rows.
Syndrome(role, row) ==
    IF role = "R" THEN row ELSE [k \in 1..K |-> Neg(row[k])]
===============================================================================
