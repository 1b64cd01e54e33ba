------------------------------ MODULE FieldProofs ------------------------------
(***************************************************************************)
(* The field operations are right for every word size the code could use:  *)
(* no intermediate value wraps, and results are canonical.  Then comes     *)
(* arithmetic that the proofs about components share: powers of two, the   *)
(* bits of a number, and sums and products modulo P.  If P is a prime, the *)
(* encodings of ids are all different; a row of power sums tells the at    *)
(* most seven ids it was edited from, and the minors of the gap between    *)
(* two rows tell the size of their sets' difference if it is at most four. *)
(* The hypotheses PrimeField and AllFactors are assumed by the components  *)
(* that keep rows; the encoding's two constants come along to all, and for *)
(* every field there are some that meet their assumptions.                 *)
(*                                                                         *)
(* A fact about every natural number is proved from the least number it    *)
(* fails at.  2^(n+1) = 2 * 2^n, which the SMT backend does not know, is   *)
(* counted: 2^n is the number of subsets of 1..n.                          *)
(***************************************************************************)
EXTENDS Minors, FiniteSetTheorems, WellFoundedInduction, TLAPS

Congruent(x, y) == \E k \in Int : x = y + k * P

\* Dividing by more than the number.
LEMMA SmallRemainder ==
    ASSUME NEW n \in Nat \ {0}, NEW x \in Nat, x < n
    PROVE  x % n = x /\ x \div n = 0
  OBVIOUS

\* What the assumption on the constants is used for.
LEMMA Sizes == P \in Nat /\ P > 1 /\ Base = P + 1 /\ WordSize \in Nat
               /\ WordSize >= 4 * Base
  BY FieldAssumption DEF P

\* A word below WordSize is itself.
LEMMA WordOfSmall ==
    ASSUME NEW x \in Nat, x < WordSize
    PROVE  Word(x) = x
  BY Sizes, SmallRemainder DEF Word

\* Adding or taking away P once does not change a value modulo P.
LEMMA Shift ==
    ASSUME NEW x \in Int
    PROVE  Congruent(x, x) /\ Congruent(x - P, x) /\ Congruent(x + P, x)
  <1>1. x = x + 0 * P /\ x - P = x + (-1) * P /\ x + P = x + 1 * P
    <2>1. 0 * P = 0 /\ (-1) * P = -P /\ 1 * P = P
      BY Sizes
    <2> QED
      BY <2>1, Sizes
  <1> QED
    BY <1>1 DEF Congruent

\* Fp::add: canonical, and the sum modulo P.
THEOREM AddCorrect ==
    ASSUME NEW a \in Fp, NEW b \in Fp
    PROVE  Add(a, b) \in Fp /\ Congruent(Add(a, b), a + b)
  <1>1. a + b \in Nat /\ a + b < WordSize /\ a + b <= 2 * P - 2
    BY Sizes DEF Fp
  <1>2. Word(a + b) = a + b
    BY <1>1, WordOfSmall
  <1>3. CASE a + b >= P
    <2>1. Add(a, b) = (a + b) - P
      BY <1>2, <1>3 DEF Add
    <2> QED
      BY <2>1, <1>1, <1>3, Sizes, Shift DEF Fp
  <1>4. CASE ~(a + b >= P)
    <2>1. Add(a, b) = a + b
      BY <1>2, <1>4 DEF Add
    <2> QED
      BY <2>1, <1>1, <1>4, Sizes, Shift DEF Fp
  <1> QED
    BY <1>3, <1>4

\* Fp::sub: the wrapped difference is recognised and corrected.
THEOREM SubCorrect ==
    ASSUME NEW a \in Fp, NEW b \in Fp
    PROVE  Sub(a, b) \in Fp /\ Congruent(Sub(a, b), a - b)
  <1>1. a \in Int /\ b \in Int /\ 0 <= a /\ a < P /\ 0 <= b /\ b < P
    BY Sizes DEF Fp
  <1>2. CASE a >= b
    <2>1. Word(a - b) = a - b
      BY <1>1, <1>2, Sizes, WordOfSmall
    <2>2. Sub(a, b) = a - b
      BY <2>1, <1>1, <1>2 DEF Sub
    <2> QED
      BY <2>2, <1>1, <1>2, Sizes, Shift DEF Fp
  <1>3. CASE a < b
    <2>1. Word(a - b) = a - b + WordSize
      BY <1>1, <1>3, Sizes DEF Word
    <2>2. a - b + WordSize > a
      BY <1>1, Sizes
    <2>3. Word(a - b + WordSize + P) = a - b + P
      BY <1>1, <1>3, Sizes DEF Word
    <2>4. Sub(a, b) = a - b + P
      BY <2>1, <2>2, <2>3 DEF Sub
    <2> QED
      BY <2>4, <1>1, <1>3, Sizes, Shift DEF Fp
  <1> QED
    BY <1>1, <1>2, <1>3

\* Fp::neg.
THEOREM NegCorrect ==
    ASSUME NEW a \in Fp
    PROVE  Neg(a) \in Fp /\ Congruent(Neg(a), -a)
  <1>1. a \in Int /\ 0 <= a /\ a < P
    BY Sizes DEF Fp
  <1>2. CASE a = 0
    BY <1>1, <1>2, Sizes, Shift DEF Neg, Fp
  <1>3. CASE a # 0
    <2>1. Neg(a) = P - a /\ P - a = (-a) + P
      BY <1>1, <1>3, Sizes DEF Neg
    <2>2. -a \in Int
      BY <1>1
    <2> QED
      BY <2>1, <2>2, <1>1, <1>3, Sizes, Shift DEF Fp
  <1> QED
    BY <1>2, <1>3

\* Congruences chain.
LEMMA Transitive ==
    ASSUME NEW x \in Int, NEW y \in Int, NEW z \in Int,
           Congruent(x, y), Congruent(y, z)
    PROVE  Congruent(x, z)
  <1>1. PICK k \in Int : x = y + k * P
    BY DEF Congruent
  <1>2. PICK l \in Int : y = z + l * P
    BY DEF Congruent
  <1>3. x = z + (k + l) * P
    <2>1. (k + l) * P = k * P + l * P
      BY Sizes
    <2> QED
      BY <1>1, <1>2, <2>1, Sizes
  <1> QED
    BY <1>3 DEF Congruent

\* Division with remainder by Base.
LEMMA Divide ==
    ASSUME NEW t \in Nat
    PROVE  /\ t % Base \in Nat /\ t % Base < Base
           /\ t \div Base \in Nat
           /\ t = (Base * (t \div Base)) + (t % Base)
  <1>1. Base \in Nat /\ Base > 0
    BY Sizes
  <1>2. t % Base \in 0..(Base - 1)
    BY <1>1
  <1>3. t \div Base \in Int /\ t \div Base >= 0
    BY <1>1
  <1>4. t = (Base * (t \div Base)) + (t % Base)
    BY <1>1
  <1> QED
    BY <1>1, <1>2, <1>3, <1>4

\* One fold of a product of two field elements, or of a 64-bit word, is below
\* 2 * Base and does not change the value modulo P.
LEMMA FoldOnce ==
    ASSUME NEW t \in Nat, t < Base * Base
    PROVE  /\ Fold(t) \in Nat /\ Fold(t) <= 2 * P
           /\ Congruent(Fold(t), t)
  <1> DEFINE q == t \div Base
             r == t % Base
  <1>1. q \in Nat /\ r \in Nat /\ r < Base /\ t = (Base * q) + r
    BY Divide
  <1>2. q < Base
    <2>1. SUFFICES ASSUME q >= Base PROVE FALSE
      BY <1>1, Sizes
    <2>2. Base * q >= Base * Base
      BY <2>1, <1>1, Sizes
    <2> QED
      BY <2>2, <1>1, Sizes
  <1>3. Fold(t) = r + q
    <2>1. r < WordSize /\ q < WordSize
      BY <1>1, <1>2, Sizes
    <2> QED
      BY <2>1, <1>1, WordOfSmall DEF Fold
  <1>4. r + q = t + (-q) * P
    <2> HIDE DEF q, r
    <2>1. r + q = t - q * P
      BY <1>1, Sizes
    <2> QED
      BY <2>1, <1>1, Sizes
  <1> HIDE DEF q, r
  <1>5. Congruent(Fold(t), t)
    BY <1>1, <1>3, <1>4 DEF Congruent
  <1> QED
    BY <1>1, <1>2, <1>3, <1>5, Sizes

\* A second fold brings what the first one left to P at most.
LEMMA FoldTwice ==
    ASSUME NEW t \in Nat, t <= 2 * P
    PROVE  Fold(t) \in Nat /\ Fold(t) <= P
  <1>1. CASE t < Base
    <2>1. t % Base = t /\ t \div Base = 0
      BY <1>1, Sizes, SmallRemainder
    <2> QED
      BY <2>1, <1>1, Sizes, WordOfSmall DEF Fold
  <1>2. CASE t >= Base
    <2>1. t % Base = t - Base /\ t \div Base = 1
      BY <1>2, Sizes
    <2>2. t - Base \in Nat /\ t - Base < WordSize /\ 1 < WordSize
      BY <1>2, Sizes
    <2>3. Fold(t) = t - Base + 1
      BY <2>1, <2>2, WordOfSmall DEF Fold
    <2> QED
      BY <2>3, <2>2, <1>2, Sizes
  <1> QED
    BY <1>1, <1>2, Sizes

\* The double fold and the one conditional subtraction bring a 128-bit product
\* or a 64-bit word to its canonical residue (field.hpp:57-63, 95-100).
THEOREM ReduceCorrect ==
    ASSUME NEW t \in Nat, t < Base * Base
    PROVE  Reduce(t) \in Fp /\ Congruent(Reduce(t), t)
  <1> DEFINE f == Fold(t)
             r == Fold(Fold(t))
  <1>1. f \in Nat /\ f <= 2 * P /\ Congruent(f, t)
    BY FoldOnce
  <1>2. f < Base * Base
    <2>1. Base * Base >= 2 * Base
      BY FieldAssumption
    <2> QED
      BY <2>1, <1>1, Sizes
  <1>3. r \in Nat /\ r <= P /\ Congruent(r, f)
    BY <1>1, <1>2, FoldOnce, FoldTwice
  <1>4. Congruent(r, t)
    <2> HIDE DEF f, r
    <2> QED
      BY <1>1, <1>3, Transitive
  <1>5. Reduce(t) = IF r >= P THEN r - P ELSE r
    BY DEF Reduce
  <1> HIDE DEF f, r
  <1>6. CASE r >= P
    <2>1. Reduce(t) = r - P /\ Congruent(r - P, r)
      BY <1>3, <1>5, <1>6, Shift
    <2> QED
      BY <2>1, <1>3, <1>4, <1>6, Sizes, Transitive DEF Fp
  <1>7. CASE ~(r >= P)
    BY <1>3, <1>4, <1>5, <1>7, Sizes DEF Fp
  <1> QED
    BY <1>6, <1>7

\* Fp::mul: the product is canonical and right modulo P.
THEOREM MulCorrect ==
    ASSUME NEW a \in Fp, NEW b \in Fp
    PROVE  Mul(a, b) \in Fp /\ Congruent(Mul(a, b), a * b)
  <1>1. a \in Nat /\ b \in Nat /\ a < Base /\ b < Base
    BY Sizes DEF Fp
  <1>2. a * b \in Nat /\ a * b < Base * Base
    <2>1. a * b \in Nat /\ a * b <= a * Base /\ a * Base < Base * Base
      BY <1>1, Sizes
    <2> QED
      BY <2>1, <1>1, Sizes
  <1> QED
    BY <1>2, ReduceCorrect DEF Mul

\* Fp::Fp(u64): any 64-bit word is brought to its canonical residue.
THEOREM FromU64Correct ==
    ASSUME NEW x \in Nat, x < WordSize
    PROVE  FromU64(x) \in Fp /\ Congruent(FromU64(x), x)
  <1>1. x < Base * Base
    <2>1. Base * (Base - 2) <= Base * Base
      BY Sizes
    <2> QED
      BY <2>1, FieldAssumption, Sizes
  <1> QED
    BY <1>1, ReduceCorrect DEF FromU64

-------------------------------------------------------------------------------
(* Induction, recursion and powers of two.                                   *)

\* A set that has 0 and, with a number, the next one.
LEMMA Induction ==
    ASSUME NEW S, 0 \in S, \A n \in Nat : n \in S => n + 1 \in S
    PROVE  \A n \in Nat : n \in S
  <1> DEFINE bad == Nat \ S
             R == OpToRel(<, Nat)
  <1>1. SUFFICES ASSUME bad # {} PROVE FALSE
    OBVIOUS
  <1>2. IsWellFoundedOn(R, Nat) /\ bad \subseteq Nat
    BY NatLessThanWellFounded
  <1>3. PICK x \in bad : \A y \in bad : ~ (<<y, x>> \in R)
    <2> HIDE DEF bad, R
    <2> QED BY <1>1, <1>2, WFMin
  <1>4. \A y \in bad : ~ (y < x)
    BY <1>3 DEF OpToRel
  <1>5. x # 0 /\ x - 1 \in Nat /\ x - 1 < x /\ (x - 1) + 1 = x
    <2>1. x \in Nat /\ x # 0
      BY <1>3
    <2> QED BY <2>1
  <1>6. x - 1 \in S
    BY <1>4, <1>5
  <1> QED BY <1>3, <1>5, <1>6

\* f[0] is a, and each f[k] is made of the one before it.
Recursive(f, n, a, G) == f = [k \in 0..n |-> IF k = 0 THEN a ELSE G[k][f[k - 1]]]

\* A function defined from its value one below exists.
LEMMA Recursion ==
    ASSUME NEW N \in Nat, NEW a, NEW G
    PROVE  \E f : Recursive(f, N, a, G)
  <1> USE DEF Recursive
  <1> DEFINE Good(n, f) == Recursive(f, n, a, G)
             S == {n \in Nat : \E f : Good(n, f)}
  <1>1. 0 \in S
    <2>1. Good(0, [k \in 0..0 |-> a])
      OBVIOUS
    <2> QED BY <2>1
  <1>2. ASSUME NEW n \in Nat, n \in S PROVE n + 1 \in S
    <2>1. PICK f : Good(n, f)
      BY <1>2
    <2> DEFINE g == [k \in 0..(n + 1) |-> IF k = n + 1 THEN G[k][f[n]] ELSE f[k]]
    <2>2. \A k \in 0..n : f[k] = IF k = 0 THEN a ELSE G[k][f[k - 1]]
      BY <2>1
    <2>3. ASSUME NEW k \in 0..(n + 1)
          PROVE  g[k] = IF k = 0 THEN a ELSE G[k][g[k - 1]]
      <3>1. CASE k = n + 1
        <4>1. g[k - 1] = f[n] /\ g[k] = G[k][f[n]] /\ k # 0
          BY <3>1
        <4> QED BY <4>1
      <3>2. CASE k # n + 1
        <4>1. k \in 0..n /\ g[k] = f[k]
          BY <3>2
        <4>2. CASE k = 0
          BY <4>1, <4>2, <2>2
        <4>3. CASE k # 0
          <5>1. g[k - 1] = f[k - 1]
            BY <4>1, <4>3
          <5> QED BY <4>1, <4>3, <5>1, <2>2
        <4> QED BY <4>2, <4>3
      <3> QED BY <3>1, <3>2
    <2>4. Good(n + 1, g)
      BY <2>3
    <2> HIDE DEF Good, g
    <2> QED BY <2>4
  <1> HIDE DEF S
  <1>3. N \in S
    BY <1>1, <1>2, Induction
  <1> QED BY <1>3 DEF S

\* The subsets of n + 1 elements: those without the last one, and each of those with it.
LEMMA Doubles ==
    ASSUME NEW n \in Nat
    PROVE  2 ^ n \in Nat /\ 2 ^ (n + 1) = 2 * 2 ^ n
  <1> DEFINE A == 1..n
             x == n + 1
             with == {B \cup {x} : B \in SUBSET A}
             f == [B \in SUBSET A |-> B \cup {x}]
  <1>1. /\ IsFiniteSet(A) /\ Cardinality(A) = n
        /\ IsFiniteSet(A \cup {x}) /\ Cardinality(A \cup {x}) = n + 1 /\ x \notin A
    <2>1. IsFiniteSet(A) /\ Cardinality(A) = n
      BY FS_Interval
    <2>2. x \notin A
      OBVIOUS
    <2> HIDE DEF A, x
    <2>3. Cardinality(A \cup {x}) = n + 1 /\ IsFiniteSet(A \cup {x})
      BY <2>1, <2>2, FS_AddElement
    <2> QED BY <2>1, <2>2, <2>3
  <1>2. /\ IsFiniteSet(SUBSET A) /\ Cardinality(SUBSET A) = 2 ^ n
        /\ Cardinality(SUBSET (A \cup {x})) = 2 ^ (n + 1)
    BY <1>1, FS_SUBSET
  <1>3. SUBSET (A \cup {x}) = (SUBSET A) \cup with
    <2>1. ASSUME NEW D \in SUBSET (A \cup {x}), x \in D PROVE D \in with
      <3>1. D \ {x} \in SUBSET A /\ D = (D \ {x}) \cup {x}
        BY <2>1
      <3> QED BY <3>1
    <2>2. ASSUME NEW D \in SUBSET (A \cup {x}), x \notin D PROVE D \in SUBSET A
      BY <2>2
    <2>3. with \subseteq SUBSET (A \cup {x}) /\ SUBSET A \subseteq SUBSET (A \cup {x})
      OBVIOUS
    <2> HIDE DEF with, A, x
    <2> QED BY <2>1, <2>2, <2>3
  <1>4. f \in Bijection(SUBSET A, with)
    <2>1. f \in [SUBSET A -> with]
      OBVIOUS
    <2>2. ASSUME NEW B \in SUBSET A, NEW C \in SUBSET A, f[B] = f[C] PROVE B = C
      <3>1. B \cup {x} = C \cup {x} /\ x \notin B /\ x \notin C
        BY <2>2, <1>1
      <3> QED BY <3>1
    <2>3. \A t \in with : \E B \in SUBSET A : f[B] = t
      OBVIOUS
    <2> HIDE DEF f, with
    <2> QED BY <2>1, <2>2, <2>3 DEF Bijection, Injection, Surjection, IsInjective
  <1>5. IsFiniteSet(with) /\ Cardinality(with) = 2 ^ n
    <2>1. ExistsBijection(SUBSET A, with)
      BY <1>4 DEF ExistsBijection
    <2> HIDE DEF with
    <2> QED BY <2>1, <1>2, FS_Bijection
  <1>6. (SUBSET A) \cap with = {}
    BY <1>1
  <1>7. Cardinality((SUBSET A) \cup with) = 2 ^ n + 2 ^ n - 0
    <2>1. Cardinality((SUBSET A) \cap with) = 0
      BY <1>6, FS_EmptySet
    <2> HIDE DEF with, A
    <2>2. Cardinality((SUBSET A) \cup with)
            = Cardinality(SUBSET A) + Cardinality(with) - Cardinality((SUBSET A) \cap with)
      BY <1>2, <1>5, FS_Union
    <2> QED BY <1>2, <1>5, <2>1, <2>2
  <1>8. 2 ^ n \in Nat
    BY <1>2, FS_CardinalityType
  <1>9. 2 ^ (n + 1) = 2 ^ n + 2 ^ n - 0
    <2> HIDE DEF with, A, x
    <2> QED BY <1>2, <1>3, <1>7
  <1>10. \A m, k \in Nat : k = m + m - 0 => k = 2 * m
    OBVIOUS
  <1>11. 2 ^ (n + 1) \in Nat
    <2>1. 2 ^ n + 2 ^ n - 0 \in Nat
      BY <1>8
    <2> QED BY <1>9, <2>1
  <1> QED BY <1>8, <1>9, <1>10, <1>11

\* Quotient and remainder.
LEMMA DivMod ==
    ASSUME NEW d \in Nat \ {0}, NEW q \in Int, NEW r \in 0..(d - 1)
    PROVE  (d * q + r) \div d = q /\ (d * q + r) % d = r
  <1> DEFINE x == d * q + r
  <1>1. PICK k \in Int, s \in 0..(d - 1) :
            k = x \div d /\ s = x % d /\ x = d * k + s
    <2>1. x \in Int
      OBVIOUS
    <2> HIDE DEF x
    <2>2. x = d * (x \div d) + (x % d)
      BY <2>1
    <2>3. x % d \in 0..(d - 1)
      BY <2>1
    <2>4. x \div d \in Int
      BY <2>1
    <2> QED BY <2>2, <2>3, <2>4
  <1>2. d * (q - k) = s - r
    <2>1. d * (q - k) = d * q - d * k /\ d * q \in Int /\ d * k \in Int
      OBVIOUS
    <2>2. d * q + r = d * k + s
      BY <1>1
    <2> QED BY ONLY <2>1, <2>2, r \in Int, s \in Int
  <1>3. q - k = 0
    <2>1. CASE q - k >= 1
      <3>1. d * (q - k) >= d * 1
        BY <2>1
      <3> QED BY <3>1, <1>2
    <2>2. CASE q - k <= -1
      <3>1. d * (q - k) <= d * (-1)
        BY <2>2
      <3> QED BY <3>1, <1>2
    <2> QED BY <2>1, <2>2
  <1>4. q = k /\ s = r
    <2>1. d * 0 = 0
      OBVIOUS
    <2> QED BY <1>2, <1>3, <2>1
  <1> HIDE DEF x
  <1>5. x \div d = q /\ x % d = r
    BY <1>1, <1>4
  <1> QED BY <1>5 DEF x

LEMMA DivModIs ==
    ASSUME NEW d \in Nat \ {0}, NEW x \in Int
    PROVE  /\ x \div d \in Int /\ x % d \in 0..(d - 1)
           /\ x = d * (x \div d) + (x % d)
           /\ x \in Nat => x \div d \in Nat
  <1>1. x \div d \in Int
    OBVIOUS
  <1>2. x % d \in 0..(d - 1)
    OBVIOUS
  <1>3. x = d * (x \div d) + (x % d)
    OBVIOUS
  <1>4. ASSUME x \in Nat PROVE x \div d \in Nat
    BY <1>4
  <1> QED BY <1>1, <1>2, <1>3, <1>4

LEMMA DivTwice ==
    ASSUME NEW c \in Nat \ {0}, NEW d \in Nat \ {0}, NEW x \in Int
    PROVE  (x \div c) \div d = x \div (c * d)
  <1>1. PICK q \in Int, r \in 0..(c - 1) : q = x \div c /\ x = c * q + r
    BY DivModIs
  <1>2. PICK k \in Int, s \in 0..(d - 1) : k = q \div d /\ q = d * k + s
    BY DivModIs
  <1>3. x = (c * d) * k + (c * s + r)
    <2>1. c * q = c * (d * k) + c * s
      BY <1>2
    <2>2. c * (d * k) = (c * d) * k
      OBVIOUS
    <2> QED BY <1>1, <2>1, <2>2
  <1>4. c * d \in Nat \ {0} /\ c * s + r \in 0..(c * d - 1)
    <2>1. c * s <= c * (d - 1) /\ c * s >= 0 /\ c * s \in Int
      OBVIOUS
    <2>2. c * (d - 1) = c * d - c /\ c * d \in Nat /\ c * d > 0
      OBVIOUS
    <2> QED BY <2>1, <2>2
  <1>5. x \div (c * d) = k
    <2> DEFINE e == c * d
               t == c * s + r
    <2>1. e \in Nat \ {0} /\ t \in 0..(e - 1) /\ x = e * k + t
      BY <1>3, <1>4
    <2> HIDE DEF e, t
    <2>2. x \div e = k
      BY <2>1, DivMod
    <2> QED BY <2>2 DEF e
  <1> QED BY <1>1, <1>2, <1>5

\* Powers of two.
LEMMA PowNat == \A n \in Nat : 2 ^ n \in Nat \ {0}
  <1> DEFINE S == {n \in Nat : 2 ^ n \in Nat \ {0}}
  <1>1. 0 \in S
    <2>1. 2 ^ 0 = 1
      OBVIOUS
    <2> QED BY <2>1
  <1>2. ASSUME NEW n \in Nat, n \in S PROVE n + 1 \in S
    <2>1. 2 ^ (n + 1) = 2 * 2 ^ n /\ 2 ^ n \in Nat \ {0}
      BY <1>2, Doubles
    <2>2. \A m \in Nat \ {0} : 2 * m \in Nat \ {0}
      OBVIOUS
    <2>3. 2 ^ (n + 1) \in Nat \ {0}
      BY <2>1, <2>2
    <2> QED BY <2>3
  <1> HIDE DEF S
  <1>3. \A n \in Nat : n \in S
    BY <1>1, <1>2, Induction
  <1> QED BY <1>3 DEF S

LEMMA PowPlus ==
    ASSUME NEW m \in Nat
    PROVE  \A n \in Nat : 2 ^ (m + n) = 2 ^ m * 2 ^ n
  <1> DEFINE S == {n \in Nat : 2 ^ (m + n) = 2 ^ m * 2 ^ n}
  <1>1. 0 \in S
    <2>1. 2 ^ 0 = 1 /\ m + 0 = m
      OBVIOUS
    <2>2. 2 ^ m \in Nat
      BY PowNat
    <2>3. \A t \in Nat : t = t * 1
      OBVIOUS
    <2> QED BY <2>1, <2>2, <2>3
  <1>2. ASSUME NEW n \in Nat, n \in S PROVE n + 1 \in S
    <2>1. 2 ^ (n + 1) = 2 * 2 ^ n /\ 2 ^ ((m + n) + 1) = 2 * 2 ^ (m + n)
      BY Doubles
    <2>2. 2 ^ n \in Nat /\ 2 ^ m \in Nat /\ m + (n + 1) = (m + n) + 1
      BY PowNat
    <2>3. 2 ^ (m + n) = 2 ^ m * 2 ^ n
      BY <1>2
    <2>4. \A s, t \in Nat : 2 * (s * t) = s * (2 * t)
      OBVIOUS
    <2>5. 2 ^ (m + (n + 1)) = 2 ^ m * 2 ^ (n + 1)
      BY <2>1, <2>2, <2>3, <2>4
    <2> QED BY <2>5
  <1> HIDE DEF S
  <1>3. \A n \in Nat : n \in S
    BY <1>1, <1>2, Induction
  <1> QED BY <1>3 DEF S

\* Bits are 0 or 1, those of a small number 0.
LEMMA BitRange == ASSUME NEW x \in Int, NEW i \in Nat PROVE Bit(x, i) \in {0, 1}
  <1>1. 2 ^ i \in Nat \ {0}
    BY PowNat
  <1>2. \A t \in Nat \ {0} : x \div t \in Int
    BY DivModIs
  <1>3. \A y \in Int : y % 2 \in {0, 1}
    OBVIOUS
  <1> QED BY <1>1, <1>2, <1>3 DEF Bit

\* An even addend leaves the lowest bit.
LEMMA EvenAddend == \A x \in Int, k \in Int : (x + 2 * k) % 2 = x % 2
  OBVIOUS

\* Adding bit n to a number of n bits.
LEMMA TopBit ==
    ASSUME NEW n \in Nat, NEW x \in 0..(2 ^ n - 1), NEW b \in {0, 1}
    PROVE  /\ x + b * 2 ^ n \in 0..(2 ^ (n + 1) - 1)
           /\ Bit(x + b * 2 ^ n, n) = b
           /\ \A i \in 0..(n - 1) : Bit(x + b * 2 ^ n, i) = Bit(x, i)
  <1> DEFINE y == x + b * 2 ^ n
  <1>0. 2 ^ n \in Nat \ {0} /\ 2 ^ (n + 1) = 2 * 2 ^ n
    BY PowNat, Doubles
  <1>1. x + b * 2 ^ n \in 0..(2 ^ (n + 1) - 1)
    <2>1. \A t \in Nat \ {0} : x \in 0..(t - 1) => x + b * t \in 0..(2 * t - 1)
      OBVIOUS
    <2> QED BY <1>0, <2>1
  <1>2. Bit(x + b * 2 ^ n, n) = b
    <2>1. \A t \in Nat \ {0} : x \in 0..(t - 1) => (x + b * t) \div t = b
      <3>1. TAKE t \in Nat \ {0}
      <3>2. HAVE x \in 0..(t - 1)
      <3>3. x + b * t = t * b + x
        OBVIOUS
      <3>4. (t * b + x) \div t = b
        BY <3>2, DivMod
      <3> QED BY <3>3, <3>4
    <2>2. y \div 2 ^ n = b
      BY <1>0, <2>1
    <2>3. b % 2 = b
      OBVIOUS
    <2> QED BY <2>2, <2>3 DEF Bit
  <1>3. ASSUME NEW i \in 0..(n - 1) PROVE Bit(x + b * 2 ^ n, i) = Bit(x, i)
    <2>1. 2 ^ i \in Nat \ {0} /\ 2 ^ (n - 1 - i) \in Nat
      BY PowNat
    <2>2. 2 ^ n = 2 ^ i * (2 * 2 ^ (n - 1 - i))
      <3>1. n - 1 - i \in Nat /\ n - i \in Nat /\ (n - 1 - i) + 1 = n - i
             /\ i + (n - i) = n /\ i \in Nat
        OBVIOUS
      <3>2. 2 ^ (n - i) = 2 * 2 ^ (n - 1 - i)
        BY <3>1, Doubles
      <3>3. 2 ^ n = 2 ^ i * 2 ^ (n - i)
        BY <3>1, PowPlus
      <3> QED BY <3>2, <3>3
    <2>3. \A d \in Nat \ {0}, e \in Nat :
            (x + b * (d * (2 * e))) \div d = (x \div d) + 2 * (b * e)
      <3>1. TAKE d \in Nat \ {0}, e \in Nat
      <3>2. PICK q \in Int, r \in 0..(d - 1) : q = x \div d /\ x = d * q + r
        BY DivModIs
      <3>3. d * (q + 2 * (b * e)) = d * q + b * (d * (2 * e))
        <4>1. CASE b = 0
          BY <4>1
        <4>2. CASE b = 1
          BY <4>2
        <4> QED BY <4>1, <4>2
      <3>4. x + b * (d * (2 * e)) = d * (q + 2 * (b * e)) + r
        BY <3>2, <3>3
      <3>5. q + 2 * (b * e) \in Int
        OBVIOUS
      <3>6. (d * (q + 2 * (b * e)) + r) \div d = q + 2 * (b * e)
        BY <3>5, DivMod
      <3> QED BY <3>2, <3>4, <3>6
    <2>4. y \div 2 ^ i = (x \div 2 ^ i) + 2 * (b * 2 ^ (n - 1 - i))
      BY <2>1, <2>2, <2>3
    <2>5. x \div 2 ^ i \in Int /\ b * 2 ^ (n - 1 - i) \in Int
      <3>1. \A t \in Nat : b * t \in Int
        OBVIOUS
      <3>2. x \in Int
        BY <1>0
      <3> QED BY <2>1, <3>1, <3>2, DivModIs
    <2> HIDE DEF y
    <2>6. (y \div 2 ^ i) % 2 = (x \div 2 ^ i) % 2
      BY <2>4, <2>5, EvenAddend
    <2> QED BY <2>6 DEF Bit, y
  <1> QED BY <1>1, <1>2, <1>3

\* What the bits b[1], b[2], ... add up to, from the lowest up.
Sums2(s, b, n) == s[0] = 0 /\ \A j \in 1..n : s[j] = s[j - 1] + b[j] * 2 ^ (j - 1)

LEMMA BitsOfSum ==
    ASSUME NEW n \in Nat, NEW b \in [1..n -> {0, 1}], NEW s, Sums2(s, b, n)
    PROVE  /\ \A j \in 0..n : s[j] \in 0..(2 ^ j - 1)
           /\ s[n] \in 0..(2 ^ n - 1)
           /\ \A i \in 1..n : Bit(s[n], i - 1) = b[i]
  <1> DEFINE Good(j) == s[j] \in 0..(2 ^ j - 1) /\ \A i \in 1..j : Bit(s[j], i - 1) = b[i]
             S == {j \in Nat : j <= n => Good(j)}
  <1>1. 0 \in S
    <2>1. s[0] = 0 /\ 2 ^ 0 = 1
      BY DEF Sums2
    <2> QED BY <2>1
  <1>2. ASSUME NEW j \in Nat, j \in S PROVE j + 1 \in S
    <2>1. SUFFICES ASSUME j + 1 <= n PROVE Good(j + 1)
      OBVIOUS
    <2>2. Good(j)
      BY <1>2, <2>1
    <2>3. s[j + 1] = s[j] + b[j + 1] * 2 ^ j /\ b[j + 1] \in {0, 1}
      <3>1. j + 1 \in 1..n /\ (j + 1) - 1 = j
        BY <2>1
      <3> QED BY <3>1 DEF Sums2
    <2>4. /\ s[j + 1] \in 0..(2 ^ (j + 1) - 1)
          /\ Bit(s[j + 1], j) = b[j + 1]
          /\ \A i \in 0..(j - 1) : Bit(s[j + 1], i) = Bit(s[j], i)
      <3> DEFINE x == s[j]
                 c == b[j + 1]
      <3>1. x \in 0..(2 ^ j - 1) /\ c \in {0, 1} /\ s[j + 1] = x + c * 2 ^ j
        BY <2>2, <2>3
      <3> HIDE DEF x, c
      <3>2. /\ s[j + 1] \in 0..(2 ^ (j + 1) - 1) /\ Bit(s[j + 1], j) = c
            /\ \A i \in 0..(j - 1) : Bit(s[j + 1], i) = Bit(x, i)
        <4>1. /\ x + c * 2 ^ j \in 0..(2 ^ (j + 1) - 1) /\ Bit(x + c * 2 ^ j, j) = c
              /\ \A i \in 0..(j - 1) : Bit(x + c * 2 ^ j, i) = Bit(x, i)
          BY ONLY <3>1, TopBit, j \in Nat
        <4> QED BY <3>1, <4>1
      <3> QED BY <3>2 DEF x, c
    <2>5. ASSUME NEW i \in 1..(j + 1) PROVE Bit(s[j + 1], i - 1) = b[i]
      <3>1. CASE i = j + 1
        BY <2>4, <3>1
      <3>2. CASE i # j + 1
        <4>1. i \in 1..j /\ i - 1 \in 0..(j - 1)
          BY <3>2
        <4> QED BY <4>1, <2>2, <2>4
      <3> QED BY <3>1, <3>2
    <2> QED BY <2>4, <2>5
  <1> HIDE DEF S
  <1>3. \A j \in Nat : j \in S
    BY <1>1, <1>2, Induction
  <1> QED BY <1>3 DEF S

\* A number is what its bits are.
LEMMA SameBits ==
    \A n \in Nat : \A x, y \in 0..(2 ^ n - 1) :
        (\A i \in 0..(n - 1) : Bit(x, i) = Bit(y, i)) => x = y
  <1> DEFINE Same(n, x, y) == \A i \in 0..(n - 1) : Bit(x, i) = Bit(y, i)
             S == {n \in Nat : \A x, y \in 0..(2 ^ n - 1) : Same(n, x, y) => x = y}
  <1>1. 0 \in S
    <2>1. 2 ^ 0 = 1
      OBVIOUS
    <2> QED BY <2>1
  <1>2. ASSUME NEW n \in Nat, n \in S PROVE n + 1 \in S
    <2>1. SUFFICES ASSUME NEW x \in 0..(2 ^ (n + 1) - 1), NEW y \in 0..(2 ^ (n + 1) - 1),
                          Same(n + 1, x, y)
                   PROVE  x = y
      OBVIOUS
    <2>2. 2 ^ n \in Nat \ {0} /\ 2 ^ (n + 1) = 2 * 2 ^ n /\ x \in Int /\ y \in Int
      BY PowNat, Doubles
    <2>3. ASSUME NEW z \in 0..(2 ^ (n + 1) - 1)
          PROVE  /\ z \div 2 \in 0..(2 ^ n - 1)
                 /\ z = 2 * (z \div 2) + Bit(z, 0)
                 /\ \A i \in Nat : Bit(z \div 2, i) = Bit(z, i + 1)
      <3>1. z \div 2 \in 0..(2 ^ n - 1) /\ z = 2 * (z \div 2) + (z % 2) /\ z \in Int
        <4>1. \A t \in Nat : \A w \in 0..(2 * t - 1) :
                w \div 2 \in 0..(t - 1) /\ w = 2 * (w \div 2) + (w % 2)
          OBVIOUS
        <4> QED BY <2>2, <4>1
      <3>2. Bit(z, 0) = z % 2
        <4>1. 2 ^ 0 = 1 /\ z \div 1 = z
          BY <3>1
        <4> QED BY <4>1 DEF Bit
      <3>3. ASSUME NEW i \in Nat PROVE Bit(z \div 2, i) = Bit(z, i + 1)
        <4>1. 2 ^ i \in Nat \ {0} /\ 2 ^ (i + 1) = 2 * 2 ^ i
          BY PowNat, Doubles
        <4>2. (z \div 2) \div 2 ^ i = z \div (2 * 2 ^ i)
          BY <4>1, <3>1, DivTwice
        <4> QED BY <4>1, <4>2 DEF Bit
      <3> QED BY <3>1, <3>2, <3>3
    <2>4. Same(n, x \div 2, y \div 2)
      <3>1. ASSUME NEW i \in 0..(n - 1) PROVE Bit(x \div 2, i) = Bit(y \div 2, i)
        <4>1. i + 1 \in 0..((n + 1) - 1) /\ i \in Nat
          OBVIOUS
        <4>2. Bit(x, i + 1) = Bit(y, i + 1)
          BY <2>1, <4>1
        <4> QED BY <2>3, <4>1, <4>2
      <3> QED BY <3>1
    <2>5. x \div 2 = y \div 2
      BY <1>2, <2>3, <2>4
    <2>6. Bit(x, 0) = Bit(y, 0)
      <3>1. 0 \in 0..((n + 1) - 1)
        OBVIOUS
      <3> QED BY <2>1, <3>1
    <2>7. x = 2 * (x \div 2) + Bit(x, 0) /\ y = 2 * (y \div 2) + Bit(y, 0)
      BY <2>3
    <2> QED BY <2>5, <2>6, <2>7
  <1> HIDE DEF S
  <1>3. \A n \in Nat : n \in S
    BY <1>1, <1>2, Induction
  <1> QED BY <1>3 DEF S

\* The bits of w bits of x from bit o on.
LEMMA BitOfSlice ==
    ASSUME NEW x \in Nat, NEW o \in Nat, NEW w \in Nat, NEW i \in Nat
    PROVE  /\ (x \div 2 ^ o) % 2 ^ w \in 0..(2 ^ w - 1)
           /\ Bit((x \div 2 ^ o) % 2 ^ w, i) = IF i < w THEN Bit(x, o + i) ELSE 0
  <1>0. 2 ^ o \in Nat \ {0} /\ 2 ^ w \in Nat \ {0} /\ 2 ^ i \in Nat \ {0}
    BY PowNat
  <1>1. PICK y \in Nat : y = x \div 2 ^ o
    BY <1>0, DivModIs
  <1>2. PICK q \in Int, r \in 0..(2 ^ w - 1) : r = y % 2 ^ w /\ y = 2 ^ w * q + r
    <2>1. y \div 2 ^ w \in Int /\ y % 2 ^ w \in 0..(2 ^ w - 1)
          /\ y = 2 ^ w * (y \div 2 ^ w) + (y % 2 ^ w)
      <3>1. y \in Int
        OBVIOUS
      <3> QED BY ONLY <1>0, <3>1, DivModIs
    <2> QED BY <2>1
  <1>3. CASE i < w
    <2>1. Bit(y, i) = Bit(x, o + i)
      <3>1. y \div 2 ^ i = x \div (2 ^ o * 2 ^ i)
        <4>1. x \in Int
          OBVIOUS
        <4>2. (x \div 2 ^ o) \div 2 ^ i = x \div (2 ^ o * 2 ^ i)
          BY ONLY <1>0, <4>1, DivTwice
        <4> QED BY <1>1, <4>2
      <3>2. 2 ^ (o + i) = 2 ^ o * 2 ^ i
        BY PowPlus
      <3> QED BY <3>1, <3>2 DEF Bit
    <2>2. 2 ^ w = 2 ^ i * (2 * 2 ^ (w - i - 1)) /\ 2 ^ (w - i - 1) \in Nat
      <3>1. PICK d \in Nat : d = w - i - 1
        BY <1>3
      <3>2. w = i + (d + 1)
        BY <3>1
      <3>3. 2 ^ (d + 1) = 2 * 2 ^ d /\ 2 ^ d \in Nat
        BY Doubles
      <3>4. 2 ^ w = 2 ^ i * 2 ^ (d + 1)
        BY <3>2, PowPlus
      <3> QED BY ONLY <3>1, <3>3, <3>4
    <2>3. \A d \in Nat \ {0}, e \in Nat :
            (d * (2 * e) * q + r) \div d = (r \div d) + 2 * (e * q)
      <3>1. TAKE d \in Nat \ {0}, e \in Nat
      <3>2. PICK k \in Int, s \in 0..(d - 1) : k = r \div d /\ r = d * k + s
        BY <1>0, DivModIs
      <3>3. d * (2 * e) * q + r = d * (k + 2 * (e * q)) + s /\ k + 2 * (e * q) \in Int
        <4>1. d * (2 * e) * q = d * (2 * (e * q)) /\ e * q \in Int
          OBVIOUS
        <4>2. \A m \in Int : d * (k + 2 * m) = d * k + d * (2 * m)
          OBVIOUS
        <4>3. d * (k + 2 * (e * q)) = d * k + d * (2 * (e * q))
          BY <4>1, <4>2
        <4> QED BY <3>2, <4>1, <4>3
      <3>4. (d * (k + 2 * (e * q)) + s) \div d = k + 2 * (e * q)
        BY <3>3, DivMod
      <3> QED BY <3>2, <3>3, <3>4
    <2>4. y \div 2 ^ i = (r \div 2 ^ i) + 2 * (2 ^ (w - i - 1) * q)
      <3>1. (2 ^ i * (2 * 2 ^ (w - i - 1)) * q + r) \div 2 ^ i
              = (r \div 2 ^ i) + 2 * (2 ^ (w - i - 1) * q)
        BY <1>0, <2>2, <2>3
      <3> QED BY <1>2, <2>2, <3>1
    <2>5. r \div 2 ^ i \in Int /\ 2 ^ (w - i - 1) * q \in Int
      <3>1. \A t \in Nat : t * q \in Int
        OBVIOUS
      <3> QED BY <1>0, <2>2, <3>1, DivModIs
    <2>6. Bit(y, i) = Bit(r, i)
      BY <2>4, <2>5, EvenAddend DEF Bit
    <2> QED BY <1>1, <1>2, <1>3, <2>1, <2>6
  <1>4. CASE i >= w
    <2>1. 2 ^ i = 2 ^ w * 2 ^ (i - w) /\ 2 ^ (i - w) \in Nat \ {0}
      <3>1. i - w \in Nat /\ w + (i - w) = i
        BY <1>4
      <3> QED BY <3>1, PowPlus, PowNat
    <2>2. r < 2 ^ i
      <3>1. \A s \in Nat \ {0}, t \in Nat \ {0} : s * t >= s
        OBVIOUS
      <3> QED BY <1>0, <2>1, <3>1
    <2>3. r \div 2 ^ i = 0
      BY <1>0, <2>2, SmallRemainder
    <2>4. 0 % 2 = 0
      OBVIOUS
    <2>5. Bit(r, i) = 0
      BY <2>3, <2>4 DEF Bit
    <2>6. ~(i < w)
      BY <1>4
    <2> QED BY <1>1, <1>2, <2>5, <2>6
  <1> QED BY <1>1, <1>2, <1>3, <1>4

-------------------------------------------------------------------------------
(* Congruence is that of a ring, and tells field elements apart.             *)

LEMMA CongruentSum ==
    ASSUME NEW x \in Int, NEW y \in Int, NEW u \in Int, NEW v \in Int,
           Congruent(x, y), Congruent(u, v)
    PROVE  Congruent(x + u, y + v) /\ Congruent(x - u, y - v)
  <1>1. PICK k \in Int : x = y + k * P
    BY DEF Congruent
  <1>2. PICK l \in Int : u = v + l * P
    BY DEF Congruent
  <1>3. (k + l) * P = k * P + l * P /\ (k - l) * P = k * P - l * P
        /\ k * P \in Int /\ l * P \in Int
    BY Sizes
  <1>4. x + u = (y + v) + (k + l) * P /\ x - u = (y - v) + (k - l) * P
    BY <1>1, <1>2, <1>3
  <1> QED BY <1>4 DEF Congruent

LEMMA CongruentProduct ==
    ASSUME NEW x \in Int, NEW y \in Int, NEW u \in Int, NEW v \in Int,
           Congruent(x, y), Congruent(u, v)
    PROVE  Congruent(x * u, y * v)
  <1>1. PICK k \in Int : x = y + k * P
    BY DEF Congruent
  <1>2. PICK l \in Int : u = v + l * P
    BY DEF Congruent
  <1>3. x * u = y * v + (y * l + k * v + k * l * P) * P
    <2>0. P \in Int
      BY Sizes
    <2>1. \A q \in Int : (y + k * q) * (v + l * q) = y * v + (y * l + k * v + k * l * q) * q
      OBVIOUS
    <2>2. (y + k * P) * (v + l * P) = y * v + (y * l + k * v + k * l * P) * P
      BY <2>0, <2>1
    <2> QED BY <1>1, <1>2, <2>2
  <1>4. y * l + k * v + k * l * P \in Int
    BY Sizes
  <1> QED BY <1>3, <1>4 DEF Congruent

LEMMA CongruentBack ==
    ASSUME NEW x \in Int, NEW y \in Int, Congruent(x, y)
    PROVE  Congruent(y, x)
  <1>1. PICK k \in Int : x = y + k * P
    BY DEF Congruent
  <1>2. y = x + (-k) * P /\ -k \in Int
    <2>1. (-k) * P = -(k * P) /\ k * P \in Int
      BY Sizes
    <2> QED BY <1>1, <2>1
  <1> QED BY <1>2 DEF Congruent

LEMMA SameResidue ==
    ASSUME NEW x \in Fp, NEW y \in Fp, Congruent(x, y)
    PROVE  x = y
  <1>1. PICK k \in Int : x = y + k * P
    BY DEF Congruent
  <1>2. x \in 0..(P - 1) /\ y \in 0..(P - 1) /\ P \in Nat /\ P > 1
    BY Sizes DEF Fp
  <1>3. CASE k >= 1
    <2>1. k * P >= 1 * P /\ k * P \in Int
      BY <1>2, <1>3
    <2> QED BY <1>1, <1>2, <2>1
  <1>4. CASE k <= -1
    <2>1. k * P <= (-1) * P /\ k * P \in Int
      BY <1>2, <1>4
    <2> QED BY <1>1, <1>2, <2>1
  <1>5. CASE k = 0
    <2>1. 0 * P = 0
      BY <1>2
    <2> QED BY <1>1, <1>2, <1>5, <2>1
  <1> QED BY <1>3, <1>4, <1>5

\* A recursion that stays in V.
LEMMA TypedRecursion ==
    ASSUME NEW N \in Nat, NEW V, NEW a \in V, NEW G \in [1..N -> [V -> V]]
    PROVE  \E f \in [0..N -> V] : Recursive(f, N, a, G)
  <1>1. PICK f : Recursive(f, N, a, G)
    BY Recursion
  <1> DEFINE S == {k \in Nat : k <= N => f[k] \in V}
  <1>2. \A k \in 0..N : f[k] = IF k = 0 THEN a ELSE G[k][f[k - 1]]
    BY <1>1 DEF Recursive
  <1>3. 0 \in S
    <2>1. 0 \in 0..N
      OBVIOUS
    <2> QED BY <1>2, <2>1
  <1>4. ASSUME NEW k \in Nat, k \in S PROVE k + 1 \in S
    <2>1. SUFFICES ASSUME k + 1 <= N PROVE f[k + 1] \in V
      OBVIOUS
    <2>2. f[k] \in V /\ k + 1 \in 1..N /\ k + 1 \in 0..N /\ k + 1 # 0 /\ (k + 1) - 1 = k
      BY <1>4, <2>1
    <2>3. f[k + 1] = G[k + 1][f[k]]
      BY <1>2, <2>2
    <2> QED BY <2>2, <2>3
  <1> HIDE DEF S
  <1>5. \A k \in Nat : k \in S
    BY <1>3, <1>4, Induction
  <1>6. f \in [0..N -> V]
    BY <1>1, <1>5 DEF S, Recursive
  <1> QED BY <1>1, <1>6

-------------------------------------------------------------------------------
(* Exact arithmetic on small field elements.                                 *)

LEMMA PowGrows ==
    ASSUME NEW n \in Nat, NEW m \in 0..n
    PROVE  2 ^ m <= 2 ^ n
  <1>1. 2 ^ m \in Nat \ {0} /\ 2 ^ (n - m) \in Nat \ {0} /\ 2 ^ n = 2 ^ m * 2 ^ (n - m)
    <2>1. n - m \in Nat /\ m \in Nat /\ m + (n - m) = n
      OBVIOUS
    <2> QED BY <2>1, PowNat, PowPlus
  <1>2. \A s, t \in Nat \ {0} : s <= s * t
    OBVIOUS
  <1> QED BY <1>1, <1>2

\* Every bit of 2^n - 1 is 1.
LEMMA BitsOfAllOnes ==
    ASSUME NEW n \in Nat, NEW i \in 0..(n - 1)
    PROVE  Bit(2 ^ n - 1, i) = 1
  <1>1. /\ 2 ^ i \in Nat \ {0} /\ 2 ^ (n - 1 - i) \in Nat \ {0}
        /\ 2 ^ n = 2 ^ i * (2 * 2 ^ (n - 1 - i))
    <2>1. n - 1 - i \in Nat /\ n - i \in Nat /\ (n - 1 - i) + 1 = n - i
           /\ i + (n - i) = n /\ i \in Nat
      OBVIOUS
    <2>2. 2 ^ (n - i) = 2 * 2 ^ (n - 1 - i)
      BY <2>1, Doubles
    <2>3. 2 ^ n = 2 ^ i * 2 ^ (n - i)
      BY <2>1, PowPlus
    <2> QED BY <2>1, <2>2, <2>3, PowNat
  <1>2. \A d, e \in Nat \ {0} : (d * (2 * e) - 1) \div d = 1 + 2 * (e - 1)
    <2>1. TAKE d, e \in Nat \ {0}
    <2>2. d * (2 * e) - 1 = d * (2 * e - 1) + (d - 1)
      OBVIOUS
    <2>3. (d * (2 * e - 1) + (d - 1)) \div d = 2 * e - 1
      <3>1. 2 * e - 1 \in Int /\ d - 1 \in 0..(d - 1)
        OBVIOUS
      <3> QED BY <3>1, DivMod
    <2> QED BY <2>2, <2>3
  <1>3. (2 ^ n - 1) \div 2 ^ i = 1 + 2 * (2 ^ (n - 1 - i) - 1)
    BY <1>1, <1>2
  <1>4. \A e \in Nat \ {0} : (1 + 2 * (e - 1)) % 2 = 1
    OBVIOUS
  <1> QED BY <1>1, <1>3, <1>4 DEF Bit

\* The sums of given bits exist.
LEMMA ExactSum ==
    ASSUME NEW n \in Nat, NEW b \in [1..n -> {0, 1}]
    PROVE  \E s \in [0..n -> Int] : Sums2(s, b, n)
  <1> DEFINE G == [j \in 1..n |-> [v \in Int |-> v + b[j] * 2 ^ (j - 1)]]
  <1>1. G \in [1..n -> [Int -> Int]]
    <2>1. ASSUME NEW j \in 1..n, NEW v \in Int PROVE v + b[j] * 2 ^ (j - 1) \in Int
      <3>1. b[j] \in {0, 1} /\ 2 ^ (j - 1) \in Nat
        <4>1. j - 1 \in Nat
          OBVIOUS
        <4> QED BY <4>1, PowNat
      <3>2. \A t \in Nat, c \in {0, 1} : v + c * t \in Int
        OBVIOUS
      <3> QED BY <3>1, <3>2
    <2> QED BY <2>1
  <1>2. PICK f \in [0..n -> Int] : Recursive(f, n, 0, G)
    <2>1. 0 \in Int
      OBVIOUS
    <2> HIDE DEF G
    <2> QED BY ONLY n \in Nat, <1>1, <2>1, TypedRecursion, Zenon
  <1>3. \A j \in 0..n : f[j] = IF j = 0 THEN 0 ELSE G[j][f[j - 1]]
    BY <1>2 DEF Recursive
  <1>4. f[0] = 0
    <2>1. 0 \in 0..n
      OBVIOUS
    <2> QED BY <1>3, <2>1
  <1>5. ASSUME NEW j \in 1..n PROVE f[j] = f[j - 1] + b[j] * 2 ^ (j - 1)
    <2>1. j \in 0..n /\ j # 0 /\ j - 1 \in 0..n
      OBVIOUS
    <2>2. f[j - 1] \in Int /\ f[j] = G[j][f[j - 1]]
      BY <1>2, <1>3, <2>1
    <2> QED BY <2>2
  <1> HIDE DEF G
  <1>6. Sums2(f, b, n)
    BY <1>4, <1>5 DEF Sums2
  <1> QED BY <1>6

LEMMA AddSmall ==
    ASSUME NEW a \in Fp, NEW b \in Fp, a + b < P
    PROVE  Add(a, b) = a + b
  <1>1. a + b \in Fp
    BY Sizes DEF Fp
  <1>2. Add(a, b) \in Fp /\ Congruent(Add(a, b), a + b)
    BY AddCorrect
  <1> QED BY <1>1, <1>2, SameResidue

LEMMA MulBit ==
    ASSUME NEW b \in {0, 1}, NEW a \in Fp
    PROVE  Mul(b, a) = b * a /\ b * a \in Fp
  <1>1. b \in Fp /\ b * a \in Fp
    BY Sizes DEF Fp
  <1>2. Mul(b, a) \in Fp /\ Congruent(Mul(b, a), b * a)
    BY <1>1, MulCorrect
  <1> QED BY <1>1, <1>2, SameResidue

\* A share and what is left open to the whole.
LEMMA ShareAndRest ==
    ASSUME NEW v \in Fp, NEW r \in Fp
    PROVE  Add(r, Sub(v, r)) = v
  <1>1. Sub(v, r) \in Fp /\ Congruent(Sub(v, r), v - r)
    BY SubCorrect
  <1>2. Add(r, Sub(v, r)) \in Fp /\ Congruent(Add(r, Sub(v, r)), r + Sub(v, r))
    BY <1>1, AddCorrect
  <1>3. \A a \in Fp : a \in Int
    BY Sizes DEF Fp
  <1>4. Congruent(r + Sub(v, r), r + (v - r)) /\ r + (v - r) = v
    <2>1. v - r \in Int /\ Sub(v, r) \in Int /\ r \in Int /\ v \in Int
      BY <1>1, <1>3
    <2>2. Congruent(r, r)
      BY <2>1, Shift
    <2> QED BY <1>1, <2>1, <2>2, CongruentSum
  <1>5. Congruent(Add(r, Sub(v, r)), v)
    <2>1. r + Sub(v, r) \in Int /\ Add(r, Sub(v, r)) \in Int /\ v \in Int
      BY <1>1, <1>2, <1>3
    <2> QED BY <1>2, <1>4, <2>1, Transitive
  <1> QED BY <1>2, <1>5, SameResidue

-------------------------------------------------------------------------------
(* Residues.                                                                 *)

\* x is the residue of n.
Is(x, n) == x \in Fp /\ n \in Int /\ Congruent(x, n)

LEMMA IsSelf == ASSUME NEW x \in Fp PROVE Is(x, x)
<1>1. x \in Int /\ x = x + 0 * P
  BY Sizes DEF Fp
<1> QED BY <1>1 DEF Is, Congruent

LEMMA IsSame ==
    ASSUME NEW x, NEW y, NEW n, Is(x, n), Is(y, n)
    PROVE  x = y
<1>1. x \in Fp /\ y \in Fp /\ n \in Int /\ x \in Int /\ y \in Int
  BY Sizes DEF Is, Fp
<1>2. Congruent(x, n) /\ Congruent(n, y)
  BY <1>1, CongruentBack DEF Is
<1>3. Congruent(x, y)
  BY <1>1, <1>2, Transitive
<1> QED BY <1>1, <1>3, SameResidue

LEMMA IsSum ==
    ASSUME NEW x, NEW m, NEW y, NEW n, Is(x, m), Is(y, n)
    PROVE  Is(Add(x, y), m + n) /\ Is(Sub(x, y), m - n) /\ Is(Mul(x, y), m * n)
<1>1. /\ x \in Fp /\ y \in Fp /\ m \in Int /\ n \in Int /\ x \in Int /\ y \in Int
      /\ x + y \in Int /\ x - y \in Int /\ x * y \in Int
      /\ m + n \in Int /\ m - n \in Int /\ m * n \in Int
      /\ Congruent(x, m) /\ Congruent(y, n)
  BY Sizes DEF Is, Fp
<1>2. /\ Congruent(x + y, m + n) /\ Congruent(x - y, m - n) /\ Congruent(x * y, m * n)
  BY <1>1, CongruentSum, CongruentProduct
<1>3. /\ Add(x, y) \in Fp /\ Congruent(Add(x, y), x + y)
      /\ Sub(x, y) \in Fp /\ Congruent(Sub(x, y), x - y)
      /\ Mul(x, y) \in Fp /\ Congruent(Mul(x, y), x * y)
  BY <1>1, AddCorrect, SubCorrect, MulCorrect
<1>4. Add(x, y) \in Int /\ Sub(x, y) \in Int /\ Mul(x, y) \in Int
  BY <1>3, Sizes DEF Fp
<1>5. Congruent(Add(x, y), m + n)
  BY ONLY <1>1, <1>2, <1>3, <1>4, Transitive
<1>6. Congruent(Sub(x, y), m - n)
  BY ONLY <1>1, <1>2, <1>3, <1>4, Transitive
<1>7. Congruent(Mul(x, y), m * n)
  BY ONLY <1>1, <1>2, <1>3, <1>4, Transitive
<1> QED BY <1>1, <1>3, <1>5, <1>6, <1>7 DEF Is

-------------------------------------------------------------------------------
(* Finite sets and sets of naturals.                                         *)

LEMMA SmallestSet ==
    ASSUME NEW S, IsFiniteSet(S), NEW bad \in SUBSET (SUBSET S), bad # {}
    PROVE  \E s \in bad : \A t \in SUBSET s : t # s => t \notin bad
<1> DEFINE R == StrictSubsetOrdering(S)
<1>1. bad \subseteq FiniteSubsetsOf(S)
  BY FS_Subset DEF FiniteSubsetsOf
<1>2. IsWellFoundedOn(R, FiniteSubsetsOf(S))
  BY FS_StrictSubsetOrderingWellFounded
<1> HIDE DEF R
<1>3. PICK s \in bad : \A t \in bad : ~ (<<t, s>> \in R)
  BY <1>1, <1>2, WFMin
<1>4. \A t \in SUBSET s : t # s => <<t, s>> \in R
  BY <1>3 DEF R, StrictSubsetOrdering
<1>5. \A t \in SUBSET s : t # s => t \notin bad
  BY ONLY <1>3, <1>4
<1> QED BY <1>5

\* A family that has {} and, with a set, every set of one more element.
LEMMA SubsetInduction ==
    ASSUME NEW S, IsFiniteSet(S), NEW F, {} \in F,
           \A s \in SUBSET S, x \in S : s \in F /\ x \notin s => s \cup {x} \in F
    PROVE  S \in F
<1> DEFINE bad == {s \in SUBSET S : s \notin F}
<1>1. SUFFICES ASSUME bad # {} PROVE FALSE
  OBVIOUS
<1>2. PICK s \in bad : \A t \in SUBSET s : t # s => t \notin bad
  <2>1. bad \in SUBSET (SUBSET S)
    OBVIOUS
  <2> HIDE DEF bad
  <2> QED BY <1>1, <2>1, SmallestSet
<1>3. PICK x \in s : TRUE
  BY <1>2
<1>4. s \ {x} \in F /\ s \ {x} \in SUBSET S /\ (s \ {x}) \cup {x} = s
  BY <1>2, <1>3
<1> QED BY <1>2, <1>3, <1>4

\* The smallest member of a set of naturals.
LEMMA Least ==
    ASSUME NEW S, S \subseteq Nat, S # {}
    PROVE  \E n \in S : \A m \in S : n <= m
<1> DEFINE R == OpToRel(<, Nat)
<1>1. IsWellFoundedOn(R, Nat) /\ S \subseteq Nat /\ S # {}
  BY NatLessThanWellFounded
<1>2. PICK n \in S : \A m \in S : ~ (<<m, n>> \in R)
  <2> HIDE DEF R
  <2> QED BY ONLY <1>1, WFMin
<1>3. \A m \in S : ~ (m < n)
  BY <1>2 DEF OpToRel
<1>4. \A m \in S : n <= m
  <2>1. TAKE m \in S
  <2>2. n \in Nat /\ m \in Nat /\ ~ (m < n)
    BY <1>1, <1>3
  <2> QED BY <2>2
<1> QED BY <1>4

-------------------------------------------------------------------------------
(* The integers modulo a prime.                                              *)

LEMMA Multiples == ASSUME NEW k \in Int PROVE Congruent(k * P, 0) /\ Congruent(P * k, 0)
<1>1. P \in Int
  BY Sizes
<1>2. \A u, v \in Int : u * v = v * u /\ u * v = 0 + u * v
  OBVIOUS
<1> QED BY <1>1, <1>2 DEF Congruent

\* Unlike field elements are not congruent.
LEMMA NotZero ==
    ASSUME NEW x \in 1..(P - 1) PROVE ~ Congruent(x, 0) /\ ~ Congruent(-x, 0)
<1>1. x \in Fp /\ 0 \in Fp
  BY Sizes DEF Fp
<1>2. ~ Congruent(x, 0)
  BY <1>1, SameResidue
<1>3. ASSUME Congruent(-x, 0) PROVE FALSE
  <2>1. x \in Int /\ -x \in Int /\ Congruent(0, 0)
    BY Sizes, Shift
  <2>2. Congruent(0 - (-x), 0 - 0)
    BY ONLY <1>3, <2>1, 0 \in Int, CongruentSum
  <2>3. 0 - (-x) = x /\ 0 - 0 = 0
    BY <2>1
  <2> QED BY <1>2, <2>2, <2>3
<1> QED BY <1>2, <1>3

\* A prime that divides a product divides one of the factors.  What takes b to a
\* multiple of P are the multiples of one number m, and m is 1 or P.
LEMMA Euclid ==
    ASSUME PrimeField, NEW a \in Int, NEW b \in Int, Congruent(a * b, 0)
    PROVE  Congruent(a, 0) \/ Congruent(b, 0)
<1> DEFINE M == {m \in Nat \ {0} : Congruent(m * b, 0)}
<1>0. P \in Nat /\ P > 1
  BY Sizes
<1>1. P \in M
  <2>1. Congruent(P * b, 0)
    BY Multiples
  <2> QED BY <1>0, <2>1
<1>2. PICK m \in M : \A n \in M : m <= n
  <2>1. M \subseteq Nat /\ M # {}
    BY <1>1
  <2> HIDE DEF M
  <2> QED BY <2>1, Least
<1>3. ASSUME NEW n \in Int, Congruent(n * b, 0) PROVE \E q \in Int : n = m * q
  <2>1. PICK q \in Int, r \in 0..(m - 1) : n = m * q + r
    <3>1. m \in Nat \ {0}
      BY <1>2
    <3> QED BY <3>1, DivModIs
  <2>2. r * b = n * b - q * (m * b)
    <3>1. \A u, v, w, x, y \in Int : u = v * w + x => x * y = u * y - w * (v * y)
      OBVIOUS
    <3> QED BY <1>2, <2>1, <3>1
  <2>3. Congruent(q * (m * b), q * 0)
    <3>1. m * b \in Int /\ Congruent(q, q) /\ Congruent(m * b, 0)
      BY <1>2, Shift
    <3> QED BY <3>1, CongruentProduct
  <2>4. Congruent(n * b - q * (m * b), 0 - q * 0)
    <3>1. n * b \in Int /\ q * (m * b) \in Int /\ q * 0 \in Int
      BY <1>2
    <3> QED BY ONLY <1>3, <2>3, <3>1, 0 \in Int, CongruentSum
  <2>5. Congruent(r * b, 0)
    <3>1. 0 - q * 0 = 0
      OBVIOUS
    <3> QED BY <2>2, <2>4, <3>1
  <2>6. r = 0
    <3>1. r \notin M
      BY <1>2, <2>1
    <3> QED BY <2>1, <2>5, <3>1
  <2> QED BY <1>2, <2>1, <2>6
<1>4. PICK q \in Int : P = m * q
  <2>1. P \in Int /\ Congruent(P * b, 0)
    BY <1>0, <1>1
  <2> QED BY ONLY <1>3, <2>1
<1>5. m \in Nat \ {0} /\ m <= P /\ Congruent(m * b, 0)
  BY <1>1, <1>2
<1>6. CASE m = 1
  BY <1>5, <1>6
<1>7. CASE m = P
  <2>1. PICK k \in Int : a = P * k
    BY <1>3, <1>7
  <2>2. Congruent(P * k, 0)
    BY Multiples
  <2> QED BY <2>1, <2>2
<1>8. CASE m \in 2..(P - 1)
  <2>1. q \in 2..(P - 1)
    <3>1. \A u, v \in Int : u \in 2..(u * v - 1) /\ u * v > 1 => v \in 2..(u * v - 1)
      OBVIOUS
    <3> QED BY <1>0, <1>4, <1>8, <3>1
  <2> QED BY <1>4, <1>8, <2>1 DEF PrimeField
<1> QED BY <1>0, <1>5, <1>6, <1>7, <1>8

LEMMA ProductRules ==
    ASSUME NEW a \in Fp, NEW b \in Fp, NEW c \in Fp
    PROVE  /\ Mul(a, b) \in Fp /\ Mul(a, b) = Mul(b, a)
           /\ Mul(Mul(a, b), c) = Mul(a, Mul(b, c))
           /\ Mul(1, a) = a /\ Mul(a, 1) = a /\ Mul(0, a) = 0
<1>1. a \in Int /\ b \in Int /\ c \in Int /\ 0 \in Fp /\ 1 \in Fp
  BY Sizes DEF Fp
<1>2. Is(a, a) /\ Is(b, b) /\ Is(c, c) /\ Is(1, 1) /\ Is(0, 0)
  BY <1>1, IsSelf
<1>3. /\ Is(Mul(a, b), a * b) /\ Is(Mul(b, a), b * a) /\ Is(Mul(b, c), b * c)
      /\ Is(Mul(1, a), 1 * a) /\ Is(Mul(a, 1), a * 1) /\ Is(Mul(0, a), 0 * a)
  BY ONLY <1>2, IsSum
<1>4. Is(Mul(Mul(a, b), c), (a * b) * c) /\ Is(Mul(a, Mul(b, c)), a * (b * c))
  BY ONLY <1>2, <1>3, IsSum
<1>5. /\ a * b = b * a /\ (a * b) * c = a * (b * c) /\ 1 * a = a /\ a * 1 = a /\ 0 * a = 0
  BY <1>1
<1>6. Mul(a, b) = Mul(b, a) /\ Mul(Mul(a, b), c) = Mul(a, Mul(b, c))
  BY ONLY <1>3, <1>4, <1>5, IsSame
<1>7. Mul(1, a) = a /\ Mul(a, 1) = a /\ Mul(0, a) = 0
  BY ONLY <1>2, <1>3, <1>5, IsSame
<1> QED BY <1>3, <1>6, <1>7 DEF Is

LEMMA ProductCancels ==
    ASSUME PrimeField, NEW a \in Fp \ {0}, NEW b \in Fp, NEW c \in Fp,
           Mul(a, b) = Mul(a, c)
    PROVE  b = c
<1>1. /\ a \in Int /\ b \in Int /\ c \in Int /\ a \in 1..(P - 1) /\ a \in Fp
      /\ a * b \in Int /\ a * c \in Int /\ a * (b - c) \in Int /\ b - c \in Int
      /\ Mul(a, b) \in Int
  BY MulCorrect, Sizes DEF Fp
<1>2. Congruent(Mul(a, b), a * b) /\ Congruent(Mul(a, b), a * c)
  BY <1>1, MulCorrect
<1>3. Congruent(a * b, a * c)
  <2>1. Congruent(a * b, Mul(a, b))
    BY ONLY <1>1, <1>2, CongruentBack
  <2> QED BY ONLY <1>1, <1>2, <2>1, Transitive
<1>4. Congruent(a * (b - c), 0)
  <2>1. Congruent(a * c, a * c)
    BY ONLY <1>1, Shift
  <2>2. Congruent(a * b - a * c, a * c - a * c)
    BY ONLY <1>1, <1>3, <2>1, CongruentSum
  <2>3. a * b - a * c = a * (b - c) /\ a * c - a * c = 0
    BY ONLY <1>1
  <2> QED BY <2>2, <2>3
<1>5. Congruent(b - c, 0)
  BY <1>1, <1>4, Euclid, NotZero
<1>6. Congruent(b, c)
  <2>1. Congruent(c, c)
    BY ONLY <1>1, Shift
  <2>2. Congruent((b - c) + c, 0 + c)
    BY ONLY <1>1, <1>5, <2>1, 0 \in Int, CongruentSum
  <2>3. (b - c) + c = b /\ 0 + c = c
    BY ONLY <1>1
  <2> QED BY <2>2, <2>3
<1> QED BY <1>6, SameResidue

LEMMA ProductNotZero ==
    ASSUME PrimeField, NEW a \in Fp \ {0}, NEW b \in Fp \ {0}
    PROVE  Mul(a, b) \in Fp \ {0}
<1>1. 0 \in Fp /\ a \in Fp /\ b \in Fp
  BY Sizes DEF Fp
<1>2. Mul(a, 0) = 0 /\ Mul(a, b) \in Fp
  BY <1>1, ProductRules
<1> QED BY <1>1, <1>2, ProductCancels

-------------------------------------------------------------------------------
(* Going through the elements of a finite set in any order.                  *)

\* g[t] is where the elements of t take a, whichever of them is last.
AnyOrder(g, S, V, a, f) ==
    /\ g \in [SUBSET S -> V] /\ g[{}] = a
    /\ \A t \in SUBSET S : \A x \in t : g[t] = f[x][g[t \ {x}]]

LEMMA AnyOrderExists ==
    ASSUME NEW S, IsFiniteSet(S), NEW V, NEW a \in V, NEW f \in [S -> [V -> V]],
           \A x, y \in S, v \in V : f[x][f[y][v]] = f[y][f[x][v]]
    PROVE  \E g : AnyOrder(g, S, V, a, f)
<1> DEFINE F == {D \in SUBSET S : \E g : AnyOrder(g, D, V, a, f)}
<1>1. {} \in F
  <2>1. AnyOrder([t \in SUBSET {} |-> a], {}, V, a, f)
    BY DEF AnyOrder
  <2> QED BY <2>1
<1>2. ASSUME NEW D \in SUBSET S, NEW x \in S, D \in F, x \notin D
      PROVE  D \cup {x} \in F
  <2>1. PICK g : AnyOrder(g, D, V, a, f)
    BY <1>2
  <2> DEFINE E == D \cup {x}
             h == [t \in SUBSET E |-> IF x \in t THEN f[x][g[t \ {x}]] ELSE g[t]]
  <2>2. \A t \in SUBSET E : t \ {x} \in SUBSET D /\ (x \notin t => t \in SUBSET D)
    OBVIOUS
  <2>3. \A t \in SUBSET D : g[t] \in V
    BY <2>1 DEF AnyOrder
  <2>4. h \in [SUBSET E -> V]
    BY <2>2, <2>3
  <2>5. h[{}] = a
    BY <2>1 DEF AnyOrder
  <2>6. ASSUME NEW t \in SUBSET E, NEW y \in t
        PROVE  h[t] = f[y][h[t \ {y}]]
    <3>1. CASE x \notin t
      <4>1. t \in SUBSET D /\ t \ {y} \in SUBSET E /\ x \notin t \ {y}
        BY <2>2, <3>1
      <4>2. h[t] = g[t] /\ h[t \ {y}] = g[t \ {y}]
        BY <3>1, <4>1
      <4> QED BY <2>1, <4>1, <4>2 DEF AnyOrder
    <3>2. CASE y = x
      <4>1. t \ {x} \in SUBSET E
        OBVIOUS
      <4>2. h[t] = f[x][g[t \ {x}]] /\ h[t \ {x}] = g[t \ {x}]
        BY <3>2, <4>1
      <4> QED BY <3>2, <4>2
    <3>3. CASE x \in t /\ y # x
      <4>1. /\ t \ {y} \in SUBSET E /\ x \in t \ {y} /\ t \ {x} \in SUBSET D
            /\ y \in t \ {x} /\ (t \ {x}) \ {y} = (t \ {y}) \ {x}
            /\ (t \ {y}) \ {x} \in SUBSET D /\ y \in S
        BY <3>3
      <4>2. h[t] = f[x][g[t \ {x}]] /\ h[t \ {y}] = f[x][g[(t \ {y}) \ {x}]]
        BY <3>3, <4>1
      <4>3. g[t \ {x}] = f[y][g[(t \ {x}) \ {y}]]
        <5>1. \A u \in SUBSET D : \A z \in u : g[u] = f[z][g[u \ {z}]]
          BY <2>1 DEF AnyOrder
        <5> QED BY ONLY <4>1, <5>1
      <4>4. PICK v \in V : v = g[(t \ {y}) \ {x}]
        BY <2>3, <4>1
      <4>5. g[t \ {x}] = f[y][v]
        BY ONLY <4>1, <4>3, <4>4
      <4>6. f[x][f[y][v]] = f[y][f[x][v]]
        BY <4>1
      <4> HIDE DEF h, E
      <4> QED BY ONLY <4>2, <4>4, <4>5, <4>6
    <3> QED BY <3>1, <3>2, <3>3
  <2> HIDE DEF h
  <2>7. AnyOrder(h, E, V, a, f)
    BY <2>4, <2>5, <2>6 DEF AnyOrder
  <2> QED BY <2>7
<1> HIDE DEF F
<1>3. S \in F
  BY <1>1, <1>2, SubsetInduction
<1> QED BY <1>3 DEF F

-------------------------------------------------------------------------------
(* Powers of a field element.                                                *)

\* w lists the powers of a from the zeroth to the n-th.
Listing(w, a, n) ==
    w \in [0..n -> Fp] /\ w[0] = 1 /\ \A k \in 1..n : w[k] = Mul(w[k - 1], a)

LEMMA PowersListed ==
    ASSUME NEW a \in Fp, NEW n \in Nat
    PROVE  \E w : Listing(w, a, n)
<1> DEFINE G == [k \in 1..n |-> [v \in Fp |-> Mul(v, a)]]
<1>1. 1 \in Fp
  BY Sizes DEF Fp
<1>2. G \in [1..n -> [Fp -> Fp]]
  BY MulCorrect
<1>3. PICK w \in [0..n -> Fp] : Recursive(w, n, 1, G)
  <2> HIDE DEF G
  <2> QED BY <1>1, <1>2, TypedRecursion
<1>4. \A k \in 0..n : w[k] = IF k = 0 THEN 1 ELSE G[k][w[k - 1]]
  BY <1>3 DEF Recursive
<1>5. ASSUME NEW k \in 1..n PROVE w[k] = Mul(w[k - 1], a)
  <2>1. k \in 0..n /\ k # 0 /\ k - 1 \in 0..n
    OBVIOUS
  <2>2. w[k - 1] \in Fp /\ w[k] = G[k][w[k - 1]]
    BY <1>3, <1>4, <2>1
  <2> QED BY <2>2
<1>6. w[0] = 1
  <2>1. 0 \in 0..n
    OBVIOUS
  <2> QED BY <1>4, <2>1
<1> QED BY <1>3, <1>5, <1>6 DEF Listing

\* Fermat's little theorem: multiplying all nonzero elements by a permutes them.
LEMMA Fermat ==
    ASSUME PrimeField, NEW a \in Fp \ {0}, NEW w, Listing(w, a, P - 1)
    PROVE  w[P - 1] = 1
<1> DEFINE U == Fp \ {0}
           f == [x \in U |-> [v \in Fp |-> Mul(v, x)]]
           Img(t) == {Mul(a, x) : x \in t}
<1>1. /\ IsFiniteSet(U) /\ Cardinality(U) = P - 1 /\ 0 \in Fp /\ 1 \in Fp /\ 1 \in U
      /\ a \in Fp /\ P \in Nat /\ U \subseteq Fp
  <2>1. U = 1..(P - 1) /\ P \in Nat /\ P > 1
    BY Sizes DEF Fp
  <2>2. IsFiniteSet(1..(P - 1)) /\ Cardinality(1..(P - 1)) = P - 1
    BY <2>1, FS_Interval
  <2>3. IsFiniteSet(U) /\ Cardinality(U) = P - 1
    <3> HIDE DEF U
    <3> QED BY <2>1, <2>2
  <2>4. 0 \in Fp /\ 1 \in Fp
    BY <2>1 DEF Fp
  <2> QED BY <2>1, <2>3, <2>4
<1>2. PICK g : AnyOrder(g, U, Fp, 1, f)
  <2>1. f \in [U -> [Fp -> Fp]]
    BY MulCorrect
  <2>2. ASSUME NEW x \in U, NEW y \in U, NEW v \in Fp
        PROVE  f[x][f[y][v]] = f[y][f[x][v]]
    <3>1. Mul(v, x) \in Fp /\ Mul(v, y) \in Fp /\ x \in Fp /\ y \in Fp
      BY MulCorrect
    <3>2. Mul(Mul(v, y), x) = Mul(v, Mul(y, x)) /\ Mul(Mul(v, x), y) = Mul(v, Mul(x, y))
          /\ Mul(y, x) = Mul(x, y)
      BY <3>1, ProductRules
    <3> QED BY <3>1, <3>2
  <2> HIDE DEF f, U
  <2> QED BY <1>1, <2>1, <2>2, AnyOrderExists
<1>3. /\ \A t \in SUBSET U : g[t] \in Fp
      /\ \A t \in SUBSET U : \A x \in t : g[t] = Mul(g[t \ {x}], x)
      /\ g[{}] = 1
  <2>1. \A t \in SUBSET U : g[t] \in Fp /\ g[{}] = 1
    BY <1>2 DEF AnyOrder
  <2>2. ASSUME NEW t \in SUBSET U, NEW x \in t PROVE g[t] = Mul(g[t \ {x}], x)
    <3>1. g[t \ {x}] \in Fp /\ x \in U
      BY <2>1
    <3>2. g[t] = f[x][g[t \ {x}]]
      <4> HIDE DEF f
      <4> QED BY <1>2 DEF AnyOrder
    <3> QED BY <3>1, <3>2
  <2> QED BY <2>1, <2>2
<1> HIDE DEF f, U
<1>4. \A x \in U : Mul(a, x) \in U
  BY ProductNotZero DEF U
<1>5. \A x, y \in U : Mul(a, x) = Mul(a, y) => x = y
  BY ProductCancels DEF U
<1> DEFINE F == {t \in SUBSET U :
                   /\ IsFiniteSet(t) /\ IsFiniteSet(Img(t))
                   /\ Cardinality(Img(t)) = Cardinality(t)
                   /\ g[Img(t)] = Mul(w[Cardinality(t)], g[t])
                   /\ g[t] # 0}
<1>6. {} \in F
  <2>1. Img({}) = {} /\ IsFiniteSet({}) /\ Cardinality({}) = 0
    BY FS_EmptySet
  <2>2. w[0] = 1 /\ Mul(1, 1) = 1 /\ 1 # 0
    BY <1>1, ProductRules DEF Listing
  <2> QED BY <1>3, <2>1, <2>2
<1>7. ASSUME NEW t \in SUBSET U, NEW x \in U, t \in F, x \notin t
      PROVE  t \cup {x} \in F
  <2> DEFINE u == t \cup {x}
             y == Mul(a, x)
  <2>1. u \in SUBSET U /\ IsFiniteSet(u) /\ Cardinality(u) = Cardinality(t) + 1
    BY <1>7, FS_AddElement
  <2>2. Img(u) = Img(t) \cup {y} /\ y \notin Img(t) /\ y \in U /\ Img(u) \in SUBSET U
    BY <1>4, <1>5, <1>7
  <2>3. IsFiniteSet(Img(u)) /\ Cardinality(Img(u)) = Cardinality(Img(t)) + 1
    <3>1. PICK i : i = Img(t)
      OBVIOUS
    <3>2. IsFiniteSet(i) /\ Img(u) = i \cup {y} /\ y \notin i
      BY <1>7, <2>2, <3>1
    <3>3. IsFiniteSet(i \cup {y}) /\ Cardinality(i \cup {y}) = Cardinality(i) + 1
      BY ONLY <3>2, FS_AddElement
    <3> QED BY ONLY <3>1, <3>2, <3>3
  <2>4. Cardinality(t) \in Nat /\ Cardinality(t) + 1 \in 1..(P - 1)
    <3>1. Cardinality(u) <= Cardinality(U) /\ Cardinality(t) \in Nat
      BY <1>1, <1>7, <2>1, FS_Subset, FS_CardinalityType
    <3> QED BY <1>1, <2>1, <3>1
  <2>5. PICK n \in Nat : n = Cardinality(t)
    BY <2>4
  <2>6. n \in 0..(P - 1) /\ w[n] \in Fp /\ w[n + 1] = Mul(w[n], a) /\ w[n + 1] \in Fp
    <3>1. n + 1 \in 1..(P - 1) /\ n + 1 \in 0..(P - 1) /\ n \in 0..(P - 1) /\ (n + 1) - 1 = n
      BY <1>1, <2>4, <2>5
    <3> QED BY <3>1 DEF Listing
  <2>7. g[u] = Mul(g[t], x)
    <3>1. u \ {x} = t /\ x \in u
      BY <1>7
    <3> QED BY <1>3, <2>1, <3>1
  <2>8. g[Img(u)] = Mul(g[Img(t)], y)
    <3>1. Img(u) \ {y} = Img(t) /\ y \in Img(u)
      BY <2>2
    <3> HIDE DEF Img, y, u
    <3> QED BY <1>3, <2>2, <3>1
  <2>9. g[Img(t)] = Mul(w[n], g[t])
    BY <1>7, <2>5
  <2>10. PICK p \in Fp, q \in Fp : p = w[n] /\ q = g[t]
    BY <1>3, <2>6
  <2>11. Mul(Mul(p, q), Mul(a, x)) = Mul(Mul(p, a), Mul(q, x))
    <3>1. x \in Fp /\ a \in Fp
      BY <1>1
    <3>2. /\ Mul(a, x) \in Fp /\ Mul(q, x) \in Fp /\ Mul(q, a) \in Fp /\ Mul(a, q) \in Fp
      BY <3>1, ProductRules
    <3>3. /\ Mul(Mul(p, q), Mul(a, x)) = Mul(p, Mul(q, Mul(a, x)))
          /\ Mul(q, Mul(a, x)) = Mul(Mul(q, a), x)
          /\ Mul(Mul(p, a), Mul(q, x)) = Mul(p, Mul(a, Mul(q, x)))
          /\ Mul(a, Mul(q, x)) = Mul(Mul(a, q), x)
          /\ Mul(a, q) = Mul(q, a)
      BY <3>1, <3>2, ProductRules
    <3> QED BY ONLY <3>3
  <2>12. g[Img(u)] = Mul(w[n + 1], g[u])
    BY ONLY <2>6, <2>7, <2>8, <2>9, <2>10, <2>11
  <2>13. g[u] # 0
    <3>1. g[t] \in Fp \ {0} /\ x \in Fp \ {0}
      BY <1>3, <1>7 DEF U
    <3> QED BY <2>7, <3>1, ProductNotZero
  <2>14. Cardinality(Img(u)) = Cardinality(u) /\ Cardinality(u) = n + 1
    BY <1>7, <2>1, <2>3, <2>5
  <2> HIDE DEF u, Img
  <2> QED BY <2>1, <2>3, <2>12, <2>13, <2>14 DEF u
<1>8. U \in F
  <2> HIDE DEF F
  <2> QED BY <1>1, <1>6, <1>7, SubsetInduction
<1>9. Img(U) = U
  <2>1. Img(U) \in SUBSET U
    BY <1>4
  <2>2. Cardinality(Img(U)) = Cardinality(U)
    BY <1>8
  <2> HIDE DEF Img
  <2> QED BY <1>1, <2>1, <2>2, FS_Subset
<1>10. g[U] = Mul(w[P - 1], g[U]) /\ g[U] # 0 /\ g[U] \in Fp
  <2>1. g[Img(U)] = Mul(w[Cardinality(U)], g[U]) /\ g[U] # 0
    BY <1>8
  <2> HIDE DEF Img
  <2> QED BY <1>1, <1>3, <1>9, <2>1
<1>11. w[P - 1] \in Fp
  <2>1. P - 1 \in 0..(P - 1)
    BY <1>1, Sizes
  <2> QED BY <2>1 DEF Listing
<1>12. PICK h \in Fp \ {0} : h = g[U]
  BY <1>10
<1>13. Mul(h, w[P - 1]) = Mul(h, 1)
  <2>1. Mul(h, w[P - 1]) = Mul(w[P - 1], h) /\ Mul(h, 1) = h /\ h \in Fp
    BY <1>1, <1>11, ProductRules
  <2> QED BY <1>10, <1>12, <2>1
<1> QED BY <1>1, <1>11, <1>13, ProductCancels

\* Exponents add up.
LEMMA ExponentsAdd ==
    ASSUME NEW n \in Nat, NEW a \in Fp, NEW w, Listing(w, a, n),
           NEW i \in 0..n, NEW j \in 0..n, i + j <= n
    PROVE  w[i + j] = Mul(w[i], w[j])
<1> DEFINE S == {k \in Nat : i + k <= n => w[i + k] = Mul(w[i], w[k])}
<1>0. \A k \in 0..n : w[k] \in Fp
  BY DEF Listing
<1>1. 0 \in S
  <2>1. w[0] = 1 /\ w[i] \in Fp /\ i + 0 = i
    BY <1>0 DEF Listing
  <2> QED BY <2>1, ProductRules
<1>2. ASSUME NEW k \in Nat, k \in S PROVE k + 1 \in S
  <2>1. SUFFICES ASSUME i + (k + 1) <= n PROVE w[i + (k + 1)] = Mul(w[i], w[k + 1])
    OBVIOUS
  <2>2. /\ k + 1 \in 1..n /\ (k + 1) - 1 = k /\ i + (k + 1) \in 1..n
        /\ (i + (k + 1)) - 1 = i + k /\ k \in 0..n
    BY <2>1
  <2>3. w[k + 1] = Mul(w[k], a) /\ w[i + (k + 1)] = Mul(w[i + k], a)
    BY <2>2 DEF Listing
  <2>4. w[i + k] = Mul(w[i], w[k])
    BY <1>2, <2>1
  <2>5. Mul(Mul(w[i], w[k]), a) = Mul(w[i], Mul(w[k], a))
    BY <1>0, <2>2, ProductRules
  <2> QED BY ONLY <2>3, <2>4, <2>5
<1> HIDE DEF S
<1>3. j \in S
  BY <1>1, <1>2, Induction
<1> QED BY <1>3 DEF S

\* Dropping the last bit.
LEMMA Halving ==
    ASSUME NEW e \in Nat, NEW i \in Nat
    PROVE  /\ e \div 2 ^ i \in Nat /\ e \div 2 ^ i <= e
           /\ e \div 2 ^ i = 2 * (e \div 2 ^ (i + 1)) + Bit(e, i)
<1>1. 2 ^ i \in Nat \ {0} /\ 2 ^ (i + 1) = 2 * 2 ^ i
  BY PowNat, Doubles
<1>2. PICK d \in Nat \ {0} : d = 2 ^ i
  BY <1>1
<1>3. PICK q \in Nat, r \in 0..(d - 1) : e = d * q + r /\ q = e \div d
  <2>1. e \in Int /\ e \in Nat
    OBVIOUS
  <2> QED BY <2>1, DivModIs
<1>4. q \div 2 \in Nat /\ q = 2 * (q \div 2) + (q % 2)
  <2>1. 2 \in Nat \ {0} /\ q \in Int /\ q \in Nat
    OBVIOUS
  <2> QED BY <2>1, DivModIs
<1>5. e \div 2 ^ (i + 1) = q \div 2
  <2>1. 2 \in Nat \ {0} /\ e \in Int /\ d * 2 = 2 * d
    OBVIOUS
  <2>2. (e \div d) \div 2 = e \div (d * 2)
    BY ONLY <2>1, d \in Nat \ {0}, DivTwice
  <2> QED BY <1>1, <1>2, <1>3, <2>1, <2>2
<1>6. q <= e
  <2>1. \A u \in Nat \ {0}, v, x \in Nat : v <= u * v + x
    OBVIOUS
  <2> QED BY <1>3, <2>1
<1> QED BY <1>2, <1>3, <1>4, <1>5, <1>6 DEF Bit

\* A power of two is above its exponent.
LEMMA PowAbove == \A n \in Nat : n < 2 ^ n
<1> DEFINE S == {n \in Nat : n < 2 ^ n}
<1>1. 0 \in S
  BY PowNat
<1>2. ASSUME NEW n \in Nat, n \in S PROVE n + 1 \in S
  <2>1. 2 ^ (n + 1) = 2 * 2 ^ n /\ n < 2 ^ n /\ 2 ^ n \in Nat
    BY <1>2, Doubles, PowNat
  <2>2. \A t \in Nat : n < t => n + 1 < 2 * t
    OBVIOUS
  <2> QED BY <2>1, <2>2
<1> HIDE DEF S
<1>3. \A n \in Nat : n \in S
  BY <1>1, <1>2, Induction
<1> QED BY <1>3 DEF S

LEMMA TopBitExists ==
    ASSUME NEW e \in Nat, e # 0
    PROVE  \E i \in 0..e : 2 ^ i <= e /\ e < 2 ^ (i + 1)
<1> DEFINE S == {i \in Nat : 2 ^ i <= e}
<1>1. SUFFICES ASSUME \A i \in 0..e : 2 ^ i <= e => ~ (e < 2 ^ (i + 1)) PROVE FALSE
  OBVIOUS
<1>2. 0 \in S
  <2>1. 2 ^ 0 = 1
    OBVIOUS
  <2> QED BY <2>1
<1>3. ASSUME NEW i \in Nat, i \in S PROVE i + 1 \in S
  <2>1. i < 2 ^ i /\ 2 ^ i <= e /\ 2 ^ i \in Nat /\ 2 ^ (i + 1) \in Nat
    BY <1>3, PowAbove, PowNat
  <2>2. i \in 0..e
    BY <2>1
  <2> QED BY <1>1, <2>1, <2>2
<1> HIDE DEF S
<1>4. e \in S
  BY <1>2, <1>3, Induction
<1>5. e < 2 ^ e /\ 2 ^ e \in Nat
  BY PowAbove, PowNat
<1> QED BY <1>4, <1>5 DEF S

Step(x, e, i, v) ==
    LET sq == Mul(v, v) IN IF Bit(e, i) = 1 THEN Mul(sq, x) ELSE sq

Squares(r, x, e, top) ==
    r = [i \in 0..top |-> IF i = top THEN x ELSE Step(x, e, i, r[i + 1])]

LEMMA StepTyped == \A x, v \in Fp : \A e, i : Step(x, e, i, v) \in Fp
<1> TAKE x, v \in Fp
<1> TAKE e, i
<1>1. Mul(v, v) \in Fp
  BY MulCorrect
<1>2. Mul(Mul(v, v), x) \in Fp
  BY <1>1, MulCorrect
<1> QED BY <1>1, <1>2 DEF Step

LEMMA SquaresExist ==
    ASSUME NEW x \in Fp, NEW e, NEW top \in Nat
    PROVE  \E r : Squares(r, x, e, top)
<1> DEFINE G == [j \in 1..top |-> [v \in Fp |-> Step(x, e, top - j, v)]]
<1>1. G \in [1..top -> [Fp -> Fp]]
  BY StepTyped
<1>2. PICK f \in [0..top -> Fp] : Recursive(f, top, x, G)
  <2> HIDE DEF G
  <2> QED BY <1>1, TypedRecursion
<1> DEFINE r == [i \in 0..top |-> f[top - i]]
<1>3. ASSUME NEW i \in 0..top PROVE r[i] = IF i = top THEN x ELSE Step(x, e, i, r[i + 1])
  <2>1. /\ top - i \in 0..top /\ r[i] = f[top - i]
        /\ f[top - i] = IF top - i = 0 THEN x ELSE G[top - i][f[(top - i) - 1]]
    <3>1. top - i \in 0..top /\ r[i] = f[top - i]
      OBVIOUS
    <3>2. \A k \in 0..top : f[k] = IF k = 0 THEN x ELSE G[k][f[k - 1]]
      BY <1>2 DEF Recursive
    <3> HIDE DEF r, G
    <3> QED BY <3>1, <3>2
  <2>2. CASE i = top
    BY <2>1, <2>2
  <2>3. CASE i # top
    <3>1. /\ top - i \in 1..top /\ top - i # 0 /\ (top - i) - 1 = top - (i + 1)
          /\ i + 1 \in 0..top /\ top - (i + 1) \in 0..top /\ top - (top - i) = i
      BY <2>3
    <3>2. r[i + 1] = f[(top - i) - 1] /\ f[(top - i) - 1] \in Fp
      BY <1>2, <3>1
    <3>3. G[top - i][r[i + 1]] = Step(x, e, i, r[i + 1])
      BY <3>1, <3>2
    <3> HIDE DEF G, r
    <3> QED BY <2>1, <2>3, <3>1, <3>2, <3>3
  <2> QED BY <2>2, <2>3
<1> HIDE DEF r
<1>4. r = [i \in 0..top |-> r[i]]
  BY DEF r
<1> QED BY <1>3, <1>4 DEF Squares

\* Square and multiply arrives at the power: after the bits above bit i it has
\* the power of what those bits say.
LEMMA PowIs ==
    ASSUME NEW n \in Nat, NEW x \in Fp, NEW w, Listing(w, x, n), NEW e \in 0..n
    PROVE  Pow(x, e) = w[e]
<1>1. CASE e = 0
  BY <1>1 DEF Pow, Listing
<1>2. CASE e # 0
  <2> DEFINE top == CHOOSE i \in 0..e : 2 ^ i <= e /\ e < 2 ^ (i + 1)
             r == CHOOSE r : Squares(r, x, e, top)
  <2>1. top \in Nat /\ 2 ^ top <= e /\ e < 2 ^ (top + 1)
    <3>1. \E i \in 0..e : 2 ^ i <= e /\ e < 2 ^ (i + 1)
      BY <1>2, TopBitExists
    <3> QED BY <3>1
  <2>2. Pow(x, e) = r[0]
    BY <1>2 DEF Pow, Squares, Step
  <2> HIDE DEF top
  <2>3. Squares(r, x, e, top)
    BY <2>1, SquaresExist
  <2> HIDE DEF r
  <2>4. \A i \in 0..top : r[i] = IF i = top THEN x ELSE Step(x, e, i, r[i + 1])
    BY <2>3 DEF Squares
  <2> DEFINE S == {j \in Nat : j <= top => r[top - j] = w[e \div 2 ^ (top - j)]}
  <2>5. 0 \in S
    <3>1. top \in 0..top /\ top - 0 = top /\ 1 \in 1..n /\ 1 - 1 = 0
      BY <1>2, <2>1
    <3>2. w[1] = Mul(w[0], x) /\ w[0] = 1 /\ Mul(1, x) = x
      BY <3>1, ProductRules DEF Listing
    <3>3. e \div 2 ^ top = 1
      <4>1. 2 ^ top \in Nat \ {0} /\ 2 ^ (top + 1) = 2 * 2 ^ top
        BY <2>1, PowNat, Doubles
      <4>2. PICK d \in Nat \ {0} : d = 2 ^ top
        BY <4>1
      <4>3. e = d * 1 + (e - d) /\ e - d \in 0..(d - 1)
        BY <2>1, <4>1, <4>2
      <4>4. (d * 1 + (e - d)) \div d = 1
        BY ONLY <4>2, <4>3, 1 \in Int, DivMod
      <4> QED BY <4>2, <4>3, <4>4
    <3> QED BY <2>4, <3>1, <3>2, <3>3
  <2>6. ASSUME NEW j \in Nat, j \in S PROVE j + 1 \in S
    <3>1. SUFFICES ASSUME j + 1 <= top
                   PROVE  r[top - (j + 1)] = w[e \div 2 ^ (top - (j + 1))]
      OBVIOUS
    <3>2. PICK i \in Nat : i = top - (j + 1)
      BY <2>1, <3>1
    <3>3. i \in 0..top /\ i # top /\ i + 1 = top - j /\ j <= top
      BY <2>1, <3>1, <3>2
    <3>4. PICK q : q = e \div 2 ^ (i + 1)
      OBVIOUS
    <3>5. /\ q \in Nat /\ e \div 2 ^ i = 2 * q + Bit(e, i) /\ e \div 2 ^ i <= n
      <4>1. e \in Nat /\ e <= n
        OBVIOUS
      <4>2. e \div 2 ^ (i + 1) \in Nat
        <5>1. i + 1 \in Nat
          BY <3>2
        <5> QED BY <4>1, <5>1, Halving
      <4>3. /\ e \div 2 ^ i \in Nat /\ e \div 2 ^ i <= e
            /\ e \div 2 ^ i = 2 * (e \div 2 ^ (i + 1)) + Bit(e, i)
        BY <3>2, <4>1, Halving
      <4> QED BY <3>4, <4>1, <4>2, <4>3
    <3>6. r[i + 1] = w[q] /\ r[i] = Step(x, e, i, w[q])
      BY <2>4, <2>6, <3>3, <3>4
    <3>7. Bit(e, i) \in {0, 1}
      BY <3>2, BitRange
    <3>8. q \in 0..n /\ q + q = 2 * q /\ 2 * q \in 0..n
      BY <3>5, <3>7
    <3>9. Mul(w[q], w[q]) = w[2 * q]
      <4>1. w[q + q] = Mul(w[q], w[q])
        BY <3>8, ExponentsAdd
      <4> QED BY <3>8, <4>1
    <3>10. CASE Bit(e, i) = 0
      <4>1. e \div 2 ^ i = 2 * q
        BY <3>5, <3>10
      <4> QED BY <3>2, <3>6, <3>9, <3>10, <4>1 DEF Step
    <3>11. CASE Bit(e, i) = 1
      <4>1. e \div 2 ^ i = 2 * q + 1 /\ 2 * q + 1 \in 1..n /\ (2 * q + 1) - 1 = 2 * q
        BY <3>5, <3>11
      <4>2. w[2 * q + 1] = Mul(w[2 * q], x)
        BY <4>1 DEF Listing
      <4> QED BY <3>2, <3>6, <3>9, <3>11, <4>1, <4>2 DEF Step
    <3> QED BY <3>7, <3>10, <3>11
  <2> HIDE DEF S
  <2>7. top \in S
    BY <2>1, <2>5, <2>6, Induction
  <2>8. top - top = 0 /\ 2 ^ 0 = 1 /\ e \div 1 = e
    BY <2>1
  <2> QED BY <2>1, <2>2, <2>7, <2>8 DEF S
<1> QED BY <1>1, <1>2

\* Square and multiply stays in the field.
LEMMA PowTyped == ASSUME NEW x \in Fp, NEW e \in Nat PROVE Pow(x, e) \in Fp
<1>1. PICK w : Listing(w, x, e)
  BY PowersListed
<1>2. e \in 0..e
  OBVIOUS
<1>3. Pow(x, e) = w[e]
  BY <1>1, <1>2, PowIs
<1> QED BY <1>1, <1>2, <1>3 DEF Listing

-------------------------------------------------------------------------------
(* The encoding of ids.                                                      *)

LEMMA GeneratorTyped == Generator \in 2..(P - 1) /\ IsGenerator(Generator)
<1> DEFINE good == {g \in Nat : g \in 2..(P - 1) /\ IsGenerator(g)}
           R == OpToRel(<, Nat)
<1>1. good # {} /\ good \subseteq Nat
  BY GeneratorAssumption, Sizes
<1>2. IsWellFoundedOn(R, Nat)
  BY NatLessThanWellFounded
<1>3. PICK g \in good : \A h \in good : ~ (<<h, g>> \in R)
  <2> HIDE DEF good, R
  <2> QED BY <1>1, <1>2, WFMin
<1>4. \A h \in good : ~ (h < g)
  BY <1>3 DEF OpToRel
<1>5. /\ g \in 2..(P - 1) /\ IsGenerator(g)
      /\ \A h \in 2..(g - 1) : ~ IsGenerator(h)
  <2>1. g \in 2..(P - 1) /\ IsGenerator(g)
    BY <1>3
  <2>2. ASSUME NEW h \in 2..(g - 1), IsGenerator(h) PROVE FALSE
    <3>1. h \in Nat /\ h \in 2..(P - 1) /\ h < g
      BY <2>1, <2>2, Sizes
    <3> QED BY <1>4, <2>2, <3>1
  <2> QED BY <2>1, <2>2
<1> QED BY <1>5 DEF Generator

LEMMA SigmaTyped == \A id \in Nat : Sigma(id) \in Fp
<1>1. Generator \in Fp
  BY GeneratorTyped, Sizes DEF Fp
<1> QED BY <1>1, PowTyped DEF Sigma

\* Divisibility, with the quotient at hand.
LEMMA Divides ==
    ASSUME NEW d \in Nat \ {0}, NEW x \in Nat
    PROVE  x % d = 0 <=> \E k \in Nat : x = d * k
<1>1. x \div d \in Nat /\ x = d * (x \div d) + (x % d) /\ x % d \in 0..(d - 1)
  <2>1. x \in Int /\ x \in Nat
    OBVIOUS
  <2> QED BY <2>1, DivModIs
<1>2. ASSUME x % d = 0 PROVE \E k \in Nat : x = d * k
  <2>1. PICK k \in Nat : k = x \div d
    BY <1>1
  <2>2. x = d * k
    BY <1>1, <1>2, <2>1
  <2> QED BY <2>2
<1>3. ASSUME NEW k \in Nat, x = d * k PROVE x % d = 0
  <2>1. k \in Int /\ 0 \in 0..(d - 1) /\ d * k + 0 = x
    BY <1>3
  <2>2. (d * k + 0) % d = 0
    BY ONLY <2>1, d \in Nat \ {0}, DivMod
  <2> QED BY <2>1, <2>2
<1> QED BY <1>2, <1>3

\* A number above 1 has a prime factor: its least divisor above 1.
LEMMA PrimeFactor ==
    ASSUME NEW n \in Nat, n > 1
    PROVE  \E q \in 2..n : n % q = 0 /\ \A r \in 2..(q - 1) : q % r # 0
<1> DEFINE M == {d \in 2..n : n % d = 0}
<1>1. n \in M
  <2>1. n \in Nat \ {0} /\ 1 \in Nat /\ n = n * 1
    OBVIOUS
  <2>2. n % n = 0
    BY <2>1, Divides
  <2> QED BY <2>2
<1>2. PICK q \in M : \A d \in M : q <= d
  <2>1. M \subseteq Nat /\ M # {}
    BY <1>1
  <2> HIDE DEF M
  <2> QED BY <2>1, Least
<1>3. q \in 2..n /\ q \in Nat \ {0} /\ n % q = 0
  BY <1>2
<1>4. ASSUME NEW r \in 2..(q - 1), q % r = 0 PROVE FALSE
  <2>1. PICK k \in Nat : n = q * k
    BY <1>3, Divides
  <2>2. r \in Nat \ {0} /\ q \in Nat /\ r \in 2..n
    BY <1>3
  <2>3. PICK l \in Nat : q = r * l
    BY <1>4, <2>2, Divides
  <2>4. n = r * (l * k) /\ l * k \in Nat
    <3>1. \A u, v, x \in Nat : (u * v) * x = u * (v * x) /\ v * x \in Nat
      OBVIOUS
    <3> QED BY <2>1, <2>2, <2>3, <3>1
  <2>5. n % r = 0
    BY ONLY n \in Nat, <2>2, <2>4, Divides
  <2>6. r \in M
    BY <2>2, <2>5
  <2>7. q <= r
    BY ONLY <1>2, <2>6
  <2> QED BY <1>3, <2>7
<1> QED BY <1>3, <1>4

\* Where the powers of an element return to 1.
LEMMA Returns ==
    ASSUME NEW n \in Nat, NEW a \in Fp, NEW w, Listing(w, a, n),
           NEW m \in 1..n, w[m] = 1, NEW k \in Nat, m * k <= n
    PROVE  w[m * k] = 1
<1> DEFINE S == {j \in Nat : m * j <= n => w[m * j] = 1}
<1>1. 0 \in S
  <2>1. m * 0 = 0 /\ w[0] = 1
    BY DEF Listing
  <2> QED BY <2>1
<1>2. ASSUME NEW j \in Nat, j \in S PROVE j + 1 \in S
  <2>1. SUFFICES ASSUME m * (j + 1) <= n PROVE w[m * (j + 1)] = 1
    OBVIOUS
  <2>2. PICK i \in Nat : i = m * j
    OBVIOUS
  <2>3. m * (j + 1) = i + m /\ i \in 0..n /\ m \in 0..n /\ i + m <= n
    BY <2>1, <2>2
  <2>4. w[i] = 1
    BY <1>2, <2>2, <2>3
  <2>5. w[i + m] = Mul(w[i], w[m])
    BY <2>3, ExponentsAdd
  <2>6. Mul(1, 1) = 1
    <3>1. 1 \in Fp
      BY Sizes DEF Fp
    <3> QED BY <3>1, ProductRules
  <2> QED BY <2>3, <2>4, <2>5, <2>6
<1> HIDE DEF S
<1>3. k \in S
  BY <1>1, <1>2, Induction
<1> QED BY <1>3 DEF S

\* What passes the generator test has all of its first P - 2 powers unlike 1: the
\* least exponent that gives 1 divides P - 1, and unless it is P - 1 itself it divides
\* one of those that are tried.
LEMMA OrderIsFull ==
    ASSUME PrimeField, AllFactors, NEW a \in 2..(P - 1), IsGenerator(a),
           NEW w, Listing(w, a, P - 1), NEW e \in 1..(P - 2)
    PROVE  w[e] # 1
<1> DEFINE M == {m \in 1..(P - 1) : w[m] = 1}
           N == P - 1
<1>0. a \in Fp \ {0} /\ a \in Fp /\ P \in Nat /\ P > 1 /\ N \in Nat /\ 1 \in Fp
  BY Sizes DEF Fp
<1>1. SUFFICES ASSUME w[e] = 1 PROVE FALSE
  OBVIOUS
<1>2. w[N] = 1
  BY <1>0, Fermat
<1>3. PICK m \in M : \A n \in M : m <= n
  <2>1. M \subseteq Nat /\ e \in M
    BY <1>0, <1>1
  <2> HIDE DEF M
  <2> QED BY <2>1, Least
<1>4. m \in 1..(N - 1) /\ m \in Nat \ {0} /\ w[m] = 1 /\ m \in 1..N /\ m \in Nat
  <2>1. m <= e
    BY <1>0, <1>1, <1>3
  <2> QED BY <1>0, <1>3, <2>1
<1>5. PICK k \in Nat : N = m * k
  <2>1. PICK q \in Nat, r \in 0..(m - 1) : N = m * q + r
    <3>1. N \in Int /\ N \in Nat
      BY <1>0
    <3> QED BY <1>4, <3>1, DivModIs
  <2>2. PICK i \in Nat : i = m * q
    OBVIOUS
  <2>3. i <= N /\ i \in 0..N /\ r \in 0..N /\ i + r = N
    BY <1>0, <1>4, <2>1, <2>2
  <2>4. w[i] = 1
    BY <1>0, <1>4, <2>2, <2>3, Returns
  <2>5. w[N] = Mul(w[i], w[r])
    <3>1. w[i + r] = Mul(w[i], w[r])
      BY <1>0, <2>3, ExponentsAdd
    <3> QED BY <2>3, <3>1
  <2>6. w[r] = 1
    <3>1. w[r] \in Fp
      BY <2>3 DEF Listing
    <3> QED BY <1>2, <2>4, <2>5, <3>1, ProductRules
  <2>7. r = 0
    <3>1. r \notin 1..(m - 1)
      <4>1. SUFFICES ASSUME r \in 1..(m - 1) PROVE FALSE
        OBVIOUS
      <4>2. r \in M
        BY <1>0, <1>4, <2>6, <4>1
      <4>3. m <= r
        BY ONLY <1>3, <4>2
      <4> QED BY <1>4, <4>1, <4>3
    <3> QED BY <2>1, <3>1
  <2> QED BY <1>4, <2>1, <2>7
<1>6. k > 1
  <2>1. k # 0 /\ k # 1
    BY <1>0, <1>4, <1>5
  <2> QED BY <2>1
<1>7. PICK q \in 2..k : k % q = 0 /\ \A r \in 2..(q - 1) : q % r # 0
  BY <1>6, PrimeFactor
<1>8. q \in Nat \ {0} /\ q \in Nat /\ q >= 2
  BY <1>7
<1>9. PICK l \in Nat : k = q * l
  BY <1>7, <1>8, Divides
<1>10. N = q * (m * l) /\ m * l \in Nat
  <2>1. \A x, y, z \in Nat : x * (y * z) = y * (x * z) /\ x * z \in Nat
    OBVIOUS
  <2> QED BY <1>4, <1>5, <1>8, <1>9, <2>1
<1>11. PICK h \in Nat : h = m * l
  BY <1>10
<1>12. q \in 2..N /\ h \in 0..N
  <2>1. h # 0
    BY <1>0, <1>4, <1>8, <1>10, <1>11
  <2>2. \A x, y \in Nat \ {0} : x <= x * y /\ y <= x * y
    OBVIOUS
  <2>3. q <= N /\ h <= N
    BY <1>8, <1>10, <1>11, <2>1, <2>2
  <2> QED BY <1>0, <1>8, <2>3
<1>13. q \in Factors
  <2>1. N % q = 0
    BY ONLY <1>0, <1>8, <1>10, Divides
  <2> QED BY <1>7, <1>12, <2>1 DEF AllFactors
<1>14. N \div q = h
  <2>1. h \in Int /\ 0 \in 0..(q - 1) /\ N = q * h + 0
    BY <1>0, <1>8, <1>10, <1>11
  <2>2. (q * h + 0) \div q = h
    BY ONLY <1>8, <2>1, DivMod
  <2> QED BY <2>1, <2>2
<1>15. Pow(a, h) = 1
  <2>1. w[h] = 1
    BY <1>0, <1>4, <1>11, <1>12, Returns
  <2> QED BY <1>0, <1>12, <2>1, PowIs
<1> QED BY <1>13, <1>14, <1>15 DEF IsGenerator

\* The encodings of ids are nonzero and all different.
LEMMA SigmaApart ==
    ASSUME PrimeField, AllFactors
    PROVE  /\ \A x \in 0..(IdLimit - 1) : Sigma(x) \in 1..(P - 1)
           /\ \A x, y \in 0..(IdLimit - 1) : Sigma(x) = Sigma(y) => x = y
<1> DEFINE g == Generator
           N == P - 1
<1>1. g \in 2..(P - 1) /\ IsGenerator(g) /\ g \in Fp /\ g \in Fp \ {0} /\ N \in Nat
      /\ P \in Nat /\ P > 1 /\ 0 \in Fp /\ 1 \in Fp \ {0} /\ 1 \in Fp
  BY GeneratorTyped, Sizes DEF Fp
<1> HIDE DEF g
<1>2. PICK w : Listing(w, g, N)
  BY <1>1, PowersListed
<1>3. ASSUME NEW x \in 0..(IdLimit - 1) PROVE x \in 0..N /\ Sigma(x) = w[x] /\ w[x] \in Fp \ {0}
  <2>1. x \in 0..N
    BY <1>1, EncodingAssumption
  <2>2. Sigma(x) = w[x]
    BY <1>1, <1>2, <2>1, PowIs DEF Sigma, g
  <2> DEFINE S == {k \in Nat : k <= N => w[k] \in Fp \ {0}}
  <2>3. 0 \in S
    BY <1>1, <1>2 DEF Listing
  <2>4. ASSUME NEW k \in Nat, k \in S PROVE k + 1 \in S
    <3>1. SUFFICES ASSUME k + 1 <= N PROVE w[k + 1] \in Fp \ {0}
      OBVIOUS
    <3>2. k + 1 \in 1..N /\ (k + 1) - 1 = k /\ w[k] \in Fp \ {0}
      BY <1>1, <2>4, <3>1
    <3>3. w[k + 1] = Mul(w[k], g)
      BY <1>2, <3>2 DEF Listing
    <3> QED BY <1>1, <3>2, <3>3, ProductNotZero
  <2> HIDE DEF S
  <2>5. x \in S
    BY <2>1, <2>3, <2>4, Induction
  <2> QED BY <2>1, <2>2, <2>5 DEF S
<1>4. ASSUME NEW x \in 0..(IdLimit - 1), NEW y \in 0..(IdLimit - 1), x < y
      PROVE  Sigma(x) # Sigma(y)
  <2>1. SUFFICES ASSUME w[x] = w[y] PROVE FALSE
    BY <1>3
  <2>2. PICK e \in 1..(P - 2) : y = x + e
    <3>1. y - x \in 1..(P - 2) /\ y = x + (y - x)
      BY <1>1, <1>4, EncodingAssumption
    <3> QED BY <3>1
  <2>3. x \in 0..N /\ e \in 0..N /\ x + e <= N /\ w[x] \in Fp \ {0}
    BY <1>1, <1>3, <2>2
  <2>4. w[x + e] = Mul(w[x], w[e]) /\ w[e] \in Fp
    <3>1. w[e] \in Fp
      BY <1>2, <2>3 DEF Listing
    <3>2. w[x + e] = Mul(w[x], w[e])
      BY ONLY <1>1, <1>2, <2>3, ExponentsAdd
    <3> QED BY <3>1, <3>2
  <2>5. Mul(w[x], w[e]) = Mul(w[x], 1)
    <3>1. w[x] \in Fp
      BY <2>3
    <3> QED BY <1>1, <2>1, <2>2, <2>4, <3>1, ProductRules
  <2>6. w[e] = 1
    BY <1>1, <2>3, <2>4, <2>5, ProductCancels
  <2> QED BY <1>1, <1>2, <2>2, <2>6, OrderIsFull
<1>5. \A x, y \in 0..(IdLimit - 1) : x < y \/ y < x \/ x = y
  BY EncodingAssumption
<1>6. \A x \in 0..(IdLimit - 1) : Sigma(x) \in 1..(P - 1)
  BY <1>3, Sizes DEF Fp
<1> QED BY <1>4, <1>5, <1>6

-------------------------------------------------------------------------------
(* The rows of sets of ids.                                                  *)

\* Powers is a function that satisfies its recursion.
LEMMA PowersTyped ==
    ASSUME NEW y \in Fp
    PROVE  /\ Powers(y) \in Row /\ Powers(y)[1] = y
           /\ \A k \in 2..7 : Powers(y)[k] = Mul(Powers(y)[k - 1], y)
<1> DEFINE Rec(acc) == acc = [k \in 1..7 |-> IF k = 1 THEN y ELSE Mul(acc[k - 1], y)]
           acc == CHOOSE acc : Rec(acc)
           G == [j \in 1..6 |-> [v \in Fp |-> Mul(v, y)]]
<1>1. Powers(y) = acc
  BY DEF Powers, K
<1>2. G \in [1..6 -> [Fp -> Fp]]
  BY MulCorrect
<1>3. PICK f \in [0..6 -> Fp] : Recursive(f, 6, y, G)
  <2>1. 6 \in Nat
    OBVIOUS
  <2> HIDE DEF G
  <2> QED BY <1>2, <2>1, TypedRecursion
<1>4. \A k \in 0..6 : f[k] = IF k = 0 THEN y ELSE Mul(f[k - 1], y)
  <2>1. TAKE k \in 0..6
  <2>2. f[k] = IF k = 0 THEN y ELSE G[k][f[k - 1]]
    BY <1>3 DEF Recursive
  <2>3. CASE k # 0
    <3>1. k \in 1..6 /\ k - 1 \in 0..6
      BY <2>3
    <3>2. f[k - 1] \in Fp
      BY <1>3, <3>1
    <3> QED BY <2>2, <2>3, <3>1, <3>2
  <2> QED BY <2>2, <2>3
<1> DEFINE g == [k \in 1..7 |-> f[k - 1]]
<1>5. ASSUME NEW k \in 1..7 PROVE g[k] = IF k = 1 THEN y ELSE Mul(g[k - 1], y)
  <2>1. k - 1 \in 0..6 /\ (k - 1 = 0 <=> k = 1) /\ g[k] = f[k - 1]
    OBVIOUS
  <2>2. k # 1 => g[k - 1] = f[(k - 1) - 1]
    OBVIOUS
  <2> QED BY <1>4, <2>1, <2>2
<1>6. Rec(g)
  BY <1>5
<1>7. Rec(acc)
  <2> HIDE DEF Rec
  <2> QED BY <1>6
<1> HIDE DEF acc
<1>8. \A k \in 1..7 : acc[k] = IF k = 1 THEN y ELSE Mul(acc[k - 1], y)
  BY <1>7
<1> DEFINE S == {k \in Nat : k <= 6 => acc[k + 1] \in Fp}
<1>9. 0 \in S
  BY <1>8
<1>10. ASSUME NEW k \in Nat, k \in S PROVE k + 1 \in S
  <2>1. SUFFICES ASSUME k + 1 <= 6 PROVE acc[(k + 1) + 1] \in Fp
    OBVIOUS
  <2>2. (k + 1) + 1 \in 1..7 /\ (k + 1) + 1 # 1 /\ ((k + 1) + 1) - 1 = k + 1
    BY <2>1
  <2>3. acc[k + 1] \in Fp
    BY <1>10, <2>1
  <2>4. acc[(k + 1) + 1] = Mul(acc[k + 1], y)
    BY <1>8, <2>2
  <2> QED BY <2>3, <2>4, MulCorrect
<1> HIDE DEF S
<1>11. \A k \in Nat : k \in S
  BY <1>9, <1>10, Induction
<1>12. ASSUME NEW k \in 1..7 PROVE acc[k] \in Fp
  <2>1. k - 1 \in Nat /\ k - 1 <= 6 /\ (k - 1) + 1 = k
    OBVIOUS
  <2>2. k - 1 \in S
    BY <1>11, <2>1
  <2> QED BY <2>1, <2>2 DEF S
<1>13. acc = [k \in 1..7 |-> acc[k]]
  BY <1>7
<1>14. \A k \in 2..7 : k \in 1..7 /\ k # 1
  OBVIOUS
<1> QED BY <1>1, <1>8, <1>12, <1>13, <1>14 DEF Row, K

LEMMA EditTyped ==
    ASSUME NEW row \in Row, NEW id \in Nat
    PROVE  EditRow(row, id, 1) \in Row
<1>1. Powers(Sigma(id)) \in Row
  BY SigmaTyped, PowersTyped
<1> QED BY <1>1, AddCorrect DEF EditRow, Row

LEMMA SyndromeTyped ==
    ASSUME NEW row \in Row, NEW p PROVE Syndrome(p, row) \in Row
BY NegCorrect DEF Syndrome, Row

AllIds == 0..(IdLimit - 1)

Monomials(y) ==
    <<y, y * y, y * y * y, y * y * y * y, y * y * y * y * y, y * y * y * y * y * y,
      y * y * y * y * y * y * y>>

Exponents == {1, 2, 3, 4, 5, 6, 7}

LEMMA MonomialsTyped ==
    ASSUME NEW y \in Int, NEW k \in 1..7
    PROVE  Monomials(y)[k] \in Int
<1>1. k \in Exponents
  BY DEF Exponents
<1> QED BY <1>1 DEF Exponents, Monomials

LEMMA PowersAre ==
    ASSUME NEW y \in Fp, NEW k \in 1..7
    PROVE  Is(Powers(y)[k], Monomials(y)[k])
<1> DEFINE p == Powers(y)
           m == Monomials(y)
<1>1. /\ p[1] = y /\ p[2] = Mul(p[1], y) /\ p[3] = Mul(p[2], y) /\ p[4] = Mul(p[3], y)
      /\ p[5] = Mul(p[4], y) /\ p[6] = Mul(p[5], y) /\ p[7] = Mul(p[6], y)
  <2>1. p[1] = y /\ \A j \in 2..7 : p[j] = Mul(p[j - 1], y)
    BY PowersTyped
  <2> HIDE DEF p
  <2> QED BY <2>1
<1>2. y \in Int /\ Is(y, y)
  BY IsSelf, Sizes DEF Fp
<1>3. /\ m[1] = y /\ m[2] = m[1] * y /\ m[3] = m[2] * y /\ m[4] = m[3] * y
      /\ m[5] = m[4] * y /\ m[6] = m[5] * y /\ m[7] = m[6] * y
  BY <1>2 DEF Monomials
<1> HIDE DEF p, m
<1>4. Is(p[1], m[1])
  BY <1>1, <1>2, <1>3
<1>5. Is(p[2], m[2])
  BY ONLY <1>1, <1>2, <1>3, <1>4, IsSum
<1>6. Is(p[3], m[3])
  BY ONLY <1>1, <1>2, <1>3, <1>5, IsSum
<1>7. Is(p[4], m[4])
  BY ONLY <1>1, <1>2, <1>3, <1>6, IsSum
<1>8. Is(p[5], m[5])
  BY ONLY <1>1, <1>2, <1>3, <1>7, IsSum
<1>9. Is(p[6], m[6])
  BY ONLY <1>1, <1>2, <1>3, <1>8, IsSum
<1>10. Is(p[7], m[7])
  BY ONLY <1>1, <1>2, <1>3, <1>9, IsSum
<1>11. k \in Exponents
  BY DEF Exponents
<1> QED BY <1>4, <1>5, <1>6, <1>7, <1>8, <1>9, <1>10, <1>11 DEF Exponents, p, m

-------------------------------------------------------------------------------
(* Power sums of sets of ids, over the integers.                             *)

Vector == [1..7 -> Int]

AddPowers ==
    [x \in AllIds |-> [v \in Vector |-> [k \in 1..7 |-> v[k] + Monomials(Sigma(x))[k]]]]

IsPowerSum(g) == AnyOrder(g, AllIds, Vector, [k \in 1..7 |-> 0], AddPowers)

PowerSum == CHOOSE g : IsPowerSum(g)

LEMMA IdsTyped ==
    /\ IsFiniteSet(AllIds) /\ AllIds \subseteq Nat
    /\ \A x \in AllIds : /\ Sigma(x) \in Fp /\ Sigma(x) \in Int
                         /\ \A k \in 1..7 : Monomials(Sigma(x))[k] \in Int
<1>1. IsFiniteSet(AllIds) /\ AllIds \subseteq Nat
  BY EncodingAssumption, FS_Interval DEF AllIds
<1>2. ASSUME NEW x \in AllIds
      PROVE  /\ Sigma(x) \in Fp /\ Sigma(x) \in Int
             /\ \A k \in 1..7 : Monomials(Sigma(x))[k] \in Int
  <2>1. Sigma(x) \in Fp
    BY <1>1, SigmaTyped
  <2>2. Sigma(x) \in Int
    BY <2>1, Sizes DEF Fp
  <2>3. \A k \in 1..7 : Monomials(Sigma(x))[k] \in Int
    BY <2>2, MonomialsTyped
  <2> QED BY <2>1, <2>2, <2>3
<1> QED BY <1>1, <1>2

LEMMA PowerSumExists == IsPowerSum(PowerSum)
<1>1. [k \in 1..7 |-> 0] \in Vector
  BY DEF Vector
<1>2. AddPowers \in [AllIds -> [Vector -> Vector]]
  <2>1. ASSUME NEW x \in AllIds, NEW v \in Vector
        PROVE  [k \in 1..7 |-> v[k] + Monomials(Sigma(x))[k]] \in Vector
    BY IdsTyped DEF Vector
  <2> QED BY <2>1 DEF AddPowers
<1>3. ASSUME NEW x \in AllIds, NEW y \in AllIds, NEW v \in Vector
      PROVE  AddPowers[x][AddPowers[y][v]] = AddPowers[y][AddPowers[x][v]]
  <2>1. PICK a, b : a = Monomials(Sigma(x)) /\ b = Monomials(Sigma(y))
    OBVIOUS
  <2>2. \A k \in 1..7 : a[k] \in Int /\ b[k] \in Int /\ v[k] \in Int
    BY <2>1, IdsTyped DEF Vector
  <2>3. AddPowers[y][v] = [k \in 1..7 |-> v[k] + b[k]] /\ AddPowers[y][v] \in Vector
    BY <2>1, <2>2 DEF AddPowers, Vector
  <2>4. AddPowers[x][v] = [k \in 1..7 |-> v[k] + a[k]] /\ AddPowers[x][v] \in Vector
    BY <2>1, <2>2 DEF AddPowers, Vector
  <2>5. AddPowers[x][AddPowers[y][v]] = [k \in 1..7 |-> (v[k] + b[k]) + a[k]]
    BY <2>1, <2>3 DEF AddPowers
  <2>6. AddPowers[y][AddPowers[x][v]] = [k \in 1..7 |-> (v[k] + a[k]) + b[k]]
    BY <2>1, <2>4 DEF AddPowers
  <2>7. \A k \in 1..7 : (v[k] + b[k]) + a[k] = (v[k] + a[k]) + b[k]
    BY <2>2
  <2> QED BY <2>5, <2>6, <2>7
<1>4. \E g : IsPowerSum(g)
  BY <1>1, <1>2, <1>3, IdsTyped, AnyOrderExists DEF IsPowerSum
<1> QED BY <1>4 DEF PowerSum

\* The power sums of a set, by any one of its elements.
LEMMA PowerSumIs ==
    /\ \A s \in SUBSET AllIds, k \in 1..7 : PowerSum[s][k] \in Int
    /\ \A k \in 1..7 : PowerSum[{}][k] = 0
    /\ \A s \in SUBSET AllIds : \A x \in s : \A k \in 1..7 :
         PowerSum[s][k] = PowerSum[s \ {x}][k] + Monomials(Sigma(x))[k]
<1>1. /\ PowerSum \in [SUBSET AllIds -> Vector] /\ PowerSum[{}] = [k \in 1..7 |-> 0]
      /\ \A s \in SUBSET AllIds : \A x \in s : PowerSum[s] = AddPowers[x][PowerSum[s \ {x}]]
  BY PowerSumExists DEF IsPowerSum, AnyOrder
<1>2. ASSUME NEW s \in SUBSET AllIds, NEW x \in s, NEW k \in 1..7
      PROVE  PowerSum[s][k] = PowerSum[s \ {x}][k] + Monomials(Sigma(x))[k]
  <2>1. PICK v \in Vector : v = PowerSum[s \ {x}]
    BY <1>1
  <2>2. PowerSum[s] = AddPowers[x][v] /\ x \in AllIds
    BY <1>1, <2>1
  <2> QED BY <2>1, <2>2 DEF AddPowers
<1> QED BY <1>1, <1>2 DEF Vector

\* r is the row of the ids in s.
Sums(r, s) == r \in Row /\ \A k \in 1..7 : Is(r[k], PowerSum[s][k])

\* A set has one row only.
LEMMA RowsSame ==
    ASSUME NEW s, NEW r, NEW q, Sums(r, s), Sums(q, s)
    PROVE  r = q
<1>1. \A k \in 1..7 : r[k] = q[k]
  BY IsSame DEF Sums
<1> QED BY <1>1 DEF Sums, Row, K

LEMMA NoIds == Sums(ZeroRow, {})
<1>1. Is(0, 0) /\ 0 \in Fp
  BY IsSelf, Sizes DEF Fp
<1> QED BY <1>1, PowerSumIs DEF Sums, ZeroRow, Row, K

\* An edit keeps a row that of the party's ids.
LEMMA EditSums ==
    ASSUME NEW s \in SUBSET AllIds, NEW r, Sums(r, s), NEW x \in AllIds
    PROVE  /\ x \notin s => Sums(EditRow(r, x, 1), s \cup {x})
           /\ x \in s => Sums(EditRow(r, x, -1), s \ {x})
<1>1. PICK p : p = Powers(Sigma(x))
  OBVIOUS
<1>2. r \in Row /\ \A k \in 1..7 : r[k] \in Fp /\ Is(r[k], PowerSum[s][k])
  BY DEF Sums, Row, K
<1>3. \A k \in 1..7 : p[k] \in Fp /\ Is(p[k], Monomials(Sigma(x))[k])
  BY <1>1, IdsTyped, PowersAre DEF Is
<1>4. ASSUME x \notin s PROVE Sums(EditRow(r, x, 1), s \cup {x})
  <2>1. EditRow(r, x, 1) = [k \in 1..7 |-> Add(r[k], p[k])]
    BY <1>1 DEF EditRow, K
  <2>2. ASSUME NEW k \in 1..7 PROVE Is(Add(r[k], p[k]), PowerSum[s \cup {x}][k])
    <3>1. s \cup {x} \in SUBSET AllIds /\ x \in s \cup {x} /\ (s \cup {x}) \ {x} = s
      BY <1>4
    <3>2. PowerSum[s \cup {x}][k] = PowerSum[s][k] + Monomials(Sigma(x))[k]
      BY <3>1, PowerSumIs
    <3>3. Is(Add(r[k], p[k]), PowerSum[s][k] + Monomials(Sigma(x))[k])
      BY ONLY <1>2, <1>3, k \in 1..7, IsSum
    <3> QED BY <3>2, <3>3
  <2>3. \A k \in 1..7 : Add(r[k], p[k]) \in Fp
    BY <2>2 DEF Is
  <2> QED BY <2>1, <2>2, <2>3 DEF Sums, Row, K
<1>5. ASSUME x \in s PROVE Sums(EditRow(r, x, -1), s \ {x})
  <2>1. EditRow(r, x, -1) = [k \in 1..7 |-> Sub(r[k], p[k])]
    BY <1>1 DEF EditRow, K
  <2>2. ASSUME NEW k \in 1..7 PROVE Is(Sub(r[k], p[k]), PowerSum[s \ {x}][k])
    <3>1. /\ PowerSum[s][k] = PowerSum[s \ {x}][k] + Monomials(Sigma(x))[k]
          /\ PowerSum[s \ {x}][k] \in Int /\ Monomials(Sigma(x))[k] \in Int
      BY <1>5, PowerSumIs, IdsTyped
    <3>2. Is(Sub(r[k], p[k]), PowerSum[s][k] - Monomials(Sigma(x))[k])
      BY ONLY <1>2, <1>3, k \in 1..7, IsSum
    <3>3. PowerSum[s][k] - Monomials(Sigma(x))[k] = PowerSum[s \ {x}][k]
      BY <3>1
    <3> QED BY <3>2, <3>3
  <2>3. \A k \in 1..7 : Sub(r[k], p[k]) \in Fp
    BY <2>2 DEF Is
  <2> QED BY <2>1, <2>2, <2>3 DEF Sums, Row, K
<1> QED BY <1>4, <1>5

-------------------------------------------------------------------------------
(* The leading minors of a Hankel matrix over the integers.                  *)

Minor2(d) == d[1] * d[3] - d[2] * d[2]

Minor3(d) ==
    d[1] * (d[3] * d[5] - d[4] * d[4]) - d[2] * (d[2] * d[5] - d[3] * d[4])
      + d[3] * (d[2] * d[4] - d[3] * d[3])

Minor4(d) ==
    (d[1] * d[3] - d[2] * d[2]) * (d[5] * d[7] - d[6] * d[6])
      - (d[1] * d[4] - d[2] * d[3]) * (d[4] * d[7] - d[5] * d[6])
      + (d[1] * d[5] - d[2] * d[4]) * (d[4] * d[6] - d[5] * d[5])
      + (d[2] * d[4] - d[3] * d[3]) * (d[3] * d[7] - d[4] * d[6])
      - (d[2] * d[5] - d[3] * d[4]) * (d[3] * d[6] - d[4] * d[5])
      + (d[3] * d[5] - d[4] * d[4]) * (d[3] * d[5] - d[4] * d[4])

\* The circuit computes them modulo P.
LEMMA CircuitIs ==
    ASSUME NEW d \in Row, NEW v \in Vector, \A k \in 1..7 : Is(d[k], v[k])
    PROVE  LET D == MinorsInClear(d)
           IN  Is(D[1], v[1]) /\ Is(D[2], Minor2(v)) /\ Is(D[3], Minor3(v)) /\ Is(D[4], Minor4(v))
<1> DEFINE products(pairs) == [i \in DOMAIN pairs |-> Mul(pairs[i][1], pairs[i][2])]
           m == products(LayerOne(d))
           n == products(LayerTwo(d, m))
<1>1. MinorsInClear(d) = MinorsOf(d, m, n)
  BY DEF MinorsInClear
<1>2. /\ m[1] = Mul(d[1], d[3]) /\ m[2] = Mul(d[2], d[2]) /\ m[3] = Mul(d[1], d[4])
      /\ m[4] = Mul(d[2], d[3]) /\ m[5] = Mul(d[1], d[5]) /\ m[6] = Mul(d[2], d[4])
      /\ m[7] = Mul(d[3], d[3]) /\ m[8] = Mul(d[2], d[5]) /\ m[9] = Mul(d[3], d[4])
      /\ m[10] = Mul(d[3], d[5]) /\ m[11] = Mul(d[4], d[4]) /\ m[12] = Mul(d[3], d[6])
      /\ m[13] = Mul(d[4], d[5]) /\ m[14] = Mul(d[3], d[7]) /\ m[15] = Mul(d[4], d[6])
      /\ m[16] = Mul(d[5], d[5]) /\ m[17] = Mul(d[4], d[7]) /\ m[18] = Mul(d[5], d[6])
      /\ m[19] = Mul(d[5], d[7]) /\ m[20] = Mul(d[6], d[6])
  <2>1. ASSUME NEW i \in 1..20
        PROVE  m[i] = Mul(d[Xi[i] + 1], d[Yi[i] + 1])
    BY DEF LayerOne
  <2> HIDE DEF m
  <2> QED BY <2>1 DEF Xi, Yi
<1> HIDE DEF m
<1>3. PICK t, b : t = Top(m) /\ b = Bottom(m)
  OBVIOUS
<1>4. /\ n[1] = Mul(d[1], t.T34) /\ n[2] = Mul(d[2], t.T24) /\ n[3] = Mul(d[3], t.T23)
      /\ n[4] = Mul(t.T12, b.B34) /\ n[5] = Mul(t.T13, b.B24) /\ n[6] = Mul(t.T14, b.B23)
      /\ n[7] = Mul(t.T23, b.B14) /\ n[8] = Mul(t.T24, b.B13) /\ n[9] = Mul(t.T34, b.B12)
  BY <1>3 DEF LayerTwo
<1> HIDE DEF n
<1>5. /\ Is(d[1], v[1]) /\ Is(d[2], v[2]) /\ Is(d[3], v[3]) /\ Is(d[4], v[4])
      /\ Is(d[5], v[5]) /\ Is(d[6], v[6]) /\ Is(d[7], v[7])
  OBVIOUS
<1>6. /\ Is(m[1], v[1] * v[3]) /\ Is(m[2], v[2] * v[2]) /\ Is(m[3], v[1] * v[4])
      /\ Is(m[4], v[2] * v[3]) /\ Is(m[5], v[1] * v[5]) /\ Is(m[6], v[2] * v[4])
      /\ Is(m[7], v[3] * v[3]) /\ Is(m[8], v[2] * v[5]) /\ Is(m[9], v[3] * v[4])
      /\ Is(m[10], v[3] * v[5])
  BY ONLY <1>2, <1>5, IsSum
<1>7. /\ Is(m[11], v[4] * v[4]) /\ Is(m[12], v[3] * v[6])
      /\ Is(m[13], v[4] * v[5]) /\ Is(m[14], v[3] * v[7]) /\ Is(m[15], v[4] * v[6])
      /\ Is(m[16], v[5] * v[5]) /\ Is(m[17], v[4] * v[7]) /\ Is(m[18], v[5] * v[6])
      /\ Is(m[19], v[5] * v[7]) /\ Is(m[20], v[6] * v[6])
  BY ONLY <1>2, <1>5, IsSum
<1>8. /\ t.T12 = Sub(m[1], m[2]) /\ t.T13 = Sub(m[3], m[4]) /\ t.T14 = Sub(m[5], m[6])
      /\ t.T23 = Sub(m[6], m[7]) /\ t.T24 = Sub(m[8], m[9]) /\ t.T34 = Sub(m[10], m[11])
      /\ b.B12 = Sub(m[10], m[11]) /\ b.B13 = Sub(m[12], m[13]) /\ b.B14 = Sub(m[14], m[15])
      /\ b.B23 = Sub(m[15], m[16]) /\ b.B24 = Sub(m[17], m[18]) /\ b.B34 = Sub(m[19], m[20])
  BY <1>3 DEF Top, Bottom
<1>9. /\ Is(t.T12, v[1] * v[3] - v[2] * v[2]) /\ Is(t.T13, v[1] * v[4] - v[2] * v[3])
      /\ Is(t.T14, v[1] * v[5] - v[2] * v[4]) /\ Is(t.T23, v[2] * v[4] - v[3] * v[3])
      /\ Is(t.T24, v[2] * v[5] - v[3] * v[4]) /\ Is(t.T34, v[3] * v[5] - v[4] * v[4])
  BY ONLY <1>6, <1>7, <1>8, IsSum
<1>10. /\ Is(b.B12, v[3] * v[5] - v[4] * v[4]) /\ Is(b.B13, v[3] * v[6] - v[4] * v[5])
       /\ Is(b.B14, v[3] * v[7] - v[4] * v[6]) /\ Is(b.B23, v[4] * v[6] - v[5] * v[5])
       /\ Is(b.B24, v[4] * v[7] - v[5] * v[6]) /\ Is(b.B34, v[5] * v[7] - v[6] * v[6])
  BY ONLY <1>6, <1>7, <1>8, IsSum
<1> HIDE DEF products
<1>11. PICK T12, T13, T14, T23, T24, T34, B12, B13, B14, B23, B24, B34 :
         /\ T12 = v[1] * v[3] - v[2] * v[2] /\ T13 = v[1] * v[4] - v[2] * v[3]
         /\ T14 = v[1] * v[5] - v[2] * v[4] /\ T23 = v[2] * v[4] - v[3] * v[3]
         /\ T24 = v[2] * v[5] - v[3] * v[4] /\ T34 = v[3] * v[5] - v[4] * v[4]
         /\ B12 = v[3] * v[5] - v[4] * v[4] /\ B13 = v[3] * v[6] - v[4] * v[5]
         /\ B14 = v[3] * v[7] - v[4] * v[6] /\ B23 = v[4] * v[6] - v[5] * v[5]
         /\ B24 = v[4] * v[7] - v[5] * v[6] /\ B34 = v[5] * v[7] - v[6] * v[6]
  OBVIOUS
<1>12. /\ Is(t.T12, T12) /\ Is(t.T13, T13) /\ Is(t.T14, T14) /\ Is(t.T23, T23)
       /\ Is(t.T24, T24) /\ Is(t.T34, T34) /\ Is(b.B12, B12) /\ Is(b.B13, B13)
       /\ Is(b.B14, B14) /\ Is(b.B23, B23) /\ Is(b.B24, B24) /\ Is(b.B34, B34)
  BY ONLY <1>9, <1>10, <1>11
<1>13. /\ Is(n[1], v[1] * T34) /\ Is(n[2], v[2] * T24) /\ Is(n[3], v[3] * T23)
       /\ Is(n[4], T12 * B34) /\ Is(n[5], T13 * B24) /\ Is(n[6], T14 * B23)
       /\ Is(n[7], T23 * B14) /\ Is(n[8], T24 * B13) /\ Is(n[9], T34 * B12)
  BY ONLY <1>4, <1>5, <1>12, IsSum
<1>14. Is(Add(Sub(n[1], n[2]), n[3]), v[1] * T34 - v[2] * T24 + v[3] * T23)
  BY ONLY <1>13, IsSum
<1>15. Is(Add(Sub(n[4], n[5]), n[6]), T12 * B34 - T13 * B24 + T14 * B23)
  BY ONLY <1>13, IsSum
<1>16. Is(Sub(Add(Add(Sub(n[4], n[5]), n[6]), n[7]), n[8]),
          (T12 * B34 - T13 * B24 + T14 * B23 + T23 * B14) - T24 * B13)
  <2>1. Is(Add(Add(Sub(n[4], n[5]), n[6]), n[7]), T12 * B34 - T13 * B24 + T14 * B23 + T23 * B14)
    BY ONLY <1>13, <1>15, IsSum
  <2> QED BY ONLY <1>13, <2>1, IsSum
<1>17. Is(Add(Sub(Add(Add(Sub(n[4], n[5]), n[6]), n[7]), n[8]), n[9]),
          (T12 * B34 - T13 * B24 + T14 * B23 + T23 * B14) - T24 * B13 + T34 * B12)
  BY ONLY <1>13, <1>16, IsSum
<1>18. Minor3(v) = v[1] * T34 - v[2] * T24 + v[3] * T23
  BY <1>11 DEF Minor3
<1>19. Minor4(v) = (T12 * B34 - T13 * B24 + T14 * B23 + T23 * B14) - T24 * B13 + T34 * B12
  BY <1>11 DEF Minor4
<1>20. PICK D : D = MinorsInClear(d)
  OBVIOUS
<1>21. /\ D[1] = d[1] /\ D[2] = t.T12 /\ D[3] = Add(Sub(n[1], n[2]), n[3])
       /\ D[4] = Add(Sub(Add(Add(Sub(n[4], n[5]), n[6]), n[7]), n[8]), n[9])
  BY <1>1, <1>3, <1>20 DEF MinorsOf
<1>22. Is(D[1], v[1]) /\ Is(D[2], Minor2(v)) /\ Is(D[3], Minor3(v)) /\ Is(D[4], Minor4(v))
  BY <1>5, <1>9, <1>14, <1>17, <1>18, <1>19, <1>21 DEF Minor2
<1> QED BY <1>20, <1>22

\* 1, y, ..., y^6.
Lower(y) ==
    <<1, y, y * y, y * y * y, y * y * y * y, y * y * y * y * y, y * y * y * y * y * y>>

\* v is made of four terms, which are weighted powers.
FourTerms(v, a, y) ==
    \A k \in 1..7 : v[k] = a[1] * Lower(y[1])[k] + a[2] * Lower(y[2])[k]
                           + a[3] * Lower(y[3])[k] + a[4] * Lower(y[4])[k]

\* The minors of one to four terms: the weights times the square of the product of
\* all differences.
LEMMA MinorsOfTerms ==
    ASSUME NEW v \in Vector, NEW a \in [1..4 -> Int], NEW y \in [1..4 -> Int],
           FourTerms(v, a, y)
    PROVE  /\ Minor4(v) = (a[1] * a[2] * a[3] * a[4])
                * (((y[1] - y[2]) * (y[1] - y[3]) * (y[2] - y[3]) * (y[1] - y[4])
                      * (y[2] - y[4]) * (y[3] - y[4]))
                   * ((y[1] - y[2]) * (y[1] - y[3]) * (y[2] - y[3]) * (y[1] - y[4])
                        * (y[2] - y[4]) * (y[3] - y[4])))
           /\ a[4] = 0 =>
                /\ Minor3(v) = (a[1] * a[2] * a[3])
                     * (((y[1] - y[2]) * (y[1] - y[3]) * (y[2] - y[3]))
                        * ((y[1] - y[2]) * (y[1] - y[3]) * (y[2] - y[3])))
                /\ a[3] = 0 =>
                     /\ Minor2(v) = (a[1] * a[2]) * ((y[1] - y[2]) * (y[1] - y[2]))
                     /\ a[2] = 0 => v[1] = a[1]
<1>0. /\ a[1] \in Int /\ a[2] \in Int /\ a[3] \in Int /\ a[4] \in Int
      /\ y[1] \in Int /\ y[2] \in Int /\ y[3] \in Int /\ y[4] \in Int
      /\ v[1] \in Int /\ v[2] \in Int /\ v[3] \in Int /\ v[4] \in Int
      /\ v[5] \in Int /\ v[6] \in Int /\ v[7] \in Int
  BY DEF Vector
<1>1. PICK a1 \in Int, a2 \in Int, a3 \in Int, a4 \in Int,
           y1 \in Int, y2 \in Int, y3 \in Int, y4 \in Int :
        /\ a1 = a[1] /\ a2 = a[2] /\ a3 = a[3] /\ a4 = a[4]
        /\ y1 = y[1] /\ y2 = y[2] /\ y3 = y[3] /\ y4 = y[4]
  BY ONLY <1>0
<1>2. PICK v1 \in Int, v2 \in Int, v3 \in Int, v4 \in Int,
           v5 \in Int, v6 \in Int, v7 \in Int :
        /\ v1 = v[1] /\ v2 = v[2] /\ v3 = v[3] /\ v4 = v[4]
        /\ v5 = v[5] /\ v6 = v[6] /\ v7 = v[7]
  BY ONLY <1>0
<1>3. /\ v1 = a1 + a2 + a3 + a4
      /\ v2 = a1 * y1 + a2 * y2 + a3 * y3 + a4 * y4
      /\ v3 = a1 * (y1 * y1) + a2 * (y2 * y2) + a3 * (y3 * y3) + a4 * (y4 * y4)
      /\ v4 = a1 * (y1 * y1 * y1) + a2 * (y2 * y2 * y2) + a3 * (y3 * y3 * y3)
                + a4 * (y4 * y4 * y4)
      /\ v5 = a1 * (y1 * y1 * y1 * y1) + a2 * (y2 * y2 * y2 * y2)
                + a3 * (y3 * y3 * y3 * y3) + a4 * (y4 * y4 * y4 * y4)
      /\ v6 = a1 * (y1 * y1 * y1 * y1 * y1) + a2 * (y2 * y2 * y2 * y2 * y2)
                + a3 * (y3 * y3 * y3 * y3 * y3) + a4 * (y4 * y4 * y4 * y4 * y4)
      /\ v7 = a1 * (y1 * y1 * y1 * y1 * y1 * y1) + a2 * (y2 * y2 * y2 * y2 * y2 * y2)
                + a3 * (y3 * y3 * y3 * y3 * y3 * y3) + a4 * (y4 * y4 * y4 * y4 * y4 * y4)
  BY <1>1, <1>2 DEF FourTerms, Lower
<1>4. Minor4(v) = (a1 * a2 * a3 * a4)
         * (((y1 - y2) * (y1 - y3) * (y2 - y3) * (y1 - y4) * (y2 - y4) * (y3 - y4))
            * ((y1 - y2) * (y1 - y3) * (y2 - y3) * (y1 - y4) * (y2 - y4) * (y3 - y4)))
  <2>1. (v1 * v3 - v2 * v2) * (v5 * v7 - v6 * v6)
          - (v1 * v4 - v2 * v3) * (v4 * v7 - v5 * v6)
          + (v1 * v5 - v2 * v4) * (v4 * v6 - v5 * v5)
          + (v2 * v4 - v3 * v3) * (v3 * v7 - v4 * v6)
          - (v2 * v5 - v3 * v4) * (v3 * v6 - v4 * v5)
          + (v3 * v5 - v4 * v4) * (v3 * v5 - v4 * v4)
        = (a1 * a2 * a3 * a4)
         * (((y1 - y2) * (y1 - y3) * (y2 - y3) * (y1 - y4) * (y2 - y4) * (y3 - y4))
            * ((y1 - y2) * (y1 - y3) * (y2 - y3) * (y1 - y4) * (y2 - y4) * (y3 - y4)))
    BY ONLY <1>3
  <2> QED BY ONLY <1>2, <2>1 DEF Minor4
<1>5. ASSUME a4 = 0
      PROVE  Minor3(v) = (a1 * a2 * a3)
                         * (((y1 - y2) * (y1 - y3) * (y2 - y3))
                            * ((y1 - y2) * (y1 - y3) * (y2 - y3)))
  <2>1. /\ v1 = a1 + a2 + a3
        /\ v2 = a1 * y1 + a2 * y2 + a3 * y3
        /\ v3 = a1 * (y1 * y1) + a2 * (y2 * y2) + a3 * (y3 * y3)
        /\ v4 = a1 * (y1 * y1 * y1) + a2 * (y2 * y2 * y2) + a3 * (y3 * y3 * y3)
        /\ v5 = a1 * (y1 * y1 * y1 * y1) + a2 * (y2 * y2 * y2 * y2)
                  + a3 * (y3 * y3 * y3 * y3)
    BY ONLY <1>3, <1>5
  <2>2. v1 * (v3 * v5 - v4 * v4) - v2 * (v2 * v5 - v3 * v4) + v3 * (v2 * v4 - v3 * v3)
        = (a1 * a2 * a3) * (((y1 - y2) * (y1 - y3) * (y2 - y3))
                            * ((y1 - y2) * (y1 - y3) * (y2 - y3)))
    BY ONLY <2>1
  <2> QED BY ONLY <1>2, <2>2 DEF Minor3
<1>6. ASSUME a4 = 0, a3 = 0
      PROVE  Minor2(v) = (a1 * a2) * ((y1 - y2) * (y1 - y2))
  <2>1. v1 = a1 + a2 /\ v2 = a1 * y1 + a2 * y2 /\ v3 = a1 * (y1 * y1) + a2 * (y2 * y2)
    BY ONLY <1>3, <1>6
  <2>2. v1 * v3 - v2 * v2 = (a1 * a2) * ((y1 - y2) * (y1 - y2))
    BY ONLY <2>1
  <2> QED BY ONLY <1>2, <2>2 DEF Minor2
<1>7. a4 = 0 /\ a3 = 0 /\ a2 = 0 => v1 = a1
  BY <1>3
<1> QED BY ONLY <1>1, <1>2, <1>4, <1>5, <1>6, <1>7

-------------------------------------------------------------------------------
(* The gap between two sets of ids, term by term.                            *)

Apart(s, t) == (s \ t) \cup (t \ s)

Gap(s, t) == [k \in 1..7 |-> PowerSum[s][k] - PowerSum[t][k]]

LEMMA GapTyped ==
    ASSUME NEW s \in SUBSET AllIds, NEW t \in SUBSET AllIds
    PROVE  Gap(s, t) \in Vector
BY PowerSumIs DEF Gap, Vector

\* One id of the difference taken out of the set it is in.
LEMMA Peel ==
    ASSUME NEW s \in SUBSET AllIds, NEW t \in SUBSET AllIds, NEW x \in Apart(s, t)
    PROVE  \E s1 \in SUBSET AllIds, t1 \in SUBSET AllIds, w \in {1, -1} :
             /\ Apart(s1, t1) = Apart(s, t) \ {x}
             /\ \A k \in 1..7 : Gap(s, t)[k] = w * Monomials(Sigma(x))[k] + Gap(s1, t1)[k]
<1>1. CASE x \in s /\ x \notin t
  <2>1. s \ {x} \in SUBSET AllIds /\ Apart(s \ {x}, t) = Apart(s, t) \ {x}
    BY <1>1 DEF Apart
  <2>2. ASSUME NEW k \in 1..7
        PROVE  Gap(s, t)[k] = 1 * Monomials(Sigma(x))[k] + Gap(s \ {x}, t)[k]
    <3>1. /\ PowerSum[s][k] = PowerSum[s \ {x}][k] + Monomials(Sigma(x))[k]
          /\ PowerSum[s \ {x}][k] \in Int /\ PowerSum[t][k] \in Int
          /\ Monomials(Sigma(x))[k] \in Int
      BY <1>1, <2>1, PowerSumIs, IdsTyped
    <3> QED BY <3>1 DEF Gap
  <2> QED BY <2>1, <2>2
<1>2. CASE x \in t /\ x \notin s
  <2>1. t \ {x} \in SUBSET AllIds /\ Apart(s, t \ {x}) = Apart(s, t) \ {x}
    BY <1>2 DEF Apart
  <2>2. ASSUME NEW k \in 1..7
        PROVE  Gap(s, t)[k] = (-1) * Monomials(Sigma(x))[k] + Gap(s, t \ {x})[k]
    <3>1. /\ PowerSum[t][k] = PowerSum[t \ {x}][k] + Monomials(Sigma(x))[k]
          /\ PowerSum[t \ {x}][k] \in Int /\ PowerSum[s][k] \in Int
          /\ Monomials(Sigma(x))[k] \in Int
      BY <1>2, <2>1, PowerSumIs, IdsTyped
    <3> QED BY <3>1 DEF Gap
  <2> QED BY <2>1, <2>2
<1> QED BY <1>1, <1>2 DEF Apart

LEMMA LowerTyped ==
    ASSUME NEW y \in Int, NEW k \in 1..7
    PROVE  Lower(y)[k] \in Int /\ Monomials(y)[k] = y * Lower(y)[k]
<1>1. k \in Exponents
  BY DEF Exponents
<1>2. Lower(y)[k] \in Int
  BY <1>1 DEF Exponents, Lower
<1>3. Monomials(y)[k] = y * Lower(y)[k]
  BY <1>1 DEF Exponents, Lower, Monomials
<1> QED BY <1>2, <1>3

\* The gap between the power sums of s and t as terms, one for each of the n ids
\* that only one of them has.
TermsOf(s, t, n, a, y) ==
    /\ a \in [1..4 -> Int] /\ y \in [1..4 -> Int]
    /\ FourTerms(Gap(s, t), a, y)
    /\ \A i \in 1..n : /\ a[i] = y[i] \/ a[i] = -y[i]
                       /\ \E x \in Apart(s, t) : y[i] = Sigma(x)
    /\ \A i, j \in 1..n : i # j => y[i] # y[j]
    /\ \A i \in (n + 1)..4 : a[i] = 0

LEMMA TermsExist ==
    ASSUME PrimeField, AllFactors, NEW n \in 0..4
    PROVE  \A s, t \in SUBSET AllIds :
             Cardinality(Apart(s, t)) = n => \E a, y : TermsOf(s, t, n, a, y)
<1> DEFINE S == {m \in Nat : m <= 4 => \A s, t \in SUBSET AllIds :
                    Cardinality(Apart(s, t)) = m => \E a, y : TermsOf(s, t, m, a, y)}
<1>0. \A s, t \in SUBSET AllIds : IsFiniteSet(Apart(s, t)) /\ Apart(s, t) \subseteq AllIds
  <2>1. TAKE s, t \in SUBSET AllIds
  <2>2. Apart(s, t) \in SUBSET AllIds
    BY DEF Apart
  <2> QED BY <2>2, IdsTyped, FS_Subset
<1>1. 0 \in S
  <2>1. ASSUME NEW s \in SUBSET AllIds, NEW t \in SUBSET AllIds, Cardinality(Apart(s, t)) = 0
        PROVE  \E a, y : TermsOf(s, t, 0, a, y)
    <3>1. s = t
      <4>1. Apart(s, t) = {}
        BY <1>0, <2>1, FS_EmptySet
      <4> QED BY <4>1 DEF Apart
    <3> DEFINE z == [i \in 1..4 |-> 0]
    <3>2. ASSUME NEW k \in 1..7
          PROVE  Gap(s, t)[k] = z[1] * Lower(z[1])[k] + z[2] * Lower(z[2])[k]
                                + z[3] * Lower(z[3])[k] + z[4] * Lower(z[4])[k]
      <4>1. Lower(0)[k] \in Int /\ PowerSum[s][k] \in Int
        BY LowerTyped, PowerSumIs
      <4>2. z[1] = 0 /\ z[2] = 0 /\ z[3] = 0 /\ z[4] = 0
        OBVIOUS
      <4>3. Gap(s, t)[k] = 0
        BY <3>1, <4>1 DEF Gap
      <4> HIDE DEF z
      <4> QED BY <4>1, <4>2, <4>3
    <3>3. z \in [1..4 -> Int] /\ \A i \in 1..4 : z[i] = 0
      OBVIOUS
    <3> HIDE DEF z
    <3>4. TermsOf(s, t, 0, z, z)
      BY <3>2, <3>3 DEF TermsOf, FourTerms
    <3> QED BY <3>4
  <2> QED BY <2>1
<1>2. ASSUME NEW m \in Nat, m \in S PROVE m + 1 \in S
  <2>1. SUFFICES ASSUME m + 1 <= 4, NEW s \in SUBSET AllIds, NEW t \in SUBSET AllIds,
                        Cardinality(Apart(s, t)) = m + 1
                 PROVE  \E a, y : TermsOf(s, t, m + 1, a, y)
    OBVIOUS
  <2>2. PICK x : x \in Apart(s, t)
    <3>1. Apart(s, t) # {}
      BY <2>1, FS_EmptySet
    <3> QED BY <3>1
  <2>3. PICK s1 \in SUBSET AllIds, t1 \in SUBSET AllIds, w \in {1, -1} :
          /\ Apart(s1, t1) = Apart(s, t) \ {x}
          /\ \A k \in 1..7 : Gap(s, t)[k] = w * Monomials(Sigma(x))[k] + Gap(s1, t1)[k]
    BY <2>2, Peel
  <2>4. Cardinality(Apart(s1, t1)) = m
    <3>1. IsFiniteSet(Apart(s, t)) /\ Cardinality(Apart(s, t)) = m + 1
      BY <1>0, <2>1
    <3>2. Cardinality(Apart(s, t) \ {x}) = Cardinality(Apart(s, t)) - 1
      <4> DEFINE A == Apart(s, t)
      <4>1. IsFiniteSet(A) /\ x \in A
        BY <2>2, <3>1
      <4> HIDE DEF A
      <4>2. Cardinality(A \ {x}) = Cardinality(A) - 1
        BY ONLY <4>1, FS_RemoveElement
      <4> QED BY <4>2 DEF A
    <3> QED BY <2>3, <3>1, <3>2
  <2>5. PICK a, y : TermsOf(s1, t1, m, a, y)
    BY <1>2, <2>1, <2>4
  <2>6. PICK Y \in Int : Y = Sigma(x) /\ x \in AllIds
    BY <1>0, <2>2, IdsTyped
  <2> DEFINE b == [a EXCEPT ![m + 1] = w * Y]
             z == [y EXCEPT ![m + 1] = Y]
  <2>7. /\ a \in [1..4 -> Int] /\ y \in [1..4 -> Int] /\ w * Y \in Int /\ m + 1 \in 1..4
        /\ FourTerms(Gap(s1, t1), a, y)
        /\ \A i \in 1..m : /\ a[i] = y[i] \/ a[i] = -y[i]
                           /\ \E u \in Apart(s1, t1) : y[i] = Sigma(u)
        /\ \A i, j \in 1..m : i # j => y[i] # y[j]
        /\ \A i \in (m + 1)..4 : a[i] = 0
    BY <2>1, <2>5 DEF TermsOf
  <2>8. /\ b \in [1..4 -> Int] /\ z \in [1..4 -> Int] /\ b[m + 1] = w * Y /\ z[m + 1] = Y
        /\ \A i \in 1..4 : i # m + 1 => b[i] = a[i] /\ z[i] = y[i]
    BY <2>7
  <2> HIDE DEF b, z
  <2>9. ASSUME NEW k \in 1..7
        PROVE  Gap(s, t)[k] = b[1] * Lower(z[1])[k] + b[2] * Lower(z[2])[k]
                              + b[3] * Lower(z[3])[k] + b[4] * Lower(z[4])[k]
    <3>1. Gap(s, t)[k] = w * Monomials(Y)[k] + Gap(s1, t1)[k]
      BY <2>3, <2>6
    <3>2. Monomials(Y)[k] = Y * Lower(Y)[k] /\ Lower(Y)[k] \in Int
      BY LowerTyped
    <3>3. Gap(s1, t1)[k] = a[1] * Lower(y[1])[k] + a[2] * Lower(y[2])[k]
                           + a[3] * Lower(y[3])[k] + a[4] * Lower(y[4])[k]
      BY <2>7 DEF FourTerms
    <3> DEFINE c(i) == a[i] * Lower(y[i])[k]
               d(i) == b[i] * Lower(z[i])[k]
    <3>4. c(m + 1) = 0 /\ d(m + 1) = w * (Y * Lower(Y)[k])
      <4>1. a[m + 1] = 0 /\ Lower(y[m + 1])[k] \in Int
        BY <2>7, LowerTyped
      <4>2. w \in Int
        OBVIOUS
      <4>3. \A p, q, r \in Int : (p * q) * r = p * (q * r)
        OBVIOUS
      <4> QED BY <2>8, <3>2, <4>1, <4>2, <4>3
    <3>5. \A i \in 1..4 : i # m + 1 => d(i) = c(i)
      BY <2>8
    <3>6. \A i \in 1..4 : c(i) \in Int
      <4>1. ASSUME NEW i \in 1..4 PROVE c(i) \in Int
        <5>1. a[i] \in Int /\ Lower(y[i])[k] \in Int
          BY <2>7, LowerTyped
        <5> QED BY <5>1
      <4> QED BY <4>1
    <3>7. w * (Y * Lower(Y)[k]) \in Int
      BY <3>2
    <3>8. PICK e \in Int : e = w * (Y * Lower(Y)[k])
      BY <3>7
    <3>9. Gap(s, t)[k] = e + (c(1) + c(2) + c(3) + c(4))
      BY <3>1, <3>2, <3>3, <3>8
    <3> HIDE DEF c, d
    <3>10. m \in {0, 1, 2, 3}
      BY <2>1
    <3>11. d(1) + d(2) + d(3) + d(4) = e + (c(1) + c(2) + c(3) + c(4))
      BY ONLY <3>4, <3>5, <3>6, <3>8, <3>10
    <3> QED BY <3>9, <3>11 DEF d
  <2>10. ASSUME NEW i \in 1..(m + 1)
         PROVE  /\ b[i] = z[i] \/ b[i] = -z[i]
                /\ \E u \in Apart(s, t) : z[i] = Sigma(u)
    <3>1. CASE i = m + 1
      <4>1. w * Y = Y \/ w * Y = -Y
        OBVIOUS
      <4> QED BY <2>2, <2>6, <2>8, <3>1, <4>1
    <3>2. CASE i # m + 1
      <4>1. i \in 1..m /\ i \in 1..4
        BY <2>7, <3>2
      <4> QED BY <2>3, <2>7, <2>8, <3>2, <4>1
    <3> QED BY <3>1, <3>2
  <2>11. ASSUME NEW i \in 1..m PROVE z[i] # Y
    <3>1. i \in 1..4 /\ i # m + 1
      BY <2>7
    <3>2. PICK u \in Apart(s1, t1) : y[i] = Sigma(u)
      BY <2>7
    <3>3. u # x /\ u \in AllIds
      BY <1>0, <2>3, <3>2
    <3> QED BY <2>6, <2>8, <3>1, <3>2, <3>3, SigmaApart DEF AllIds
  <2>12. ASSUME NEW i \in 1..(m + 1), NEW j \in 1..(m + 1), i # j PROVE z[i] # z[j]
    <3>1. CASE i = m + 1
      <4>1. j \in 1..m
        BY <2>12, <3>1
      <4> QED BY <2>8, <2>11, <3>1, <4>1
    <3>2. CASE j = m + 1
      <4>1. i \in 1..m
        BY <2>12, <3>2
      <4> QED BY <2>8, <2>11, <3>2, <4>1
    <3>3. CASE i # m + 1 /\ j # m + 1
      <4>1. i \in 1..m /\ j \in 1..m /\ i \in 1..4 /\ j \in 1..4
        BY <2>7, <3>3
      <4> QED BY <2>7, <2>8, <2>12, <3>3, <4>1
    <3> QED BY <3>1, <3>2, <3>3
  <2>13. \A i \in ((m + 1) + 1)..4 : b[i] = 0
    <3>1. TAKE i \in ((m + 1) + 1)..4
    <3>2. i \in 1..4 /\ i # m + 1 /\ i \in (m + 1)..4
      OBVIOUS
    <3> QED BY <2>7, <2>8, <3>2
  <2>14. TermsOf(s, t, m + 1, b, z)
    BY <2>8, <2>9, <2>10, <2>12, <2>13 DEF TermsOf, FourTerms
  <2> QED BY <2>14
<1> HIDE DEF S
<1>3. n \in S
  BY <1>1, <1>2, Induction
<1> QED BY <1>3 DEF S

-------------------------------------------------------------------------------
(* The minors tell the size of a small difference.                           *)

\* Not a multiple of P.
Unit(n) == n \in Int /\ ~ Congruent(n, 0)

LEMMA UnitProduct ==
    ASSUME PrimeField, NEW a, NEW b, Unit(a), Unit(b)
    PROVE  Unit(a * b)
<1>1. a \in Int /\ b \in Int /\ a * b \in Int
  BY DEF Unit
<1> QED BY <1>1, Euclid DEF Unit

\* What is read off a residue.
LEMMA ResidueZero ==
    ASSUME NEW x, NEW n, Is(x, n)
    PROVE  (n = 0 => x = 0) /\ (Unit(n) => x # 0)
<1>1. x \in Fp /\ x \in Int /\ n \in Int /\ Congruent(x, n) /\ 0 \in Fp
  BY Sizes DEF Is, Fp
<1>2. ASSUME n = 0 PROVE x = 0
  BY <1>1, <1>2, SameResidue
<1>3. ASSUME Unit(n), x = 0 PROVE FALSE
  <2>1. Congruent(n, 0)
    BY <1>1, <1>3, CongruentBack
  <2> QED BY <1>3, <2>1 DEF Unit
<1> QED BY <1>2, <1>3

LEMMA UnitsOfTerms ==
    ASSUME PrimeField, AllFactors, NEW s \in SUBSET AllIds, NEW t \in SUBSET AllIds,
           NEW n \in 0..4, NEW a, NEW y, TermsOf(s, t, n, a, y)
    PROVE  /\ \A i \in 1..n : Unit(a[i])
           /\ \A i, j \in 1..n : i # j => Unit(y[i] - y[j])
<1>1. /\ a \in [1..4 -> Int] /\ y \in [1..4 -> Int]
      /\ \A i \in 1..n : /\ a[i] = y[i] \/ a[i] = -y[i]
                         /\ \E x \in Apart(s, t) : y[i] = Sigma(x)
      /\ \A i, j \in 1..n : i # j => y[i] # y[j]
  BY DEF TermsOf
<1>2. ASSUME NEW i \in 1..n PROVE y[i] \in 1..(P - 1) /\ Unit(a[i]) /\ i \in 1..4
  <2>1. PICK x \in Apart(s, t) : y[i] = Sigma(x)
    BY <1>1
  <2>2. x \in AllIds
    BY <2>1 DEF Apart
  <2>3. y[i] \in 1..(P - 1)
    BY <2>1, <2>2, SigmaApart DEF AllIds
  <2>4. ~ Congruent(y[i], 0) /\ ~ Congruent(-y[i], 0)
    BY ONLY <2>3, NotZero
  <2>5. a[i] \in Int /\ (a[i] = y[i] \/ a[i] = -y[i])
    BY <1>1
  <2> QED BY <2>3, <2>4, <2>5 DEF Unit
<1>3. ASSUME NEW i \in 1..n, NEW j \in 1..n, i # j PROVE Unit(y[i] - y[j])
  <2>1. y[i] \in Fp /\ y[j] \in Fp /\ y[i] \in Int /\ y[j] \in Int /\ y[i] # y[j]
    BY <1>1, <1>2, <1>3, Sizes DEF Fp
  <2>2. SUFFICES ASSUME Congruent(y[i] - y[j], 0) PROVE FALSE
    BY <2>1 DEF Unit
  <2>3. PICK u \in Int, v \in Int : u = y[i] /\ v = y[j]
    BY <2>1
  <2>4. Congruent(u - v, 0) /\ Congruent(v, v)
    BY <2>2, <2>3, Shift
  <2>5. Congruent((u - v) + v, 0 + v)
    BY ONLY <2>4, u \in Int, v \in Int, u - v \in Int, 0 \in Int, CongruentSum
  <2>6. (u - v) + v = u /\ 0 + v = v
    OBVIOUS
  <2> QED BY <2>1, <2>3, <2>5, <2>6, SameResidue
<1> QED BY <1>2, <1>3

\* The minors of the gap between the power sums of two sets, modulo P: that of
\* the size of their difference is not zero, those after it are.
LEMMA MinorsOfGap ==
    ASSUME PrimeField, AllFactors, NEW s \in SUBSET AllIds, NEW t \in SUBSET AllIds,
           NEW n \in 0..4, Cardinality(Apart(s, t)) = n
    PROVE  LET v == Gap(s, t)
               m == <<v[1], Minor2(v), Minor3(v), Minor4(v)>>
           IN  (n # 0 => Unit(m[n])) /\ \A u \in (n + 1)..4 : m[u] = 0
<1> DEFINE v == Gap(s, t)
           m == <<v[1], Minor2(v), Minor3(v), Minor4(v)>>
<1>1. PICK a, y : TermsOf(s, t, n, a, y)
  BY TermsExist
<1>2. /\ v \in Vector /\ a \in [1..4 -> Int] /\ y \in [1..4 -> Int] /\ FourTerms(v, a, y)
      /\ \A i \in (n + 1)..4 : a[i] = 0
  BY <1>1, GapTyped DEF TermsOf
<1>3. /\ \A i \in 1..n : Unit(a[i])
      /\ \A i, j \in 1..n : i # j => Unit(y[i] - y[j])
  BY <1>1, UnitsOfTerms
<1> HIDE DEF v
<1>4. /\ Minor4(v) = (a[1] * a[2] * a[3] * a[4])
                * (((y[1] - y[2]) * (y[1] - y[3]) * (y[2] - y[3]) * (y[1] - y[4])
                      * (y[2] - y[4]) * (y[3] - y[4]))
                   * ((y[1] - y[2]) * (y[1] - y[3]) * (y[2] - y[3]) * (y[1] - y[4])
                        * (y[2] - y[4]) * (y[3] - y[4])))
      /\ a[4] = 0 =>
                /\ Minor3(v) = (a[1] * a[2] * a[3])
                     * (((y[1] - y[2]) * (y[1] - y[3]) * (y[2] - y[3]))
                        * ((y[1] - y[2]) * (y[1] - y[3]) * (y[2] - y[3])))
                /\ a[3] = 0 =>
                     /\ Minor2(v) = (a[1] * a[2]) * ((y[1] - y[2]) * (y[1] - y[2]))
                     /\ a[2] = 0 => v[1] = a[1]
  BY <1>2, MinorsOfTerms
<1>5. /\ a[1] \in Int /\ a[2] \in Int /\ a[3] \in Int /\ a[4] \in Int
      /\ y[1] \in Int /\ y[2] \in Int /\ y[3] \in Int /\ y[4] \in Int
  BY <1>2
<1>6a. PICK a1 \in Int, a2 \in Int, a3 \in Int, a4 \in Int :
        a1 = a[1] /\ a2 = a[2] /\ a3 = a[3] /\ a4 = a[4]
  BY ONLY <1>5
<1>6b. PICK d12 \in Int, d13 \in Int, d23 \in Int :
        d12 = y[1] - y[2] /\ d13 = y[1] - y[3] /\ d23 = y[2] - y[3]
  BY ONLY <1>5
<1>6c. PICK d14 \in Int, d24 \in Int, d34 \in Int :
        d14 = y[1] - y[4] /\ d24 = y[2] - y[4] /\ d34 = y[3] - y[4]
  BY ONLY <1>5
<1>6. /\ a1 = a[1] /\ a2 = a[2] /\ a3 = a[3] /\ a4 = a[4]
      /\ d12 = y[1] - y[2] /\ d13 = y[1] - y[3] /\ d23 = y[2] - y[3]
      /\ d14 = y[1] - y[4] /\ d24 = y[2] - y[4] /\ d34 = y[3] - y[4]
  BY <1>6a, <1>6b, <1>6c
<1>7. /\ Minor4(v) = (a1 * a2 * a3 * a4)
           * ((d12 * d13 * d23 * d14 * d24 * d34) * (d12 * d13 * d23 * d14 * d24 * d34))
      /\ a4 = 0 =>
           /\ Minor3(v) = (a1 * a2 * a3) * ((d12 * d13 * d23) * (d12 * d13 * d23))
           /\ a3 = 0 => /\ Minor2(v) = (a1 * a2) * (d12 * d12)
                        /\ a2 = 0 => v[1] = a1
  BY ONLY <1>4, <1>6
<1>8. /\ n >= 1 => Unit(a1)
      /\ n >= 2 => Unit(a2) /\ Unit(d12)
      /\ n >= 3 => Unit(a3) /\ Unit(d13) /\ Unit(d23)
      /\ n >= 4 => Unit(a4) /\ Unit(d14) /\ Unit(d24) /\ Unit(d34)
  BY <1>3, <1>6
<1>9. (n <= 3 => a4 = 0) /\ (n <= 2 => a3 = 0) /\ (n <= 1 => a2 = 0) /\ (n = 0 => a1 = 0)
  BY <1>2, <1>6
<1>10. n <= 3 => Minor4(v) = 0
  <2>1. SUFFICES ASSUME n <= 3 PROVE Minor4(v) = 0
    OBVIOUS
  <2>2. PICK q \in Int : q = (d12 * d13 * d23 * d14 * d24 * d34)
                               * (d12 * d13 * d23 * d14 * d24 * d34)
    OBVIOUS
  <2>3. PICK r \in Int : r = a1 * a2 * a3
    OBVIOUS
  <2>4. (r * 0) * q = 0
    OBVIOUS
  <2> QED BY ONLY <1>7, <1>9, <2>1, <2>2, <2>3, <2>4
<1>11. n <= 2 => Minor3(v) = 0
  <2>1. SUFFICES ASSUME n <= 2 PROVE Minor3(v) = 0
    OBVIOUS
  <2>2. PICK q \in Int : q = (d12 * d13 * d23) * (d12 * d13 * d23)
    OBVIOUS
  <2>3. PICK r \in Int : r = a1 * a2
    OBVIOUS
  <2>4. (r * 0) * q = 0 /\ n <= 3
    BY <2>1
  <2> QED BY ONLY <1>7, <1>9, <2>1, <2>2, <2>3, <2>4
<1>12. n <= 1 => Minor2(v) = 0
  <2>1. SUFFICES ASSUME n <= 1 PROVE Minor2(v) = 0
    OBVIOUS
  <2>2. PICK q \in Int : q = d12 * d12
    OBVIOUS
  <2>3. (a1 * 0) * q = 0 /\ n <= 3 /\ n <= 2
    BY <2>1
  <2> QED BY ONLY <1>7, <1>9, <2>1, <2>2, <2>3
<1>13. n <= 1 => v[1] = a1
  BY <1>7, <1>9
<1>14. n = 2 => Unit(Minor2(v))
  <2>1. SUFFICES ASSUME n = 2 PROVE Unit((a1 * a2) * (d12 * d12))
    BY <1>7, <1>9
  <2>2. Unit(a1 * a2) /\ Unit(d12 * d12)
    BY <1>8, <2>1, UnitProduct
  <2> QED BY ONLY PrimeField, <2>2, UnitProduct
<1>15. n = 3 => Unit(Minor3(v))
  <2>1. SUFFICES ASSUME n = 3
                 PROVE  Unit((a1 * a2 * a3) * ((d12 * d13 * d23) * (d12 * d13 * d23)))
    BY <1>7, <1>9
  <2>0. Unit(a1) /\ Unit(a2) /\ Unit(a3) /\ Unit(d12) /\ Unit(d13) /\ Unit(d23)
    BY <1>8, <2>1
  <2>2. Unit(a1 * a2) /\ Unit(d12 * d13)
    BY ONLY PrimeField, <2>0, UnitProduct
  <2>3. Unit(a1 * a2 * a3) /\ Unit(d12 * d13 * d23)
    BY ONLY PrimeField, <2>0, <2>2, UnitProduct
  <2>4. Unit((d12 * d13 * d23) * (d12 * d13 * d23))
    BY ONLY PrimeField, <2>3, UnitProduct
  <2> QED BY ONLY PrimeField, <2>3, <2>4, UnitProduct
<1>16. n = 4 => Unit(Minor4(v))
  <2>1. SUFFICES ASSUME n = 4
                 PROVE  Unit((a1 * a2 * a3 * a4)
           * ((d12 * d13 * d23 * d14 * d24 * d34) * (d12 * d13 * d23 * d14 * d24 * d34)))
    BY <1>7
  <2>2. /\ Unit(a1) /\ Unit(a2) /\ Unit(a3) /\ Unit(a4) /\ Unit(d12) /\ Unit(d13)
        /\ Unit(d23) /\ Unit(d14) /\ Unit(d24) /\ Unit(d34)
    BY <1>8, <2>1
  <2>3. Unit(a1 * a2) /\ Unit(d12 * d13)
    BY ONLY PrimeField, <2>2, UnitProduct
  <2>4. Unit(a1 * a2 * a3) /\ Unit(d12 * d13 * d23)
    BY ONLY PrimeField, <2>2, <2>3, UnitProduct
  <2>5. Unit(a1 * a2 * a3 * a4) /\ Unit(d12 * d13 * d23 * d14)
    BY ONLY PrimeField, <2>2, <2>4, UnitProduct
  <2>6. Unit(d12 * d13 * d23 * d14 * d24)
    BY ONLY PrimeField, <2>2, <2>5, UnitProduct
  <2>7. Unit(d12 * d13 * d23 * d14 * d24 * d34)
    BY ONLY PrimeField, <2>2, <2>6, UnitProduct
  <2>8. Unit((d12 * d13 * d23 * d14 * d24 * d34) * (d12 * d13 * d23 * d14 * d24 * d34))
    BY ONLY PrimeField, <2>7, UnitProduct
  <2> QED BY ONLY PrimeField, <2>5, <2>8, UnitProduct
<1>17. m[1] = v[1] /\ m[2] = Minor2(v) /\ m[3] = Minor3(v) /\ m[4] = Minor4(v)
  OBVIOUS
<1> HIDE DEF m
<1>18. n # 0 => Unit(m[n])
  <2>1. n \in {0, 1, 2, 3, 4}
    OBVIOUS
  <2> QED BY <1>8, <1>13, <1>14, <1>15, <1>16, <1>17, <2>1
<1>19. ASSUME NEW u \in (n + 1)..4 PROVE m[u] = 0
  <2>1. u \in {1, 2, 3, 4} /\ n < u
    OBVIOUS
  <2> QED BY <1>9, <1>10, <1>11, <1>12, <1>13, <1>17, <2>1
<1> QED BY <1>18, <1>19 DEF m, v

\* The gap is what the two shares of a syndrome add up to.
LEMMA SyndromesAdd ==
    ASSUME NEW s \in SUBSET AllIds, NEW t \in SUBSET AllIds, NEW r, NEW q,
           Sums(r, s), Sums(q, t), NEW k \in 1..7
    PROVE  Is(Add(Syndrome("R", r)[k], Syndrome("S", q)[k]), Gap(s, t)[k])
<1>1. /\ Is(r[k], PowerSum[s][k]) /\ Is(q[k], PowerSum[t][k]) /\ q[k] \in Fp
      /\ PowerSum[s][k] \in Int /\ PowerSum[t][k] \in Int
  BY PowerSumIs DEF Sums, Is
<1>2. Syndrome("R", r)[k] = r[k] /\ Syndrome("S", q)[k] = Neg(q[k])
  BY DEF Syndrome, K
<1>3. PICK e \in Int, f \in Int, x \in Int, y \in Int :
        /\ e = PowerSum[s][k] /\ f = PowerSum[t][k] /\ x = q[k] /\ y = Neg(q[k])
  <2>1. q[k] \in Int /\ Neg(q[k]) \in Int
    BY <1>1, NegCorrect, Sizes DEF Fp
  <2> QED BY <1>1, <2>1
<1>4. Congruent(y, -x) /\ Congruent(x, f) /\ Congruent(0, 0) /\ y \in Fp
  BY <1>1, <1>3, NegCorrect, Shift DEF Is
<1>5. Congruent(0 - x, 0 - f)
  BY ONLY <1>4, x \in Int, f \in Int, 0 \in Int, CongruentSum
<1>6. 0 - x = -x /\ 0 - f = -f /\ -x \in Int /\ -f \in Int
  OBVIOUS
<1>7. Congruent(y, -f)
  BY ONLY <1>4, <1>5, <1>6, y \in Int, Transitive
<1>8. Is(y, -f) /\ Is(r[k], e)
  BY <1>1, <1>3, <1>4, <1>6, <1>7 DEF Is
<1>9. Is(Add(r[k], y), e + (-f))
  BY ONLY <1>8, IsSum
<1>10. e + (-f) = Gap(s, t)[k]
  BY <1>3 DEF Gap
<1> QED BY <1>2, <1>3, <1>9, <1>10

\* The circuit tells how many ids are in only one of two sets, up to four.
LEMMA MinorsCount ==
    ASSUME PrimeField, AllFactors, NEW s \in SUBSET AllIds, NEW t \in SUBSET AllIds,
           Cardinality(Apart(s, t)) \in 0..4, NEW d \in Row,
           \A k \in 1..7 : Is(d[k], Gap(s, t)[k])
    PROVE  TOf(MinorsInClear(d)) = Cardinality(Apart(s, t))
<1>1. PICK n \in 0..4 : n = Cardinality(Apart(s, t))
  OBVIOUS
<1> DEFINE v == Gap(s, t)
           m == <<v[1], Minor2(v), Minor3(v), Minor4(v)>>
           D == MinorsInClear(d)
<1>2. v \in Vector
  BY GapTyped
<1>3. Is(D[1], v[1]) /\ Is(D[2], Minor2(v)) /\ Is(D[3], Minor3(v)) /\ Is(D[4], Minor4(v))
  <2> HIDE DEF v
  <2>1. \A k \in 1..7 : Is(d[k], v[k])
    BY DEF v
  <2> QED BY <1>2, <2>1, CircuitIs
<1>4. (n # 0 => Unit(m[n])) /\ \A u \in (n + 1)..4 : m[u] = 0
  BY <1>1, MinorsOfGap
<1> HIDE DEF D, v
<1>5. ASSUME NEW u \in 1..4 PROVE Is(D[u], m[u])
  <2>1. u \in {1, 2, 3, 4}
    OBVIOUS
  <2> QED BY <1>3, <2>1
<1> HIDE DEF m
<1>6. n = 0 \/ D[n] # 0
  <2>1. SUFFICES ASSUME n # 0 PROVE D[n] # 0
    OBVIOUS
  <2>2. Is(D[n], m[n]) /\ Unit(m[n])
    BY <1>4, <1>5, <2>1
  <2> QED BY <2>2, ResidueZero
<1>7. ASSUME NEW u \in (n + 1)..4 PROVE D[u] = 0
  <2>1. Is(D[u], m[u]) /\ m[u] = 0
    BY <1>4, <1>5
  <2> QED BY <2>1, ResidueZero
<1>8. ASSUME NEW w \in 0..4, w = 0 \/ D[w] # 0, \A u \in (w + 1)..4 : D[u] = 0
      PROVE  w = n
  <2>1. CASE w < n
    <3>1. n \in (w + 1)..4 /\ n # 0
      BY <2>1
    <3> QED BY <1>6, <1>8, <3>1
  <2>2. CASE n < w
    <3>1. w \in (n + 1)..4 /\ w # 0
      BY <2>2
    <3> QED BY <1>7, <1>8, <3>1
  <2> QED BY <2>1, <2>2
<1>9. TOf(D) = n
  <2>1. T = 4
    BY DEF T
  <2>2. TOf(D) = CHOOSE w \in 0..4 : (w = 0 \/ D[w] # 0) /\ \A u \in (w + 1)..4 : D[u] = 0
    BY <2>1 DEF TOf
  <2> QED BY <1>6, <1>7, <1>8, <2>2
<1> QED BY <1>1, <1>9 DEF D

-------------------------------------------------------------------------------
(* Newton's identities.                                                      *)

Like(m, n) == m \in Int /\ n \in Int /\ Congruent(m, n)

LEMMA LikeRules ==
    ASSUME NEW a, NEW b, NEW c, NEW d, Like(a, b), Like(c, d)
    PROVE  Like(a + c, b + d) /\ Like(a - c, b - d) /\ Like(a * c, b * d)
<1>1. a \in Int /\ b \in Int /\ c \in Int /\ d \in Int
  BY DEF Like
<1>2. Congruent(a, b) /\ Congruent(c, d)
  BY DEF Like
<1>3. Congruent(a + c, b + d) /\ Congruent(a - c, b - d)
  BY ONLY <1>1, <1>2, CongruentSum
<1>4. Congruent(a * c, b * d)
  BY ONLY <1>1, <1>2, CongruentProduct
<1> QED BY <1>1, <1>3, <1>4 DEF Like

\* What k times the k-th coefficient is, from those before it and the power sums p.
Newton(e, p) ==
    << e[0] * p[1],
       e[1] * p[1] - e[0] * p[2],
       (e[2] * p[1] + e[0] * p[3]) - e[1] * p[2],
       (e[3] * p[1] + e[1] * p[3]) - (e[2] * p[2] + e[0] * p[4]),
       (e[4] * p[1] + e[2] * p[3] + e[0] * p[5]) - (e[3] * p[2] + e[1] * p[4]),
       (e[5] * p[1] + e[3] * p[3] + e[1] * p[5]) - (e[4] * p[2] + e[2] * p[4] + e[0] * p[6]),
       (e[6] * p[1] + e[4] * p[3] + e[2] * p[5] + e[0] * p[7])
         - (e[5] * p[2] + e[3] * p[4] + e[1] * p[6]) >>

\* The polynomial with these coefficients.
Poly(e, Y) ==
    (e[0] * (Y * Y * Y * Y * Y * Y * Y) + e[2] * (Y * Y * Y * Y * Y)
       + e[4] * (Y * Y * Y) + e[6] * Y)
    - (e[1] * (Y * Y * Y * Y * Y * Y) + e[3] * (Y * Y * Y * Y) + e[5] * (Y * Y) + e[7])

\* One more factor: the coefficients of the product with Y - y.
OneMore(e, y) == [j \in 0..7 |-> IF j = 0 THEN e[0] ELSE e[j] + y * e[j - 1]]

LEMMA OneMoreIs ==
    ASSUME NEW e \in [0..7 -> Int], NEW y \in Int
    PROVE  /\ OneMore(e, y) \in [0..7 -> Int] /\ OneMore(e, y)[0] = e[0]
           /\ \A j \in 1..7 : OneMore(e, y)[j] = e[j] + y * e[j - 1]
<1>1. ASSUME NEW j \in 0..7, j # 0 PROVE j - 1 \in 0..7 /\ e[j] + y * e[j - 1] \in Int
  <2>1. j - 1 \in 0..7
    BY <1>1
  <2>2. e[j] \in Int /\ e[j - 1] \in Int
    BY <2>1
  <2> QED BY <2>1, <2>2
<1>2. e[0] \in Int
  OBVIOUS
<1> QED BY <1>1, <1>2 DEF OneMore

LEMMA PolyOneMore ==
    ASSUME NEW e \in [0..7 -> Int], NEW y \in Int, NEW Y \in Int, e[7] = 0
    PROVE  Y * Poly(OneMore(e, y), Y) = (Y - y) * Poly(e, Y)
<1>1. PICK f : f = OneMore(e, y)
  OBVIOUS
<1>2. /\ e[0] \in Int /\ e[1] \in Int /\ e[2] \in Int /\ e[3] \in Int
      /\ e[4] \in Int /\ e[5] \in Int /\ e[6] \in Int /\ e[7] \in Int
  OBVIOUS
<1>3. PICK e0 \in Int, e1 \in Int, e2 \in Int, e3 \in Int :
        e0 = e[0] /\ e1 = e[1] /\ e2 = e[2] /\ e3 = e[3]
  BY ONLY <1>2
<1>4. PICK e4 \in Int, e5 \in Int, e6 \in Int : e4 = e[4] /\ e5 = e[5] /\ e6 = e[6]
  BY ONLY <1>2
<1>5. /\ f[0] = e0 /\ f[1] = e1 + y * e0 /\ f[2] = e2 + y * e1 /\ f[3] = e3 + y * e2
      /\ f[4] = e4 + y * e3 /\ f[5] = e5 + y * e4 /\ f[6] = e6 + y * e5 /\ f[7] = y * e6
  <2>1. f[0] = e[0] /\ \A j \in 1..7 : f[j] = e[j] + y * e[j - 1]
    BY <1>1, OneMoreIs
  <2>2. /\ f[1] = e[1] + y * e[0] /\ f[2] = e[2] + y * e[1] /\ f[3] = e[3] + y * e[2]
        /\ f[4] = e[4] + y * e[3] /\ f[5] = e[5] + y * e[4] /\ f[6] = e[6] + y * e[5]
        /\ f[7] = e[7] + y * e[6]
    BY ONLY <2>1
  <2>3. 0 + y * e6 = y * e6
    OBVIOUS
  <2> QED BY <1>3, <1>4, <2>1, <2>2, <2>3
<1>6. Poly(e, Y) = (e0 * (Y * Y * Y * Y * Y * Y * Y) + e2 * (Y * Y * Y * Y * Y)
                      + e4 * (Y * Y * Y) + e6 * Y)
                   - (e1 * (Y * Y * Y * Y * Y * Y) + e3 * (Y * Y * Y * Y) + e5 * (Y * Y) + 0)
  BY <1>3, <1>4 DEF Poly
<1>7. Poly(f, Y) = (e0 * (Y * Y * Y * Y * Y * Y * Y) + (e2 + y * e1) * (Y * Y * Y * Y * Y)
                      + (e4 + y * e3) * (Y * Y * Y) + (e6 + y * e5) * Y)
                   - ((e1 + y * e0) * (Y * Y * Y * Y * Y * Y) + (e3 + y * e2) * (Y * Y * Y * Y)
                        + (e5 + y * e4) * (Y * Y) + y * e6)
  BY <1>5 DEF Poly
<1>8. Y * ((e0 * (Y * Y * Y * Y * Y * Y * Y) + (e2 + y * e1) * (Y * Y * Y * Y * Y)
                      + (e4 + y * e3) * (Y * Y * Y) + (e6 + y * e5) * Y)
                   - ((e1 + y * e0) * (Y * Y * Y * Y * Y * Y) + (e3 + y * e2) * (Y * Y * Y * Y)
                        + (e5 + y * e4) * (Y * Y) + y * e6))
      = (Y - y) * ((e0 * (Y * Y * Y * Y * Y * Y * Y) + e2 * (Y * Y * Y * Y * Y)
                      + e4 * (Y * Y * Y) + e6 * Y)
                   - (e1 * (Y * Y * Y * Y * Y * Y) + e3 * (Y * Y * Y * Y) + e5 * (Y * Y) + 0))
  BY ONLY y \in Int, Y \in Int, e0 \in Int, e1 \in Int, e2 \in Int, e3 \in Int,
          e4 \in Int, e5 \in Int, e6 \in Int
<1> QED BY <1>1, <1>6, <1>7, <1>8

\* One more id: its powers are added to the power sums.
LEMMA NewtonOneMore ==
    ASSUME NEW e \in [0..7 -> Int], NEW p \in Vector, NEW y \in Int, NEW q \in Vector,
           e[0] = 1, \A k \in 1..7 : q[k] = p[k] + Monomials(y)[k]
    PROVE  LET M == Newton(OneMore(e, y), q)
               N == Newton(e, p)
           IN  M[1] = N[1] + y /\ \A k \in 2..7 : M[k] = N[k] + y * N[k - 1] + y * e[k - 1]
<1>1. PICK f : f = OneMore(e, y)
  OBVIOUS
<1>2. /\ e[0] \in Int /\ e[1] \in Int /\ e[2] \in Int /\ e[3] \in Int
      /\ e[4] \in Int /\ e[5] \in Int /\ e[6] \in Int /\ e[7] \in Int
      /\ p[1] \in Int /\ p[2] \in Int /\ p[3] \in Int /\ p[4] \in Int
      /\ p[5] \in Int /\ p[6] \in Int /\ p[7] \in Int
  BY DEF Vector
<1>3. PICK e1 \in Int, e2 \in Int, e3 \in Int : e1 = e[1] /\ e2 = e[2] /\ e3 = e[3]
  BY ONLY <1>2
<1>4. PICK e4 \in Int, e5 \in Int, e6 \in Int : e4 = e[4] /\ e5 = e[5] /\ e6 = e[6]
  BY ONLY <1>2
<1>5. PICK p1 \in Int, p2 \in Int, p3 \in Int, p4 \in Int :
        p1 = p[1] /\ p2 = p[2] /\ p3 = p[3] /\ p4 = p[4]
  BY ONLY <1>2
<1>6. PICK p5 \in Int, p6 \in Int, p7 \in Int : p5 = p[5] /\ p6 = p[6] /\ p7 = p[7]
  BY ONLY <1>2
<1>7. /\ f[0] = 1 /\ f[1] = e1 + y /\ f[2] = e2 + y * e1 /\ f[3] = e3 + y * e2
      /\ f[4] = e4 + y * e3 /\ f[5] = e5 + y * e4 /\ f[6] = e6 + y * e5
  <2>1. f[0] = e[0] /\ \A j \in 1..7 : f[j] = e[j] + y * e[j - 1]
    BY <1>1, OneMoreIs
  <2>2. /\ f[1] = e[1] + y * e[0] /\ f[2] = e[2] + y * e[1] /\ f[3] = e[3] + y * e[2]
        /\ f[4] = e[4] + y * e[3] /\ f[5] = e[5] + y * e[4] /\ f[6] = e[6] + y * e[5]
    BY ONLY <2>1
  <2>3. y * 1 = y
    OBVIOUS
  <2> QED BY <1>3, <1>4, <2>1, <2>2, <2>3
<1>8. /\ q[1] = p1 + y /\ q[2] = p2 + y * y /\ q[3] = p3 + y * y * y
      /\ q[4] = p4 + y * y * y * y /\ q[5] = p5 + y * y * y * y * y
      /\ q[6] = p6 + y * y * y * y * y * y /\ q[7] = p7 + y * y * y * y * y * y * y
  BY <1>5, <1>6 DEF Monomials
<1>9. PICK N, M : N = Newton(e, p) /\ M = Newton(f, q)
  OBVIOUS
<1>10. /\ N[1] = p1
       /\ N[2] = e1 * p1 - p2
       /\ N[3] = (e2 * p1 + p3) - e1 * p2
       /\ N[4] = (e3 * p1 + e1 * p3) - (e2 * p2 + p4)
       /\ N[5] = (e4 * p1 + e2 * p3 + p5) - (e3 * p2 + e1 * p4)
       /\ N[6] = (e5 * p1 + e3 * p3 + e1 * p5) - (e4 * p2 + e2 * p4 + p6)
       /\ N[7] = (e6 * p1 + e4 * p3 + e2 * p5 + p7) - (e5 * p2 + e3 * p4 + e1 * p6)
  <2>1. \A x \in Int : 1 * x = x
    OBVIOUS
  <2> QED BY <1>3, <1>4, <1>5, <1>6, <1>9, <2>1 DEF Newton
<1>11. /\ M[1] = 1 * q[1]
       /\ M[2] = f[1] * q[1] - 1 * q[2]
       /\ M[3] = (f[2] * q[1] + 1 * q[3]) - f[1] * q[2]
       /\ M[4] = (f[3] * q[1] + f[1] * q[3]) - (f[2] * q[2] + 1 * q[4])
       /\ M[5] = (f[4] * q[1] + f[2] * q[3] + 1 * q[5]) - (f[3] * q[2] + f[1] * q[4])
       /\ M[6] = (f[5] * q[1] + f[3] * q[3] + f[1] * q[5]) - (f[4] * q[2] + f[2] * q[4] + 1 * q[6])
       /\ M[7] = (f[6] * q[1] + f[4] * q[3] + f[2] * q[5] + 1 * q[7])
                   - (f[5] * q[2] + f[3] * q[4] + f[1] * q[6])
  BY <1>7, <1>9 DEF Newton
<1>12. /\ e1 \in Int /\ e2 \in Int /\ e3 \in Int /\ e4 \in Int /\ e5 \in Int /\ e6 \in Int
       /\ p1 \in Int /\ p2 \in Int /\ p3 \in Int /\ p4 \in Int /\ p5 \in Int /\ p6 \in Int
       /\ p7 \in Int /\ y \in Int
  OBVIOUS
<1>13. M[1] = N[1] + y
  BY ONLY <1>8, <1>10, <1>11, <1>12
<1>14. M[2] = N[2] + y * N[1] + y * e1
  BY ONLY <1>7, <1>8, <1>10, <1>11, <1>12
<1>15. M[3] = N[3] + y * N[2] + y * e2
  BY ONLY <1>7, <1>8, <1>10, <1>11, <1>12
<1>16. M[4] = N[4] + y * N[3] + y * e3
  BY ONLY <1>7, <1>8, <1>10, <1>11, <1>12
<1>17. M[5] = N[5] + y * N[4] + y * e4
  BY ONLY <1>7, <1>8, <1>10, <1>11, <1>12
<1>18. M[6] = N[6] + y * N[5] + y * e5
  BY ONLY <1>7, <1>8, <1>10, <1>11, <1>12
<1>19. M[7] = N[7] + y * N[6] + y * e6
  BY ONLY <1>7, <1>8, <1>10, <1>11, <1>12
<1>20. ASSUME NEW k \in 2..7 PROVE M[k] = N[k] + y * N[k - 1] + y * e[k - 1]
  <2>1. k \in {2, 3, 4, 5, 6, 7}
    OBVIOUS
  <2>2. 2 - 1 = 1 /\ 3 - 1 = 2 /\ 4 - 1 = 3 /\ 5 - 1 = 4 /\ 6 - 1 = 5 /\ 7 - 1 = 6
    OBVIOUS
  <2> QED BY ONLY <1>3, <1>4, <1>14, <1>15, <1>16, <1>17, <1>18, <1>19, <2>1, <2>2
<1> QED BY <1>1, <1>9, <1>13, <1>20

-------------------------------------------------------------------------------
(* The row of at most seven ids tells them.                                  *)

\* e holds the elementary symmetric polynomials of the encodings of s, at most
\* seven: they follow from the power sums and have the encodings as roots.
Elementary(s, e) ==
    /\ e \in [0..7 -> Int] /\ e[0] = 1
    /\ \A j \in 0..7 : Cardinality(s) < j => e[j] = 0
    /\ \A k \in 1..7 : k * e[k] = Newton(e, PowerSum[s])[k]
    /\ \A Y \in 1..(P - 1) : Congruent(Poly(e, Y), 0) <=> \E x \in s : Y = Sigma(x)

LEMMA NoElements ==
    ASSUME PrimeField PROVE \E e : Elementary({}, e)
<1> DEFINE e == [j \in 0..7 |-> IF j = 0 THEN 1 ELSE 0]
<1>1. /\ e \in [0..7 -> Int] /\ e[0] = 1 /\ e[1] = 0 /\ e[2] = 0 /\ e[3] = 0 /\ e[4] = 0
      /\ e[5] = 0 /\ e[6] = 0 /\ e[7] = 0 /\ \A j \in 1..7 : e[j] = 0
  OBVIOUS
<1> HIDE DEF e
<1>2. ASSUME NEW k \in 1..7 PROVE k * e[k] = Newton(e, PowerSum[{}])[k]
  <2>1. PICK p : p = PowerSum[{}]
    OBVIOUS
  <2>2. /\ p[1] = 0 /\ p[2] = 0 /\ p[3] = 0 /\ p[4] = 0 /\ p[5] = 0 /\ p[6] = 0 /\ p[7] = 0
    BY <2>1, PowerSumIs
  <2>3. /\ Newton(e, p)[1] = 0 /\ Newton(e, p)[2] = 0 /\ Newton(e, p)[3] = 0
        /\ Newton(e, p)[4] = 0 /\ Newton(e, p)[5] = 0 /\ Newton(e, p)[6] = 0
        /\ Newton(e, p)[7] = 0
    BY <1>1, <2>2 DEF Newton
  <2>4. k \in {1, 2, 3, 4, 5, 6, 7} /\ k * 0 = 0
    OBVIOUS
  <2> QED BY <1>1, <2>1, <2>3, <2>4
<1>3. ASSUME NEW Y \in 1..(P - 1) PROVE ~ Congruent(Poly(e, Y), 0)
  <2>1. Unit(Y) /\ Y \in Int
    BY Sizes, NotZero DEF Unit
  <2>2. Unit(Y * Y)
    BY <2>1, UnitProduct
  <2>3. Unit(Y * Y * Y)
    BY ONLY PrimeField, <2>1, <2>2, UnitProduct
  <2>4. Unit(Y * Y * Y * Y)
    BY ONLY PrimeField, <2>1, <2>3, UnitProduct
  <2>5. Unit(Y * Y * Y * Y * Y)
    BY ONLY PrimeField, <2>1, <2>4, UnitProduct
  <2>6. Unit(Y * Y * Y * Y * Y * Y)
    BY ONLY PrimeField, <2>1, <2>5, UnitProduct
  <2>7. Unit(Y * Y * Y * Y * Y * Y * Y)
    BY ONLY PrimeField, <2>1, <2>6, UnitProduct
  <2>8. PICK m \in Int : m = Y * Y * Y * Y * Y * Y * Y
    BY <2>7 DEF Unit
  <2>9. \A z \in Int : 0 * z = 0
    OBVIOUS
  <2>10. /\ Y * Y \in Int /\ Y * Y * Y \in Int /\ Y * Y * Y * Y \in Int
         /\ Y * Y * Y * Y * Y \in Int /\ Y * Y * Y * Y * Y * Y \in Int
    BY ONLY <2>1
  <2>11. Poly(e, Y) = (1 * m + 0 + 0 + 0) - (0 + 0 + 0 + 0)
    BY ONLY <1>1, <2>1, <2>8, <2>9, <2>10 DEF Poly
  <2>12. (1 * m + 0 + 0 + 0) - (0 + 0 + 0 + 0) = m
    BY ONLY m \in Int
  <2> QED BY <2>7, <2>8, <2>11, <2>12 DEF Unit
<1>4. Cardinality({}) = 0
  BY FS_EmptySet
<1>5. Elementary({}, e)
  BY <1>1, <1>2, <1>3, <1>4 DEF Elementary
<1> QED BY <1>5

LEMMA OneMoreElement ==
    ASSUME PrimeField, AllFactors, NEW s \in SUBSET AllIds, NEW e, Elementary(s, e),
           Cardinality(s) < 7, NEW x \in AllIds, x \notin s
    PROVE  Elementary(s \cup {x}, OneMore(e, Sigma(x)))
<1>1. PICK y \in Int : y = Sigma(x) /\ y \in 1..(P - 1) /\ y \in Fp
  <2>1. Sigma(x) \in 1..(P - 1) /\ Sigma(x) \in Int /\ Sigma(x) \in Fp
    BY SigmaApart, IdsTyped DEF AllIds
  <2> QED BY <2>1
<1> DEFINE f == OneMore(e, y)
           t == s \cup {x}
<1>2. /\ e \in [0..7 -> Int] /\ e[0] = 1
      /\ \A j \in 0..7 : Cardinality(s) < j => e[j] = 0
      /\ \A k \in 1..7 : k * e[k] = Newton(e, PowerSum[s])[k]
      /\ \A Y \in 1..(P - 1) : Congruent(Poly(e, Y), 0) <=> \E u \in s : Y = Sigma(u)
  BY DEF Elementary
<1>3. /\ f \in [0..7 -> Int] /\ f[0] = 1 /\ \A j \in 1..7 : f[j] = e[j] + y * e[j - 1]
  BY <1>2, OneMoreIs
<1>4. Cardinality(s) \in Nat /\ Cardinality(t) = Cardinality(s) + 1
  <2>1. IsFiniteSet(s)
    BY IdsTyped, FS_Subset
  <2> QED BY <2>1, FS_CardinalityType, FS_AddElement
<1>5. ASSUME NEW j \in 0..7, Cardinality(t) < j PROVE f[j] = 0
  <2>1. j \in 1..7 /\ j - 1 \in 0..7 /\ Cardinality(s) < j /\ Cardinality(s) < j - 1
    BY <1>4, <1>5
  <2>2. e[j] = 0 /\ e[j - 1] = 0
    BY <1>2, <2>1
  <2>3. 0 + y * 0 = 0
    OBVIOUS
  <2> QED BY <1>3, <2>1, <2>2, <2>3
<1>6. ASSUME NEW k \in 1..7 PROVE k * f[k] = Newton(f, PowerSum[t])[k]
  <2>1. PICK p, q : p = PowerSum[s] /\ q = PowerSum[t]
    OBVIOUS
  <2>2. p \in Vector /\ q \in Vector
    <3>1. t \in SUBSET AllIds /\ PowerSum \in [SUBSET AllIds -> Vector]
      BY PowerSumExists DEF IsPowerSum, AnyOrder
    <3> QED BY <2>1, <3>1
  <2>3. \A i \in 1..7 : q[i] = p[i] + Monomials(y)[i]
    <3>1. t \in SUBSET AllIds /\ x \in t /\ t \ {x} = s
      BY DEF t
    <3> HIDE DEF t
    <3>2. \A i \in 1..7 : PowerSum[t][i] = PowerSum[t \ {x}][i] + Monomials(Sigma(x))[i]
      BY ONLY <3>1, PowerSumIs
    <3> QED BY ONLY <1>1, <2>1, <3>1, <3>2
  <2>4. PICK N, M : N = Newton(e, p) /\ M = Newton(f, q)
    OBVIOUS
  <2>5. M[1] = N[1] + y /\ \A i \in 2..7 : M[i] = N[i] + y * N[i - 1] + y * e[i - 1]
    BY <1>2, <2>2, <2>3, <2>4, NewtonOneMore
  <2>6. \A i \in 1..7 : N[i] = i * e[i] /\ e[i] \in Int
    BY <1>2, <2>1, <2>4
  <2>7. f[k] = e[k] + y * e[k - 1]
    BY <1>3
  <2> HIDE DEF f
  <2>8. CASE k = 1
    <3>1. PICK a \in Int : a = e[1]
      BY <2>6
    <3>2. k - 1 = 0 /\ f[1] = a + y * 1 /\ M[1] = 1 * a + y
      BY <1>2, <2>5, <2>6, <2>7, <2>8, <3>1
    <3>3. 1 * (a + y * 1) = 1 * a + y
      OBVIOUS
    <3> QED BY <2>1, <2>4, <2>8, <3>2, <3>3
  <2>9. CASE k \in 2..7
    <3>1. k - 1 \in 1..7 /\ k \in Int
      BY <2>9
    <3>2. PICK a \in Int, b \in Int : a = e[k] /\ b = e[k - 1]
      BY <2>6, <3>1
    <3>3. M[k] = k * a + y * ((k - 1) * b) + y * b
      BY <2>5, <2>6, <2>9, <3>1, <3>2
    <3>4. f[k] = a + y * b
      BY <2>7, <3>2
    <3>5. k * (a + y * b) = k * a + y * ((k - 1) * b) + y * b
      BY ONLY <3>1, a \in Int, b \in Int, y \in Int
    <3> QED BY <2>1, <2>4, <3>3, <3>4, <3>5
  <2> QED BY <2>8, <2>9
<1>7. ASSUME NEW Y \in 1..(P - 1)
      PROVE  Congruent(Poly(f, Y), 0) <=> \E u \in t : Y = Sigma(u)
  <2>1. Y \in Int /\ Y \in Fp /\ ~ Congruent(Y, 0)
    BY Sizes, NotZero DEF Fp
  <2>2. e[7] = 0
    BY <1>2, <1>4
  <2>3. Y * Poly(f, Y) = (Y - y) * Poly(e, Y)
    BY <1>2, <2>1, <2>2, PolyOneMore
  <2>4. \A g \in [0..7 -> Int] : Poly(g, Y) \in Int
    BY <2>1 DEF Poly
  <2>5. PICK a \in Int, b \in Int : a = Poly(f, Y) /\ b = Poly(e, Y)
    BY <1>2, <1>3, <2>4
  <2>6. Y * a = (Y - y) * b /\ Y - y \in Int
    BY <2>1, <2>3, <2>5
  <2>7. ASSUME Congruent(a, 0) PROVE Y = y \/ Congruent(b, 0)
    <3>1. Congruent(Y * a, Y * 0) /\ Y * 0 = 0
      BY <2>1, <2>7, Shift, CongruentProduct
    <3>2. Congruent(Y - y, 0) \/ Congruent(b, 0)
      BY <2>6, <3>1, Euclid
    <3>3. ASSUME Congruent(Y - y, 0) PROVE Y = y
      <4>1. Congruent(y, y)
        BY Shift
      <4>2. Congruent((Y - y) + y, 0 + y)
        BY ONLY <2>6, <3>3, <4>1, y \in Int, 0 \in Int, CongruentSum
      <4>3. (Y - y) + y = Y /\ 0 + y = y
        BY <2>1
      <4> QED BY <1>1, <2>1, <4>2, <4>3, SameResidue
    <3> QED BY <3>2, <3>3
  <2>8. ASSUME Y = y \/ Congruent(b, 0) PROVE Congruent(a, 0)
    <3>1. Congruent(Y * a, 0)
      <4>1. CASE Y = y
        <5>1. (Y - y) * b = 0
          BY <4>1
        <5> QED BY <2>6, <5>1, Shift
      <4>2. CASE Congruent(b, 0)
        <5>1. Congruent(Y - y, Y - y)
          BY <2>6, Shift
        <5>2. Congruent((Y - y) * b, (Y - y) * 0)
          BY ONLY <2>6, <4>2, <5>1, b \in Int, 0 \in Int, CongruentProduct
        <5>3. (Y - y) * 0 = 0
          BY <2>6
        <5> QED BY <2>6, <5>2, <5>3
      <4> QED BY <2>8, <4>1, <4>2
    <3> QED BY <2>1, <3>1, Euclid
  <2>9. Congruent(b, 0) <=> \E u \in s : Y = Sigma(u)
    BY <1>2, <2>5
  <2>10. (\E u \in t : Y = Sigma(u)) <=> (Y = y \/ \E u \in s : Y = Sigma(u))
    BY <1>1
  <2> QED BY <2>5, <2>7, <2>8, <2>9, <2>10
<1> HIDE DEF f, t
<1>8. Elementary(t, f)
  BY <1>3, <1>5, <1>6, <1>7 DEF Elementary
<1> QED BY <1>1, <1>8 DEF f, t

LEMMA ElementsExist ==
    ASSUME PrimeField, AllFactors, NEW s \in SUBSET AllIds, Cardinality(s) <= 7
    PROVE  \E e : Elementary(s, e)
<1> DEFINE F == {u \in SUBSET s : \E e : Elementary(u, e)}
<1>1. IsFiniteSet(s)
  BY IdsTyped, FS_Subset
<1>2. {} \in F
  BY NoElements
<1>3. ASSUME NEW u \in SUBSET s, NEW x \in s, u \in F, x \notin u PROVE u \cup {x} \in F
  <2>1. PICK e : Elementary(u, e)
    BY <1>3
  <2>2. Cardinality(u) < 7
    <3>1. IsFiniteSet(u) /\ IsFiniteSet(u \cup {x}) /\ u \cup {x} \subseteq s
      BY <1>1, FS_Subset
    <3>2. Cardinality(u \cup {x}) = Cardinality(u) + 1 /\ Cardinality(u) \in Nat
      BY <1>3, <3>1, FS_AddElement, FS_CardinalityType
    <3>3. Cardinality(u \cup {x}) <= Cardinality(s) /\ Cardinality(s) \in Nat
      BY <1>1, <3>1, FS_Subset, FS_CardinalityType
    <3> QED BY <3>2, <3>3
  <2>3. Elementary(u \cup {x}, OneMore(e, Sigma(x)))
    BY <1>3, <2>1, <2>2, OneMoreElement
  <2> QED BY <2>3
<1> HIDE DEF F
<1>4. s \in F
  BY <1>1, <1>2, <1>3, SubsetInduction
<1> QED BY <1>4 DEF F

\* The coefficients follow from the power sums, modulo P.
LEMMA SameCoefficients ==
    ASSUME PrimeField, 7 < P, NEW e \in [0..7 -> Int], NEW f \in [0..7 -> Int],
           NEW p \in Vector, NEW q \in Vector, e[0] = 1, f[0] = 1,
           \A k \in 1..7 : Like(p[k], q[k]),
           \A k \in 1..7 : k * e[k] = Newton(e, p)[k] /\ k * f[k] = Newton(f, q)[k]
    PROVE  \A k \in 0..7 : Like(e[k], f[k])
<1>1. \A k \in 0..7 : e[k] \in Int /\ f[k] \in Int
  OBVIOUS
<1>2. Like(e[0], f[0])
  BY Shift DEF Like
<1>3. /\ Like(p[1], q[1]) /\ Like(p[2], q[2]) /\ Like(p[3], q[3]) /\ Like(p[4], q[4])
      /\ Like(p[5], q[5]) /\ Like(p[6], q[6]) /\ Like(p[7], q[7])
  OBVIOUS
<1>4. ASSUME NEW k \in 1..7, Like(Newton(e, p)[k], Newton(f, q)[k])
      PROVE  Like(e[k], f[k])
  <2>1. PICK a \in Int, b \in Int : a = e[k] /\ b = f[k]
    BY <1>1
  <2>2. Like(k * a, k * b) /\ k * a \in Int /\ k * b \in Int /\ k \in Int /\ a - b \in Int
    BY <1>4, <2>1
  <2>3. Congruent(k * a - k * b, k * b - k * b)
    <3>1. Congruent(k * a, k * b) /\ Congruent(k * b, k * b)
      BY <2>2, Shift DEF Like
    <3> QED BY ONLY <2>2, <3>1, CongruentSum
  <2>4. k * a - k * b = k * (a - b) /\ k * b - k * b = 0
    BY <2>2
  <2>5. Congruent(a - b, 0)
    <3>1. k \in 1..(P - 1)
      BY Sizes
    <3>2. ~ Congruent(k, 0)
      BY <3>1, NotZero
    <3> QED BY <2>2, <2>3, <2>4, <3>2, Euclid
  <2>6. Congruent((a - b) + b, 0 + b)
    <3>1. Congruent(b, b)
      BY Shift
    <3> QED BY ONLY <2>2, <2>5, <3>1, b \in Int, 0 \in Int, CongruentSum
  <2>7. (a - b) + b = a /\ 0 + b = b
    OBVIOUS
  <2> QED BY <2>1, <2>6, <2>7 DEF Like
<1>5. Like(e[1], f[1])
  <2>1. Like(e[0] * p[1], f[0] * q[1])
    BY ONLY <1>2, <1>3, LikeRules
  <2> QED BY <1>4, <2>1 DEF Newton
<1>6. Like(e[2], f[2])
  <2>1. Like(e[1] * p[1], f[1] * q[1]) /\ Like(e[0] * p[2], f[0] * q[2])
    BY ONLY <1>2, <1>3, <1>5, LikeRules
  <2>2. Like(e[1] * p[1] - e[0] * p[2], f[1] * q[1] - f[0] * q[2])
    BY ONLY <2>1, LikeRules
  <2> QED BY <1>4, <2>2 DEF Newton
<1>7. Like(e[3], f[3])
  <2>1. /\ Like(e[2] * p[1], f[2] * q[1]) /\ Like(e[0] * p[3], f[0] * q[3])
        /\ Like(e[1] * p[2], f[1] * q[2])
    BY ONLY <1>2, <1>3, <1>5, <1>6, LikeRules
  <2>2. Like(e[2] * p[1] + e[0] * p[3], f[2] * q[1] + f[0] * q[3])
    BY ONLY <2>1, LikeRules
  <2>3. Like(Newton(e, p)[3], Newton(f, q)[3])
    <3>1. Like((e[2] * p[1] + e[0] * p[3]) - e[1] * p[2], (f[2] * q[1] + f[0] * q[3]) - f[1] * q[2])
      BY ONLY <2>1, <2>2, LikeRules
    <3> QED BY <3>1 DEF Newton
  <2> QED BY <1>4, <2>3
<1>8. Like(e[4], f[4])
  <2>1. /\ Like(e[3] * p[1], f[3] * q[1]) /\ Like(e[1] * p[3], f[1] * q[3])
        /\ Like(e[2] * p[2], f[2] * q[2]) /\ Like(e[0] * p[4], f[0] * q[4])
    BY ONLY <1>2, <1>3, <1>5, <1>6, <1>7, LikeRules
  <2>2. /\ Like(e[3] * p[1] + e[1] * p[3], f[3] * q[1] + f[1] * q[3])
        /\ Like(e[2] * p[2] + e[0] * p[4], f[2] * q[2] + f[0] * q[4])
    BY ONLY <2>1, LikeRules
  <2>3. Like(Newton(e, p)[4], Newton(f, q)[4])
    <3>1. Like((e[3] * p[1] + e[1] * p[3]) - (e[2] * p[2] + e[0] * p[4]),
               (f[3] * q[1] + f[1] * q[3]) - (f[2] * q[2] + f[0] * q[4]))
      BY ONLY <2>2, LikeRules
    <3> QED BY <3>1 DEF Newton
  <2> QED BY <1>4, <2>3
<1>9. Like(e[5], f[5])
  <2>1. /\ Like(e[4] * p[1], f[4] * q[1]) /\ Like(e[2] * p[3], f[2] * q[3])
        /\ Like(e[0] * p[5], f[0] * q[5])
        /\ Like(e[3] * p[2], f[3] * q[2]) /\ Like(e[1] * p[4], f[1] * q[4])
    BY ONLY <1>2, <1>3, <1>5, <1>6, <1>7, <1>8, LikeRules
  <2>2. /\ Like(e[4] * p[1] + e[2] * p[3], f[4] * q[1] + f[2] * q[3])
        /\ Like(e[3] * p[2] + e[1] * p[4], f[3] * q[2] + f[1] * q[4])
    BY ONLY <2>1, LikeRules
  <2>3. Like(e[4] * p[1] + e[2] * p[3] + e[0] * p[5], f[4] * q[1] + f[2] * q[3] + f[0] * q[5])
    BY ONLY <2>1, <2>2, LikeRules
  <2>4. Like(Newton(e, p)[5], Newton(f, q)[5])
    <3>1. Like((e[4] * p[1] + e[2] * p[3] + e[0] * p[5]) - (e[3] * p[2] + e[1] * p[4]),
               (f[4] * q[1] + f[2] * q[3] + f[0] * q[5]) - (f[3] * q[2] + f[1] * q[4]))
      BY ONLY <2>2, <2>3, LikeRules
    <3> QED BY <3>1 DEF Newton
  <2> QED BY <1>4, <2>4
<1>10. Like(e[6], f[6])
  <2>1. /\ Like(e[5] * p[1], f[5] * q[1]) /\ Like(e[3] * p[3], f[3] * q[3])
        /\ Like(e[1] * p[5], f[1] * q[5])
        /\ Like(e[4] * p[2], f[4] * q[2]) /\ Like(e[2] * p[4], f[2] * q[4])
        /\ Like(e[0] * p[6], f[0] * q[6])
    BY ONLY <1>2, <1>3, <1>5, <1>6, <1>7, <1>8, <1>9, LikeRules
  <2>2. /\ Like(e[5] * p[1] + e[3] * p[3], f[5] * q[1] + f[3] * q[3])
        /\ Like(e[4] * p[2] + e[2] * p[4], f[4] * q[2] + f[2] * q[4])
    BY ONLY <2>1, LikeRules
  <2>3. /\ Like(e[5] * p[1] + e[3] * p[3] + e[1] * p[5], f[5] * q[1] + f[3] * q[3] + f[1] * q[5])
        /\ Like(e[4] * p[2] + e[2] * p[4] + e[0] * p[6], f[4] * q[2] + f[2] * q[4] + f[0] * q[6])
    BY ONLY <2>1, <2>2, LikeRules
  <2>4. Like(Newton(e, p)[6], Newton(f, q)[6])
    <3>1. Like((e[5] * p[1] + e[3] * p[3] + e[1] * p[5]) - (e[4] * p[2] + e[2] * p[4] + e[0] * p[6]),
               (f[5] * q[1] + f[3] * q[3] + f[1] * q[5]) - (f[4] * q[2] + f[2] * q[4] + f[0] * q[6]))
      BY ONLY <2>3, LikeRules
    <3> QED BY <3>1 DEF Newton
  <2> QED BY <1>4, <2>4
<1>11. Like(e[7], f[7])
  <2>1. /\ Like(e[6] * p[1], f[6] * q[1]) /\ Like(e[4] * p[3], f[4] * q[3])
        /\ Like(e[2] * p[5], f[2] * q[5]) /\ Like(e[0] * p[7], f[0] * q[7])
        /\ Like(e[5] * p[2], f[5] * q[2]) /\ Like(e[3] * p[4], f[3] * q[4])
        /\ Like(e[1] * p[6], f[1] * q[6])
    BY ONLY <1>2, <1>3, <1>5, <1>6, <1>7, <1>8, <1>9, <1>10, LikeRules
  <2>2. /\ Like(e[6] * p[1] + e[4] * p[3], f[6] * q[1] + f[4] * q[3])
        /\ Like(e[5] * p[2] + e[3] * p[4], f[5] * q[2] + f[3] * q[4])
    BY ONLY <2>1, LikeRules
  <2>3. /\ Like(e[6] * p[1] + e[4] * p[3] + e[2] * p[5], f[6] * q[1] + f[4] * q[3] + f[2] * q[5])
        /\ Like(e[5] * p[2] + e[3] * p[4] + e[1] * p[6], f[5] * q[2] + f[3] * q[4] + f[1] * q[6])
    BY ONLY <2>1, <2>2, LikeRules
  <2>4. Like(e[6] * p[1] + e[4] * p[3] + e[2] * p[5] + e[0] * p[7],
             f[6] * q[1] + f[4] * q[3] + f[2] * q[5] + f[0] * q[7])
    BY ONLY <2>1, <2>3, LikeRules
  <2>5. Like(Newton(e, p)[7], Newton(f, q)[7])
    <3>1. Like((e[6] * p[1] + e[4] * p[3] + e[2] * p[5] + e[0] * p[7])
                 - (e[5] * p[2] + e[3] * p[4] + e[1] * p[6]),
               (f[6] * q[1] + f[4] * q[3] + f[2] * q[5] + f[0] * q[7])
                 - (f[5] * q[2] + f[3] * q[4] + f[1] * q[6]))
      BY ONLY <2>3, <2>4, LikeRules
    <3> QED BY <3>1 DEF Newton
  <2> QED BY <1>4, <2>5
<1>12. ASSUME NEW k \in 0..7 PROVE Like(e[k], f[k])
  <2>1. k \in {0, 1, 2, 3, 4, 5, 6, 7}
    OBVIOUS
  <2> QED BY ONLY <1>2, <1>5, <1>6, <1>7, <1>8, <1>9, <1>10, <1>11, <2>1
<1> QED BY <1>12

\* Congruent coefficients, congruent values.
LEMMA SameValues ==
    ASSUME NEW e \in [0..7 -> Int], NEW f \in [0..7 -> Int],
           \A k \in 0..7 : Like(e[k], f[k]), NEW Y \in Int
    PROVE  Like(Poly(e, Y), Poly(f, Y))
<1>1. /\ Like(e[0], f[0]) /\ Like(e[1], f[1]) /\ Like(e[2], f[2]) /\ Like(e[3], f[3])
      /\ Like(e[4], f[4]) /\ Like(e[5], f[5]) /\ Like(e[6], f[6]) /\ Like(e[7], f[7])
  OBVIOUS
<1>2. PICK y2 \in Int, y3 \in Int, y4 \in Int :
        y2 = Y * Y /\ y3 = Y * Y * Y /\ y4 = Y * Y * Y * Y
  OBVIOUS
<1>3. PICK y5 \in Int, y6 \in Int, y7 \in Int :
        y5 = Y * Y * Y * Y * Y /\ y6 = Y * Y * Y * Y * Y * Y /\ y7 = Y * Y * Y * Y * Y * Y * Y
  OBVIOUS
<1>4. /\ Like(Y, Y) /\ Like(y2, y2) /\ Like(y3, y3) /\ Like(y4, y4) /\ Like(y5, y5)
      /\ Like(y6, y6) /\ Like(y7, y7)
  BY Shift DEF Like
<1>5. /\ Like(e[0] * y7, f[0] * y7) /\ Like(e[2] * y5, f[2] * y5) /\ Like(e[4] * y3, f[4] * y3)
      /\ Like(e[6] * Y, f[6] * Y) /\ Like(e[1] * y6, f[1] * y6) /\ Like(e[3] * y4, f[3] * y4)
      /\ Like(e[5] * y2, f[5] * y2)
  BY ONLY <1>1, <1>4, LikeRules
<1>6. /\ Like(e[0] * y7 + e[2] * y5, f[0] * y7 + f[2] * y5)
      /\ Like(e[1] * y6 + e[3] * y4, f[1] * y6 + f[3] * y4)
  BY ONLY <1>5, LikeRules
<1>7. /\ Like(e[0] * y7 + e[2] * y5 + e[4] * y3, f[0] * y7 + f[2] * y5 + f[4] * y3)
      /\ Like(e[1] * y6 + e[3] * y4 + e[5] * y2, f[1] * y6 + f[3] * y4 + f[5] * y2)
  BY ONLY <1>5, <1>6, LikeRules
<1>8. /\ Like(e[0] * y7 + e[2] * y5 + e[4] * y3 + e[6] * Y,
              f[0] * y7 + f[2] * y5 + f[4] * y3 + f[6] * Y)
      /\ Like(e[1] * y6 + e[3] * y4 + e[5] * y2 + e[7], f[1] * y6 + f[3] * y4 + f[5] * y2 + f[7])
  BY ONLY <1>1, <1>5, <1>7, LikeRules
<1>9. Like((e[0] * y7 + e[2] * y5 + e[4] * y3 + e[6] * Y)
             - (e[1] * y6 + e[3] * y4 + e[5] * y2 + e[7]),
           (f[0] * y7 + f[2] * y5 + f[4] * y3 + f[6] * Y)
             - (f[1] * y6 + f[3] * y4 + f[5] * y2 + f[7]))
  BY ONLY <1>8, LikeRules
<1> QED BY <1>2, <1>3, <1>9 DEF Poly

\* A row is the row of one set of at most seven ids.
LEMMA RowsApart ==
    ASSUME PrimeField, AllFactors, 7 < P, NEW s \in SUBSET AllIds, NEW t \in SUBSET AllIds,
           Cardinality(s) <= 7, Cardinality(t) <= 7, NEW r, Sums(r, s), Sums(r, t)
    PROVE  s = t
<1>1. PICK e, f : Elementary(s, e) /\ Elementary(t, f)
  BY ElementsExist
<1>2. PICK p, q : p = PowerSum[s] /\ q = PowerSum[t]
  OBVIOUS
<1>3. p \in Vector /\ q \in Vector
  BY <1>2, PowerSumExists DEF IsPowerSum, AnyOrder
<1>4. ASSUME NEW k \in 1..7 PROVE Like(p[k], q[k])
  <2>1. PICK x \in Int, a \in Int, b \in Int :
          x = r[k] /\ a = p[k] /\ b = q[k] /\ Congruent(x, a) /\ Congruent(x, b)
    BY <1>2, Sizes DEF Sums, Is, Fp
  <2>2. Congruent(a, x)
    BY ONLY <2>1, x \in Int, a \in Int, CongruentBack
  <2>3. Congruent(a, b)
    BY ONLY <2>1, <2>2, x \in Int, a \in Int, b \in Int, Transitive
  <2> QED BY <2>1, <2>3 DEF Like
<1>5. \A k \in 0..7 : Like(e[k], f[k])
  <2>1. /\ e \in [0..7 -> Int] /\ f \in [0..7 -> Int] /\ e[0] = 1 /\ f[0] = 1
        /\ \A k \in 1..7 : k * e[k] = Newton(e, p)[k] /\ k * f[k] = Newton(f, q)[k]
    BY <1>1, <1>2 DEF Elementary
  <2> QED BY <1>3, <1>4, <2>1, SameCoefficients
<1>6. ASSUME NEW Y \in 1..(P - 1)
      PROVE  (\E x \in s : Y = Sigma(x)) <=> (\E x \in t : Y = Sigma(x))
  <2>1. PICK a, b : a = Poly(e, Y) /\ b = Poly(f, Y)
    OBVIOUS
  <2>2. Like(a, b)
    <3>1. e \in [0..7 -> Int] /\ f \in [0..7 -> Int] /\ Y \in Int
      BY <1>1, Sizes DEF Elementary
    <3> QED BY <1>5, <2>1, <3>1, SameValues
  <2>3. Congruent(a, 0) <=> Congruent(b, 0)
    <3>1. a \in Int /\ b \in Int /\ Congruent(a, b) /\ Congruent(b, a)
      BY <2>2, CongruentBack DEF Like
    <3> QED BY ONLY <3>1, 0 \in Int, Transitive
  <2>4. /\ Congruent(a, 0) <=> \E x \in s : Y = Sigma(x)
        /\ Congruent(b, 0) <=> \E x \in t : Y = Sigma(x)
    BY <1>1, <2>1 DEF Elementary
  <2> QED BY <2>3, <2>4
<1>7. /\ \A x \in AllIds : Sigma(x) \in 1..(P - 1)
      /\ \A x, y \in AllIds : Sigma(x) = Sigma(y) => x = y
  BY SigmaApart DEF AllIds
<1>8. \A x \in AllIds : x \in s <=> x \in t
  <2>1. TAKE x \in AllIds
  <2>2. (\E u \in s : Sigma(x) = Sigma(u)) <=> (\E u \in t : Sigma(x) = Sigma(u))
    BY <1>6, <1>7
  <2> QED BY <1>7, <2>2
<1> QED BY <1>8

===============================================================================
