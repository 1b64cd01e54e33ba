------------------------------ MODULE GateProofs ------------------------------
(***************************************************************************)
(* The batch of gates at the two parties, for every size of batch, pool    *)
(* and field: the keys are made at the digits of the masks that the shares *)
(* open to, the parties use the same OTs, and a batch stops only when its  *)
(* allowance is spent.                                                     *)
(*                                                                         *)
(* First what the pure operators compute (XorOf, AllOnes, Weighted and the *)
(* digits of a mask), then an invariant of the two parties: what each has  *)
(* paid so far, how far one may be ahead of the other, and which masks are *)
(* known not to be all ones.                                               *)
(***************************************************************************)
EXTENDS GatePipeline, FieldProofs

LEMMA MaskSizes ==
    /\ MaskBits \in Nat /\ MaskBits >= 4 /\ 2 ^ MaskBits = Base
    /\ AndGates \in Nat /\ MaskBits = AndGates + 1
    /\ DigitBits \in Nat \ {0} /\ TopDigitBits \in Nat \ {0}
    /\ Digits = 4 /\ MaskBits = 3 * DigitBits + TopDigitBits
BY DigitAssumption DEF MaskBits, Digits, AndGates

-------------------------------------------------------------------------------
(* Masks as bits.                                                            *)

LEMMA XorRange ==
    \A x, y \in {0, 1} : Xor(x, y) \in {0, 1} /\ (Xor(x, y) = 0 <=> x = y)
                         /\ Xor(x, y) = Xor(y, x)
BY DEF Xor

\* XorOf has the exclusive or of the bits of the two numbers.
LEMMA XorOfBits ==
    ASSUME NEW x \in Int, NEW y \in Int
    PROVE  /\ XorOf(x, y) \in 0..(2 ^ MaskBits - 1)
           /\ \A i \in 0..(MaskBits - 1) : Bit(XorOf(x, y), i) = Xor(Bit(x, i), Bit(y, i))
<1> DEFINE M == MaskBits
           IsXor(s) == s = [j \in 0..M |->
               IF j = 0 THEN 0 ELSE s[j - 1] + Xor(Bit(x, j - 1), Bit(y, j - 1)) * 2 ^ (j - 1)]
           c == [j \in 1..M |-> Xor(Bit(x, j - 1), Bit(y, j - 1))]
<1>0. M \in Nat
  BY MaskSizes
<1>1. XorOf(x, y) = (CHOOSE s : IsXor(s))[M]
  BY DEF XorOf
<1>2. c \in [1..M -> {0, 1}]
  <2>1. ASSUME NEW j \in 1..M PROVE Xor(Bit(x, j - 1), Bit(y, j - 1)) \in {0, 1}
    <3>1. j - 1 \in Nat
      BY <1>0
    <3> QED BY <3>1, BitRange, XorRange
  <2> QED BY <2>1
<1>3. PICK f \in [0..M -> Int] : Sums2(f, c, M)
  <2> HIDE DEF c, M
  <2> QED BY <1>0, <1>2, ExactSum
<1>5. IsXor(f)
  <2>1. ASSUME NEW j \in 0..M
        PROVE  f[j] = IF j = 0 THEN 0
                      ELSE f[j - 1] + Xor(Bit(x, j - 1), Bit(y, j - 1)) * 2 ^ (j - 1)
    <3>1. CASE j = 0
      BY <1>3, <3>1 DEF Sums2
    <3>2. CASE j # 0
      <4>1. j \in 1..M
        BY <1>0, <3>2
      <4> QED BY <1>3, <3>2, <4>1 DEF Sums2
    <3> QED BY <3>1, <3>2
  <2> HIDE DEF c
  <2> QED BY <2>1
<1>6. PICK s : IsXor(s) /\ XorOf(x, y) = s[M]
  <2> HIDE DEF IsXor
  <2> QED BY <1>1, <1>5
<1>7. Sums2(s, c, M)
  <2> HIDE DEF M
  <2>1. s[0] = 0
    BY <1>0, <1>6
  <2>2. ASSUME NEW j \in 1..M PROVE s[j] = s[j - 1] + c[j] * 2 ^ (j - 1)
    <3>1. j \in 0..M /\ j # 0
      BY <1>0
    <3> QED BY <1>6, <3>1
  <2> QED BY <2>1, <2>2 DEF Sums2
<1>9. s[M] \in 0..(2 ^ M - 1) /\ \A i \in 1..M : Bit(s[M], i - 1) = c[i]
  <2> HIDE DEF M, c
  <2> QED BY ONLY <1>0, <1>2, <1>7, BitsOfSum
<1>10. ASSUME NEW i \in 0..(M - 1) PROVE Bit(s[M], i) = Xor(Bit(x, i), Bit(y, i))
  <2>1. i + 1 \in 1..M /\ (i + 1) - 1 = i
    BY <1>0
  <2> QED BY <1>9, <2>1
<1> QED BY <1>6, <1>9, <1>10

\* A nonempty sequence of bits, and whether it has no 0.
BitSeq == {b \in Seq({0, 1}) : Len(b) >= 1}
NoZero(b) == \A i \in 1..Len(b) : b[i] = 1

\* A level of the tree has half the bits, and a 0 if the one below has.
LEMMA HalvedBits ==
    ASSUME NEW b \in BitSeq
    PROVE  /\ Halved(b) \in BitSeq
           /\ Len(Halved(b)) = (Len(b) + 1) \div 2
           /\ NoZero(Halved(b)) <=> NoZero(b)
<1> DEFINE n == Len(b)
           h == (n + 1) \div 2
           e == [j \in 1..h |-> IF 2 * j <= n THEN b[2 * j - 1] * b[2 * j] ELSE b[n]]
<1>1. n \in Nat /\ n >= 1 /\ h \in Nat /\ h >= 1 /\ (2 * h = n \/ 2 * h = n + 1)
      /\ \A i \in 1..n : b[i] \in {0, 1}
  BY DEF BitSeq
<1>2. Halved(b) = e
  BY DEF Halved
<1> HIDE DEF h, n
<1>3. \A x, y \in {0, 1} : x * y \in {0, 1} /\ (x * y = 1 <=> x = 1 /\ y = 1)
  OBVIOUS
<1>4. e \in [1..h -> {0, 1}]
  <2>1. ASSUME NEW j \in 1..h
        PROVE  (IF 2 * j <= n THEN b[2 * j - 1] * b[2 * j] ELSE b[n]) \in {0, 1}
    <3>1. CASE 2 * j <= n
      <4>1. 2 * j - 1 \in 1..n /\ 2 * j \in 1..n
        BY <1>1, <3>1
      <4> QED BY <1>1, <1>3, <3>1, <4>1
    <3>2. CASE ~(2 * j <= n)
      <4>1. n \in 1..n
        BY <1>1
      <4> QED BY <1>1, <3>2, <4>1
    <3> QED BY <3>1, <3>2
  <2> QED BY <2>1
<1>5. e \in Seq({0, 1}) /\ Len(e) = h
  <2> HIDE DEF e
  <2> QED BY <1>1, <1>4
<1>6. ASSUME \A j \in 1..h : e[j] = 1, NEW i \in 1..n PROVE b[i] = 1
  <2>1. PICK j \in 1..h : i = 2 * j - 1 \/ i = 2 * j
    <3>1. (i + 1) \div 2 \in 1..h /\ (i = 2 * ((i + 1) \div 2) - 1 \/ i = 2 * ((i + 1) \div 2))
      BY <1>1
    <3> QED BY <3>1
  <2>2. CASE 2 * j <= n
    <3>1. 2 * j - 1 \in 1..n /\ 2 * j \in 1..n
      BY <1>1, <2>2
    <3>2. b[2 * j - 1] * b[2 * j] = 1
      BY <1>6, <2>2
    <3> QED BY <1>1, <1>3, <2>1, <3>1, <3>2
  <2>3. CASE ~(2 * j <= n)
    <3>1. i = n
      BY <1>1, <2>1, <2>3
    <3>2. b[n] = 1
      BY <1>6, <2>3
    <3> QED BY <3>1, <3>2
  <2> QED BY <2>2, <2>3
<1>7. ASSUME \A i \in 1..n : b[i] = 1, NEW j \in 1..h PROVE e[j] = 1
  <2>1. CASE 2 * j <= n
    <3>1. 2 * j - 1 \in 1..n /\ 2 * j \in 1..n
      BY <1>1, <2>1
    <3> QED BY <1>7, <2>1, <3>1
  <2>2. CASE ~(2 * j <= n)
    <3>1. n \in 1..n
      BY <1>1
    <3> QED BY <1>7, <2>2, <3>1
  <2> QED BY <2>1, <2>2
<1> HIDE DEF e
<1>8. NoZero(e) <=> NoZero(b)
  BY <1>5, <1>6, <1>7 DEF NoZero, n
<1> QED BY <1>1, <1>2, <1>5, <1>8 DEF BitSeq, h, n

\* The tree of AND gates finds out whether every bit is 1.
LEMMA AllOnesBits ==
    ASSUME NEW b \in [1..MaskBits -> {0, 1}]
    PROVE  /\ AllOnes(b) \in {0, 1}
           /\ AllOnes(b) = 1 <=> \A j \in 1..MaskBits : b[j] = 1
<1> DEFINE M == MaskBits
           Levels(l) == l = [k \in 0..M |-> IF k = 0 THEN b ELSE Halved(l[k - 1])]
           G == [k \in 1..M |-> [v \in BitSeq |-> Halved(v)]]
<1>0. M \in Nat /\ M >= 4
  BY MaskSizes
<1>1. b \in BitSeq /\ Len(b) = M
  <2> HIDE DEF M
  <2>1. b \in [1..M -> {0, 1}]
    BY DEF M
  <2> QED BY <1>0, <2>1 DEF BitSeq
<1>2. AllOnes(b) = (CHOOSE l : Levels(l))[M][1]
  BY DEF AllOnes
<1>3. G \in [1..M -> [BitSeq -> BitSeq]]
  BY HalvedBits
<1>4. PICK f \in [0..M -> BitSeq] : Recursive(f, M, b, G)
  <2> HIDE DEF G, M
  <2> QED BY ONLY <1>0, <1>1, <1>3, TypedRecursion, Zenon
<1>5. Levels(f)
  <2>1. ASSUME NEW k \in 0..M
        PROVE  (IF k = 0 THEN b ELSE G[k][f[k - 1]]) = (IF k = 0 THEN b ELSE Halved(f[k - 1]))
    <3>1. CASE k # 0
      <4>1. k \in 1..M /\ k - 1 \in 0..M
        BY <1>0, <3>1
      <4>2. f[k - 1] \in BitSeq
        BY <1>4, <4>1
      <4> QED BY <3>1, <4>1, <4>2
    <3> QED BY <3>1
  <2>2. f = [k \in 0..M |-> IF k = 0 THEN b ELSE G[k][f[k - 1]]]
    BY <1>4 DEF Recursive
  <2> HIDE DEF G
  <2> QED BY <2>1, <2>2
<1>6. PICK l : Levels(l) /\ AllOnes(b) = l[M][1]
  <2> HIDE DEF Levels
  <2> QED BY <1>2, <1>5
<1>7. \A k \in 0..M : l[k] = IF k = 0 THEN b ELSE Halved(l[k - 1])
  BY <1>6
<1> HIDE DEF Levels, G
<1> DEFINE Good(k) == /\ l[k] \in BitSeq /\ (NoZero(l[k]) <=> NoZero(b))
                      /\ Len(l[k]) = 1 \/ Len(l[k]) + k <= M
           S == {k \in Nat : k <= M => Good(k)}
<1>8. 0 \in S
  <2>1. l[0] = b
    <3>1. 0 \in 0..M
      BY <1>0
    <3> QED BY <1>7, <3>1
  <2> QED BY <1>0, <1>1, <2>1
<1>9. ASSUME NEW k \in Nat, k \in S PROVE k + 1 \in S
  <2>1. SUFFICES ASSUME k + 1 <= M PROVE Good(k + 1)
    <3> HIDE DEF Good
    <3> QED OBVIOUS
  <2>2. Good(k)
    BY <1>0, <1>9, <2>1
  <2>3. l[k + 1] = Halved(l[k])
    <3>1. k + 1 \in 0..M /\ k + 1 # 0 /\ (k + 1) - 1 = k
      BY <1>0, <2>1
    <3> QED BY <1>7, <3>1
  <2>4. l[k + 1] \in BitSeq /\ Len(l[k + 1]) = (Len(l[k]) + 1) \div 2
        /\ (NoZero(l[k + 1]) <=> NoZero(l[k]))
    BY <2>2, <2>3, HalvedBits
  <2>5. Len(l[k + 1]) = 1 \/ Len(l[k + 1]) + (k + 1) <= M
    <3>1. Len(l[k]) \in Nat /\ Len(l[k]) >= 1
      BY <2>2 DEF BitSeq
    <3> DEFINE u == Len(l[k])
    <3>2. u = 1 \/ u + k <= M
      BY <2>2
    <3>3. Len(l[k + 1]) = (u + 1) \div 2
      BY <2>4
    <3> HIDE DEF u, M
    <3>4. u \in Nat /\ u >= 1
      BY <3>1 DEF u
    <3> QED BY <1>0, <3>2, <3>3, <3>4
  <2> QED BY <2>2, <2>4, <2>5
<1> HIDE DEF S
<1>10. Good(M)
  <2>1. \A k \in Nat : k \in S
    BY <1>8, <1>9, Induction
  <2> QED BY <1>0, <2>1 DEF S
<1>11. Len(l[M]) = 1 /\ l[M][1] \in {0, 1}
  <2>1. l[M] \in Seq({0, 1}) /\ Len(l[M]) \in Nat /\ Len(l[M]) >= 1
    BY <1>10 DEF BitSeq
  <2>2. Len(l[M]) = 1
    <3> HIDE DEF M
    <3> QED BY <1>0, <1>10, <2>1
  <2> QED BY <2>1, <2>2
<1>12. NoZero(l[M]) <=> l[M][1] = 1
  BY <1>11 DEF NoZero
<1> QED BY <1>1, <1>6, <1>10, <1>11, <1>12 DEF NoZero

\* What b[1], b[2], ... spell, without its being P, is what the field makes of it.
LEMMA WeightedBits ==
    ASSUME NEW b \in [1..MaskBits -> {0, 1}], \E j \in 1..MaskBits : b[j] # 1
    PROVE  /\ Weighted(b) \in Fp
           /\ \A i \in 1..MaskBits : Bit(Weighted(b), i - 1) = b[i]
<1> DEFINE M == MaskBits
           Pows(q) == q = [j \in 1..M |-> IF j = 1 THEN 1 ELSE Add(q[j - 1], q[j - 1])]
           Accs(s, q) == s = [j \in 0..M |->
               IF j = 0 THEN 0 ELSE Add(s[j - 1], Mul(b[j], q[j]))]
<1>0. M \in Nat /\ M >= 4 /\ 2 ^ M = Base /\ P = 2 ^ M - 1 /\ P \in Nat /\ P > 1
  BY MaskSizes, Sizes
<1>1. Weighted(b) = (CHOOSE s : Accs(s, CHOOSE q : Pows(q)))[M]
  BY DEF Weighted
<1>2. \E q : Pows(q)
  <2> DEFINE G == [j \in 1..(M - 1) |-> [v \in Fp |-> Add(v, v)]]
  <2>1. G \in [1..(M - 1) -> [Fp -> Fp]]
    BY AddCorrect
  <2>2. 1 \in Fp /\ M - 1 \in Nat
    BY <1>0 DEF Fp
  <2>3. PICK f \in [0..(M - 1) -> Fp] : Recursive(f, M - 1, 1, G)
    <3> HIDE DEF G, M
    <3> QED BY ONLY <2>1, <2>2, TypedRecursion, Zenon
  <2> DEFINE q == [j \in 1..M |-> f[j - 1]]
  <2>4. ASSUME NEW j \in 1..M PROVE q[j] = IF j = 1 THEN 1 ELSE Add(q[j - 1], q[j - 1])
    <3>1. j - 1 \in 0..(M - 1) /\ (j # 1 => j - 1 \in 1..(M - 1) /\ j - 1 \in 1..M
                                         /\ (j - 1) - 1 \in 0..(M - 1))
      BY <1>0
    <3>2. f[j - 1] = IF j - 1 = 0 THEN 1 ELSE G[j - 1][f[(j - 1) - 1]]
      BY <2>3, <3>1 DEF Recursive
    <3>3. CASE j = 1
      BY <3>2, <3>3
    <3>4. CASE j # 1
      <4>1. f[(j - 1) - 1] \in Fp /\ q[j - 1] = f[(j - 1) - 1]
        BY <2>3, <3>1, <3>4
      <4>2. G[j - 1][f[(j - 1) - 1]] = Add(q[j - 1], q[j - 1])
        BY <3>1, <3>4, <4>1
      <4>3. j - 1 # 0
        BY <3>4
      <4> HIDE DEF G
      <4> QED BY <3>2, <3>4, <4>2, <4>3
    <3> QED BY <3>3, <3>4
  <2>5. Pows(q)
    BY <2>4
  <2> HIDE DEF Pows
  <2> QED BY <2>5
<1>3. PICK q : Pows(q) /\ Weighted(b) = (CHOOSE s : Accs(s, q))[M]
  <2> HIDE DEF Pows, Accs
  <2> QED BY <1>1, <1>2
\* The powers are exact: the largest is below P.
<1>4. \A j \in 0..(M - 1) : 2 ^ j \in 1..(P - 1)
  <2>1. TAKE j \in 0..(M - 1)
  <2>2. 2 ^ M = 2 * 2 ^ (M - 1) /\ 2 ^ (M - 1) \in Nat /\ 2 ^ j \in Nat \ {0}
    <3>1. M - 1 \in Nat /\ (M - 1) + 1 = M
      BY <1>0
    <3> QED BY <3>1, Doubles, PowNat
  <2>3. 2 ^ j <= 2 ^ (M - 1)
    BY <1>0, PowGrows
  <2>4. \A t, u \in Nat : 2 * t - 1 = P /\ u # 0 /\ u <= t => u \in 1..(P - 1)
    BY <1>0
  <2> QED BY <1>0, <2>2, <2>3, <2>4
<1>5. \A j \in 1..M : q[j] = 2 ^ (j - 1)
  <2> DEFINE S == {j \in Nat : j + 1 <= M => q[j + 1] = 2 ^ j}
  <2>0. \A j \in 1..M : q[j] = IF j = 1 THEN 1 ELSE Add(q[j - 1], q[j - 1])
    BY <1>3
  <2>1. 0 \in S
    <3>1. 1 \in 1..M /\ 2 ^ 0 = 1
      BY <1>0
    <3> QED BY <2>0, <3>1
  <2>2. ASSUME NEW j \in Nat, j \in S PROVE j + 1 \in S
    <3>1. SUFFICES ASSUME (j + 1) + 1 <= M PROVE q[(j + 1) + 1] = 2 ^ (j + 1)
      OBVIOUS
    <3>2. q[j + 1] = 2 ^ j
      BY <1>0, <2>2, <3>1
    <3>3. q[(j + 1) + 1] = Add(q[j + 1], q[j + 1])
      <4>1. (j + 1) + 1 \in 1..M /\ (j + 1) + 1 # 1 /\ ((j + 1) + 1) - 1 = j + 1
        BY <1>0, <3>1
      <4> QED BY <2>0, <4>1
    <3>4. 2 ^ j \in 1..(P - 1) /\ 2 ^ (j + 1) \in 1..(P - 1) /\ 2 ^ (j + 1) = 2 * 2 ^ j
      <4>1. j \in 0..(M - 1) /\ j + 1 \in 0..(M - 1)
        BY <1>0, <3>1
      <4> QED BY <1>4, <4>1, Doubles
    <3>5. \A t \in 1..(P - 1) : 2 * t \in 1..(P - 1) => Add(t, t) = 2 * t
      <4>1. \A t \in 1..(P - 1) : t \in Fp /\ 2 * t = t + t
        BY <1>0 DEF Fp
      <4>2. \A t \in 1..(P - 1) : 2 * t \in 1..(P - 1) => t + t < P
        BY <1>0
      <4> QED BY <4>1, <4>2, AddSmall
    <3> QED BY <3>2, <3>3, <3>4, <3>5
  <2> HIDE DEF S
  <2>3. \A j \in Nat : j \in S
    BY <2>1, <2>2, Induction
  <2>4. ASSUME NEW j \in 1..M PROVE q[j] = 2 ^ (j - 1)
    <3>1. j - 1 \in Nat /\ (j - 1) + 1 = j /\ j <= M
      BY <1>0
    <3> QED BY <2>3, <3>1 DEF S
  <2> QED BY <2>4
\* The exact sum, which is not P.
<1>6. PICK t : t = [j \in 0..M |-> t[j]] /\ Sums2(t, b, M)
  <2>1. b \in [1..M -> {0, 1}]
    OBVIOUS
  <2> HIDE DEF M
  <2>2. PICK u \in [0..M -> Int] : Sums2(u, b, M)
    BY <1>0, <2>1, ExactSum
  <2> QED BY <2>2
<1>7. /\ \A j \in 0..M : t[j] \in 0..(2 ^ j - 1)
      /\ t[M] \in 0..(2 ^ M - 1)
      /\ \A i \in 1..M : Bit(t[M], i - 1) = b[i]
  <2> DEFINE c == b
  <2>1. c \in [1..M -> {0, 1}] /\ Sums2(t, c, M)
    BY <1>6
  <2>2. M \in Nat
    BY <1>0
  <2> HIDE DEF M, c
  <2>3. /\ \A j \in 0..M : t[j] \in 0..(2 ^ j - 1)
        /\ t[M] \in 0..(2 ^ M - 1)
        /\ \A i \in 1..M : Bit(t[M], i - 1) = c[i]
    BY ONLY <2>1, <2>2, BitsOfSum
  <2> QED BY <2>3 DEF c
<1>8. \A j \in 0..M : t[j] \in Fp
  <2>1. ASSUME t[M] = P PROVE FALSE
    <3>1. PICK j \in 1..M : b[j] # 1
      OBVIOUS
    <3>2. Bit(P, j - 1) # 1
      BY <1>7, <2>1, <3>1
    <3>3. j - 1 \in 0..(M - 1)
      BY <1>0
    <3> QED BY <1>0, <3>2, <3>3, BitsOfAllOnes
  <2>2. t[M] \in Fp
    <3>1. t[M] \in 0..P /\ t[M] # P
      BY <1>0, <1>7, <2>1
    <3> QED BY <1>0, <3>1 DEF Fp
  <2>3. ASSUME NEW j \in 0..(M - 1) PROVE t[j] \in Fp
    <3>1. 2 ^ j \in 1..(P - 1) /\ t[j] \in 0..(2 ^ j - 1)
      <4>1. j \in 0..M
        BY <1>0
      <4> QED BY <1>4, <1>7, <4>1
    <3> QED BY <1>0, <3>1 DEF Fp
  <2>4. \A j \in 0..M : j = M \/ j \in 0..(M - 1)
    BY <1>0
  <2> QED BY <2>2, <2>3, <2>4
<1>9. \A j \in 1..M : Add(t[j - 1], Mul(b[j], q[j])) = t[j]
  <2>1. TAKE j \in 1..M
  <2>2. q[j] = 2 ^ (j - 1) /\ q[j] \in Fp /\ b[j] \in {0, 1}
    <3>1. j - 1 \in 0..(M - 1)
      BY <1>0
    <3> QED BY <1>0, <1>4, <1>5, <3>1 DEF Fp
  <2>3. Mul(b[j], q[j]) = b[j] * q[j] /\ b[j] * q[j] \in Fp
    BY <2>2, MulBit
  <2>4. t[j - 1] \in Fp /\ t[j] \in Fp /\ t[j] = t[j - 1] + b[j] * q[j]
    <3>1. j - 1 \in 0..M /\ j \in 0..M
      BY <1>0
    <3> QED BY <1>6, <1>8, <2>2, <3>1 DEF Sums2
  <2>5. t[j - 1] + b[j] * q[j] < P
    BY <1>0, <2>4 DEF Fp
  <2> QED BY <2>3, <2>4, <2>5, AddSmall
<1>10. PICK s : Accs(s, q) /\ Weighted(b) = s[M]
  <2>1. t[0] = 0
    BY <1>6 DEF Sums2
  <2>2. ASSUME NEW j \in 0..M
        PROVE  t[j] = IF j = 0 THEN 0 ELSE Add(t[j - 1], Mul(b[j], q[j]))
    <3>1. j # 0 => j \in 1..M
      BY <1>0
    <3> QED BY <1>9, <2>1, <3>1
  <2>3. Accs(t, q)
    BY <1>6, <2>2
  <2> HIDE DEF Accs, Pows
  <2> QED BY <1>3, <2>3
<1>11. s[M] = t[M]
  <2> DEFINE S == {j \in Nat : j <= M => s[j] = t[j]}
  <2>0. \A j \in 0..M : s[j] = IF j = 0 THEN 0 ELSE Add(s[j - 1], Mul(b[j], q[j]))
    BY <1>10
  <2>1. 0 \in S
    <3>1. 0 \in 0..M /\ t[0] = 0
      BY <1>0, <1>6 DEF Sums2
    <3> QED BY <2>0, <3>1
  <2>2. ASSUME NEW j \in Nat, j \in S PROVE j + 1 \in S
    <3>1. SUFFICES ASSUME j + 1 <= M PROVE s[j + 1] = t[j + 1]
      OBVIOUS
    <3>2. j + 1 \in 1..M /\ j + 1 \in 0..M /\ (j + 1) - 1 = j /\ j + 1 # 0
      BY <1>0, <3>1
    <3>3. s[j] = t[j]
      BY <1>0, <2>2, <3>1
    <3>4. s[j + 1] = Add(s[j], Mul(b[j + 1], q[j + 1]))
      BY <2>0, <3>2
    <3>5. t[j + 1] = Add(t[j], Mul(b[j + 1], q[j + 1]))
      BY <1>9, <3>2
    <3> QED BY <3>3, <3>4, <3>5
  <2> HIDE DEF S
  <2>3. \A j \in Nat : j \in S
    BY <2>1, <2>2, Induction
  <2> QED BY <1>0, <2>3 DEF S
<1>12. t[M] \in Fp
  <2>1. M \in 0..M
    BY <1>0
  <2> QED BY <1>8, <2>1
<1> QED BY <1>7, <1>10, <1>11, <1>12

\* The digits of the mask that two halves spell are the exclusive or of theirs.
LEMMA DigitsOfMask ==
    ASSUME NEW x \in 0..P, NEW y \in 0..P, NEW b,
           b = [j \in 1..MaskBits |-> Xor(Bit(x, j - 1), Bit(y, j - 1))],
           AllOnes(b) = 0, NEW j \in 1..Digits
    PROVE  Digit(Weighted(b), j) = XorOf(Digit(x, j), Digit(y, j))
<1> DEFINE M == MaskBits
           o == DigitBits * (j - 1)
           w == IF j = Digits THEN TopDigitBits ELSE DigitBits
           V == Weighted(b)
           slice(z) == (z \div 2 ^ o) % 2 ^ w
<1>0. M \in Nat /\ M >= 4 /\ x \in Nat /\ y \in Nat
  BY MaskSizes, Sizes
<1>1. o \in Nat /\ w \in Nat /\ o + w <= M
  <2>1. j = 1 \/ j = 2 \/ j = 3 \/ j = 4
    BY MaskSizes
  <2>2. o = 0 \/ o = DigitBits \/ o = 2 * DigitBits \/ (o = 3 * DigitBits /\ j = 4)
    BY <2>1, MaskSizes
  <2>3. (j # 4 => o \in {0, DigitBits, 2 * DigitBits} /\ w = DigitBits)
        /\ (j = 4 => o = 3 * DigitBits /\ w = TopDigitBits)
    BY <2>1, MaskSizes
  <2> HIDE DEF o, w
  <2>4. CASE j = 4
    BY <2>3, <2>4, MaskSizes
  <2>5. CASE j # 4
    BY <2>3, <2>5, MaskSizes
  <2> QED BY <2>4, <2>5
<1>2. b \in [1..M -> {0, 1}]
  <2>1. ASSUME NEW k \in 1..M PROVE Xor(Bit(x, k - 1), Bit(y, k - 1)) \in {0, 1}
    <3>1. k - 1 \in Nat /\ x \in Int /\ y \in Int
      BY <1>0
    <3> QED BY <3>1, BitRange, XorRange
  <2> QED BY <2>1
<1>3. V \in Nat /\ \A i \in 1..M : Bit(V, i - 1) = b[i]
  <2>1. \E i \in 1..M : b[i] # 1
    <3>1. AllOnes(b) = 1 <=> \A i \in 1..MaskBits : b[i] = 1
      BY ONLY <1>2, AllOnesBits
    <3>2. AllOnes(b) # 1
      OBVIOUS
    <3> QED BY <3>1, <3>2
  <2>2. V \in Fp /\ \A i \in 1..M : Bit(V, i - 1) = b[i]
    BY <1>2, <2>1, WeightedBits
  <2> QED BY <2>2, Sizes DEF Fp
<1> HIDE DEF o, w, V
<1>4. \A z \in Nat : Digit(z, j) = slice(z)
  BY DEF Digit, o, w
<1>5. \A z \in Nat : /\ slice(z) \in 0..(2 ^ w - 1)
                     /\ \A i \in Nat : Bit(slice(z), i) = IF i < w THEN Bit(z, o + i) ELSE 0
  BY <1>1, BitOfSlice
<1> DEFINE X == slice(x)
           Y == slice(y)
           Z == slice(V)
<1>6. /\ X \in Int /\ Y \in Int /\ Z \in 0..(2 ^ M - 1)
      /\ \A i \in Nat : Bit(X, i) = IF i < w THEN Bit(x, o + i) ELSE 0
      /\ \A i \in Nat : Bit(Y, i) = IF i < w THEN Bit(y, o + i) ELSE 0
      /\ \A i \in Nat : Bit(Z, i) = IF i < w THEN Bit(V, o + i) ELSE 0
  <2>1. X \in 0..(2 ^ w - 1) /\ Y \in 0..(2 ^ w - 1) /\ Z \in 0..(2 ^ w - 1)
    BY <1>0, <1>3, <1>5
  <2>2. 2 ^ w <= 2 ^ M /\ 2 ^ w \in Nat /\ 2 ^ M \in Nat
    <3>1. w \in 0..M
      BY <1>0, <1>1
    <3> QED BY <1>0, <3>1, <1>1, PowGrows, PowNat
  <2>3. \A t, u \in Nat : \A v \in 0..(t - 1) : t <= u => v \in 0..(u - 1)
    OBVIOUS
  <2>4. Z \in 0..(2 ^ M - 1)
    BY <2>1, <2>2, <2>3
  <2>5. X \in Int /\ Y \in Int
    BY <2>1, <2>2
  <2> QED BY <1>0, <1>3, <1>5, <2>4, <2>5
<1> HIDE DEF X, Y, Z, slice
<1>7. XorOf(X, Y) \in 0..(2 ^ M - 1)
      /\ \A i \in 0..(M - 1) : Bit(XorOf(X, Y), i) = Xor(Bit(X, i), Bit(Y, i))
  BY <1>6, XorOfBits
<1>8. ASSUME NEW i \in 0..(M - 1) PROVE Bit(Z, i) = Bit(XorOf(X, Y), i)
  <2>1. i \in Nat
    BY <1>0
  <2>2. CASE i < w
    <3>1. o + i + 1 \in 1..M /\ (o + i + 1) - 1 = o + i
      BY <1>0, <1>1, <2>1, <2>2
    <3>2. Bit(V, o + i) = Xor(Bit(x, o + i), Bit(y, o + i))
      <4>1. Bit(V, (o + i + 1) - 1) = b[o + i + 1]
        BY <1>3, <3>1
      <4>2. b[o + i + 1] = Xor(Bit(x, (o + i + 1) - 1), Bit(y, (o + i + 1) - 1))
        BY <3>1
      <4> QED BY <3>1, <4>1, <4>2
    <3> QED BY <1>6, <1>7, <2>1, <2>2, <3>2
  <2>3. CASE ~(i < w)
    <3>1. Xor(0, 0) = 0
      BY XorRange
    <3> QED BY <1>6, <1>7, <2>1, <2>3, <3>1
  <2> QED BY <2>2, <2>3
<1>9. Z = XorOf(X, Y)
  BY <1>0, <1>6, <1>7, <1>8, SameBits
<1> QED BY <1>0, <1>3, <1>4, <1>9 DEF X, Y, Z, V

-------------------------------------------------------------------------------
(* What holds between the two parties.                                       *)

Steps == {"test", "open", "convert", "key", "done", "stopped"}

GateTypes ==
    /\ half \in [Party -> [Gate -> Halves]]
    /\ pending \in [Party -> SUBSET Gate]
    /\ pc \in [Party -> Steps]
    /\ cursor \in [Party -> Nat]
    /\ bit \in [Party -> [Gate -> {0, 1}]]
    /\ rejected \in [Party -> Nat]
    /\ resamples \in [Party -> Nat]
    /\ keyed \in [Party -> Nat]
    /\ DOMAIN chan = Party

\* What p has paid so far: a test for every gate and for every rejected mask, then
\* the shares of all masks, then a key at a time.
Tests(p) == AndGates * (Count + rejected[p])

Paid(p) ==
    /\ cursor[p] <= PoolSize
    /\ pc[p] = "test" => cursor[p] + AndGates * Cardinality(pending[p]) = Tests(p)
    /\ pc[p] \in {"open", "convert"} => cursor[p] = Tests(p)
    /\ pc[p] \in {"test", "open", "convert"} => keyed[p] = 0
    /\ pc[p] = "key" =>
         keyed[p] < Count /\ cursor[p] = Tests(p) + MaskBits * Count + OtsDkg * keyed[p]

\* A party that waits for the results has its peer's on the way, and the peer is
\* at most one decision ahead: the one that the party is about to take as well.
InStep(p) ==
    LET q == Peer(p) IN
    /\ cursor[p] = cursor[q] /\ keyed[p] = keyed[q]
    /\ pc[p] # "open" => chan[p] = <<>>
    /\ pc[p] = "open" => chan[p] = <<bit[q]>> /\ pc[q] \in {"open", "test", "convert", "stopped"}
    /\ pc[p] = "open" /\ pc[q] = "test" => pending[q] = Bad(p, bit[q])
    /\ pc[p] = "open" /\ pc[q] = "convert" => Bad(p, bit[q]) = {}
    /\ pc[p] = pc[q] /\ pc[p] \in {"test", "open"} => pending[p] = pending[q]

\* No mask that is not to be tested again is all ones, and the shares of the
\* masks open to what the halves spell.
Accepts(p) ==
    /\ pc[p] \in {"test", "open"} => \A g \in Gate \ pending[p] : AllOnes(BitsOf(g)) = 0
    /\ pc[p] = "open" =>
         \A g \in pending[p] \ Bad(p, bit[Peer(p)]) : AllOnes(BitsOf(g)) = 0
    /\ pc[p] \in {"convert", "key", "done"} => \A g \in Gate : AllOnes(BitsOf(g)) = 0
    /\ pc[p] \in {"key", "done"} =>
         \A g \in Gate : Add(mask["R"][g], mask["S"][g]) = Weighted(BitsOf(g))

GateInv ==
    /\ GateTypes
    /\ \A p \in Party : Paid(p) /\ InStep(p) /\ Accepts(p)
    /\ SlackSuffices

LEMMA Parties ==
    /\ \A p \in Party : Peer(p) \in Party /\ Peer(Peer(p)) = p /\ p # Peer(p)
    /\ \A p, q \in Party : q = p \/ q = Peer(p)
    /\ "R" \in Party /\ "S" \in Party
BY DEF Party, Peer

LEMMA PoolSizes ==
    /\ Count \in Nat /\ Count > 0 /\ Slack \in Nat /\ MaxResample \in Nat
    /\ MaskBits \in Nat /\ OtsDkg \in Nat /\ AndGates \in Nat /\ PoolSize \in Nat
    /\ AndGates * Count \in Nat /\ MaskBits * Count \in Nat /\ OtsDkg * Count \in Nat
    /\ AndGates * Slack \in Nat
    /\ OtsDkg * Count + AndGates * Count + MaskBits * Count + AndGates * Slack <= PoolSize
<1>1. /\ Count \in Nat /\ Count > 0 /\ Slack \in Nat /\ MaxResample \in Nat /\ MinOts \in Nat
      /\ MaskBits \in Nat /\ AndGates \in Nat
  BY PipelineAssumption, MaskSizes
<1>2. OtsDkg \in Nat
  BY MaskSizes DEF OtsDkg
<1>3. \A a, b \in Nat : a * b \in Nat
  OBVIOUS
<1>4. OtsPerGate * Count = OtsDkg * Count + AndGates * Count + MaskBits * Count
  <2>1. \A a, b, c, d \in Nat : (a + b + c) * d = a * d + b * d + c * d
    OBVIOUS
  <2> QED BY <1>1, <1>2, <2>1 DEF OtsPerGate
<1>5. \A n, m \in Nat : AtLeast(n, m) \in Nat /\ AtLeast(n, m) >= n
  BY DEF AtLeast
<1> DEFINE A == OtsDkg * Count
           B == AndGates * Count
           C == MaskBits * Count
           D == AndGates * Slack
<1>6. A \in Nat /\ B \in Nat /\ C \in Nat /\ D \in Nat
  BY <1>1, <1>2, <1>3
<1>7. PoolSize = AtLeast(A + B + C + D, MinOts)
  BY <1>4 DEF PoolSize
<1> HIDE DEF A, B, C, D
<1>8. A + B + C + D \in Nat
  BY <1>6
<1>9. PoolSize \in Nat /\ PoolSize >= A + B + C + D
  BY <1>1, <1>5, <1>7, <1>8
<1>10. A + B + C + D <= PoolSize
  BY <1>6, <1>9
<1> QED BY <1>1, <1>2, <1>6, <1>9, <1>10 DEF A, B, C, D

\* Sets of gates.
LEMMA GateSets ==
    /\ \A s \in SUBSET Gate : IsFiniteSet(s) /\ Cardinality(s) \in Nat
    /\ Cardinality(Gate) = Count /\ Cardinality({}) = 0
<1>1. IsFiniteSet(Gate) /\ Cardinality(Gate) = Count
  BY PoolSizes, FS_Interval DEF Gate
<1> QED BY <1>1, FS_Subset, FS_CardinalityType, FS_EmptySet

LEMMA MaskBitsOf ==
    ASSUME GateTypes, NEW g \in Gate
    PROVE  /\ BitsOf(g) \in [1..MaskBits -> {0, 1}]
           /\ AllOnes(BitsOf(g)) \in {0, 1}
           /\ half["R"][g] \in 0..P /\ half["S"][g] \in 0..P
<1>1. half["R"][g] \in 0..P /\ half["S"][g] \in 0..P
  <2>1. half["R"] \in [Gate -> Halves] /\ half["S"] \in [Gate -> Halves]
    BY Parties DEF GateTypes
  <2>2. Halves \subseteq 0..P
    BY PipelineAssumption
  <2> QED BY <2>1, <2>2
<1>2. BitsOf(g) \in [1..MaskBits -> {0, 1}]
  <2>1. ASSUME NEW j \in 1..MaskBits
        PROVE  Xor(Bit(half["R"][g], j - 1), Bit(half["S"][g], j - 1)) \in {0, 1}
    <3>1. j - 1 \in Nat
      BY MaskSizes
    <3>2. \A h \in 0..P : h \in Int
      BY Sizes
    <3> QED BY <1>1, <3>1, <3>2, BitRange, XorRange
  <2> QED BY <2>1 DEF BitsOf
<1> QED BY <1>1, <1>2, AllOnesBits

LEMMA GateStart == Init => GateInv
<1> SUFFICES ASSUME Init PROVE GateInv
  OBVIOUS
<1>1. GateTypes
  BY DEF Init, GateTypes, Steps
<1>2. ASSUME NEW p \in Party PROVE Paid(p) /\ InStep(p) /\ Accepts(p)
  <2>1. /\ pc[p] = "test" /\ cursor[p] = 0 /\ pending[p] = Gate /\ rejected[p] = 0
        /\ keyed[p] = 0 /\ chan[p] = <<>>
    BY DEF Init
  <2>2. Paid(p)
    <3>1. AndGates * (Count + 0) = AndGates * Count /\ 0 + AndGates * Count = AndGates * Count
      BY PoolSizes
    <3> QED BY <2>1, <3>1, GateSets, PoolSizes DEF Paid, Tests
  <2>3. InStep(p)
    BY <2>1, Parties DEF InStep, Init
  <2>4. Accepts(p)
    BY <2>1 DEF Accepts
  <2> QED BY <2>2, <2>3, <2>4
<1>3. SlackSuffices
  BY DEF SlackSuffices, Init
<1> QED BY <1>1, <1>2, <1>3 DEF GateInv

-------------------------------------------------------------------------------
(* Its steps.                                                                *)

\* The halves of a gate that are not sampled again are what they were.
LEMMA SameHalves ==
    ASSUME NEW g, \A p \in Party : half'[p][g] = half[p][g]
    PROVE  BitsOf(g)' = BitsOf(g)
<1>1. half'["R"][g] = half["R"][g] /\ half'["S"][g] = half["S"][g]
  BY Parties
<1> QED BY <1>1 DEF BitsOf

\* What p's and q's shares of the results tell p, they tell q.
LEMMA BadBoth ==
    ASSUME GateTypes, NEW p \in Party, NEW q \in Party, pending[p] = pending[q]
    PROVE  Bad(p, bit[q]) = Bad(q, bit[p])
<1>1. \A g \in Gate : bit[p][g] \in {0, 1} /\ bit[q][g] \in {0, 1}
  BY DEF GateTypes
<1>2. pending[p] \subseteq Gate
  BY DEF GateTypes
<1>3. \A g \in pending[p] : Xor(bit[p][g], bit[q][g]) = Xor(bit[q][g], bit[p][g])
  BY <1>1, <1>2, XorRange
<1> QED BY <1>3 DEF Bad

LEMMA TestStep ==
    ASSUME GateInv, TestMasks
    PROVE  GateInv'
<1>1. /\ \A p \in Party : pc[p] = "test" /\ cursor[p] + Price(p) <= PoolSize
      /\ cursor' = [p \in Party |-> cursor[p] + Price(p)]
      /\ Price("R") = Price("S")
      /\ pc' = [p \in Party |-> "open"]
      /\ UNCHANGED <<half, pending, rejected, resamples, mask, keyed>>
  BY DEF TestMasks, Together, Enough
<1>2. PICK r \in [Gate -> {0, 1}] :
        /\ \A g \in Gate \ pending["R"] : r[g] = 0
        /\ bit' = [p \in Party |-> [g \in Gate |->
                     IF g \notin pending[p] THEN 0
                     ELSE IF p = "R" THEN r[g] ELSE Xor(r[g], AllOnes(BitsOf(g)))]]
  BY DEF TestMasks
<1>3. chan' = [p \in Party |-> Append(chan[p], bit'[Peer(p)])]
  BY DEF TestMasks
<1>4. GateTypes /\ \A p \in Party : Paid(p) /\ InStep(p) /\ Accepts(p)
  BY DEF GateInv
<1>5. pending["R"] = pending["S"] /\ \A p \in Party : pending[p] = pending["R"]
  BY <1>1, <1>4, Parties DEF InStep, Party, Peer
<1>6. \A p \in Party : Price(p) = AndGates * Cardinality(pending[p]) /\ Price(p) \in Nat
  <2>1. \A n \in Nat : AndGates * n \in Nat
    BY PoolSizes
  <2> QED BY <1>1, <1>4, <2>1, GateSets DEF Price, GateTypes
<1>7. GateTypes'
  <2>1. bit' \in [Party -> [Gate -> {0, 1}]]
    <3>1. ASSUME NEW p \in Party, NEW g \in Gate
          PROVE  (IF g \notin pending[p] THEN 0
                  ELSE IF p = "R" THEN r[g] ELSE Xor(r[g], AllOnes(BitsOf(g)))) \in {0, 1}
      BY <1>4, MaskBitsOf, XorRange
    <3> QED BY <1>2, <3>1
  <2>2. cursor' \in [Party -> Nat]
    BY <1>1, <1>4, <1>6 DEF GateTypes
  <2> QED BY <1>1, <1>3, <1>4, <2>1, <2>2 DEF GateTypes, Steps
<1>8. \A g \in Gate : BitsOf(g)' = BitsOf(g)
  BY <1>1, SameHalves
<1>9. ASSUME NEW p \in Party PROVE Paid(p)'
  <2>1. cursor'[p] = Tests(p)
    BY <1>1, <1>4, <1>6 DEF Paid
  <2>2. Tests(p)' = Tests(p) /\ cursor'[p] <= PoolSize /\ pc'[p] = "open" /\ keyed'[p] = 0
    BY <1>1, <1>4 DEF Paid, Tests
  <2> QED BY <2>1, <2>2 DEF Paid
<1>10. ASSUME NEW p \in Party PROVE InStep(p)'
  <2>1. cursor'[p] = cursor'[Peer(p)]
    BY <1>1, <1>4, Parties DEF InStep, Party, Peer
  <2>2. chan'[p] = <<bit'[Peer(p)]>>
    <3>1. chan[p] = <<>>
      BY <1>1, <1>4 DEF InStep
    <3>2. chan'[p] = Append(<<>>, bit'[Peer(p)])
      BY <1>3, <3>1
    <3>3. \A x : Append(<<>>, x) = <<x>>
      OBVIOUS
    <3> QED BY <3>2, <3>3
  <2>3. pc'[p] = "open" /\ pc'[Peer(p)] = "open" /\ pending'[p] = pending'[Peer(p)]
        /\ keyed'[p] = keyed'[Peer(p)]
    BY <1>1, <1>4, <1>5, Parties DEF InStep
  <2> QED BY <2>1, <2>2, <2>3 DEF InStep
<1>11. ASSUME NEW p \in Party PROVE Accepts(p)'
  <2>1. pc'[p] = "open" /\ pending'[p] = pending[p]
    BY <1>1
  <2>2. \A g \in Gate \ pending'[p] : AllOnes(BitsOf(g)') = 0
    BY <1>1, <1>4, <1>8 DEF Accepts
  <2>3. ASSUME NEW g \in pending'[p] \ Bad(p, bit[Peer(p)])' PROVE AllOnes(BitsOf(g)') = 0
    <3>1. g \in Gate /\ g \in pending["R"] /\ g \in pending["S"]
      BY <1>4, <1>5, <2>1 DEF GateTypes
    <3>2. bit'["R"][g] = r[g] /\ bit'["S"][g] = Xor(r[g], AllOnes(BitsOf(g)))
      BY <1>2, <3>1, Parties
    <3>3. r[g] \in {0, 1} /\ AllOnes(BitsOf(g)) \in {0, 1}
      BY <1>4, <3>1, MaskBitsOf
    <3>4. Xor(bit'[p][g], bit'[Peer(p)][g]) # 1
      BY <2>3, <2>1 DEF Bad
    <3>5. Xor(bit'["R"][g], bit'["S"][g]) # 1
      <4>1. Xor(bit'["R"][g], bit'["S"][g]) = Xor(bit'["S"][g], bit'["R"][g])
        BY <3>2, <3>3, XorRange
      <4> QED BY <3>4, <4>1 DEF Party, Peer
    <3>6. \A x, a \in {0, 1} : Xor(x, Xor(x, a)) = a
      BY DEF Xor
    <3>7. AllOnes(BitsOf(g)) = 0
      BY <3>2, <3>3, <3>5, <3>6
    <3> QED BY <1>8, <3>1, <3>7
  <2> QED BY <2>1, <2>2, <2>3 DEF Accepts
<1>12. SlackSuffices'
  BY <1>1 DEF SlackSuffices
<1> QED BY <1>7, <1>9, <1>10, <1>11, <1>12 DEF GateInv

LEMMA OpenStep ==
    ASSUME GateInv, NEW p \in Party, OpenBits(p)
    PROVE  GateInv'
<1> DEFINE q == Peer(p)
           bad == Bad(p, bit[q])
<1>0. GateTypes /\ \A u \in Party : Paid(u) /\ InStep(u) /\ Accepts(u)
  BY DEF GateInv
<1>1. q \in Party /\ q # p /\ Peer(q) = p /\ \A u \in Party : u = p \/ u = q
  BY Parties
<1>2. pc[p] = "open" /\ chan[p] = <<bit[q]>> /\ Head(chan[p]) = bit[q] /\ Tail(chan[p]) = <<>>
  <2>1. pc[p] = "open" /\ chan[p] = <<bit[q]>>
    BY <1>0 DEF OpenBits, InStep
  <2>2. \A x : Head(<<x>>) = x /\ Tail(<<x>>) = <<>>
    OBVIOUS
  <2> QED BY <2>1, <2>2
<1>3. /\ chan' = [chan EXCEPT ![p] = <<>>]
      /\ rejected' = [rejected EXCEPT ![p] = @ + Cardinality(bad)]
      /\ UNCHANGED <<cursor, bit, mask, keyed>>
  BY <1>2 DEF OpenBits
<1>4. bad \in SUBSET pending[p] /\ bad \in SUBSET Gate /\ Cardinality(bad) \in Nat
      /\ (bad = {} => Cardinality(bad) = 0)
  <2>1. bad \in SUBSET pending[p] /\ pending[p] \in SUBSET Gate
    BY <1>0 DEF Bad, GateTypes
  <2> HIDE DEF bad
  <2> QED BY <2>1, GateSets
<1>5. \/ bad = {} /\ pc' = [pc EXCEPT ![p] = "convert"] /\ UNCHANGED <<half, pending, resamples>>
      \/ /\ bad # {} /\ resamples[p] = MaxResample
         /\ pc' = [pc EXCEPT ![p] = "stopped"] /\ UNCHANGED <<half, pending, resamples>>
      \/ bad # {} /\ resamples[p] # MaxResample /\ Resample(p, bad)
  BY <1>2 DEF OpenBits
\* In each case: where p goes, and what of its masks it keeps.
<1>6. /\ pc' \in [Party -> Steps]
      /\ pc'[p] \in {"convert", "stopped", "test"} /\ pc'[q] = pc[q]
      /\ pc'[p] = "convert" => bad = {}
      /\ pc'[p] = "stopped" => resamples[p] = MaxResample /\ resamples' = resamples
      /\ pending' \in [Party -> SUBSET Gate] /\ pending'[q] = pending[q]
      /\ pc'[p] = "test" => pending'[p] = bad
      /\ pc'[p] # "test" => pending'[p] = pending[p]
      /\ half' \in [Party -> [Gate -> Halves]]
      /\ \A g \in Gate \ bad, u \in Party : half'[u][g] = half[u][g]
      /\ resamples' \in [Party -> Nat]
      /\ \A u \in Party : resamples[u] = MaxResample => resamples'[u] = MaxResample
  <2> HIDE DEF bad, q
  <2>1. CASE bad = {} /\ pc' = [pc EXCEPT ![p] = "convert"] /\ UNCHANGED <<half, pending, resamples>>
    BY <1>0, <1>1, <2>1 DEF GateTypes, Steps
  <2>2. CASE /\ bad # {} /\ resamples[p] = MaxResample
             /\ pc' = [pc EXCEPT ![p] = "stopped"] /\ UNCHANGED <<half, pending, resamples>>
    BY <1>0, <1>1, <2>2 DEF GateTypes, Steps
  <2>3. CASE bad # {} /\ resamples[p] # MaxResample /\ Resample(p, bad)
    <3>1. PICK new \in [bad -> Halves] :
            half' = [half EXCEPT ![p] = [g \in Gate |-> IF g \in bad THEN new[g] ELSE @[g]]]
      BY <2>3 DEF Resample
    <3>2. /\ pending' = [pending EXCEPT ![p] = bad]
          /\ resamples' = [resamples EXCEPT ![p] = @ + 1]
          /\ pc' = [pc EXCEPT ![p] = "test"]
      BY <2>3 DEF Resample
    <3>3. half' \in [Party -> [Gate -> Halves]]
          /\ \A g \in Gate \ bad, u \in Party : half'[u][g] = half[u][g]
      BY <1>0, <1>1, <1>4, <3>1 DEF GateTypes
    <3>4. pc' \in [Party -> Steps] /\ pc'[p] = "test" /\ pc'[q] = pc[q]
      BY <1>0, <1>1, <3>2 DEF GateTypes, Steps
    <3>5. pending' \in [Party -> SUBSET Gate] /\ pending'[q] = pending[q] /\ pending'[p] = bad
      BY <1>0, <1>1, <1>4, <3>2 DEF GateTypes
    <3>6. resamples' \in [Party -> Nat]
          /\ \A u \in Party : resamples[u] = MaxResample => resamples'[u] = MaxResample
      BY <1>0, <1>1, <2>3, <3>2 DEF GateTypes
    <3> QED BY <3>3, <3>4, <3>5, <3>6
  <2> QED BY <1>5, <2>1, <2>2, <2>3
<1>7. \A g \in Gate \ bad : BitsOf(g)' = BitsOf(g)
  BY <1>6, SameHalves
<1>8. GateTypes'
  <2>1. rejected' \in [Party -> Nat]
    BY <1>0, <1>3, <1>4 DEF GateTypes
  <2> QED BY <1>0, <1>3, <1>6, <2>1 DEF GateTypes
<1>9. Paid(p)'
  <2>1. cursor[p] = Tests(p) /\ cursor[p] <= PoolSize /\ keyed[p] = 0
    BY <1>0, <1>2 DEF Paid
  <2>2. Tests(p)' = Tests(p) + AndGates * Cardinality(bad)
    <3>1. rejected'[p] = rejected[p] + Cardinality(bad) /\ rejected[p] \in Nat
      BY <1>0, <1>3 DEF GateTypes
    <3>2. \A c, n, k \in Nat : AndGates * (c + (n + k)) = AndGates * (c + n) + AndGates * k
      BY PoolSizes
    <3> QED BY <1>4, <3>1, <3>2, PoolSizes DEF Tests
  <2>3. cursor'[p] = cursor[p] /\ keyed'[p] = 0
    BY <1>3, <2>1
  <2>4. AndGates * 0 = 0 /\ \A n \in Nat : AndGates * n \in Nat
    BY PoolSizes
  <2>5. cursor[p] \in Nat
    BY <1>0 DEF GateTypes
  <2>6. CASE pc'[p] = "convert"
    <3>1. cursor'[p] = Tests(p)'
      BY <1>4, <1>6, <2>1, <2>2, <2>3, <2>4, <2>5, <2>6
    <3> QED BY <2>1, <2>3, <2>6, <3>1 DEF Paid
  <2>7. CASE pc'[p] = "test"
    <3>1. cursor'[p] + AndGates * Cardinality(pending'[p]) = Tests(p)'
      BY <1>6, <2>1, <2>2, <2>3, <2>7
    <3> QED BY <2>1, <2>3, <2>7, <3>1 DEF Paid
  <2>8. CASE pc'[p] = "stopped"
    BY <2>1, <2>3, <2>8 DEF Paid
  <2> QED BY <1>6, <2>6, <2>7, <2>8
<1>10. Paid(q)'
  <2>1. /\ cursor'[q] = cursor[q] /\ pc'[q] = pc[q] /\ pending'[q] = pending[q]
        /\ rejected'[q] = rejected[q] /\ keyed'[q] = keyed[q]
    BY <1>0, <1>1, <1>3, <1>6 DEF GateTypes
  <2>2. Paid(q)
    BY <1>0, <1>1
  <2> QED BY <2>1, <2>2 DEF Paid, Tests
<1>11. pc[q] \in {"open", "test", "convert", "stopped"}
  BY <1>0, <1>2 DEF InStep
<1>12. pc[q] = "open" => pending[p] = pending[q] /\ Bad(q, bit[p]) = bad /\ chan[q] = <<bit[p]>>
  <2>1. ASSUME pc[q] = "open" PROVE pending[p] = pending[q] /\ chan[q] = <<bit[p]>>
    BY <1>0, <1>1, <1>2, <2>1 DEF InStep
  <2> QED BY <1>0, <1>1, <2>1, BadBoth
<1>13. (Bad(q, bit[p]))' = Bad(q, bit[p]) /\ (Bad(p, bit[q]))' = {g \in pending'[p] : Xor(bit[p][g], bit[q][g]) = 1}
  BY <1>3, <1>6 DEF Bad
<1>14. chan'[p] = <<>> /\ chan'[q] = chan[q] /\ cursor'[p] = cursor'[q] /\ keyed'[p] = keyed'[q]
  <2>1. cursor[p] = cursor[q] /\ keyed[p] = keyed[q]
    BY <1>0 DEF InStep
  <2> QED BY <1>0, <1>1, <1>3, <2>1 DEF GateTypes
<1>15. InStep(p)'
  <2>1. pc'[p] = pc'[q] /\ pc'[p] = "test" => pending'[p] = pending'[q]
    BY <1>0, <1>2, <1>6 DEF InStep
  <2> QED BY <1>6, <1>14, <2>1 DEF InStep
<1>16. InStep(q)'
  <2>1. pc'[q] # "open" => chan'[q] = <<>>
    BY <1>0, <1>1, <1>6, <1>14 DEF InStep
  <2>2. pc'[q] = "open" => chan'[q] = <<bit'[p]>>
    BY <1>3, <1>6, <1>12, <1>14
  <2>3. pc'[q] = "open" /\ pc'[p] = "test" => pending'[p] = (Bad(q, bit[p]))'
    BY <1>6, <1>12, <1>13
  <2>4. pc'[q] = "open" /\ pc'[p] = "convert" => (Bad(q, bit[p]))' = {}
    BY <1>6, <1>12, <1>13
  <2>5. pc'[q] = pc'[p] /\ pc'[q] \in {"test", "open"} => pending'[q] = pending'[p]
    BY <1>0, <1>2, <1>6 DEF InStep
  <2> QED BY <1>1, <1>6, <1>14, <2>1, <2>2, <2>3, <2>4, <2>5 DEF InStep
\* A gate that is not bad has a good mask, and keeps it.
<1>17. \A g \in Gate \ bad : AllOnes(BitsOf(g)) = 0 /\ BitsOf(g)' = BitsOf(g)
  BY <1>0, <1>2, <1>7 DEF Accepts
<1>18. Accepts(p)'
  <2>1. CASE pc'[p] = "test"
    BY <1>6, <1>17, <2>1 DEF Accepts
  <2>2. CASE pc'[p] = "convert"
    BY <1>6, <1>17, <2>2 DEF Accepts
  <2>3. CASE pc'[p] = "stopped"
    BY <2>3 DEF Accepts
  <2> QED BY <1>6, <2>1, <2>2, <2>3
<1>19. Accepts(q)'
  <2>1. CASE pc[q] = "open"
    <3>1. pc'[q] = "open" /\ (Bad(q, bit[p]))' = bad /\ pending'[q] = pending[p] /\ pending'[q] = pending[q]
      BY <1>6, <1>12, <1>13, <2>1
    <3>2. \A g \in Gate \ pending'[q] : AllOnes(BitsOf(g)') = 0
      BY <1>4, <1>17, <3>1
    <3>3. \A g \in pending'[q] \ (Bad(q, bit[p]))' : AllOnes(BitsOf(g)') = 0
      <4>1. pending'[q] \subseteq Gate
        BY <1>0, <1>1, <3>1 DEF GateTypes
      <4> QED BY <1>17, <3>1, <4>1
    <3> HIDE DEF bad, q
    <3> QED BY <1>1, <3>1, <3>2, <3>3 DEF Accepts
  <2>2. CASE pc[q] = "test"
    <3>1. pending'[q] = bad /\ pc'[q] = "test"
      BY <1>0, <1>2, <1>6, <2>2 DEF InStep
    <3> QED BY <1>17, <3>1 DEF Accepts
  <2>3. CASE pc[q] = "convert"
    <3>1. bad = {} /\ pc'[q] = "convert"
      BY <1>0, <1>2, <1>6, <2>3 DEF InStep
    <3> QED BY <1>17, <3>1 DEF Accepts
  <2>4. CASE pc[q] = "stopped"
    BY <1>6, <2>4 DEF Accepts
  <2> QED BY <1>11, <2>1, <2>2, <2>3, <2>4
<1>20. SlackSuffices'
  <2>1. ASSUME pc'[p] = "stopped" PROVE SlackSuffices'
    BY <1>6, <2>1 DEF SlackSuffices
  <2>2. ASSUME pc'[q] = "stopped", pc'[p] # "stopped" PROVE SlackSuffices'
    <3>1. pc[q] = "stopped"
      BY <1>6, <2>2
    <3>2. PICK u \in Party : rejected[u] > Slack \/ resamples[u] = MaxResample
      BY <1>1, <3>1 DEF GateInv, SlackSuffices
    <3>3. rejected'[u] >= rejected[u] /\ rejected[u] \in Nat /\ rejected'[u] \in Nat
      BY <1>0, <1>3, <1>4 DEF GateTypes
    <3>4. rejected'[u] > Slack \/ resamples'[u] = MaxResample
      BY <1>6, <3>2, <3>3, PoolSizes
    <3> QED BY <3>4 DEF SlackSuffices
  <2> QED BY <1>1, <2>1, <2>2 DEF SlackSuffices
<1> QED BY <1>1, <1>8, <1>9, <1>10, <1>15, <1>16, <1>18, <1>19, <1>20 DEF GateInv

\* Conversion: the additive shares open to the number that the halves spell.
LEMMA ConvertStep ==
    ASSUME GateInv, Convert
    PROVE  GateInv'
<1>0. GateTypes /\ \A p \in Party : Paid(p) /\ InStep(p) /\ Accepts(p)
  BY DEF GateInv
<1>1. /\ \A p \in Party : pc[p] = "convert" /\ cursor[p] + Price(p) <= PoolSize
      /\ cursor' = [p \in Party |-> cursor[p] + Price(p)]
      /\ pc' = [p \in Party |-> "key"]
      /\ UNCHANGED <<half, pending, chan, bit, rejected, resamples, keyed>>
  BY DEF Convert, Together, Enough
<1>2. PICK r \in [Gate -> Shares] :
        mask' = [p \in Party |-> [g \in Gate |->
                    IF p = "R" THEN r[g] ELSE Sub(Weighted(BitsOf(g)), r[g])]]
  BY DEF Convert
<1>3. \A p \in Party : Price(p) = MaskBits * Count
  BY <1>1 DEF Price
<1>4. GateTypes'
  <2>1. ASSUME NEW p \in Party PROVE cursor[p] + Price(p) \in Nat
    <3>1. Price(p) \in Nat
      BY <1>3, PoolSizes
    <3>2. cursor[p] \in Nat
      BY <1>0 DEF GateTypes
    <3> QED BY ONLY <3>1, <3>2
  <2>2. cursor' \in [Party -> Nat]
    BY <1>1, <2>1
  <2> QED BY <1>0, <1>1, <2>2 DEF GateTypes, Steps
<1>5. ASSUME NEW p \in Party PROVE Paid(p)' /\ InStep(p)' /\ Accepts(p)'
  <2>1. pc'[p] = "key" /\ pc'[Peer(p)] = "key" /\ pc[p] = "convert" /\ Peer(p) \in Party
    BY <1>1, Parties
  <2>2. Paid(p)'
    <3>1. cursor[p] = Tests(p) /\ keyed[p] = 0 /\ Tests(p)' = Tests(p) /\ cursor[p] \in Nat
      BY <1>0, <1>1 DEF Paid, Tests, GateTypes
    <3>2. cursor'[p] = Tests(p) + MaskBits * Count /\ cursor'[p] <= PoolSize
      BY <1>1, <1>3, <3>1
    <3>3. Tests(p) + MaskBits * Count = Tests(p) + MaskBits * Count + OtsDkg * 0
      BY <3>1, PoolSizes
    <3> QED BY <1>1, <2>1, <3>1, <3>2, <3>3, PoolSizes DEF Paid
  <2>3. InStep(p)'
    <3>1. cursor'[p] = cursor'[Peer(p)] /\ keyed'[p] = keyed'[Peer(p)] /\ chan'[p] = <<>>
      BY <1>0, <1>1, <1>3, <2>1 DEF InStep
    <3> QED BY <2>1, <3>1 DEF InStep
  <2>4. Accepts(p)'
    <3>1. \A g \in Gate : BitsOf(g)' = BitsOf(g) /\ AllOnes(BitsOf(g)) = 0
      BY <1>0, <1>1, <2>1, SameHalves DEF Accepts
    <3>2. ASSUME NEW g \in Gate PROVE Add(mask'["R"][g], mask'["S"][g]) = Weighted(BitsOf(g))
      <4>1. mask'["R"][g] = r[g] /\ mask'["S"][g] = Sub(Weighted(BitsOf(g)), r[g])
        BY <1>2, Parties
      <4>2. r[g] \in Fp
        BY PipelineAssumption
      <4>3. Weighted(BitsOf(g)) \in Fp
        <5>1. BitsOf(g) \in [1..MaskBits -> {0, 1}]
          BY <1>0, MaskBitsOf
        <5>2. \E j \in 1..MaskBits : BitsOf(g)[j] # 1
          <6>1. AllOnes(BitsOf(g)) # 1
            BY <3>1
          <6>2. AllOnes(BitsOf(g)) = 1 <=> \A j \in 1..MaskBits : BitsOf(g)[j] = 1
            BY <5>1, AllOnesBits
          <6> QED BY <6>1, <6>2
        <5> QED BY <5>1, <5>2, WeightedBits
      <4> QED BY <4>1, <4>2, <4>3, ShareAndRest
    <3> QED BY <2>1, <3>1, <3>2 DEF Accepts
  <2> QED BY <2>2, <2>3, <2>4
<1>6. SlackSuffices'
  BY <1>1 DEF SlackSuffices
<1> QED BY <1>4, <1>5, <1>6 DEF GateInv

LEMMA KeyStep ==
    ASSUME GateInv, KeyGen
    PROVE  GateInv'
<1>0. GateTypes /\ \A p \in Party : Paid(p) /\ InStep(p) /\ Accepts(p)
  BY DEF GateInv
<1>1. /\ \A p \in Party : pc[p] = "key" /\ cursor[p] + Price(p) <= PoolSize
      /\ cursor' = [p \in Party |-> cursor[p] + Price(p)]
      /\ keyed["R"] = keyed["S"]
      /\ keyed' = [p \in Party |-> keyed[p] + 1]
      /\ pc' = [p \in Party |-> IF keyed'[p] = Count THEN "done" ELSE "key"]
      /\ UNCHANGED <<half, pending, chan, bit, rejected, resamples, mask>>
  BY DEF KeyGen, Together, Enough
<1>2. \A p \in Party : Price(p) = OtsDkg
  BY <1>1 DEF Price
<1>3. GateTypes'
  <2>1. cursor' \in [Party -> Nat] /\ keyed' \in [Party -> Nat]
    BY <1>0, <1>1, <1>2, PoolSizes DEF GateTypes
  <2> QED BY <1>0, <1>1, <2>1 DEF GateTypes, Steps
<1>4. \A p \in Party : pc'[p] \in {"key", "done"} /\ (pc'[p] = "key" => keyed'[p] # Count)
  BY <1>1
<1>5. ASSUME NEW p \in Party PROVE Paid(p)' /\ InStep(p)' /\ Accepts(p)'
  <2>1. Peer(p) \in Party
    BY Parties
  <2>2. Paid(p)'
    <3>1. /\ cursor[p] = Tests(p) + MaskBits * Count + OtsDkg * keyed[p] /\ keyed[p] < Count
          /\ keyed[p] \in Nat /\ cursor[p] \in Nat /\ rejected[p] \in Nat
      BY <1>0, <1>1 DEF Paid, GateTypes
    <3>2. Tests(p)' = Tests(p) /\ Tests(p) \in Nat
      <4>1. \A n \in Nat : AndGates * (Count + n) \in Nat
        BY PoolSizes
      <4> QED BY <1>1, <3>1, <4>1 DEF Tests
    <3>3. OtsDkg * (keyed[p] + 1) = OtsDkg * keyed[p] + OtsDkg /\ OtsDkg * keyed[p] \in Nat
      BY <3>1, PoolSizes
    <3>4. cursor'[p] = Tests(p) + MaskBits * Count + OtsDkg * (keyed[p] + 1)
          /\ cursor'[p] <= PoolSize /\ keyed'[p] = keyed[p] + 1
      BY <1>1, <1>2, <3>1, <3>2, <3>3, PoolSizes
    <3>5. keyed'[p] # Count => keyed'[p] < Count
      BY <3>1, <3>4, PoolSizes
    <3> QED BY <1>4, <3>2, <3>4, <3>5 DEF Paid
  <2>3. InStep(p)'
    <3>1. cursor'[p] = cursor'[Peer(p)] /\ keyed'[p] = keyed'[Peer(p)] /\ chan'[p] = <<>>
      BY <1>0, <1>1, <1>2, <2>1 DEF InStep
    <3> QED BY <1>4, <2>1, <3>1 DEF InStep
  <2>4. Accepts(p)'
    <3>1. \A g \in Gate : BitsOf(g)' = BitsOf(g)
      BY <1>1, SameHalves
    <3>2. \A g \in Gate : AllOnes(BitsOf(g)) = 0
                          /\ Add(mask["R"][g], mask["S"][g]) = Weighted(BitsOf(g))
      BY <1>0, <1>1 DEF Accepts
    <3> QED BY <1>1, <1>4, <3>1, <3>2 DEF Accepts
  <2> QED BY <2>2, <2>3, <2>4
<1>6. SlackSuffices'
  BY <1>4 DEF SlackSuffices
<1> QED BY <1>3, <1>5, <1>6 DEF GateInv

\* A party whose pool does not last has seen more rejections than it allows for.
LEMMA Exhausted ==
    ASSUME GateInv, NEW p \in Party, ~Enough(p)
    PROVE  rejected[p] > Slack
<1>0. GateTypes /\ Paid(p)
  BY DEF GateInv
<1>1. cursor[p] + Price(p) > PoolSize /\ cursor[p] \in Nat /\ rejected[p] \in Nat
      /\ keyed[p] \in Nat /\ Cardinality(pending[p]) \in Nat /\ pc[p] \in Steps
      /\ cursor[p] <= PoolSize /\ Price(p) \in Nat
  <2>1. Cardinality(pending[p]) \in Nat /\ cursor[p] \in Nat
    BY <1>0, GateSets DEF GateTypes
  <2>2. Price(p) \in Nat
    <3>1. \A n \in Nat : AndGates * n \in Nat
      BY PoolSizes
    <3> QED BY <2>1, <3>1, PoolSizes DEF Price
  <2> QED BY <1>0, <2>1, <2>2, PoolSizes DEF GateTypes, Paid, Enough
<1>2. Tests(p) = AndGates * Count + AndGates * rejected[p] /\ AndGates * rejected[p] \in Nat
  <2>1. \A n \in Nat : AndGates * (Count + n) = AndGates * Count + AndGates * n
                       /\ AndGates * n \in Nat
    BY PoolSizes
  <2> QED BY <1>1, <2>1 DEF Tests
<1>3. AndGates * rejected[p] > AndGates * Slack
  <2>1. CASE pc[p] = "test"
    <3>1. cursor[p] + Price(p) = Tests(p)
      BY <1>0, <2>1 DEF Paid, Price
    <3> QED BY <1>1, <1>2, <3>1, PoolSizes
  <2>2. CASE pc[p] = "convert"
    <3>1. cursor[p] + Price(p) = Tests(p) + MaskBits * Count
      BY <1>0, <2>2 DEF Paid, Price
    <3> QED BY <1>1, <1>2, <3>1, PoolSizes
  <2>3. CASE pc[p] = "key"
    <3>1. /\ cursor[p] + Price(p) = Tests(p) + MaskBits * Count + OtsDkg * keyed[p] + OtsDkg
          /\ keyed[p] < Count
      BY <1>0, <2>3 DEF Paid, Price
    <3>2. OtsDkg * keyed[p] + OtsDkg <= OtsDkg * Count /\ OtsDkg * keyed[p] \in Nat
      <4>1. \A k, c \in Nat : k < c => OtsDkg * k + OtsDkg <= OtsDkg * c /\ OtsDkg * k \in Nat
        <5>1. TAKE k, c \in Nat
        <5>2. HAVE k < c
        <5>3. OtsDkg * c = OtsDkg * (k + 1) + OtsDkg * (c - (k + 1))
              /\ OtsDkg * (k + 1) = OtsDkg * k + OtsDkg
          BY PoolSizes
        <5>4. c - (k + 1) \in Nat
          BY <5>2
        <5>5. \A n \in Nat : OtsDkg * n \in Nat
          BY PoolSizes
        <5> QED BY <5>3, <5>4, <5>5, PoolSizes
      <4> QED BY <1>1, <3>1, <4>1, PoolSizes
    <3> QED BY <1>1, <1>2, <3>1, <3>2, PoolSizes
  <2>4. CASE pc[p] \notin {"test", "convert", "key"}
    <3>1. Price(p) = 0
      BY <2>4 DEF Price
    <3> QED BY <1>1, <3>1, PoolSizes
  <2> QED BY <2>1, <2>2, <2>3, <2>4
<1>4. \A m, n \in Nat : m <= n => AndGates * m <= AndGates * n
  <2>1. \A a, m, n \in Nat : m <= n => a * m <= a * n
    OBVIOUS
  <2> QED BY <2>1, PoolSizes
<1> QED BY <1>1, <1>2, <1>3, <1>4, PoolSizes

LEMMA StopStep ==
    ASSUME GateInv, NEW p \in Party, Stop(p)
    PROVE  GateInv'
<1>0. GateTypes /\ \A u \in Party : Paid(u) /\ InStep(u) /\ Accepts(u)
  BY DEF GateInv
<1>1. pc' = [pc EXCEPT ![p] = "stopped"]
      /\ UNCHANGED <<half, pending, cursor, chan, bit, rejected, resamples, mask, keyed>>
  BY DEF Stop
<1> DEFINE q == Peer(p)
<1>2. q \in Party /\ q # p /\ Peer(q) = p /\ \A u \in Party : u = p \/ u = q
  BY Parties
<1>3. pc'[p] = "stopped" /\ pc'[q] = pc[q] /\ pc' \in [Party -> Steps]
  BY <1>0, <1>1, <1>2 DEF GateTypes, Steps
\* While results are on their way nobody stops.
<1>4. pc[p] # "open"
  <2>1. SUFFICES ASSUME pc[p] = "open" PROVE FALSE
    OBVIOUS
  <2>2. chan[p] = <<bit[q]>> /\ <<bit[q]>> # <<>>
    BY <1>0, <2>1 DEF InStep
  <2>3. Enough(p)
    BY <1>0, <2>1 DEF Enough, Price, Paid, GateTypes
  <2> QED BY <2>2, <2>3 DEF Stop
<1>5. GateTypes'
  BY <1>0, <1>1, <1>3 DEF GateTypes
<1>6. \A g \in Gate : BitsOf(g)' = BitsOf(g)
  BY <1>1, SameHalves
<1>7. Paid(p)' /\ InStep(p)' /\ Accepts(p)'
  <2>1. Paid(p)'
    BY <1>0, <1>1, <1>3 DEF Paid
  <2>2. InStep(p)'
    BY <1>0, <1>1, <1>3, <1>4 DEF InStep
  <2>3. Accepts(p)'
    BY <1>3 DEF Accepts
  <2> QED BY <2>1, <2>2, <2>3
<1>8. Paid(q)' /\ InStep(q)' /\ Accepts(q)'
  <2>0. Paid(q) /\ InStep(q) /\ Accepts(q)
    BY <1>0, <1>2
  <2>1. Paid(q)'
    BY <1>1, <1>3, <2>0 DEF Paid, Tests
  <2>2. InStep(q)'
    BY <1>1, <1>2, <1>3, <2>0 DEF InStep, Bad
  <2>3. Accepts(q)'
    <3>1. Bad(q, bit[p])' = Bad(q, bit[p])
      BY <1>1 DEF Bad
    <3>2. pending[q] \subseteq Gate
      BY <1>0, <1>2 DEF GateTypes
    <3> QED BY <1>1, <1>2, <1>3, <1>6, <2>0, <3>1, <3>2 DEF Accepts
  <2> QED BY <2>1, <2>2, <2>3
<1>9. SlackSuffices'
  <2>1. CASE ~Enough(p)
    <3>1. rejected'[p] > Slack
      BY <1>1, <2>1, Exhausted
    <3> QED BY <3>1 DEF SlackSuffices
  <2>2. CASE pc[q] = "stopped"
    <3>1. \E u \in Party : rejected[u] > Slack \/ resamples[u] = MaxResample
      BY <1>2, <2>2 DEF GateInv, SlackSuffices
    <3> QED BY <1>1, <3>1 DEF SlackSuffices
  <2> QED BY <2>1, <2>2 DEF Stop
<1> QED BY <1>2, <1>5, <1>7, <1>8, <1>9 DEF GateInv

LEMMA GateNext == GateInv /\ [Next]_vars => GateInv'
<1> SUFFICES ASSUME GateInv, [Next]_vars PROVE GateInv'
  OBVIOUS
<1>1. CASE TestMasks
  BY <1>1, TestStep
<1>2. CASE Convert
  BY <1>2, ConvertStep
<1>3. CASE KeyGen
  BY <1>3, KeyStep
<1>4. CASE \E p \in Party : OpenBits(p)
  BY <1>4, OpenStep
<1>5. CASE \E p \in Party : Stop(p)
  BY <1>5, StopStep
<1>6. CASE Rest \/ UNCHANGED vars
  <2>1. UNCHANGED vars
    BY <1>6 DEF Rest
  <2>2. GateTypes' /\ SlackSuffices'
    BY <2>1 DEF GateInv, GateTypes, SlackSuffices, vars
  <2>3. \A g \in Gate : BitsOf(g)' = BitsOf(g)
    BY <2>1, SameHalves DEF vars
  <2>4. ASSUME NEW p \in Party PROVE Paid(p)' /\ InStep(p)' /\ Accepts(p)'
    <3>0. Paid(p) /\ InStep(p) /\ Accepts(p) /\ pending[p] \subseteq Gate
      BY DEF GateInv, GateTypes
    <3>1. Paid(p)'
      BY <2>1, <3>0 DEF Paid, Tests, vars
    <3>2. InStep(p)'
      BY <2>1, <3>0 DEF InStep, Bad, vars
    <3>3. Accepts(p)'
      <4>1. Bad(p, bit[Peer(p)])' = Bad(p, bit[Peer(p)])
        BY <2>1 DEF Bad, vars
      <4> QED BY <2>1, <2>3, <3>0, <4>1 DEF Accepts, vars
    <3> QED BY <3>1, <3>2, <3>3
  <2> QED BY <2>2, <2>4 DEF GateInv
<1> QED BY <1>1, <1>2, <1>3, <1>4, <1>5, <1>6 DEF Next

THEOREM GateInvariant == Spec => []GateInv
BY GateStart, GateNext, PTL DEF Spec

\* The digits of a finished gate's mask are those its key was made at
\* (ztgate_pipeline.cpp:261-300).
THEOREM GatesSoundHolds == Spec => []GatesSound
<1>1. ASSUME GateInv PROVE GatesSound
  <2>1. SUFFICES ASSUME \A p \in Party : pc[p] = "done", NEW g \in Gate, NEW j \in 1..Digits
                 PROVE  Digit(Add(mask["R"][g], mask["S"][g]), j)
                          = XorOf(Digit(half["R"][g], j), Digit(half["S"][g], j))
    BY DEF GatesSound
  <2>2. AllOnes(BitsOf(g)) = 0 /\ Add(mask["R"][g], mask["S"][g]) = Weighted(BitsOf(g))
    BY <1>1, <2>1, Parties DEF GateInv, Accepts
  <2>3. half["R"][g] \in 0..P /\ half["S"][g] \in 0..P
    BY <1>1, MaskBitsOf DEF GateInv
  <2>4. BitsOf(g) = [k \in 1..MaskBits |->
                        Xor(Bit(half["R"][g], k - 1), Bit(half["S"][g], k - 1))]
    BY DEF BitsOf
  <2>5. \A x, y \in 0..P : \A b :
            /\ b = [k \in 1..MaskBits |-> Xor(Bit(x, k - 1), Bit(y, k - 1))]
            /\ AllOnes(b) = 0
            => Digit(Weighted(b), j) = XorOf(Digit(x, j), Digit(y, j))
    BY <2>1, DigitsOfMask
  <2>6. Digit(Weighted(BitsOf(g)), j) = XorOf(Digit(half["R"][g], j), Digit(half["S"][g], j))
    BY ONLY <2>2, <2>3, <2>4, <2>5
  <2> QED BY <2>2, <2>6
<1> QED BY <1>1, GateInvariant, PTL

\* What decides is public: parties that enter a joint step enter the same one, on
\* the same gates, with the same OTs (ztgate_pipeline.cpp:252-291).
THEOREM SameOtsHolds == Spec => []SameOts
<1>1. GateInv => SameOts
  BY Parties DEF GateInv, SameOts, InStep, Party, Peer
<1> QED BY <1>1, GateInvariant, PTL

\* A batch fails only after more rejections than its pool allows for, or too many
\* in a row (setup.cpp:58-69).
THEOREM SlackSufficesHolds == Spec => []SlackSuffices
<1>1. GateInv => SlackSuffices
  BY DEF GateInv
<1> QED BY <1>1, GateInvariant, PTL

===============================================================================
