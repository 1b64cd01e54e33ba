----------------------------- MODULE TripleProofs -----------------------------
(***************************************************************************)
(* The triples of a batch multiply, and a batch ends early for nothing but *)
(* choices that spell P: for every size of batch, field and pool, whatever *)
(* the pads, the choices and the samples are.                              *)
(*                                                                         *)
(* First one oblivious linear evaluation: row by row, the Sender's sum     *)
(* falls behind the Receiver's by x times what the choices have spelled so *)
(* far.  Then an invariant of the two parties.                             *)
(***************************************************************************)
EXTENDS TripleGeneration, FieldProofs, SequenceTheorems

LEMMA TripleSizes ==
    /\ OlePerCallOts \in Nat \ {0} /\ 2 ^ OlePerCallOts = Base /\ P = 2 ^ OlePerCallOts - 1
    /\ Count \in Nat \ {0} /\ PoolSize \in Nat
    /\ P \in Nat /\ P > 1 /\ WordSize \in Nat
    /\ 0 \in Fp
    /\ \A i \in 1..OlePerCallOts : 2 ^ (i - 1) \in Fp
<1> DEFINE n == OlePerCallOts
<1>1. /\ n \in Nat \ {0} /\ 2 ^ n = Base /\ P = 2 ^ n - 1 /\ Count \in Nat \ {0}
      /\ P \in Nat /\ P > 1 /\ WordSize \in Nat /\ Base > 2
  BY TripleAssumption, FieldAssumption, Sizes DEF P
<1>2. PoolSize \in Nat
  <2>1. \A c \in Nat : 2 * n * c \in Nat
    BY <1>1
  <2> QED BY <1>1, <2>1 DEF PoolSize
<1>3. 0 \in Fp
  BY <1>1 DEF Fp
<1>4. ASSUME NEW i \in 1..n PROVE 2 ^ (i - 1) \in Fp
  <2>1. PICK h \in Nat : h = n - 1
    BY <1>1
  <2>2. n = h + 1 /\ i - 1 \in 0..h
    BY <1>1, <2>1
  <2>3. 2 ^ n = 2 * 2 ^ h /\ 2 ^ h \in Nat
    BY <2>2, Doubles
  <2>4. 2 ^ (i - 1) <= 2 ^ h /\ 2 ^ (i - 1) \in Nat
    BY <2>2, PowGrows, PowNat
  <2>5. \A t, u \in Nat : P = 2 * t - 1 /\ u <= t => u \in 0..(P - 1)
    BY <1>1
  <2> QED BY <1>1, <2>3, <2>4, <2>5 DEF Fp
<1> QED BY <1>1, <1>2, <1>3, <1>4

-------------------------------------------------------------------------------
(* Sums over the rows of a call.                                             *)

\* The sum of field elements, row by row.
Adds(s, f) ==
    /\ s \in [0..OlePerCallOts -> Fp] /\ s[0] = 0
    /\ \A i \in 1..OlePerCallOts : s[i] = Add(s[i - 1], f[i])

LEMMA TotalAdds ==
    ASSUME NEW f, \A i \in 1..OlePerCallOts : f[i] \in Fp
    PROVE  \E s : Adds(s, f) /\ Total(f) = s[OlePerCallOts]
<1> DEFINE n == OlePerCallOts
           Rec(s) == s = [i \in 0..n |-> IF i = 0 THEN 0 ELSE Add(s[i - 1], f[i])]
           s == CHOOSE s : Rec(s)
           G == [i \in 1..n |-> [v \in Fp |-> Add(v, f[i])]]
<1>1. Total(f) = s[n]
  BY DEF Total
<1>2. G \in [1..n -> [Fp -> Fp]]
  BY AddCorrect
<1>3. PICK g \in [0..n -> Fp] : Recursive(g, n, 0, G)
  <2>1. 0 \in Fp /\ n \in Nat
    BY TripleSizes
  <2> HIDE DEF G
  <2> QED BY ONLY <1>2, <2>1, TypedRecursion, Zenon
<1>4. ASSUME NEW i \in 0..n PROVE g[i] = IF i = 0 THEN 0 ELSE Add(g[i - 1], f[i])
  <2>1. g[i] = IF i = 0 THEN 0 ELSE G[i][g[i - 1]]
    BY <1>3 DEF Recursive
  <2>2. CASE i # 0
    <3>1. i \in 1..n /\ i - 1 \in 0..n
      BY <2>2, TripleSizes
    <3>2. g[i - 1] \in Fp
      BY <1>3, <3>1
    <3> QED BY <2>1, <2>2, <3>1, <3>2
  <2> QED BY <2>1, <2>2
<1>5. Rec(g)
  BY <1>3, <1>4
<1>6. Rec(s)
  <2> HIDE DEF Rec
  <2> QED BY <1>5
<1> HIDE DEF s
<1>7. \A i \in 0..n : s[i] = IF i = 0 THEN 0 ELSE Add(s[i - 1], f[i])
  BY <1>6
<1>8. \A i \in 0..n : s[i] \in Fp
  <2> DEFINE S == {i \in Nat : i <= n => s[i] \in Fp}
  <2>1. 0 \in S
    BY <1>7, TripleSizes
  <2>2. ASSUME NEW i \in Nat, i \in S PROVE i + 1 \in S
    <3>1. SUFFICES ASSUME i + 1 <= n PROVE s[i + 1] \in Fp
      OBVIOUS
    <3>2. i + 1 \in 0..n /\ i + 1 # 0 /\ (i + 1) - 1 = i /\ i + 1 \in 1..n /\ s[i] \in Fp
      BY <2>2, <3>1, TripleSizes
    <3> QED BY <1>7, <3>2, AddCorrect
  <2> HIDE DEF S
  <2>3. \A i \in Nat : i \in S
    BY <2>1, <2>2, Induction
  <2> QED BY <2>3, TripleSizes DEF S
<1>9. Adds(s, f)
  <2>1. s = [i \in 0..n |-> s[i]]
    BY <1>6
  <2>2. 0 \in 0..n /\ \A i \in 1..n : i \in 0..n /\ i # 0
    BY TripleSizes
  <2> QED BY <1>7, <1>8, <2>1, <2>2 DEF Adds
<1> QED BY <1>1, <1>9

\* Choices of a call, and what they spell.
Choices(slice) == [i \in 1..OlePerCallOts |-> slice[i].choice]

LEMMA DeltaSpells ==
    ASSUME NEW slice, Choices(slice) \in [1..OlePerCallOts -> {0, 1}]
    PROVE  /\ DeltaFromChoices(slice) \in 0..P
           /\ \A i \in 1..OlePerCallOts :
                BinaryDecomposition(DeltaFromChoices(slice))[i] = slice[i].choice
           /\ \E d \in [0..OlePerCallOts -> Int] :
                /\ d[0] = 0 /\ d[OlePerCallOts] = DeltaFromChoices(slice)
                /\ \A i \in 1..OlePerCallOts :
                     d[i] = d[i - 1] + slice[i].choice * 2 ^ (i - 1)
<1> DEFINE n == OlePerCallOts
           b == Choices(slice)
           Rec(s) == s = [i \in 0..n |->
                             IF i = 0 THEN 0 ELSE s[i - 1] + slice[i].choice * 2 ^ (i - 1)]
           s == CHOOSE s : Rec(s)
<1>1. DeltaFromChoices(slice) = s[n]
  BY DEF DeltaFromChoices
<1>2. PICK g \in [0..n -> Int] : Sums2(g, b, n)
  <2>1. n \in Nat /\ b \in [1..n -> {0, 1}]
    BY TripleSizes
  <2> HIDE DEF n, b
  <2> QED BY ONLY <2>1, ExactSum
<1>3. Rec(g)
  <2>1. \A i \in 1..n : b[i] = slice[i].choice
    BY DEF Choices
  <2>2. \A i \in 0..n : g[i] = IF i = 0 THEN 0 ELSE g[i - 1] + slice[i].choice * 2 ^ (i - 1)
    BY <1>2, <2>1, TripleSizes DEF Sums2
  <2> QED BY <1>2, <2>2
<1>4. Rec(s)
  <2> HIDE DEF Rec
  <2> QED BY <1>3
<1> HIDE DEF s
<1>5. Sums2(s, b, n) /\ s = [i \in 0..n |-> s[i]]
  <2>1. \A i \in 1..n : b[i] = slice[i].choice
    BY DEF Choices
  <2>2. \A i \in 0..n : s[i] = IF i = 0 THEN 0 ELSE s[i - 1] + slice[i].choice * 2 ^ (i - 1)
    BY <1>4
  <2>3. 0 \in 0..n /\ \A i \in 1..n : i \in 0..n /\ i # 0
    BY TripleSizes
  <2> QED BY <1>4, <2>1, <2>2, <2>3 DEF Sums2
<1>6. /\ \A j \in 0..n : s[j] \in 0..(2 ^ j - 1)
      /\ s[n] \in 0..(2 ^ n - 1)
      /\ \A i \in 1..n : Bit(s[n], i - 1) = b[i]
  <2>1. n \in Nat /\ b \in [1..n -> {0, 1}]
    BY TripleSizes
  <2>2. Sums2(s, b, n)
    BY <1>5
  <2> HIDE DEF n, b
  <2> QED BY ONLY <2>1, <2>2, BitsOfSum, SMTT(30)
<1>7. s \in [0..n -> Int]
  <2>1. \A j \in 0..n : s[j] \in Int
    BY <1>6
  <2> QED BY <1>5, <2>1
<1>8. s[0] = 0 /\ \A i \in 1..n : s[i] = s[i - 1] + slice[i].choice * 2 ^ (i - 1)
  BY <1>5 DEF Sums2, Choices
<1>9. \A i \in 1..n : BinaryDecomposition(s[n])[i] = slice[i].choice
  BY <1>6 DEF BinaryDecomposition, Choices
<1> QED BY <1>1, <1>6, <1>7, <1>8, <1>9, TripleSizes

-------------------------------------------------------------------------------
(* One oblivious linear evaluation.                                          *)

CallSlice(slice) ==
    DOMAIN slice = 1..OlePerCallOts /\ \A i \in 1..OlePerCallOts : slice[i] \in Ot

LEMMA Pads ==
    ASSUME NEW ot \in Ot
    PROVE  /\ ot.choice \in {0, 1}
           /\ \A c \in {0, 1} : FromBlock(ot.pads[c]) \in Fp
<1>1. ot.choice \in {0, 1} /\ \A c \in {0, 1} : ot.pads[c] \in 0..(WordSize - 1)
  BY DEF Ot
<1>2. \A w \in 0..(WordSize - 1) : FromBlock(w) \in Fp
  BY TripleSizes, FromU64Correct DEF FromBlock
<1> QED BY <1>1, <1>2

LEMMA FpInts == \A x \in Fp : x \in Int
BY TripleSizes DEF Fp

LEMMA CorrectionIs ==
    ASSUME NEW ot \in Ot, NEW i \in 1..OlePerCallOts, NEW x \in Fp
    PROVE  /\ Correction(ot, i, x) \in Fp
           /\ Congruent(Correction(ot, i, x),
                        FromBlock(ot.pads[0]) - FromBlock(ot.pads[1]) - x * 2 ^ (i - 1))
<1> DEFINE u == FromBlock(ot.pads[0])
           v == FromBlock(ot.pads[1])
           w == 2 ^ (i - 1)
<1>1. u \in Fp /\ v \in Fp /\ w \in Fp /\ x \in Fp
  BY Pads, TripleSizes
<1>2. Correction(ot, i, x) = Sub(Sub(u, v), Mul(x, w))
  BY DEF Correction
<1> HIDE DEF u, v, w
<1>3. Sub(u, v) \in Fp /\ Congruent(Sub(u, v), u - v)
  BY <1>1, SubCorrect
<1>4. Mul(x, w) \in Fp /\ Congruent(Mul(x, w), x * w)
  BY <1>1, MulCorrect
<1>5. /\ Sub(Sub(u, v), Mul(x, w)) \in Fp
      /\ Congruent(Sub(Sub(u, v), Mul(x, w)), Sub(u, v) - Mul(x, w))
  BY <1>3, <1>4, SubCorrect
<1>6. /\ u \in Int /\ v \in Int /\ u - v \in Int /\ x * w \in Int
      /\ Sub(u, v) \in Int /\ Mul(x, w) \in Int
      /\ Sub(Sub(u, v), Mul(x, w)) \in Int
      /\ Sub(u, v) - Mul(x, w) \in Int /\ (u - v) - x * w \in Int
  <2>1. u \in Int /\ v \in Int /\ x \in Int /\ w \in Int
        /\ Sub(u, v) \in Int /\ Mul(x, w) \in Int /\ Sub(Sub(u, v), Mul(x, w)) \in Int
    BY <1>1, <1>3, <1>4, <1>5, FpInts
  <2>2. x * w \in Int
    BY <2>1
  <2> QED BY <2>1, <2>2
<1>7. Congruent(Sub(u, v) - Mul(x, w), (u - v) - x * w)
  BY <1>3, <1>4, <1>6, CongruentSum
<1>8. Congruent(Sub(Sub(u, v), Mul(x, w)), (u - v) - x * w)
  BY <1>5, <1>6, <1>7, Transitive
<1> QED BY <1>2, <1>5, <1>8 DEF u, v, w

\* What the Sender adds for a row: the Receiver's pad, less x * 2^(i-1) if the
\* choice is 1.
LEMMA RowIs ==
    ASSUME NEW ot \in Ot, NEW i \in 1..OlePerCallOts, NEW x \in Fp, NEW row,
           row = (LET pad == FromBlock(ot.pads[ot.choice])
                  IN  IF ot.choice = 1 THEN Add(pad, Correction(ot, i, x)) ELSE pad)
    PROVE  /\ row \in Fp
           /\ Congruent(row, FromBlock(ot.pads[0]) - x * (ot.choice * 2 ^ (i - 1)))
<1> DEFINE u == FromBlock(ot.pads[0])
           v == FromBlock(ot.pads[1])
           w == 2 ^ (i - 1)
           c == Correction(ot, i, x)
<1>1. u \in Fp /\ v \in Fp /\ w \in Fp /\ ot.choice \in {0, 1}
  BY Pads, TripleSizes
<1>2. c \in Fp /\ Congruent(c, u - v - x * w)
  BY CorrectionIs
<1>3. ot.choice = 0 => row = u
  OBVIOUS
<1>4. ot.choice = 1 => row = Add(v, c)
  OBVIOUS
<1> HIDE DEF u, v, w, c
<1>5. u \in Int /\ v \in Int /\ w \in Int /\ c \in Int /\ x \in Int /\ x * w \in Int
  <2>1. u \in Int /\ v \in Int /\ w \in Int /\ c \in Int /\ x \in Int
    BY <1>1, <1>2, FpInts
  <2> QED BY <2>1
<1>6. CASE ot.choice = 0
  <2>1. x * (ot.choice * w) = 0
    BY <1>5, <1>6
  <2>2. u - 0 = u
    BY <1>5
  <2>3. Congruent(u, u - x * (ot.choice * w))
    BY <1>5, <2>1, <2>2, Shift
  <2> QED BY <1>1, <1>3, <1>6, <2>3 DEF u, w
<1>7. CASE ot.choice = 1
  <2>1. Add(v, c) \in Fp /\ Congruent(Add(v, c), v + c)
    BY <1>1, <1>2, AddCorrect
  <2>2. Congruent(v + c, v + (u - v - x * w))
    <3>1. Congruent(v, v) /\ u - v - x * w \in Int
      BY <1>5, Shift
    <3> QED BY <1>2, <1>5, <3>1, CongruentSum
  <2>3. v + (u - v - x * w) = u - x * (ot.choice * w)
    <3>1. ot.choice * w = w
      BY <1>5, <1>7
    <3>2. \A t \in Int : v + (u - v - t) = u - t
      BY <1>5
    <3> QED BY <1>5, <3>1, <3>2
  <2>4. Add(v, c) \in Int /\ v + c \in Int /\ v + (u - v - x * w) \in Int
    <3>1. \A t \in Int : v + (u - v - t) \in Int
      BY <1>5
    <3>2. Add(v, c) \in Int
      BY <2>1, FpInts
    <3>3. v + c \in Int
      BY <1>5
    <3> QED BY <1>5, <3>1, <3>2, <3>3
  <2>5. Congruent(Add(v, c), u - x * (ot.choice * w))
    BY <2>1, <2>2, <2>3, <2>4, Transitive
  <2> QED BY <1>4, <1>7, <2>1, <2>5 DEF u, w
<1> QED BY <1>1, <1>6, <1>7

\* The call: for the y that the choices spell, the Receiver has v + x * y.
LEMMA OleCorrect ==
    ASSUME NEW slice, CallSlice(slice), NEW x \in Fp, NEW corrections,
           corrections = [i \in 1..OlePerCallOts |-> Correction(slice[i], i, x)]
    PROVE  LET y == DeltaFromChoices(slice)
               v == SenderVole(slice, corrections, y)
               w == ReceiverVole(slice)
           IN  /\ \A i \in 1..OlePerCallOts : corrections[i] \in Fp
               /\ y \in 0..P /\ v \in Fp /\ w \in Fp
               /\ Congruent(v, w - x * y)
<1> DEFINE n == OlePerCallOts
           y == DeltaFromChoices(slice)
           pad == [i \in 1..n |-> FromBlock(slice[i].pads[0])]
           row == [i \in 1..n |->
                      LET mine == FromBlock(slice[i].pads[slice[i].choice])
                      IN  IF slice[i].choice = 1 THEN Add(mine, corrections[i]) ELSE mine]
<1>1. \A i \in 1..n : slice[i] \in Ot /\ slice[i].choice \in {0, 1}
  BY Pads DEF CallSlice
<1>2. Choices(slice) \in [1..n -> {0, 1}]
  BY <1>1 DEF Choices
<1>3. y \in 0..P /\ \A i \in 1..n : BinaryDecomposition(y)[i] = slice[i].choice
  BY <1>2, DeltaSpells
<1>4. PICK d \in [0..n -> Int] :
        /\ d[0] = 0 /\ d[n] = y
        /\ \A i \in 1..n : d[i] = d[i - 1] + slice[i].choice * 2 ^ (i - 1)
  BY <1>2, DeltaSpells
<1>5. ReceiverVole(slice) = Total(pad)
  BY DEF ReceiverVole, CallSlice
<1>6. SenderVole(slice, corrections, y) = Total(row)
  <2>1. row = [i \in DOMAIN slice |->
                  LET mine == FromBlock(slice[i].pads[slice[i].choice])
                  IN  IF BinaryDecomposition(y)[i] = 1 THEN Add(mine, corrections[i]) ELSE mine]
    BY <1>3 DEF CallSlice
  <2> HIDE DEF row, y
  <2> QED BY <2>1 DEF SenderVole
<1>7. \A i \in 1..n : corrections[i] = Correction(slice[i], i, x) /\ corrections[i] \in Fp
  BY <1>1, CorrectionIs
<1>8. \A i \in 1..n : pad[i] \in Fp
  BY <1>1, Pads
<1>9. \A i \in 1..n : /\ row[i] \in Fp
                      /\ Congruent(row[i], pad[i] - x * (slice[i].choice * 2 ^ (i - 1)))
  <2>1. TAKE i \in 1..n
  <2>2. row[i] = (LET mine == FromBlock(slice[i].pads[slice[i].choice])
                  IN  IF slice[i].choice = 1 THEN Add(mine, Correction(slice[i], i, x)) ELSE mine)
    BY <1>7
  <2> QED BY <1>1, <2>2, RowIs
<1> HIDE DEF pad, row, y, n
<1>10. PICK r : Adds(r, pad) /\ Total(pad) = r[n]
  BY <1>8, TotalAdds DEF n
<1>11. PICK s : Adds(s, row) /\ Total(row) = s[n]
  BY <1>9, TotalAdds DEF n
<1>12. n \in Nat /\ n # 0 /\ x \in Int
  BY TripleSizes, FpInts DEF n
<1> DEFINE S == {i \in Nat : i <= n => Congruent(s[i], r[i] - x * d[i])}
<1>13. 0 \in S
  <2>1. s[0] = 0 /\ r[0] = 0 /\ d[0] = 0
    BY <1>4, <1>10, <1>11 DEF Adds
  <2>2. 0 - x * 0 = 0 /\ Congruent(0, 0)
    BY <1>12, Shift
  <2> QED BY <2>1, <2>2
<1>14. ASSUME NEW k \in Nat, k \in S PROVE k + 1 \in S
  <2>1. SUFFICES ASSUME k + 1 <= n
                 PROVE  Congruent(s[k + 1], r[k + 1] - x * d[k + 1])
    OBVIOUS
  <2>2. k \in 0..n /\ k + 1 \in 0..n /\ k + 1 \in 1..n /\ (k + 1) - 1 = k
    BY <1>12, <2>1
  <2>3. Congruent(s[k], r[k] - x * d[k])
    BY <1>14, <2>2
  <2>4. /\ r[k] \in Fp /\ s[k] \in Fp /\ r[k + 1] = Add(r[k], pad[k + 1])
        /\ s[k + 1] = Add(s[k], row[k + 1])
    BY <1>10, <1>11, <2>2 DEF Adds, n
  <2> DEFINE t == slice[k + 1].choice * 2 ^ k
  <2>5. t \in Int /\ d[k + 1] = d[k] + t /\ d[k] \in Int
    <3>1. 2 ^ k \in Nat
      BY PowNat
    <3>2. t \in Int
      BY <1>1, <2>2, <3>1 DEF n
    <3> QED BY <1>4, <2>2, <3>2
  <2>6. /\ pad[k + 1] \in Fp /\ row[k + 1] \in Fp
        /\ Congruent(row[k + 1], pad[k + 1] - x * t)
    BY <1>8, <1>9, <2>2 DEF n
  <2> HIDE DEF t
  <2>7. /\ Congruent(s[k + 1], s[k] + row[k + 1]) /\ s[k + 1] \in Fp
        /\ Congruent(r[k + 1], r[k] + pad[k + 1]) /\ r[k + 1] \in Fp
    BY <2>4, <2>6, AddCorrect
  <2>8. /\ r[k] \in Int /\ s[k] \in Int /\ r[k + 1] \in Int /\ s[k + 1] \in Int
        /\ pad[k + 1] \in Int /\ row[k + 1] \in Int
        /\ x * d[k] \in Int /\ x * t \in Int /\ x * d[k + 1] = x * d[k] + x * t
    <3>1. \A a, b \in Int : x * a \in Int /\ x * (a + b) = x * a + x * b
      BY <1>12
    <3> QED BY <2>4, <2>5, <2>6, <2>7, <3>1, FpInts
  <2>9. PICK e \in Int, h \in Int :
          e = x * d[k] /\ h = x * t /\ x * d[k + 1] = e + h
    BY ONLY <2>8
  <2>10. /\ r[k] \in Int /\ s[k] \in Int /\ r[k + 1] \in Int /\ s[k + 1] \in Int
         /\ pad[k + 1] \in Int /\ row[k + 1] \in Int
    BY <2>8
  <2>11. Congruent(s[k] + row[k + 1], (r[k] - e) + (pad[k + 1] - h))
    <3>1. Congruent(s[k], r[k] - e) /\ Congruent(row[k + 1], pad[k + 1] - h)
      BY <2>3, <2>6, <2>9
    <3>2. r[k] - e \in Int /\ pad[k + 1] - h \in Int
      BY <2>10
    <3> QED BY <2>10, <3>1, <3>2, CongruentSum
  <2>12. Congruent(s[k + 1], (r[k] - e) + (pad[k + 1] - h))
    <3>1. s[k] + row[k + 1] \in Int /\ (r[k] - e) + (pad[k + 1] - h) \in Int
      <4>1. \A a, b \in Int : a + b \in Int /\ a - b \in Int
        OBVIOUS
      <4>2. r[k] - e \in Int /\ pad[k + 1] - h \in Int
        BY <2>10, <4>1
      <4> QED BY ONLY <2>10, <4>1, <4>2
    <3> QED BY <2>7, <2>10, <2>11, <3>1, Transitive
  <2>13. Congruent((r[k] + pad[k + 1]) - (e + h), r[k + 1] - (e + h))
    <3>1. Congruent(r[k] + pad[k + 1], r[k + 1])
      BY <2>7, <2>10, CongruentBack
    <3>2. PICK w \in Int : w = e + h
      OBVIOUS
    <3>3. PICK q \in Int : q = r[k] + pad[k + 1]
      BY <2>10
    <3>4. Congruent(q, r[k + 1]) /\ Congruent(w, w)
      BY <3>1, <3>3, Shift
    <3>5. Congruent(q - w, r[k + 1] - w)
      BY <2>10, <3>4, CongruentSum
    <3> QED BY <3>2, <3>3, <3>5
  <2>14. (r[k] - e) + (pad[k + 1] - h) = (r[k] + pad[k + 1]) - (e + h)
    BY <2>10
  <2>15. /\ (r[k] + pad[k + 1]) - (e + h) \in Int /\ r[k + 1] - (e + h) \in Int
    BY <2>10
  <2>16. Congruent(s[k + 1], r[k + 1] - (e + h))
    BY <2>10, <2>12, <2>13, <2>14, <2>15, Transitive
  <2> QED BY <2>9, <2>16
<1>15. n \in S
  <2> HIDE DEF S
  <2> QED BY <1>12, <1>13, <1>14, Induction
<1>16. r[n] \in Fp /\ s[n] \in Fp /\ Congruent(s[n], r[n] - x * y)
  <2>1. n \in 0..n /\ n <= n
    BY <1>12
  <2> QED BY <1>4, <1>10, <1>11, <1>15, <2>1 DEF Adds, n
<1> QED BY <1>3, <1>5, <1>6, <1>7, <1>10, <1>11, <1>16 DEF y, n

-------------------------------------------------------------------------------
(* What holds between the two parties.                                       *)

Making == [a : Fp, b : Fp, u : Fp]
Triple == [a : Fp, b : Fp, c : Fp]

TripleTypes ==
    /\ ots \in OtPools
    /\ cur \in [Party -> Making]
    /\ out \in [Party -> Seq(Triple)]
    /\ pc \in [Party -> {"draw", "first", "second", "done", "stopped"}]
    /\ cursor \in [Party -> Nat]
    /\ cursor["R"] = cursor["S"] /\ Len(out["R"]) = Len(out["S"])

\* Between the two calls, what the parties have opens to the first cross term.
HalfWay ==
    /\ \A p \in Party : pc[p] = "first" => cur[p].u = 0
    /\ (\A p \in Party : pc[p] = "second") =>
         Congruent(cur["R"].u + cur["S"].u, cur["R"].a * cur["S"].b)

TripleInv == TripleTypes /\ HalfWay /\ TriplesMultiply /\ EndsOnlyOnP

LEMMA Both == "R" \in Party /\ "S" \in Party /\ \A p \in Party : p = "R" \/ p = "S"
BY DEF Party

LEMMA NothingYet == Nothing \in Making /\ Nothing.u = 0
BY TripleSizes DEF Nothing, Making

LEMMA TripleStart == Init => TripleInv
<1> SUFFICES ASSUME Init PROVE TripleInv
  OBVIOUS
<1>1. TripleTypes
  BY NothingYet, Both DEF Init, TripleTypes
<1>2. HalfWay /\ TriplesMultiply /\ EndsOnlyOnP
  BY Both DEF Init, HalfWay, TriplesMultiply, EndsOnlyOnP
<1> QED BY <1>1, <1>2 DEF TripleInv

\* The next OTs of the pool.
LEMMA SliceIs ==
    ASSUME TripleTypes, cursor["R"] + OlePerCallOts <= PoolSize
    PROVE  Slice("R") = Slice("S") /\ CallSlice(Slice("S"))
<1> DEFINE c == cursor["S"]
           n == OlePerCallOts
<1>1. c \in Nat /\ cursor["R"] = c /\ n \in Nat \ {0} /\ c + n <= PoolSize /\ PoolSize \in Nat
  BY Both, TripleSizes DEF TripleTypes
<1>2. ots \in [1..PoolSize -> Ot]
  BY TripleAssumption DEF TripleTypes
<1>3. \A i \in (c + 1)..(c + n) : ots[i] \in Ot
  BY <1>1, <1>2
<1>4. /\ SubSeq(ots, c + 1, c + n) \in Seq(Ot)
      /\ Len(SubSeq(ots, c + 1, c + n)) = n
  <2> HIDE DEF c, n
  <2>1. c + 1 \in Int /\ c + n \in Int /\ c + 1 <= c + n /\ ((c + n) - (c + 1)) + 1 = n
    BY <1>1
  <2> QED BY <1>3, <2>1, SubSeqProperties
<1>5. CallSlice(SubSeq(ots, c + 1, c + n))
  <2>1. PICK q \in Seq(Ot) : q = SubSeq(ots, c + 1, c + n) /\ Len(q) = n
    BY <1>4
  <2>2. DOMAIN q = 1..n /\ \A i \in 1..n : q[i] \in Ot
    BY <2>1
  <2> QED BY <2>1, <2>2 DEF CallSlice
<1> QED BY <1>1, <1>5 DEF Slice

LEMMA DrawStep == ASSUME TripleInv, Draw \/ SenderReady PROVE TripleInv'
<1>0. TripleTypes
  BY DEF TripleInv
<1>1. PICK p \in Party :
        /\ pc[p] = "draw" /\ pc' = [pc EXCEPT ![p] = "first"]
        /\ \E new \in Making : new.u = 0 /\ cur' = [cur EXCEPT ![p] = new]
        /\ UNCHANGED <<ots, out, cursor>>
  <2>1. CASE Draw
    <3>1. PICK a \in Samples, b \in Samples :
            cur' = [cur EXCEPT !["R"] = [Nothing EXCEPT !.a = FromU64(a), !.b = FromU64(b)]]
      BY <2>1 DEF Draw
    <3>2. FromU64(a) \in Fp /\ FromU64(b) \in Fp
      BY TripleAssumption, TripleSizes, FromU64Correct
    <3>3. [Nothing EXCEPT !.a = FromU64(a), !.b = FromU64(b)] \in Making
          /\ [Nothing EXCEPT !.a = FromU64(a), !.b = FromU64(b)].u = 0
      BY <3>2, NothingYet DEF Making
    <3> QED BY <2>1, <3>1, <3>3, Both DEF Draw
  <2>2. CASE SenderReady
    BY <2>2, NothingYet, Both DEF SenderReady
  <2> QED BY <2>1, <2>2
<1>2. PICK new \in Making : new.u = 0 /\ cur' = [cur EXCEPT ![p] = new]
  BY <1>1
<1>3. TripleTypes'
  BY <1>0, <1>1, <1>2 DEF TripleTypes
<1>4. HalfWay'
  BY <1>0, <1>1, <1>2, Both DEF TripleTypes, TripleInv, HalfWay
<1>5. TriplesMultiply'
  BY <1>1 DEF TripleInv, TriplesMultiply
<1>6. EndsOnlyOnP'
  BY <1>0, <1>1 DEF TripleTypes, TripleInv, EndsOnlyOnP
<1> QED BY <1>3, <1>4, <1>5, <1>6 DEF TripleInv

\* What the parties have after a call that went through.
Got(step, y, w, v) ==
    [cur EXCEPT !["R"].u = Add(@, w),
                !["S"].u = Add(@, SenderShare(v)),
                !["S"].b = IF step = "first" THEN y ELSE @,
                !["S"].a = IF step = "second" THEN y ELSE @]

\* Where a call that went through leads.
Through(step, y, w, v) ==
    LET got == Got(step, y, w, v) IN
    /\ cur' = got
    /\ IF step = "first"
       THEN pc' = [p \in Party |-> "second"] /\ UNCHANGED out
       ELSE /\ out' = [p \in Party |-> Append(out[p],
                    [a |-> got[p].a, b |-> got[p].b,
                     c |-> Add(Mul(got[p].a, got[p].b), got[p].u)])]
            /\ pc' = [p \in Party |-> IF Len(out[p]) + 1 = Count THEN "done" ELSE "draw"]

\* A call at which the choices spell y.
Spelled(y) ==
    y = DeltaFromChoices(SubSeq(ots', cursor'["S"] - OlePerCallOts + 1, cursor'["S"]))

LEMMA OleShape ==
    ASSUME TripleInv, NEW step, NEW x \in Fp, Ole(step, x)
    PROVE  /\ \A p \in Party : pc[p] = step
           /\ cursor' \in [Party -> Nat] /\ cursor'["R"] = cursor'["S"] /\ ots' = ots
           /\ \/ /\ \E p \in Party : pc' = [pc EXCEPT ![p] = "stopped"]
                 /\ Spelled(P) /\ UNCHANGED <<cur, out>>
              \/ \E y, w, v \in Fp : Congruent(v, w - x * y) /\ Through(step, y, w, v)
<1> DEFINE n == OlePerCallOts
           slice == Slice("S")
           y == DeltaFromChoices(slice)
           corrections == [i \in 1..n |-> Correction(Slice("R")[i], i, x)]
           v == SenderVole(slice, corrections, y)
           w == ReceiverVole(Slice("R"))
<1>0. TripleTypes
  BY DEF TripleInv
<1>1. /\ \A p \in Party : pc[p] = step /\ cursor[p] + n <= PoolSize
      /\ cursor' = [p \in Party |-> cursor[p] + n] /\ ots' = ots
  BY DEF Ole
<1>2. Slice("R") = slice /\ CallSlice(slice)
  BY <1>0, <1>1, Both, SliceIs
<1>3. /\ \A i \in 1..n : corrections[i] \in Fp
      /\ y \in 0..P /\ v \in Fp /\ w \in Fp
      /\ Congruent(v, w - x * y)
  <2>0. w = ReceiverVole(slice)
    BY <1>2
  <2> HIDE DEF slice, n, w
  <2>1. corrections = [i \in 1..OlePerCallOts |-> Correction(slice[i], i, x)]
    BY <1>2 DEF n
  <2> HIDE DEF corrections
  <2>2. LET d == DeltaFromChoices(slice)
            s == SenderVole(slice, corrections, d)
            r == ReceiverVole(slice)
        IN  /\ \A i \in 1..OlePerCallOts : corrections[i] \in Fp
            /\ d \in 0..P /\ s \in Fp /\ r \in Fp
            /\ Congruent(s, r - x * d)
    BY ONLY <1>2, <2>1, x \in Fp, OleCorrect
  <2> QED BY <2>0, <2>2 DEF n
<1>4. cursor' \in [Party -> Nat] /\ cursor'["R"] = cursor'["S"]
      /\ cursor["S"] \in Nat /\ cursor'["S"] = cursor["S"] + n
  BY <1>0, <1>1, Both, TripleSizes DEF TripleTypes
<1>5. Spelled(y)
  <2>1. (cursor["S"] + n) - n + 1 = cursor["S"] + 1
    BY <1>4, TripleSizes
  <2>2. SubSeq(ots', cursor'["S"] - n + 1, cursor'["S"]) = slice
    BY <1>1, <1>4, <2>1 DEF Slice
  <2> QED BY <2>2 DEF Spelled
<1> DEFINE refuses == [p \in Party |->
               IF p = "S" THEN y = P
               ELSE \E i \in DOMAIN corrections : corrections[i] \notin Fp]
<1>6. \/ /\ \E p \in Party : refuses[p] /\ pc' = [pc EXCEPT ![p] = "stopped"]
         /\ UNCHANGED <<cur, out>>
      \/ /\ \A p \in Party : ~refuses[p]
         /\ Through(step, y, w, v)
  <2>1. Ole(step, x)
    OBVIOUS
  <2> QED BY ONLY <2>1, Zenon DEF Ole, Got, Through
<1> HIDE DEF y, w, v
<1>7. CASE \E p \in Party : refuses[p] /\ pc' = [pc EXCEPT ![p] = "stopped"]
  <2>1. y = P
    BY <1>3, <1>7
  <2> QED BY <1>1, <1>4, <1>5, <1>6, <1>7, <2>1
<1>8. CASE \A p \in Party : ~refuses[p]
  <2>1. y \in Fp
    <3>1. y # P
      BY <1>8, Both
    <3> QED BY <1>3, <3>1, TripleSizes DEF Fp
  <2>2. Through(step, y, w, v)
    BY <1>6, <1>8
  <2> QED BY <1>1, <1>3, <1>4, <2>1, <2>2
<1> QED BY <1>6, <1>7, <1>8

\* A call adds x * y to what the parties' sums open to.
LEMMA SumsOpen ==
    ASSUME NEW uR \in Fp, NEW uS \in Fp, NEW w \in Fp, NEW v \in Fp, NEW z \in Int,
           NEW t \in Int, Congruent(uR + uS, z), Congruent(v, w - t)
    PROVE  /\ Add(uR, w) \in Fp /\ Add(uS, SenderShare(v)) \in Fp
           /\ Congruent(Add(uR, w) + Add(uS, SenderShare(v)), z + t)
<1>1. Neg(v) \in Fp /\ Congruent(Neg(v), -v)
  BY NegCorrect
<1>2. Add(uR, w) \in Fp /\ Congruent(Add(uR, w), uR + w)
  BY AddCorrect
<1>3. Add(uS, Neg(v)) \in Fp /\ Congruent(Add(uS, Neg(v)), uS + Neg(v))
  BY <1>1, AddCorrect
<1>4. PICK A \in Int, B \in Int, N \in Int : A = Add(uR, w) /\ B = Add(uS, Neg(v)) /\ N = Neg(v)
  BY <1>1, <1>2, <1>3, FpInts
<1>5. PICK a \in Int, b \in Int, c \in Int, d \in Int, f \in Int :
        /\ A = uR + w + a * P /\ B = uS + N + b * P /\ N = -v + c * P
        /\ uR + uS = z + d * P /\ v = (w - t) + f * P
  <2>1. PICK a \in Int : A = uR + w + a * P
    BY <1>2, <1>4 DEF Congruent
  <2>2. PICK b \in Int : B = uS + N + b * P
    BY <1>3, <1>4 DEF Congruent
  <2>3. PICK c \in Int : N = -v + c * P
    BY <1>1, <1>4 DEF Congruent
  <2>4. PICK d \in Int : uR + uS = z + d * P
    BY DEF Congruent
  <2>5. PICK f \in Int : v = (w - t) + f * P
    BY DEF Congruent
  <2> QED BY <2>1, <2>2, <2>3, <2>4, <2>5, Zenon
<1>6. uR \in Int /\ uS \in Int /\ w \in Int /\ v \in Int /\ P \in Int
  BY FpInts, TripleSizes
<1>7. A + B = (z + t) + (a + b + c + d - f) * P
  <2>1. PICK p1 \in Int, p2 \in Int, p3 \in Int, p4 \in Int, p5 \in Int :
          /\ p1 = a * P /\ p2 = b * P /\ p3 = c * P /\ p4 = d * P /\ p5 = f * P
    BY <1>6
  <2>2. (a + b + c + d - f) * P = p1 + p2 + p3 + p4 - p5
    BY <1>6, <2>1
  <2>3. A + B = (z + t) + (p1 + p2 + p3 + p4 - p5)
    BY <1>5, <1>6, <2>1
  <2> QED BY <2>2, <2>3
<1>8. a + b + c + d - f \in Int
  OBVIOUS
<1> QED BY <1>1, <1>2, <1>3, <1>4, <1>7, <1>8 DEF Congruent, SenderShare

\* The two cross terms make the triple multiply.
LEMMA TripleMultiplies ==
    ASSUME NEW aR \in Fp, NEW bR \in Fp, NEW uR \in Fp,
           NEW aS \in Fp, NEW bS \in Fp, NEW uS \in Fp,
           Congruent(uR + uS, aR * bS + bR * aS)
    PROVE  LET cR == Add(Mul(aR, bR), uR)
               cS == Add(Mul(aS, bS), uS)
           IN  /\ cR \in Fp /\ cS \in Fp
               /\ Add(cR, cS) = Mul(Add(aR, aS), Add(bR, bS))
<1> DEFINE cR == Add(Mul(aR, bR), uR)
           cS == Add(Mul(aS, bS), uS)
           A == Add(aR, aS)
           B == Add(bR, bS)
<1>0. /\ aR \in Int /\ bR \in Int /\ uR \in Int /\ aS \in Int /\ bS \in Int /\ uS \in Int
      /\ P \in Int
  BY FpInts, TripleSizes
<1>1. Mul(aR, bR) \in Fp /\ Congruent(Mul(aR, bR), aR * bR)
      /\ Mul(aS, bS) \in Fp /\ Congruent(Mul(aS, bS), aS * bS)
  BY MulCorrect
<1>2. cR \in Fp /\ Congruent(cR, Mul(aR, bR) + uR) /\ cS \in Fp /\ Congruent(cS, Mul(aS, bS) + uS)
  BY <1>1, AddCorrect
<1>3. A \in Fp /\ Congruent(A, aR + aS) /\ B \in Fp /\ Congruent(B, bR + bS)
  BY AddCorrect
<1>4. Add(cR, cS) \in Fp /\ Congruent(Add(cR, cS), cR + cS)
  BY <1>2, AddCorrect
<1>5. Mul(A, B) \in Fp /\ Congruent(Mul(A, B), A * B)
  BY <1>3, MulCorrect
<1> HIDE DEF cR, cS, A, B
<1>6. PICK rr \in Int, ss \in Int, rs \in Int, sr \in Int :
        rr = aR * bR /\ ss = aS * bS /\ rs = aR * bS /\ sr = bR * aS
  BY <1>0
<1>7. PICK mR \in Int, mS \in Int : mR = Mul(aR, bR) /\ mS = Mul(aS, bS)
  BY <1>1, FpInts
<1>8. cR \in Int /\ cS \in Int /\ A \in Int /\ B \in Int /\ A * B \in Int
      /\ Add(cR, cS) \in Int /\ Mul(A, B) \in Int
  <2>1. cR \in Int /\ cS \in Int /\ A \in Int /\ B \in Int
        /\ Add(cR, cS) \in Int /\ Mul(A, B) \in Int
    BY <1>2, <1>3, <1>4, <1>5, FpInts
  <2> QED BY <2>1
\* What the shares of the product open to.
<1>9. Congruent(cR + cS, (rr + ss) + (rs + sr))
  <2>1. Congruent(mR, rr) /\ Congruent(mS, ss) /\ Congruent(uR + uS, rs + sr)
        /\ Congruent(cR, mR + uR) /\ Congruent(cS, mS + uS)
    BY <1>1, <1>2, <1>6, <1>7
  <2>2. Congruent(cR + cS, (mR + uR) + (mS + uS))
    <3>1. mR + uR \in Int /\ mS + uS \in Int
      BY <1>0
    <3> QED BY <1>8, <2>1, <3>1, CongruentSum
  <2>3. Congruent(mR + mS, rr + ss)
    BY <2>1, CongruentSum
  <2>4. Congruent((mR + mS) + (uR + uS), (rr + ss) + (rs + sr))
    <3>1. mR + mS \in Int /\ rr + ss \in Int /\ uR + uS \in Int /\ rs + sr \in Int
      BY <1>0
    <3> QED BY <2>1, <2>3, <3>1, CongruentSum
  <2>5. (mR + uR) + (mS + uS) = (mR + mS) + (uR + uS)
    BY <1>0
  <2>6. cR + cS \in Int /\ (mR + mS) + (uR + uS) \in Int /\ (rr + ss) + (rs + sr) \in Int
    BY <1>0, <1>8
  <2> QED BY <2>2, <2>4, <2>5, <2>6, Transitive
<1>10. Congruent(A * B, (rr + ss) + (rs + sr))
  <2>1. Congruent(A * B, (aR + aS) * (bR + bS))
    BY <1>0, <1>3, <1>8, CongruentProduct
  <2>2. (aR + aS) * (bR + bS) = (aR * bR + aS * bS) + (aR * bS + bR * aS)
    BY <1>0
  <2> QED BY <1>6, <2>1, <2>2
<1>11. Congruent(Add(cR, cS), (rr + ss) + (rs + sr)) /\ Congruent(Mul(A, B), (rr + ss) + (rs + sr))
  <2>1. (rr + ss) + (rs + sr) \in Int /\ cR + cS \in Int
    BY <1>8
  <2> QED BY <1>4, <1>5, <1>8, <1>9, <1>10, <2>1, Transitive
<1>12. Congruent(Add(cR, cS), Mul(A, B))
  <2>1. (rr + ss) + (rs + sr) \in Int
    OBVIOUS
  <2>2. Congruent((rr + ss) + (rs + sr), Mul(A, B))
    BY <1>8, <1>11, <2>1, CongruentBack
  <2> QED BY <1>8, <1>11, <2>1, <2>2, Transitive
<1>13. Add(cR, cS) = Mul(A, B)
  BY <1>4, <1>5, <1>12, SameResidue
<1> QED BY <1>2, <1>13 DEF cR, cS, A, B

-------------------------------------------------------------------------------
(* The steps of the two calls.                                               *)

\* A call that the choices end.
LEMMA RefusedStep ==
    ASSUME TripleInv, cursor' \in [Party -> Nat], cursor'["R"] = cursor'["S"],
           NEW step, \A p \in Party : pc[p] = step, step \in {"first", "second"},
           \E p \in Party : pc' = [pc EXCEPT ![p] = "stopped"],
           Spelled(P), UNCHANGED <<cur, out, ots>>
    PROVE  TripleInv'
<1>0. TripleTypes
  BY DEF TripleInv
<1>1. TripleTypes'
  BY <1>0 DEF TripleTypes
<1>2. EndsOnlyOnP'
  BY DEF EndsOnlyOnP, Spelled
<1>3. TriplesMultiply'
  BY DEF TripleInv, TriplesMultiply
<1>4. HalfWay'
  <2>1. PICK p \in Party : pc' = [pc EXCEPT ![p] = "stopped"]
    OBVIOUS
  <2>2. pc'[p] = "stopped" /\ \A q \in Party : pc'[q] # "stopped" => pc'[q] = pc[q]
    BY <1>0, <2>1 DEF TripleTypes
  <2>3. \A q \in Party : pc'[q] = "first" => cur'[q].u = 0
    BY <2>2 DEF TripleInv, HalfWay
  <2> QED BY <2>2, <2>3 DEF HalfWay
<1> QED BY <1>1, <1>2, <1>3, <1>4 DEF TripleInv

LEMMA FirstStep == ASSUME TripleInv, FirstCrossTerm PROVE TripleInv'
<1> DEFINE x == cur["R"].a
<1>0. TripleTypes /\ x \in Fp
  BY Both DEF TripleInv, TripleTypes, Making
<1>1. Ole("first", x)
  BY DEF FirstCrossTerm
<1> HIDE DEF x
<1>2. /\ \A p \in Party : pc[p] = "first"
      /\ cursor' \in [Party -> Nat] /\ cursor'["R"] = cursor'["S"] /\ ots' = ots
      /\ \/ /\ \E p \in Party : pc' = [pc EXCEPT ![p] = "stopped"]
            /\ Spelled(P) /\ UNCHANGED <<cur, out>>
         \/ \E y, w, v \in Fp :
              /\ Congruent(v, w - x * y)
              /\ cur' = Got("first", y, w, v)
              /\ pc' = [p \in Party |-> "second"] /\ UNCHANGED out
  BY <1>0, <1>1, OleShape DEF Through
<1>3. CASE /\ \E p \in Party : pc' = [pc EXCEPT ![p] = "stopped"]
           /\ Spelled(P) /\ UNCHANGED <<cur, out>>
  BY <1>2, <1>3, RefusedStep
<1>4. ASSUME NEW y \in Fp, NEW w \in Fp, NEW v \in Fp,
             Congruent(v, w - x * y), cur' = Got("first", y, w, v),
             pc' = [p \in Party |-> "second"], UNCHANGED out
      PROVE  TripleInv'
  <2>1. PICK R \in Making, S \in Making : cur["R"] = R /\ cur["S"] = S /\ R.a = x
                                          /\ R.u = 0 /\ S.u = 0
    BY <1>0, <1>2, Both DEF TripleTypes, TripleInv, HalfWay, x
  <2>2. PICK t \in Int : t = x * y
    BY <1>0, FpInts
  <2>3. /\ Add(0, w) \in Fp /\ Add(0, SenderShare(v)) \in Fp
        /\ Congruent(Add(0, w) + Add(0, SenderShare(v)), 0 + t)
    <3>1. Congruent(0 + 0, 0)
      BY Shift
    <3> QED BY <1>4, <2>2, <3>1, TripleSizes, SumsOpen
  <2>4. cur' \in [Party -> Making]
        /\ cur'["R"] = [R EXCEPT !.u = Add(0, w)]
        /\ cur'["S"] = [S EXCEPT !.u = Add(0, SenderShare(v)), !.b = y]
    BY <1>0, <1>4, <2>1, <2>3, Both DEF TripleTypes, Got, Making
  <2>5. TripleTypes'
    BY <1>0, <1>2, <1>4, <2>4 DEF TripleTypes
  <2>6. HalfWay'
    <3>1. cur'["R"].u = Add(0, w) /\ cur'["S"].u = Add(0, SenderShare(v))
          /\ cur'["R"].a = x /\ cur'["S"].b = y
      BY <2>1, <2>4 DEF Making
    <3>2. Congruent(cur'["R"].u + cur'["S"].u, cur'["R"].a * cur'["S"].b)
      BY <2>2, <2>3, <3>1
    <3>3. \A p \in Party : pc'[p] # "first"
      BY <1>4
    <3> QED BY <3>2, <3>3 DEF HalfWay
  <2>7. TriplesMultiply'
    BY <1>4 DEF TripleInv, TriplesMultiply
  <2>8. EndsOnlyOnP'
    BY <1>4 DEF EndsOnlyOnP
  <2> QED BY <2>5, <2>6, <2>7, <2>8 DEF TripleInv
<1> QED BY <1>2, <1>3, <1>4

LEMMA SecondStep == ASSUME TripleInv, SecondCrossTerm PROVE TripleInv'
<1> DEFINE x == cur["R"].b
           made(p, got) == [a |-> got[p].a, b |-> got[p].b,
                            c |-> Add(Mul(got[p].a, got[p].b), got[p].u)]
<1>0. TripleTypes /\ x \in Fp
  BY Both DEF TripleInv, TripleTypes, Making
<1>1. Ole("second", x)
  BY DEF SecondCrossTerm
<1> HIDE DEF x
<1>2. /\ \A p \in Party : pc[p] = "second"
      /\ cursor' \in [Party -> Nat] /\ cursor'["R"] = cursor'["S"] /\ ots' = ots
      /\ \/ /\ \E p \in Party : pc' = [pc EXCEPT ![p] = "stopped"]
            /\ Spelled(P) /\ UNCHANGED <<cur, out>>
         \/ \E y, w, v \in Fp :
              /\ Congruent(v, w - x * y)
              /\ cur' = Got("second", y, w, v)
              /\ out' = [p \in Party |-> Append(out[p], made(p, Got("second", y, w, v)))]
              /\ pc' = [p \in Party |-> IF Len(out[p]) + 1 = Count THEN "done" ELSE "draw"]
  BY <1>0, <1>1, OleShape DEF Through
<1>3. CASE /\ \E p \in Party : pc' = [pc EXCEPT ![p] = "stopped"]
           /\ Spelled(P) /\ UNCHANGED <<cur, out>>
  BY <1>2, <1>3, RefusedStep
<1>4. ASSUME NEW y \in Fp, NEW w \in Fp, NEW v \in Fp,
             Congruent(v, w - x * y), cur' = Got("second", y, w, v),
             out' = [p \in Party |-> Append(out[p], made(p, Got("second", y, w, v)))],
             pc' = [p \in Party |-> IF Len(out[p]) + 1 = Count THEN "done" ELSE "draw"]
      PROVE  TripleInv'
  <2>1. PICK R \in Making, S \in Making : cur["R"] = R /\ cur["S"] = S /\ R.b = x
    BY <1>0, Both DEF TripleTypes, x
  <2>2. PICK t \in Int, z \in Int : t = x * y /\ z = R.a * S.b
    <3>1. R.a \in Int /\ S.b \in Int /\ x \in Int /\ y \in Int
      BY <1>0, FpInts DEF Making
    <3> QED BY <3>1
  <2>3. Congruent(R.u + S.u, z)
    BY <1>2, <2>1, <2>2 DEF TripleInv, HalfWay
  <2>4. R.u \in Fp /\ S.u \in Fp /\ R.a \in Fp /\ S.b \in Fp
    BY DEF Making
  <2>5. /\ Add(R.u, w) \in Fp /\ Add(S.u, SenderShare(v)) \in Fp
        /\ Congruent(Add(R.u, w) + Add(S.u, SenderShare(v)), z + t)
    BY <1>4, <2>2, <2>3, <2>4, SumsOpen
  <2> DEFINE got == Got("second", y, w, v)
  <2>6. got \in [Party -> Making]
        /\ got["R"] = [R EXCEPT !.u = Add(R.u, w)]
        /\ got["S"] = [S EXCEPT !.u = Add(S.u, SenderShare(v)), !.a = y]
    BY <1>0, <1>4, <2>1, <2>5, Both DEF TripleTypes, Got, Making
  <2> HIDE DEF got
  <2>7. /\ got["R"].u = Add(R.u, w) /\ got["S"].u = Add(S.u, SenderShare(v))
        /\ got["R"].a = R.a /\ got["R"].b = x /\ got["S"].a = y /\ got["S"].b = S.b
    BY <2>1, <2>6 DEF Making
  <2>8. /\ made("R", got).c \in Fp /\ made("S", got).c \in Fp
        /\ Add(made("R", got).c, made("S", got).c)
             = Mul(Add(made("R", got).a, made("S", got).a),
                   Add(made("R", got).b, made("S", got).b))
    <3>1. PICK aR \in Fp, bR \in Fp, uR \in Fp, bS \in Fp, uS \in Fp :
            /\ aR = R.a /\ bR = x /\ uR = Add(R.u, w)
            /\ bS = S.b /\ uS = Add(S.u, SenderShare(v))
      BY <1>0, <2>4, <2>5
    <3>2. Congruent(uR + uS, aR * bS + bR * y)
      BY <2>2, <2>5, <3>1
    <3>3. LET cR == Add(Mul(aR, bR), uR)
              cS == Add(Mul(y, bS), uS)
          IN  /\ cR \in Fp /\ cS \in Fp
              /\ Add(cR, cS) = Mul(Add(aR, y), Add(bR, bS))
      BY <3>2, TripleMultiplies
    <3>4. /\ made("R", got) = [a |-> aR, b |-> bR, c |-> Add(Mul(aR, bR), uR)]
          /\ made("S", got) = [a |-> y, b |-> bS, c |-> Add(Mul(y, bS), uS)]
      BY <2>7, <3>1
    <3> HIDE DEF made
    <3> QED BY <3>3, <3>4
  <2>9. \A p \in Party : made(p, got) \in Triple
    <3>1. \A p \in Party : got[p].a \in Fp /\ got[p].b \in Fp
      BY <2>6 DEF Making
    <3> QED BY <2>8, <3>1, Both DEF Triple
  <2> HIDE DEF made
  <2>10. out' = [p \in Party |-> Append(out[p], made(p, got))]
    BY <1>4 DEF got
  <2>11. /\ out' \in [Party -> Seq(Triple)]
         /\ \A p \in Party : out'[p] = Append(out[p], made(p, got)) /\ out[p] \in Seq(Triple)
    BY <1>0, <2>9, <2>10 DEF TripleTypes
  <2>12. TripleTypes'
    <3>1. Len(out'["R"]) = Len(out'["S"])
      BY <1>0, <2>9, <2>11, Both DEF TripleTypes
    <3>2. cur' \in [Party -> Making]
      BY <1>4, <2>6 DEF got
    <3>3. pc' \in [Party -> {"draw", "first", "second", "done", "stopped"}]
      BY <1>4
    <3> QED BY <1>0, <1>2, <2>11, <3>1, <3>2, <3>3 DEF TripleTypes
  <2>13. HalfWay'
    <3>1. \A p \in Party : pc'[p] \in {"draw", "done"}
      BY <1>4
    <3> QED BY <3>1, Both DEF HalfWay
  <2>14. TriplesMultiply'
    <3>1. PICK oR \in Seq(Triple), oS \in Seq(Triple), mR \in Triple, mS \in Triple :
            /\ oR = out["R"] /\ oS = out["S"] /\ Len(oR) = Len(oS)
            /\ mR = made("R", got) /\ mS = made("S", got)
      BY <1>0, <2>9, <2>11, Both DEF TripleTypes
    <3>2. out'["R"] = Append(oR, mR) /\ out'["S"] = Append(oS, mS)
      BY <2>11, <3>1, Both
    <3>3. Add(mR.c, mS.c) = Mul(Add(mR.a, mS.a), Add(mR.b, mS.b))
      BY <2>8, <3>1
    <3>4. \A i \in DOMAIN oR : Add(oR[i].c, oS[i].c)
                                 = Mul(Add(oR[i].a, oS[i].a), Add(oR[i].b, oS[i].b))
      BY <3>1 DEF TripleInv, TriplesMultiply
    <3>5. ASSUME NEW i \in DOMAIN Append(oR, mR)
          PROVE  Add(Append(oR, mR)[i].c, Append(oS, mS)[i].c)
                   = Mul(Add(Append(oR, mR)[i].a, Append(oS, mS)[i].a),
                         Add(Append(oR, mR)[i].b, Append(oS, mS)[i].b))
      <4>1. CASE i = Len(oR) + 1
        <5>1. Append(oR, mR)[i] = mR /\ Append(oS, mS)[i] = mS
          BY <3>1, <4>1
        <5> QED BY <3>3, <5>1
      <4>2. CASE i # Len(oR) + 1
        <5>1. i \in DOMAIN oR /\ i \in DOMAIN oS
          BY <3>1, <4>2
        <5>2. Append(oR, mR)[i] = oR[i] /\ Append(oS, mS)[i] = oS[i]
          BY <3>1, <5>1
        <5> QED BY <3>4, <5>1, <5>2
      <4> QED BY <4>1, <4>2
    <3> QED BY <3>2, <3>5 DEF TriplesMultiply
  <2>15. EndsOnlyOnP'
    <3>1. \A p \in Party : pc'[p] # "stopped"
      BY <1>4
    <3> QED BY <3>1 DEF EndsOnlyOnP
  <2> QED BY <2>12, <2>13, <2>14, <2>15 DEF TripleInv
<1> QED BY <1>2, <1>3, <1>4

LEMMA TripleNext == TripleInv /\ [Next]_vars => TripleInv'
<1> SUFFICES ASSUME TripleInv, [Next]_vars PROVE TripleInv'
  OBVIOUS
<1>1. CASE Draw \/ SenderReady
  BY <1>1, DrawStep
<1>2. CASE FirstCrossTerm
  BY <1>2, FirstStep
<1>3. CASE SecondCrossTerm
  BY <1>3, SecondStep
<1>4. CASE \E p \in Party : PeerGone(p)
  <2>1. PICK p \in Party : PeerGone(p)
    BY <1>4
  <2>2. TripleTypes'
    BY <2>1 DEF TripleInv, TripleTypes, PeerGone
  <2>3. pc'[p] = "stopped" /\ \A q \in Party : pc'[q] # "stopped" => pc'[q] = pc[q]
    BY <2>1 DEF TripleInv, TripleTypes, PeerGone
  <2>4. UNCHANGED <<ots, cur, out, cursor>> /\ \E q \in Party : pc[q] = "stopped"
    BY <2>1 DEF PeerGone
  <2>5. HalfWay'
    <3>1. \A q \in Party : pc'[q] = "first" => cur'[q].u = 0
      BY <2>3, <2>4 DEF TripleInv, HalfWay
    <3> QED BY <2>3, <3>1 DEF HalfWay
  <2>6. TriplesMultiply' /\ EndsOnlyOnP'
    BY <2>4 DEF TripleInv, TriplesMultiply, EndsOnlyOnP
  <2> QED BY <2>2, <2>5, <2>6 DEF TripleInv
<1>5. CASE Rest \/ UNCHANGED vars
  <2>1. UNCHANGED vars
    BY <1>5 DEF Rest
  <2> QED BY <2>1 DEF vars, TripleInv, TripleTypes, HalfWay, TriplesMultiply, EndsOnlyOnP
<1> QED BY <1>1, <1>2, <1>3, <1>4, <1>5 DEF Next

THEOREM TripleInvariant == Spec => []TripleInv
BY TripleStart, TripleNext, PTL DEF Spec

\* The shares of every triple open to a product, whatever the choices spell
\* (vole_beaver.cpp:84-127, vole_beaver.hpp:50-62).
THEOREM TriplesMultiplyHolds == Spec => []TriplesMultiply
<1>1. TripleInv => TriplesMultiply
  BY DEF TripleInv
<1> QED BY <1>1, TripleInvariant, PTL

\* Every correction is a canonical element, so a batch ends early for nothing but
\* choices that spell P (coeff_ctx.hpp:142-170, vole_beaver.cpp:25-34).
THEOREM EndsOnlyOnPHolds == Spec => []EndsOnlyOnP
<1>1. TripleInv => EndsOnlyOnP
  BY DEF TripleInv
<1> QED BY <1>1, TripleInvariant, PTL

===============================================================================
