---------------------------- MODULE EvaluatorProofs ----------------------------
(***************************************************************************)
(* The evaluation of buckets, proved for every field, every number of      *)
(* buckets, whatever Setup dealt and however small the sockets: the two    *)
(* parties are never more than a round apart, every message and every      *)
(* result is the one its round calls for, never both of them wait, each    *)
(* takes exactly its 44 triples a bucket, and what the shares of a round   *)
(* open to are the products and the zero tests of what the earlier ones    *)
(* open to.  So the shares of a result open to the t of the difference of  *)
(* the two rows, which is the number of ids that differ if it is at most   *)
(* four, and the evaluation implements JointEvaluation.                    *)
(***************************************************************************)
EXTENDS BucketEvaluator, FieldProofs, FiniteSetTheorems, SequenceTheorems

-------------------------------------------------------------------------------
(* What the rounds multiply.                                                 *)

\* The products of each round on a bucket, and those of the rounds before it.
Width  == <<20, 9, 0, 8, 4, 1, 1, 1>>
Before == <<0, 20, 29, 29, 37, 41, 42, 43, 44>>

\* What a party holds of a bucket when round r is over; its row when r = 0.
Value(r) ==
    CASE r = 0         -> [1..K -> Fp]
      [] r = MaskRound -> [1..GatesPerBucket -> [1..Digits -> Fp]]
      [] OTHER         -> [1..Width[r] -> Fp]

\* The piece of a message that is about one bucket.
Piece(r) ==
    IF r = MaskRound THEN [1..GatesPerBucket -> Fp] ELSE [1..Width[r] -> Fp \X Fp]

Multiplies == (1..Rounds) \ {MaskRound}

LEMMA RoundNames ==
    /\ Rounds = 8 /\ MaskRound = 3 /\ K = 7 /\ Digits = 4 /\ GatesPerBucket = 4
    /\ Multiplies = {1, 2, 4, 5, 6, 7, 8}
BY DEF Rounds, MaskRound, K, Digits, GatesPerBucket, Multiplies

LEMMA Widths ==
    /\ Width[1] = 20 /\ Width[2] = 9 /\ Width[3] = 0 /\ Width[4] = 8 /\ Width[5] = 4
    /\ Width[6] = 1 /\ Width[7] = 1 /\ Width[8] = 1
    /\ Before[1] = 0 /\ Before[2] = 20 /\ Before[3] = 29 /\ Before[4] = 29
    /\ Before[5] = 37 /\ Before[6] = 41 /\ Before[7] = 42 /\ Before[8] = 43
    /\ Before[9] = 44
BY DEF Width, Before

LEMMA RoundIs ==
    \A r \in 1..Rounds : r = 1 \/ r = 2 \/ r = 3 \/ r = 4 \/ r = 5 \/ r = 6 \/ r = 7 \/ r = 8
BY RoundNames

LEMMA WidthIn ==
    \A r \in 1..Rounds : /\ Width[r] \in Nat /\ Before[r] \in Nat /\ Before[r + 1] \in Nat
                         /\ Before[r + 1] = Before[r] + Width[r] /\ Before[r + 1] <= 44
<1>1. TAKE r \in 1..Rounds
<1> QED BY RoundIs, Widths

LEMMA LayerOnePlaces ==
    \A i \in 1..20 : Xi[i] \in 0..6 /\ Yi[i] \in 0..6
BY DEF Xi, Yi

\* A bucket's values up to the round before r.
Known(w, r) == \A s \in 0..(r - 1) : w[s] \in Value(s)

LEMMA ValuesKnown ==
    ASSUME NEW w, NEW r \in 1..(Rounds + 1), Known(w, r)
    PROVE  /\ w[0] \in [1..7 -> Fp]
           /\ r > 1 => w[1] \in [1..20 -> Fp]
           /\ r > 2 => w[2] \in [1..9 -> Fp]
           /\ r > 3 => w[3] \in [1..4 -> [1..4 -> Fp]]
           /\ r > 4 => w[4] \in [1..8 -> Fp]
           /\ r > 5 => w[5] \in [1..4 -> Fp]
           /\ r > 6 => w[6] \in [1..1 -> Fp]
           /\ r > 7 => w[7] \in [1..1 -> Fp]
           /\ r > 8 => w[8] \in [1..1 -> Fp]
<1>1. /\ Value(0) = [1..7 -> Fp] /\ Value(1) = [1..20 -> Fp] /\ Value(2) = [1..9 -> Fp]
      /\ Value(3) = [1..4 -> [1..4 -> Fp]] /\ Value(4) = [1..8 -> Fp]
      /\ Value(5) = [1..4 -> Fp] /\ Value(6) = [1..1 -> Fp] /\ Value(7) = [1..1 -> Fp]
      /\ Value(8) = [1..1 -> Fp]
  BY RoundNames, Widths DEF Value
<1>2. \A s \in 0..(r - 1) : w[s] \in Value(s)
  BY DEF Known
<1>3. r \in 1..9
  BY RoundNames
<1> QED BY <1>1, <1>2, <1>3

LEMMA OperandsShape ==
    ASSUME NEW w, NEW r \in Multiplies, Known(w, r)
    PROVE  /\ DOMAIN Operands(w, r) = 1..Width[r] /\ Len(Operands(w, r)) = Width[r]
           /\ \A i \in 1..Width[r] : Operands(w, r)[i] = <<Operands(w, r)[i][1], Operands(w, r)[i][2]>>
                /\ Operands(w, r)[i][1] \in Fp /\ Operands(w, r)[i][2] \in Fp
<1>0. r \in 1..(Rounds + 1) /\ (r = 1 \/ r = 2 \/ r = 4 \/ r = 5 \/ r = 6 \/ r = 7 \/ r = 8)
  BY RoundNames
<1>1. CASE r = 1
  <2>1. w[0] \in [1..7 -> Fp]
    BY <1>0, ValuesKnown
  <2>2. Operands(w, r) = [i \in 1..20 |-> <<w[0][Xi[i] + 1], w[0][Yi[i] + 1]>>]
    BY <1>1 DEF Operands, LayerOne
  <2>3. \A i \in 1..20 : w[0][Xi[i] + 1] \in Fp /\ w[0][Yi[i] + 1] \in Fp
    BY <2>1, LayerOnePlaces
  <2> QED BY <1>1, <2>2, <2>3, Widths
<1>2. CASE r = 2
  <2>1. w[0] \in [1..7 -> Fp] /\ w[1] \in [1..20 -> Fp]
    BY <1>0, <1>2, ValuesKnown
  <2> DEFINE t == Top(w[1])
             b == Bottom(w[1])
  <2>2. Operands(w, r) =
           << <<w[0][1], t.T34>>, <<w[0][2], t.T24>>, <<w[0][3], t.T23>>,
              <<t.T12, b.B34>>, <<t.T13, b.B24>>, <<t.T14, b.B23>>,
              <<t.T23, b.B14>>, <<t.T24, b.B13>>, <<t.T34, b.B12>> >>
    BY <1>2 DEF Operands, LayerTwo
  <2>3. /\ t.T12 \in Fp /\ t.T13 \in Fp /\ t.T14 \in Fp /\ t.T23 \in Fp /\ t.T24 \in Fp
        /\ t.T34 \in Fp
    BY <2>1, SubCorrect DEF Top
  <2>4. /\ b.B12 \in Fp /\ b.B13 \in Fp /\ b.B14 \in Fp /\ b.B23 \in Fp /\ b.B24 \in Fp
        /\ b.B34 \in Fp
    BY <2>1, SubCorrect DEF Bottom
  <2>5. w[0][1] \in Fp /\ w[0][2] \in Fp /\ w[0][3] \in Fp
    BY <2>1
  <2> HIDE DEF t, b
  <2> QED BY <1>2, <2>2, <2>3, <2>4, <2>5, Widths
<1>3. CASE r = 4
  <2>1. w[3] \in [1..4 -> [1..4 -> Fp]]
    BY <1>0, <1>3, ValuesKnown
  <2>2. Operands(w, r) =
           [i \in 1..8 |-> LET g == (i + 1) \div 2
                               j == 2 * ((i + 1) % 2)
                           IN  <<w[3][g][j + 1], w[3][g][j + 2]>>]
    BY <1>3 DEF Operands
  <2>3. \A i \in 1..8 : (i + 1) \div 2 \in 1..4 /\ 2 * ((i + 1) % 2) + 1 \in 1..4
                        /\ 2 * ((i + 1) % 2) + 2 \in 1..4
    OBVIOUS
  <2> QED BY <1>3, <2>1, <2>2, <2>3, Widths
<1>4. CASE r = 5
  <2>1. w[4] \in [1..8 -> Fp]
    BY <1>0, <1>4, ValuesKnown
  <2>2. Operands(w, r) = [g \in 1..4 |-> <<w[4][2 * g - 1], w[4][2 * g]>>]
    BY <1>4 DEF Operands
  <2> QED BY <1>4, <2>1, <2>2, Widths
<1>5. CASE r = 6
  <2>1. w[5] \in [1..4 -> Fp]
    BY <1>0, <1>5, ValuesKnown
  <2>2. Operands(w, r) = << <<w[5][3], w[5][4]>> >>
    BY <1>5 DEF Operands
  <2> QED BY <1>5, <2>1, <2>2, Widths
<1>6. CASE r = 7
  <2>1. w[5] \in [1..4 -> Fp] /\ w[6] \in [1..1 -> Fp]
    BY <1>0, <1>6, ValuesKnown
  <2>2. Operands(w, r) = << <<w[5][2], w[6][1]>> >>
    BY <1>6 DEF Operands
  <2> QED BY <1>6, <2>1, <2>2, Widths
<1>7. CASE r = 8
  <2>1. w[5] \in [1..4 -> Fp] /\ w[7] \in [1..1 -> Fp]
    BY <1>0, <1>7, ValuesKnown
  <2>2. Operands(w, r) = << <<w[5][1], w[7][1]>> >>
    BY <1>7 DEF Operands
  <2> QED BY <1>7, <2>1, <2>2, Widths
<1> QED BY <1>0, <1>1, <1>2, <1>3, <1>4, <1>5, <1>6, <1>7

-------------------------------------------------------------------------------
(* The messages of a round, from what a party knew when it began.            *)

Batch == Len(sides)

TripleAt(p, r, b, i) == TripleOf(p, Batch * Before[r], Width[r], b, i)

\* What p posts in round r.
Openings(p, r) ==
    IF r = MaskRound
    THEN [b \in Buckets |->
            [g \in 1..GatesPerBucket |->
                Add(Minor(wires[p][b])[g], MaskShare(p, GateOf(b, g)))]]
    ELSE [b \in Buckets |->
            [i \in 1..Width[r] |->
                <<Sub(Operands(wires[p][b], r)[i][1], TripleAt(p, r, b, i).a),
                  Sub(Operands(wires[p][b], r)[i][2], TripleAt(p, r, b, i).b)>>]]

\* What p makes of it when the peer's has come.
Closings(p, r) ==
    LET mine   == Openings(p, r)
        theirs == Openings(Peer(p), r)
    IN  IF r = MaskRound
        THEN [b \in Buckets |->
                [g \in 1..GatesPerBucket |->
                    [j \in 1..Digits |->
                        LeafShare(p, GateOf(b, g), j, Digit(Add(mine[b][g], theirs[b][g]), j))]]]
        ELSE [b \in Buckets |->
                [i \in 1..Width[r] |->
                    ProductShare(p, TripleAt(p, r, b, i),
                                 Add(mine[b][i][1], theirs[b][i][1]),
                                 Add(mine[b][i][2], theirs[b][i][2]))]]

Dealing ==
    /\ Batch \in Batches /\ sides \in [1..Batch -> Sides]
    /\ seed \in Seeds

LEMMA BatchIs ==
    ASSUME Dealing
    PROVE  Batch \in Nat \ {0} /\ Buckets = 1..Batch /\ 1 \in Buckets
BY EvaluatorAssumption DEF Dealing, Buckets, Batch

\* Which triples and gates a round uses.
LEMMA TriplePlace ==
    ASSUME Dealing, NEW r \in Multiplies, NEW b \in Buckets, NEW i \in 1..Width[r]
    PROVE  Batch * Before[r] + (b - 1) * Width[r] + i - 1
             \in 0..(TriplesPerBucket * Batch - 1)
<1>1. Batch \in Nat \ {0} /\ b \in 1..Batch
  BY BatchIs
<1>2. r \in 1..Rounds
  BY DEF Multiplies
<1>3. /\ Width[r] \in Nat /\ Before[r] \in Nat /\ Before[r + 1] \in Nat
      /\ Before[r + 1] = Before[r] + Width[r] /\ Before[r + 1] <= 44
  BY <1>2, WidthIn
<1>4. \A n \in Nat \ {0}, c, w, f \in Nat : \A d \in 1..n, k \in 1..w :
         c = f + w /\ c <= 44 =>
             /\ n * f \in Nat /\ (d - 1) * w \in Nat
             /\ n * f + (d - 1) * w + k - 1 \in 0..(44 * n - 1)
  <2>1. TAKE n \in Nat \ {0}, c, w, f \in Nat
  <2>2. TAKE d \in 1..n, k \in 1..w
  <2>3. HAVE c = f + w /\ c <= 44
  <2>4. n * f \in Nat /\ (d - 1) * w \in Nat /\ n * w \in Nat /\ n * c \in Nat
    OBVIOUS
  <2>5. (d - 1) * w <= (n - 1) * w
    <3>1. \A x, y, z \in Nat : x <= y => x * z <= y * z
      OBVIOUS
    <3>2. d - 1 \in Nat /\ n - 1 \in Nat /\ d - 1 <= n - 1
      OBVIOUS
    <3> QED BY <3>1, <3>2
  <2>6. (n - 1) * w = n * w - w
    OBVIOUS
  <2>7. n * c = n * f + n * w
    BY <2>3
  <2>8. n * c <= n * 44 /\ n * 44 = 44 * n
    BY <2>3
  <2> QED BY <2>4, <2>5, <2>6, <2>7, <2>8
<1>5. i \in 1..Width[r]
  OBVIOUS
<1> QED BY <1>1, <1>3, <1>4, <1>5 DEF TriplesPerBucket

LEMMA GatePlace ==
    ASSUME Dealing, NEW b \in Buckets, NEW g \in 1..GatesPerBucket
    PROVE  /\ GateOf(b, g) \in 0..(GatesPerBucket * Batch - 1)
           /\ \A j \in 1..Digits :
                GateOf(b, g) * Digits + j \in 1..(GatesPerBucket * Digits * Batch)
<1>1. Batch \in Nat \ {0} /\ b \in 1..Batch /\ GatesPerBucket = 4 /\ Digits = 4
  BY BatchIs, RoundNames
<1>2. PICK n \in Nat : n = Batch
  BY <1>1
<1>3. b \in 1..n /\ g \in 1..4 /\ GateOf(b, g) = (b - 1) * 4 + g - 1
  BY <1>1, <1>2 DEF GateOf
<1>4. (b - 1) * 4 + g - 1 \in 0..(4 * n - 1)
  BY <1>3
<1>5. \A j \in 1..4 : ((b - 1) * 4 + g - 1) * 4 + j \in 1..(4 * 4 * n)
  BY <1>3
<1> QED BY <1>1, <1>2, <1>3, <1>4, <1>5

-------------------------------------------------------------------------------
(* Shares are field elements, and what they open to.                         *)

LEMMA Bits01 == 0 \in Fp /\ 1 \in Fp /\ 4 \in Int /\ Fp \subseteq Nat /\ Fp \subseteq Int
BY Sizes DEF Fp

LEMMA TripleOpens ==
    ASSUME Dealing, NEW r \in Multiplies, NEW b \in Buckets, NEW i \in 1..Width[r]
    PROVE  LET tR == TripleAt("R", r, b, i)
               tS == TripleAt("S", r, b, i)
           IN  /\ tR.a \in Fp /\ tR.b \in Fp /\ tR.c \in Fp
               /\ tS.a \in Fp /\ tS.b \in Fp /\ tS.c \in Fp
               /\ Add(tR.c, tS.c) = Mul(Add(tR.a, tS.a), Add(tR.b, tS.b))
<1> DEFINE id == Batch * Before[r] + (b - 1) * Width[r] + i - 1
           t  == Dealt[seed][id]
<1>1. id \in 0..(TriplesPerBucket * Batch - 1)
  BY TriplePlace
<1>2. t \in [a : Fp, b : Fp, aR : Fp, bR : Fp, cR : Fp]
  BY <1>1, DealtAssumption DEF Dealing
<1>3. /\ TripleAt("R", r, b, i) = [a |-> t.aR, b |-> t.bR, c |-> t.cR]
      /\ TripleAt("S", r, b, i) = [a |-> Sub(t.a, t.aR), b |-> Sub(t.b, t.bR),
                                   c |-> Sub(Mul(t.a, t.b), t.cR)]
  BY DEF TripleAt, TripleOf, TripleShare
<1> HIDE DEF id, t
<1>4. /\ t.a \in Fp /\ t.b \in Fp /\ t.aR \in Fp /\ t.bR \in Fp /\ t.cR \in Fp
  BY <1>2
<1>5. Mul(t.a, t.b) \in Fp
  BY <1>4, MulCorrect
<1>6. /\ Sub(t.a, t.aR) \in Fp /\ Sub(t.b, t.bR) \in Fp /\ Sub(Mul(t.a, t.b), t.cR) \in Fp
  BY <1>4, <1>5, SubCorrect
<1>7. /\ Add(t.aR, Sub(t.a, t.aR)) = t.a /\ Add(t.bR, Sub(t.b, t.bR)) = t.b
      /\ Add(t.cR, Sub(Mul(t.a, t.b), t.cR)) = Mul(t.a, t.b)
  BY <1>4, <1>5, ShareAndRest
<1> QED BY <1>3, <1>4, <1>6, <1>7

LEMMA TripleTyped ==
    ASSUME Dealing, NEW p \in Party, NEW r \in Multiplies, NEW b \in Buckets,
           NEW i \in 1..Width[r]
    PROVE  /\ TripleAt(p, r, b, i).a \in Fp /\ TripleAt(p, r, b, i).b \in Fp
           /\ TripleAt(p, r, b, i).c \in Fp
BY TripleOpens DEF Party

LEMMA MaskTyped ==
    ASSUME Dealing, NEW p \in Party, NEW b \in Buckets, NEW g \in 1..GatesPerBucket
    PROVE  MaskShare(p, GateOf(b, g)) \in Fp
<1>1. GateOf(b, g) \in 0..(GatesPerBucket * Batch - 1)
  BY GatePlace
<1>2. Mask[seed][GateOf(b, g)] \in [Party -> Fp]
  BY <1>1, DealtAssumption DEF Dealing
<1> QED BY <1>2 DEF MaskShare

LEMMA LeafOpens ==
    ASSUME Dealing, NEW b \in Buckets, NEW g \in 1..GatesPerBucket, NEW j \in 1..Digits,
           NEW d
    PROVE  LET m    == Add(MaskShare("R", GateOf(b, g)), MaskShare("S", GateOf(b, g)))
               mine == LeafShare("R", GateOf(b, g), j, d)
               rest == LeafShare("S", GateOf(b, g), j, d)
           IN  /\ mine \in Fp /\ rest \in Fp
               /\ Add(mine, rest) = IF d = Digit(m, j) THEN 1 ELSE 0
<1> DEFINE m    == Add(MaskShare("R", GateOf(b, g)), MaskShare("S", GateOf(b, g)))
           leaf == IF d = Digit(m, j) THEN 1 ELSE 0
           l    == Leaf[seed][GateOf(b, g) * Digits + j]
<1>1. GateOf(b, g) * Digits + j \in 1..(GatesPerBucket * Digits * Batch)
  BY GatePlace
<1>2. l \in Fp
  BY <1>1, DealtAssumption DEF Dealing
<1>3. leaf \in Fp
  BY Bits01
<1>4. Sub(leaf, l) \in Fp /\ Add(l, Sub(leaf, l)) = leaf
  BY <1>2, <1>3, SubCorrect, ShareAndRest
<1>5. LeafShare("R", GateOf(b, g), j, d) = l /\ LeafShare("S", GateOf(b, g), j, d) = Sub(leaf, l)
  BY DEF LeafShare
<1> HIDE DEF leaf, l
<1>6. LeafShare("R", GateOf(b, g), j, d) \in Fp /\ LeafShare("S", GateOf(b, g), j, d) \in Fp
      /\ Add(LeafShare("R", GateOf(b, g), j, d), LeafShare("S", GateOf(b, g), j, d)) = leaf
  BY <1>2, <1>4, <1>5
<1> QED BY <1>6 DEF leaf

LEMMA LeafTyped ==
    ASSUME Dealing, NEW p \in Party, NEW b \in Buckets, NEW g \in 1..GatesPerBucket,
           NEW j \in 1..Digits, NEW d
    PROVE  LeafShare(p, GateOf(b, g), j, d) \in Fp
BY LeafOpens DEF Party

LEMMA MinorTyped ==
    ASSUME NEW w, Known(w, 3)
    PROVE  \A g \in 1..GatesPerBucket : Minor(w)[g] \in Fp
<1> DEFINE d == w[0]
           t == Top(w[1])
           n == w[2]
<1>1. 3 \in 1..(Rounds + 1)
  BY RoundNames
<1>2. d \in [1..7 -> Fp] /\ w[1] \in [1..20 -> Fp] /\ n \in [1..9 -> Fp]
  BY <1>1, ValuesKnown
<1>3. t.T12 \in Fp
  BY <1>2, SubCorrect DEF Top
<1>4. Minor(w) = << d[1], t.T12,
                    Add(Sub(n[1], n[2]), n[3]),
                    Add(Sub(Add(Add(Sub(n[4], n[5]), n[6]), n[7]), n[8]), n[9]) >>
  BY DEF Minor, MinorsOf
<1> HIDE DEF d, t, n
<1>5. d[1] \in Fp /\ \A i \in 1..9 : n[i] \in Fp
  BY <1>2
<1>6. Add(Sub(n[1], n[2]), n[3]) \in Fp
  <2>1. Sub(n[1], n[2]) \in Fp
    BY <1>5, SubCorrect
  <2> QED BY <1>5, <2>1, AddCorrect
<1>7. Add(Sub(Add(Add(Sub(n[4], n[5]), n[6]), n[7]), n[8]), n[9]) \in Fp
  <2>1. Sub(n[4], n[5]) \in Fp
    BY <1>5, SubCorrect
  <2>2. Add(Sub(n[4], n[5]), n[6]) \in Fp
    BY <1>5, <2>1, AddCorrect
  <2>3. Add(Add(Sub(n[4], n[5]), n[6]), n[7]) \in Fp
    BY <1>5, <2>2, AddCorrect
  <2>4. Sub(Add(Add(Sub(n[4], n[5]), n[6]), n[7]), n[8]) \in Fp
    BY <1>5, <2>3, SubCorrect
  <2> QED BY <1>5, <2>4, AddCorrect
<1>8. GatesPerBucket = 4
  BY RoundNames
<1> QED BY <1>3, <1>4, <1>5, <1>6, <1>7, <1>8

-------------------------------------------------------------------------------
(* What is posted and what comes of it depend only on earlier rounds.        *)

Knows(p, r) == \A b \in Buckets : Known(wires[p][b], r)

LEMMA PeerIs ==
    /\ Peer("R") = "S" /\ Peer("S") = "R" /\ Party = {"R", "S"}
    /\ \A p \in Party : /\ Peer(p) \in Party /\ Peer(Peer(p)) = p /\ Peer(p) # p
                        /\ \A q \in Party : q = p \/ q = Peer(p)
BY DEF Peer, Party

LEMMA OpeningsTyped ==
    ASSUME Dealing, NEW p \in Party, NEW r \in 1..Rounds, Knows(p, r)
    PROVE  Openings(p, r) \in [Buckets -> Piece(r)]
<1>1. CASE r = MaskRound
  <2>1. \A b \in Buckets, g \in 1..GatesPerBucket :
           Add(Minor(wires[p][b])[g], MaskShare(p, GateOf(b, g))) \in Fp
    <3>1. TAKE b \in Buckets, g \in 1..GatesPerBucket
    <3>2. Minor(wires[p][b])[g] \in Fp
      BY <1>1, MinorTyped, RoundNames DEF Knows
    <3>3. MaskShare(p, GateOf(b, g)) \in Fp
      BY MaskTyped
    <3> QED BY <3>2, <3>3, AddCorrect
  <2> QED BY <1>1, <2>1 DEF Openings, Piece
<1>2. CASE r # MaskRound
  <2>0. r \in Multiplies
    BY <1>2 DEF Multiplies
  <2>1. ASSUME NEW b \in Buckets, NEW i \in 1..Width[r]
        PROVE  /\ Sub(Operands(wires[p][b], r)[i][1], TripleAt(p, r, b, i).a) \in Fp
               /\ Sub(Operands(wires[p][b], r)[i][2], TripleAt(p, r, b, i).b) \in Fp
    <3>1. Known(wires[p][b], r)
      BY DEF Knows
    <3>2. /\ Operands(wires[p][b], r)[i][1] \in Fp
          /\ Operands(wires[p][b], r)[i][2] \in Fp
      BY <2>0, <3>1, OperandsShape
    <3>3. TripleAt(p, r, b, i).a \in Fp /\ TripleAt(p, r, b, i).b \in Fp
      BY <2>0, TripleTyped
    <3> QED BY <3>2, <3>3, SubCorrect
  <2> QED BY <1>2, <2>1 DEF Openings, Piece
<1> QED BY <1>1, <1>2

LEMMA ProductTyped ==
    ASSUME NEW p \in Party, NEW t, t.a \in Fp, t.b \in Fp, t.c \in Fp,
           NEW d \in Fp, NEW e \in Fp
    PROVE  ProductShare(p, t, d, e) \in Fp
<1>1. Mul(d, t.b) \in Fp /\ Mul(e, t.a) \in Fp /\ Mul(d, e) \in Fp
  BY MulCorrect
<1>2. Add(t.c, Mul(d, t.b)) \in Fp
  BY <1>1, AddCorrect
<1>3. Add(Add(t.c, Mul(d, t.b)), Mul(e, t.a)) \in Fp
  BY <1>1, <1>2, AddCorrect
<1>4. Add(Add(Add(t.c, Mul(d, t.b)), Mul(e, t.a)), Mul(d, e)) \in Fp
  BY <1>1, <1>3, AddCorrect
<1> QED BY <1>3, <1>4 DEF ProductShare

LEMMA ClosingsTyped ==
    ASSUME Dealing, NEW p \in Party, NEW r \in 1..Rounds, Knows(p, r), Knows(Peer(p), r)
    PROVE  Closings(p, r) \in [Buckets -> Value(r)]
<1>1. Openings(p, r) \in [Buckets -> Piece(r)] /\ Openings(Peer(p), r) \in [Buckets -> Piece(r)]
  BY PeerIs, OpeningsTyped
<1>2. CASE r = MaskRound
  <2>1. \A b \in Buckets, g \in 1..GatesPerBucket, j \in 1..Digits :
           LeafShare(p, GateOf(b, g), j,
                     Digit(Add(Openings(p, r)[b][g], Openings(Peer(p), r)[b][g]), j)) \in Fp
    BY LeafTyped
  <2>2. Value(r) = [1..GatesPerBucket -> [1..Digits -> Fp]]
    BY <1>2, RoundNames DEF Value
  <2> QED BY <1>2, <2>1, <2>2 DEF Closings
<1>3. CASE r # MaskRound
  <2>0. r \in Multiplies
    BY <1>3 DEF Multiplies
  <2>1. ASSUME NEW b \in Buckets, NEW i \in 1..Width[r]
        PROVE  ProductShare(p, TripleAt(p, r, b, i),
                            Add(Openings(p, r)[b][i][1], Openings(Peer(p), r)[b][i][1]),
                            Add(Openings(p, r)[b][i][2], Openings(Peer(p), r)[b][i][2])) \in Fp
    <3>0. Piece(r) = [1..Width[r] -> Fp \X Fp]
      BY <1>3 DEF Piece
    <3>1. /\ Openings(p, r)[b][i] \in Fp \X Fp
          /\ Openings(Peer(p), r)[b][i] \in Fp \X Fp
      BY ONLY <1>1, <3>0, b \in Buckets, i \in 1..Width[r]
    <3>2. /\ Add(Openings(p, r)[b][i][1], Openings(Peer(p), r)[b][i][1]) \in Fp
          /\ Add(Openings(p, r)[b][i][2], Openings(Peer(p), r)[b][i][2]) \in Fp
      BY <3>1, AddCorrect
    <3> QED BY <2>0, <3>2, TripleTyped, ProductTyped
  <2>2. Value(r) = [1..Width[r] -> Fp]
    BY <1>3 DEF Value
  <2> QED BY <1>3, <2>1, <2>2 DEF Closings
<1> QED BY <1>2, <1>3

LEMMA OperandsAgree ==
    ASSUME NEW w, NEW v, NEW r \in Multiplies, \A s \in 0..(r - 1) : w[s] = v[s]
    PROVE  Operands(w, r) = Operands(v, r)
<1>0. r = 1 \/ r = 2 \/ r = 4 \/ r = 5 \/ r = 6 \/ r = 7 \/ r = 8
  BY RoundNames
<1>1. CASE r = 1
  <2>1. w[0] = v[0]
    BY <1>1
  <2> QED BY <1>1, <2>1 DEF Operands
<1>2. CASE r = 2
  <2>1. w[0] = v[0] /\ w[1] = v[1]
    BY <1>2
  <2> QED BY <1>2, <2>1 DEF Operands
<1>3. CASE r = 4
  <2>1. w[3] = v[3]
    BY <1>3
  <2> QED BY <1>3, <2>1 DEF Operands
<1>4. CASE r = 5
  <2>1. w[4] = v[4]
    BY <1>4
  <2> QED BY <1>4, <2>1 DEF Operands
<1>5. CASE r = 6
  <2>1. w[5] = v[5]
    BY <1>5
  <2> QED BY <1>5, <2>1 DEF Operands
<1>6. CASE r = 7
  <2>1. w[5] = v[5] /\ w[6] = v[6]
    BY <1>6
  <2> QED BY <1>6, <2>1 DEF Operands
<1>7. CASE r = 8
  <2>1. w[5] = v[5] /\ w[7] = v[7]
    BY <1>7
  <2> QED BY <1>7, <2>1 DEF Operands
<1> QED BY <1>0, <1>1, <1>2, <1>3, <1>4, <1>5, <1>6, <1>7

LEMMA MinorsAgree ==
    ASSUME NEW w, NEW v, \A s \in 0..2 : w[s] = v[s]
    PROVE  Minor(w) = Minor(v)
<1>1. w[0] = v[0] /\ w[1] = v[1] /\ w[2] = v[2]
  OBVIOUS
<1> QED BY <1>1 DEF Minor

LEMMA OpeningsKept ==
    ASSUME UNCHANGED <<sides, seed>>, NEW p \in Party, NEW r \in 1..Rounds,
           \A b \in Buckets : \A s \in 0..(r - 1) : wires'[p][b][s] = wires[p][b][s]
    PROVE  Openings(p, r)' = Openings(p, r)
<1>0. Buckets' = Buckets /\ Batch' = Batch
  BY DEF Buckets, Batch
<1>1. CASE r = MaskRound
  <2>1. \A b \in Buckets : Minor(wires'[p][b]) = Minor(wires[p][b])
    BY <1>1, MinorsAgree, RoundNames
  <2>2. \A id : MaskShare(p, id)' = MaskShare(p, id)
    BY DEF MaskShare
  <2> QED BY <1>0, <1>1, <2>1, <2>2 DEF Openings
<1>2. CASE r # MaskRound
  <2>0. r \in Multiplies
    BY <1>2 DEF Multiplies
  <2>1. \A b \in Buckets : Operands(wires'[p][b], r) = Operands(wires[p][b], r)
    BY <2>0, OperandsAgree
  <2>2. \A b, i : TripleAt(p, r, b, i)' = TripleAt(p, r, b, i)
    BY <1>0 DEF TripleAt, TripleOf, TripleShare
  <2> QED BY <1>0, <1>2, <2>1, <2>2 DEF Openings
<1> QED BY <1>1, <1>2

LEMMA ClosingsKept ==
    ASSUME UNCHANGED <<sides, seed>>, NEW p \in Party, NEW r \in 1..Rounds,
           \A q \in Party : Openings(q, r)' = Openings(q, r)
    PROVE  Closings(p, r)' = Closings(p, r)
<1>0. Buckets' = Buckets /\ Batch' = Batch
  BY DEF Buckets, Batch
<1>1. Openings(p, r)' = Openings(p, r) /\ Openings(Peer(p), r)' = Openings(Peer(p), r)
  BY PeerIs
<1>2. CASE r = MaskRound
  BY <1>0, <1>1, <1>2 DEF Closings, LeafShare, MaskShare
<1>3. CASE r # MaskRound
  BY <1>0, <1>1, <1>3 DEF Closings, TripleAt, TripleOf, TripleShare
<1> QED BY <1>2, <1>3

-------------------------------------------------------------------------------
(* The invariant.                                                            *)

\* The rounds whose correlations p has taken.
Begun(p) == IF posted[p] = <<>> THEN round[p] ELSE round[p] + 1

\* How many pieces the peer has put into the socket since p's round began.
Coming(p) ==
    LET q == Peer(p) IN
    IF round[q] = round[p] + 1 THEN Batch + sent[q]
    ELSE IF round[q] = round[p] THEN sent[q]
    ELSE sent[q] - Batch

\* They are the peer's message of p's round, and then that of the next one.
ComesAs(p, k) ==
    IF k <= Batch THEN Openings(Peer(p), round[p])[k]
    ELSE Openings(Peer(p), round[p] + 1)[k - Batch]

Pieces == UNION {Piece(r) : r \in 1..Rounds}

WireForms ==
    /\ wires = [p \in Party |-> wires[p]]
    /\ \A p \in Party : wires[p] = [b \in Buckets |-> wires[p][b]]
    /\ \A p \in Party, b \in Buckets : DOMAIN wires[p][b] = 0..(round[p] - 1)

\* The forms of the variables, as far as the rest relies on them.
Forms ==
    /\ Dealing
    /\ round \in [Party -> 1..(Rounds + 1)]
    /\ taken \in [Party -> Nat]
    /\ sent \in [Party -> Nat]
    /\ posted = [p \in Party |-> posted[p]]
    /\ inbox \in [Party -> Seq(Pieces)]
    /\ chan \in [Party -> Seq(Pieces)]
    /\ WireForms

\* A party has taken the triples of the rounds it has begun.
Paid == \A p \in Party : taken[p] = Batch * Before[Begun(p)]

\* The parties are at most a round apart, and what one has posted is the message
\* of its round.
Exchanging ==
    \A p \in Party :
        /\ sent[p] <= Batch /\ Len(inbox[p]) <= Batch
        /\ round[Peer(p)] - round[p] \in {-1, 0, 1}
        /\ posted[p] = <<>> => sent[p] = 0 /\ inbox[p] = <<>>
        /\ posted[p] # <<>> => round[p] \in 1..Rounds /\ posted[p] = Openings(p, round[p])

\* What p has received and what is on its way to p, in order.
Flows(p) ==
    /\ Len(inbox[p]) + Len(chan[p]) = Coming(p)
    /\ \A k \in 1..Len(inbox[p]) : inbox[p][k] = ComesAs(p, k)
    /\ \A k \in 1..Len(chan[p]) : chan[p][k] = ComesAs(p, Len(inbox[p]) + k)

Stream == \A p \in Party : Flows(p)

\* What p holds of the rounds it has finished is what their messages yield.
Wires ==
    \A p \in Party :
        /\ Knows(p, round[p])
        /\ \A r \in 1..(round[p] - 1) : \A b \in Buckets : wires[p][b][r] = Closings(p, r)[b]

EvaluatorInv == Forms /\ Paid /\ Exchanging /\ Stream /\ Wires

LEMMA PostsOpenings ==
    ASSUME Forms, Paid, Wires, NEW p \in Party, round[p] \in 1..Rounds, posted[p] = <<>>
    PROVE  /\ Opening(p) = Openings(p, round[p])
           /\ Wanted(p) = Width[round[p]]
<1> DEFINE r == round[p]
<1>1. Knows(p, r) /\ 1 \in Buckets /\ Dealing
  BY BatchIs DEF Wires, Forms
<1>2. taken[p] = Batch * Before[r]
  BY DEF Paid, Begun
<1>3. CASE r = MaskRound
  <2>1. Wanted(p) = 0 /\ Width[r] = 0
    BY <1>3, Widths, RoundNames DEF Wanted
  <2> QED BY <1>3, <2>1 DEF Opening, Openings
<1>4. CASE r # MaskRound
  <2>1. r \in Multiplies
    BY <1>4 DEF Multiplies
  <2>2. Known(wires[p][1], r)
    BY <1>1 DEF Knows
  <2>3. Wanted(p) = Width[r]
    BY <1>4, <2>1, <2>2, OperandsShape DEF Wanted
  <2>4. \A b, i : TripleOf(p, taken[p], Wanted(p), b, i) = TripleAt(p, r, b, i)
    BY <1>2, <2>3 DEF TripleAt
  <2>5. Opening(p) =
           [b \in Buckets |->
               [i \in 1..Wanted(p) |->
                   <<Sub(Operands(wires[p][b], r)[i][1],
                         TripleOf(p, taken[p], Wanted(p), b, i).a),
                     Sub(Operands(wires[p][b], r)[i][2],
                         TripleOf(p, taken[p], Wanted(p), b, i).b)>>]]
    BY <1>4 DEF Opening
  <2> QED BY <1>4, <2>3, <2>4, <2>5 DEF Openings
<1> QED BY <1>3, <1>4

\* A full inbox holds the peer's message of this round, and the peer is past
\* posting it.
LEMMA InboxIs ==
    ASSUME EvaluatorInv, NEW p \in Party, posted[p] # <<>>, Len(inbox[p]) = Batch
    PROVE  /\ round[Peer(p)] >= round[p]
           /\ \A b \in Buckets : inbox[p][b] = Openings(Peer(p), round[p])[b]
<1>1. Batch \in Nat \ {0} /\ Buckets = 1..Batch
  BY BatchIs DEF EvaluatorInv, Forms
<1>2. /\ round[Peer(p)] \in 1..(Rounds + 1) /\ round[p] \in 1..(Rounds + 1)
      /\ sent[Peer(p)] \in Nat /\ sent[Peer(p)] <= Batch
      /\ Len(chan[p]) \in Nat
  BY PeerIs DEF EvaluatorInv, Forms, Exchanging
<1>3. Batch + Len(chan[p]) = Coming(p)
  BY DEF EvaluatorInv, Stream, Flows
<1>4. round[Peer(p)] - round[p] \in {-1, 0, 1}
  BY DEF EvaluatorInv, Exchanging
<1>5. round[Peer(p)] >= round[p]
  <2>1. CASE round[Peer(p)] - round[p] = -1
    <3>1. round[Peer(p)] # round[p] + 1 /\ round[Peer(p)] # round[p]
      BY <1>2, <2>1
    <3>2. Coming(p) = sent[Peer(p)] - Batch
      BY <3>1 DEF Coming
    <3> QED BY <1>1, <1>2, <1>3, <3>2
  <2> QED BY <1>2, <1>4, <2>1
<1>6. \A k \in 1..Batch : inbox[p][k] = ComesAs(p, k)
  BY DEF EvaluatorInv, Stream, Flows
<1> QED BY <1>1, <1>5, <1>6 DEF ComesAs

LEMMA ResultsAreClosings ==
    ASSUME EvaluatorInv, NEW p \in Party, Exchanged(p)
    PROVE  /\ Results(p, inbox[p]) = Closings(p, round[p])
           /\ Closings(p, round[p]) \in [Buckets -> Value(round[p])]
           /\ round[p] \in 1..Rounds /\ round[Peer(p)] >= round[p]
           /\ sent[p] = Batch /\ Len(inbox[p]) = Batch
<1> DEFINE r == round[p]
           q == Peer(p)
<1>1. /\ posted[p] # <<>> /\ r \in 1..Rounds /\ posted[p] = Openings(p, r)
      /\ sent[p] = Len(posted[p]) /\ Len(inbox[p]) = Len(posted[p])
  BY DEF EvaluatorInv, Exchanging, Exchanged, AllSent
<1>2. /\ Dealing /\ Batch \in Nat \ {0} /\ Buckets = 1..Batch /\ Knows(p, r)
      /\ 1 \in Buckets /\ q \in Party /\ Peer(q) = p
  BY BatchIs, PeerIs DEF EvaluatorInv, Forms, Wires
<1>3. Len(posted[p]) = Batch
  <2>1. Openings(p, r) \in [1..Batch -> Piece(r)]
    BY <1>1, <1>2, OpeningsTyped
  <2> QED BY <1>1, <1>2, <2>1
<1>4. /\ round[q] >= r /\ \A b \in Buckets : inbox[p][b] = Openings(q, r)[b]
  BY <1>1, <1>3, InboxIs
<1>5. Knows(q, r)
  <2>1. Knows(q, round[q])
    BY <1>2 DEF EvaluatorInv, Wires
  <2>2. round[q] \in 1..(Rounds + 1) /\ r \in 1..(Rounds + 1)
    BY <1>2 DEF EvaluatorInv, Forms
  <2> QED BY <1>4, <2>1, <2>2, RoundNames DEF Knows, Known
<1>6. Closings(p, r) \in [Buckets -> Value(r)]
  BY <1>1, <1>2, <1>5, ClosingsTyped
<1>7. Results(p, inbox[p]) = Closings(p, r)
  <2>1. CASE r = MaskRound
    BY <1>1, <1>4, <2>1 DEF Results, Closings
  <2>2. CASE r # MaskRound
    <3>1. r \in Multiplies
      BY <1>1, <2>2 DEF Multiplies
    <3>2. Wanted(p) = Width[r]
      <4>1. Known(wires[p][1], r)
        BY <1>2 DEF Knows
      <4> QED BY <2>2, <3>1, <4>1, OperandsShape DEF Wanted
    <3>3. taken[p] - Wanted(p) * Len(sides) = Batch * Before[r]
      <4>1. taken[p] = Batch * Before[r + 1]
        BY <1>1 DEF EvaluatorInv, Paid, Begun
      <4>2. Width[r] \in Nat /\ Before[r] \in Nat /\ Before[r + 1] = Before[r] + Width[r]
        BY <1>1, WidthIn
      <4>3. \A n, w, f \in Nat : n * (f + w) - w * n = n * f
        OBVIOUS
      <4>4. Batch * (Before[r] + Width[r]) - Width[r] * Batch = Batch * Before[r]
        BY <1>2, <4>2, <4>3
      <4> QED BY <3>2, <4>1, <4>2, <4>4 DEF Batch
    <3>4. \A b, i : TripleOf(p, taken[p] - Wanted(p) * Len(sides), Wanted(p), b, i)
                      = TripleAt(p, r, b, i)
      BY <3>2, <3>3 DEF TripleAt
    <3> QED BY <1>1, <1>4, <2>2, <3>2, <3>4 DEF Results, Closings
  <2> QED BY <2>1, <2>2
<1> QED BY <1>1, <1>3, <1>4, <1>6, <1>7

LEMMA SameOpenings ==
    ASSUME UNCHANGED <<sides, seed, wires>>
    PROVE  /\ Batch' = Batch /\ Buckets' = Buckets /\ Dealing' = Dealing
           /\ \A q, r : Openings(q, r)' = Openings(q, r)
           /\ \A q, r : Closings(q, r)' = Closings(q, r)
<1>1. Batch' = Batch /\ Buckets' = Buckets /\ Dealing' = Dealing
  BY DEF Batch, Buckets, Dealing
<1>2. ASSUME NEW q, NEW r PROVE Openings(q, r)' = Openings(q, r)
  BY DEF Openings, Buckets, Batch, TripleAt, TripleOf, TripleShare, MaskShare
<1>3. ASSUME NEW q, NEW r PROVE Closings(q, r)' = Closings(q, r)
  <2>1. Openings(q, r)' = Openings(q, r) /\ Openings(Peer(q), r)' = Openings(Peer(q), r)
    BY <1>2
  <2>2. CASE r = MaskRound
    BY <1>1, <2>1, <2>2 DEF Closings, LeafShare, MaskShare
  <2>3. CASE r # MaskRound
    BY <1>1, <2>1, <2>3 DEF Closings, TripleAt, TripleOf, TripleShare
  <2> QED BY <2>2, <2>3
<1> QED BY <1>1, <1>2, <1>3

LEMMA KeepsWireForms ==
    ASSUME WireForms, UNCHANGED <<sides, wires, round>>
    PROVE  WireForms'
<1>1. Buckets' = Buckets
  BY DEF Buckets
<1>2. wires' = [p \in Party |-> wires'[p]]
  BY DEF WireForms
<1>3. ASSUME NEW p \in Party PROVE wires'[p] = [b \in Buckets' |-> wires'[p][b]]
  BY <1>1 DEF WireForms
<1>4. \A p \in Party, b \in Buckets' : DOMAIN wires'[p][b] = 0..(round'[p] - 1)
  BY <1>1 DEF WireForms
<1> QED BY <1>2, <1>3, <1>4 DEF WireForms

LEMMA KeepsWires ==
    ASSUME Wires, UNCHANGED <<sides, seed, wires, round>>
    PROVE  Wires'
<1>1. Buckets' = Buckets /\ \A q, r : Closings(q, r)' = Closings(q, r)
  BY SameOpenings
<1>2. \A p, r : Knows(p, r)' = Knows(p, r)
  BY DEF Knows, Buckets
<1> QED BY <1>1, <1>2 DEF Wires

LEMMA KeepsComesAs ==
    ASSUME UNCHANGED <<sides, seed, wires, round>>
    PROVE  \A p, k : ComesAs(p, k)' = ComesAs(p, k)
<1>1. TAKE p, k
<1>2. Openings(Peer(p), round[p])' = Openings(Peer(p), round[p])
  BY SameOpenings
<1>3. Openings(Peer(p), round[p] + 1)' = Openings(Peer(p), round[p] + 1)
  BY SameOpenings
<1> QED BY <1>2, <1>3 DEF ComesAs, Batch

LEMMA OpeningNotEmpty ==
    ASSUME Dealing, NEW p \in Party, NEW r \in 1..Rounds, Knows(p, r)
    PROVE  /\ Openings(p, r) # <<>> /\ Len(Openings(p, r)) = Batch
           /\ \A b \in 1..Batch : Openings(p, r)[b] \in Pieces
<1>1. Openings(p, r) \in [1..Batch -> Piece(r)] /\ Batch \in Nat \ {0}
  BY OpeningsTyped, BatchIs
<1> QED BY <1>1 DEF Pieces

LEMMA PostKeeps ==
    ASSUME EvaluatorInv, NEW p \in Party, Post(p)
    PROVE  EvaluatorInv'
<1> DEFINE r == round[p]
<1>0. /\ Forms /\ Paid /\ Exchanging /\ Stream /\ Wires /\ Dealing
      /\ r \in 1..Rounds /\ posted[p] = <<>>
      /\ posted' = [posted EXCEPT ![p] = Opening(p)]
      /\ taken' = [taken EXCEPT ![p] = @ + Wanted(p) * Batch]
      /\ UNCHANGED <<sides, seed, round, sent, inbox, chan, wires>>
  BY DEF EvaluatorInv, Post, Forms, Batch
<1>1. /\ Opening(p) = Openings(p, r) /\ Wanted(p) = Width[r]
  BY <1>0, PostsOpenings
<1>2. /\ Batch' = Batch /\ Buckets' = Buckets /\ Dealing'
      /\ \A q, s : Openings(q, s)' = Openings(q, s)
  BY <1>0, SameOpenings
<1>3. Openings(p, r) # <<>>
  BY <1>0, OpeningNotEmpty DEF Wires
<1>4. /\ posted' = [q \in Party |-> IF q = p THEN Openings(p, r) ELSE posted[q]]
      /\ taken' = [q \in Party |-> IF q = p THEN taken[p] + Width[r] * Batch ELSE taken[q]]
  BY <1>0, <1>1 DEF Forms
<1>5. /\ Width[r] \in Nat /\ Before[r] \in Nat /\ Before[r + 1] = Before[r] + Width[r]
      /\ Batch \in Nat
  BY <1>0, WidthIn, BatchIs
<1>6. Forms'
  <2>1. taken[p] + Width[r] * Batch \in Nat
    <3>1. taken[p] \in Nat
      BY <1>0 DEF Forms
    <3>2. \A x, y, n \in Nat : x + y * n \in Nat
      OBVIOUS
    <3> QED BY <1>5, <3>1, <3>2
  <2>2. taken' \in [Party -> Nat]
    BY <1>0, <1>4, <2>1 DEF Forms
  <2>3. posted' = [q \in Party |-> posted'[q]]
    BY <1>4
  <2>4. /\ round' \in [Party -> 1..(Rounds + 1)] /\ sent' \in [Party -> Nat]
        /\ inbox' \in [Party -> Seq(Pieces)] /\ chan' \in [Party -> Seq(Pieces)]
    BY <1>0 DEF Forms
  <2>5. WireForms'
    BY <1>0, KeepsWireForms DEF Forms
  <2> QED BY <1>2, <2>2, <2>3, <2>4, <2>5 DEF Forms
<1>7. Paid'
  <2>1. Batch * Before[r] + Width[r] * Batch = Batch * Before[r + 1]
    <3>1. \A n, f, w \in Nat : n * f + w * n = n * (f + w)
      OBVIOUS
    <3> QED BY <1>5, <3>1
  <2>2. taken[p] = Batch * Before[r]
    BY <1>0 DEF Paid, Begun
  <2>3. taken'[p] = Batch * Before[Begun(p)']
    BY <1>0, <1>3, <1>4, <2>1, <2>2 DEF Begun
  <2>4. ASSUME NEW q \in Party, q # p PROVE taken'[q] = Batch * Before[Begun(q)']
    BY <1>0, <1>4, <2>4 DEF Begun, Paid
  <2> QED BY <1>2, <2>3, <2>4 DEF Paid
<1>8. Exchanging'
  BY <1>0, <1>2, <1>3, <1>4 DEF Exchanging
<1>9. Stream'
  <2>1. \A q : Coming(q)' = Coming(q)
    BY <1>0, <1>2 DEF Coming
  <2>2. \A q, k : ComesAs(q, k)' = ComesAs(q, k)
    BY <1>0, KeepsComesAs
  <2>3. ASSUME NEW q \in Party PROVE Flows(q)'
    <3>1. Flows(q)
      BY <1>0 DEF Stream
    <3> QED BY <1>0, <2>1, <2>2, <3>1 DEF Flows
  <2> QED BY <2>3 DEF Stream
<1>10. Wires'
  BY <1>0, KeepsWires
<1> QED BY <1>6, <1>7, <1>8, <1>9, <1>10 DEF EvaluatorInv

\* A party that can send is in the middle of its message.
LEMMA MidMessage ==
    ASSUME EvaluatorInv, NEW p \in Party
    PROVE  /\ posted[p] # <<>> => Len(posted[p]) = Batch
           /\ ~ AllSent(p) => posted[p] # <<>> /\ sent[p] < Batch
<1>1. posted[p] # <<>> =>
         /\ Len(posted[p]) = Batch /\ posted[p] = Openings(p, round[p])
  BY OpeningNotEmpty DEF EvaluatorInv, Forms, Exchanging, Wires
<1>2. /\ posted[p] = <<>> => sent[p] = 0
      /\ sent[p] \in Nat /\ sent[p] <= Batch /\ Batch \in Nat
  BY BatchIs DEF EvaluatorInv, Exchanging, Forms
<1>3. Len(<<>>) = 0
  OBVIOUS
<1> QED BY <1>1, <1>2, <1>3 DEF AllSent

LEMMA SendKeeps ==
    ASSUME EvaluatorInv, NEW p \in Party, SendPiece(p)
    PROVE  EvaluatorInv'
<1> DEFINE q == Peer(p)
           x == posted[p][sent[p] + 1]
<1>0. /\ Forms /\ Paid /\ Exchanging /\ Stream /\ Wires /\ Dealing
      /\ ~ AllSent(p)
      /\ sent' = [sent EXCEPT ![p] = @ + 1]
      /\ chan' = [chan EXCEPT ![q] = Append(@, posted[p][sent'[p]])]
      /\ UNCHANGED <<sides, seed, round, posted, inbox, wires, taken>>
  BY DEF EvaluatorInv, SendPiece, CanSend, Forms
<1>1. /\ q \in Party /\ q # p /\ Peer(q) = p /\ \A s \in Party : s = p \/ s = q
  BY PeerIs
<1>2. posted[p] # <<>> /\ sent[p] < Batch /\ sent[p] \in Nat /\ Batch \in Nat \ {0}
  BY <1>0, MidMessage, BatchIs DEF Forms
<1>3. round[p] \in 1..Rounds /\ posted[p] = Openings(p, round[p])
  BY <1>0, <1>2 DEF Exchanging
<1>4. x \in Pieces
  BY <1>0, <1>2, <1>3, OpeningNotEmpty DEF Wires
<1>5. /\ sent' \in [Party -> Nat] /\ sent'[p] = sent[p] + 1 /\ sent'[q] = sent[q]
  BY <1>0, <1>1, <1>2 DEF Forms
<1>6. /\ chan' \in [Party -> Seq(Pieces)]
      /\ chan'[q] = Append(chan[q], x) /\ chan'[p] = chan[p]
  <2>1. chan' = [chan EXCEPT ![q] = Append(@, x)]
    BY <1>0, <1>5
  <2>2. chan \in [Party -> Seq(Pieces)]
    BY <1>0 DEF Forms
  <2> HIDE DEF x, q
  <2>3. Append(chan[q], x) \in Seq(Pieces)
    BY <1>1, <1>4, <2>2
  <2> QED BY <1>1, <2>1, <2>2, <2>3
<1>7. /\ Batch' = Batch /\ Dealing' /\ \A s, r : Openings(s, r)' = Openings(s, r)
  BY <1>0, SameOpenings
<1>8. Forms'
  <2>1. WireForms'
    BY <1>0, KeepsWireForms DEF Forms
  <2>2. posted' = [s \in Party |-> posted'[s]]
    BY <1>0 DEF Forms
  <2>3. /\ round' \in [Party -> 1..(Rounds + 1)] /\ taken' \in [Party -> Nat]
        /\ inbox' \in [Party -> Seq(Pieces)]
    BY <1>0 DEF Forms
  <2> QED BY <1>5, <1>6, <1>7, <2>1, <2>2, <2>3 DEF Forms
<1>9. Paid'
  BY <1>0, <1>7 DEF Paid, Begun
<1>10. Exchanging'
  <2>1. \A s \in Party : sent'[s] <= Batch
    BY <1>0, <1>1, <1>2, <1>5 DEF Exchanging
  <2>2. \A s \in Party : posted'[s] = <<>> => sent'[s] = 0
    BY <1>0, <1>1, <1>2, <1>5 DEF Exchanging
  <2> QED BY <1>0, <1>7, <2>1, <2>2 DEF Exchanging
<1>11. Stream'
  <2>1. \A s, k : ComesAs(s, k)' = ComesAs(s, k)
    BY <1>0, KeepsComesAs
  <2>2. Flows(p)
    BY <1>0 DEF Stream
  <2>3. Coming(p)' = Coming(p)
    BY <1>0, <1>1, <1>5, <1>7 DEF Coming
  <2>4. /\ Len(inbox[q]) + Len(chan[q]) = Coming(q)
        /\ \A k \in 1..Len(inbox[q]) : inbox[q][k] = ComesAs(q, k)
        /\ \A k \in 1..Len(chan[q]) : chan[q][k] = ComesAs(q, Len(inbox[q]) + k)
        /\ Len(inbox[q]) \in Nat /\ Len(chan[q]) \in Nat /\ Coming(q) \in Nat
    <3>1. Flows(q) /\ inbox[q] \in Seq(Pieces) /\ chan[q] \in Seq(Pieces)
      BY <1>0, <1>1 DEF Stream, Forms
    <3>2. Len(inbox[q]) \in Nat /\ Len(chan[q]) \in Nat
      BY <3>1
    <3> HIDE DEF q
    <3>3. Len(inbox[q]) + Len(chan[q]) \in Nat
      <4>1. \A a, b \in Nat : a + b \in Nat
        OBVIOUS
      <4> QED BY <3>2, <4>1
    <3>4. /\ Len(inbox[q]) + Len(chan[q]) = Coming(q)
          /\ \A k \in 1..Len(inbox[q]) : inbox[q][k] = ComesAs(q, k)
          /\ \A k \in 1..Len(chan[q]) : chan[q][k] = ComesAs(q, Len(inbox[q]) + k)
      BY <3>1 DEF Flows
    <3>5. Coming(q) \in Nat
      BY <3>3, <3>4
    <3> QED BY <3>2, <3>4, <3>5
  <2>5. Coming(q)' = Coming(q) + 1
    BY <1>0, <1>1, <1>2, <1>5, <1>7 DEF Coming
  <2>6. /\ Len(chan'[q]) = Len(chan[q]) + 1 /\ chan'[q][Len(chan[q]) + 1] = x
        /\ \A k \in 1..Len(chan[q]) : chan'[q][k] = chan[q][k]
    <3>1. chan[q] \in Seq(Pieces)
      BY <1>0, <1>1 DEF Forms
    <3> HIDE DEF x, q
    <3> QED BY <1>4, <1>6, <3>1
  <2>7. x = ComesAs(q, Coming(q) + 1)
    <3>1. round[p] - round[q] \in {-1, 0, 1}
      BY <1>0, <1>1 DEF Exchanging
    <3>2. round[q] \in Int /\ round[p] \in Int
      BY <1>0, <1>1 DEF Forms
    <3>3. CASE round[p] = round[q] + 1
      <4>1. Coming(q) = Batch + sent[p]
        BY <1>1, <3>3 DEF Coming
      <4>2. ComesAs(q, Coming(q) + 1) = Openings(p, round[p])[sent[p] + 1]
        <5>1. /\ ~ (Coming(q) + 1 <= Batch) /\ (Coming(q) + 1) - Batch = sent[p] + 1
          BY <1>2, <4>1
        <5>2. ComesAs(q, Coming(q) + 1) = Openings(p, round[p])[(Coming(q) + 1) - Batch]
          BY <1>1, <3>3, <5>1 DEF ComesAs
        <5> QED BY <5>1, <5>2
      <4> QED BY <1>3, <4>2
    <3>4. CASE round[p] = round[q]
      <4>1. Coming(q) = sent[p]
        BY <1>1, <3>2, <3>4 DEF Coming
      <4>2. ComesAs(q, Coming(q) + 1) = Openings(p, round[p])[sent[p] + 1]
        <5>1. Coming(q) + 1 = sent[p] + 1 /\ sent[p] + 1 <= Batch
          BY <1>2, <4>1
        <5>2. ComesAs(q, sent[p] + 1) = Openings(p, round[p])[sent[p] + 1]
          BY <1>1, <3>4, <5>1 DEF ComesAs
        <5>3. ComesAs(q, Coming(q) + 1) = ComesAs(q, sent[p] + 1)
          BY <5>1
        <5> QED BY <5>2, <5>3
      <4> QED BY <1>3, <4>2
    <3>5. CASE round[p] = round[q] - 1
      <4>1. Coming(q) = sent[p] - Batch
        BY <1>1, <3>2, <3>5 DEF Coming
      <4> QED BY <1>2, <2>4, <4>1
    <3> QED BY <3>1, <3>2, <3>3, <3>4, <3>5
  <2>8. Flows(q)'
    <3>1. inbox'[q] = inbox[q]
      BY <1>0
    <3>2. \A n, m \in Nat : \A k \in 1..(m + 1) : k \in 1..m \/ k = m + 1
      OBVIOUS
    <3>3. Coming(q) + 1 = Len(inbox[q]) + (Len(chan[q]) + 1)
      <4>1. \A a, b, c \in Nat : a + b = c => c + 1 = a + (b + 1)
        OBVIOUS
      <4> QED BY <2>4, <4>1
    <3> HIDE DEF x, q
    <3>4. \A k \in 1..Len(chan'[q]) : chan'[q][k] = ComesAs(q, Len(inbox[q]) + k)
      BY <2>4, <2>6, <2>7, <3>2, <3>3
    <3>5. Len(inbox[q]) + Len(chan'[q]) = Coming(q)'
      BY <2>4, <2>5, <2>6, <3>3
    <3> QED BY <2>1, <2>4, <3>1, <3>4, <3>5 DEF Flows
  <2>9. Flows(p)'
    BY <1>0, <1>6, <2>1, <2>2, <2>3 DEF Flows
  <2> QED BY <1>1, <2>8, <2>9 DEF Stream
<1>12. Wires'
  BY <1>0, KeepsWires
<1> QED BY <1>8, <1>9, <1>10, <1>11, <1>12 DEF EvaluatorInv

\* A sequence, its head moved from the rest to the end of another.
LEMMA MoveHead ==
    ASSUME NEW S, NEW u \in Seq(S), NEW v \in Seq(S), v # <<>>
    PROVE  /\ Append(u, Head(v)) \in Seq(S) /\ Tail(v) \in Seq(S)
           /\ Len(Append(u, Head(v))) = Len(u) + 1 /\ Len(Tail(v)) = Len(v) - 1
           /\ Len(u) \in Nat /\ Len(v) \in Nat \ {0}
           /\ \A k \in 1..Len(u) : Append(u, Head(v))[k] = u[k]
           /\ Append(u, Head(v))[Len(u) + 1] = v[1]
           /\ \A k \in 1..(Len(v) - 1) : Tail(v)[k] = v[k + 1]
<1>1. Head(v) = v[1] /\ Head(v) \in S /\ Len(v) \in Nat \ {0} /\ Len(u) \in Nat
  OBVIOUS
<1>2. Tail(v) \in Seq(S) /\ Len(Tail(v)) = Len(v) - 1
  OBVIOUS
<1>3. \A k \in 1..(Len(v) - 1) : Tail(v)[k] = v[k + 1]
  OBVIOUS
<1> QED BY <1>1, <1>2, <1>3

LEMMA ReceiveKeeps ==
    ASSUME EvaluatorInv, NEW p \in Party, ReceivePiece(p)
    PROVE  EvaluatorInv'
<1> DEFINE u == inbox[p]
           v == chan[p]
<1>0. /\ Forms /\ Paid /\ Exchanging /\ Stream /\ Wires /\ Dealing
      /\ posted[p] # <<>> /\ Len(u) < Len(posted[p]) /\ v # <<>>
      /\ inbox' = [inbox EXCEPT ![p] = Append(u, Head(v))]
      /\ chan' = [chan EXCEPT ![p] = Tail(v)]
      /\ UNCHANGED <<sides, seed, round, posted, sent, wires, taken>>
  BY DEF EvaluatorInv, ReceivePiece, CanReceive, Receives, Forms
<1>1. /\ Len(u) < Batch /\ Batch \in Nat \ {0}
  BY <1>0, MidMessage, BatchIs
<1>2. u \in Seq(Pieces) /\ v \in Seq(Pieces)
  BY <1>0 DEF Forms
<1>3. /\ inbox' \in [Party -> Seq(Pieces)] /\ chan' \in [Party -> Seq(Pieces)]
      /\ inbox'[p] = Append(u, Head(v)) /\ chan'[p] = Tail(v)
      /\ \A q \in Party : q # p => inbox'[q] = inbox[q] /\ chan'[q] = chan[q]
  <2>1. Append(u, Head(v)) \in Seq(Pieces) /\ Tail(v) \in Seq(Pieces)
    BY <1>0, <1>2, MoveHead
  <2> HIDE DEF u, v
  <2> QED BY <1>0, <2>1 DEF Forms
<1>4. /\ Batch' = Batch /\ Dealing' /\ \A s, r : Openings(s, r)' = Openings(s, r)
  BY <1>0, SameOpenings
<1>5. Forms'
  <2>1. WireForms'
    BY <1>0, KeepsWireForms DEF Forms
  <2>2. posted' = [s \in Party |-> posted'[s]]
    BY <1>0 DEF Forms
  <2>3. /\ round' \in [Party -> 1..(Rounds + 1)] /\ taken' \in [Party -> Nat]
        /\ sent' \in [Party -> Nat]
    BY <1>0 DEF Forms
  <2> QED BY <1>3, <1>4, <2>1, <2>2, <2>3 DEF Forms
<1>6. Paid'
  BY <1>0, <1>4 DEF Paid, Begun
<1>7. Exchanging'
  <2>1. \A q \in Party : Len(inbox'[q]) <= Batch
    <3>1. Len(inbox'[p]) = Len(u) + 1 /\ Len(u) \in Nat
      BY <1>0, <1>2, <1>3, MoveHead
    <3>2. Len(inbox'[p]) <= Batch
      BY <1>1, <3>1
    <3> HIDE DEF u, v
    <3> QED BY <1>0, <1>3, <3>2 DEF Exchanging
  <2>2. \A q \in Party : posted'[q] = <<>> => inbox'[q] = <<>>
    BY <1>0, <1>3 DEF Exchanging
  <2> QED BY <1>0, <1>4, <2>1, <2>2 DEF Exchanging
<1>8. Stream'
  <2>1. \A s, k : ComesAs(s, k)' = ComesAs(s, k)
    BY <1>0, KeepsComesAs
  <2>2. \A s : Coming(s)' = Coming(s)
    BY <1>0, <1>4 DEF Coming
  <2>3. Flows(p)'
    <3> DEFINE nu == Append(u, Head(v))
               nv == Tail(v)
               m  == Len(u)
               n  == Len(v)
    <3>1. /\ Len(nu) = m + 1 /\ Len(nv) = n - 1 /\ m \in Nat /\ n \in Nat \ {0}
          /\ \A k \in 1..m : nu[k] = u[k]
          /\ nu[m + 1] = v[1]
          /\ \A k \in 1..(n - 1) : nv[k] = v[k + 1]
      BY <1>0, <1>2, MoveHead
    <3>2. /\ m + n = Coming(p)
          /\ \A k \in 1..m : u[k] = ComesAs(p, k)
          /\ \A k \in 1..n : v[k] = ComesAs(p, m + k)
      BY <1>0 DEF Stream, Flows
    <3> HIDE DEF u, v, nu, nv, m, n
    <3>3. Len(nu) + Len(nv) = Coming(p)
      <4>1. (m + 1) + (n - 1) = m + n
        BY <3>1
      <4> QED BY <3>1, <3>2, <4>1
    <3>4. ASSUME NEW k \in 1..Len(nu) PROVE nu[k] = ComesAs(p, k)
      <4>1. k \in 1..m \/ k = m + 1
        BY <3>1
      <4>2. 1 \in 1..n
        BY <3>1
      <4> QED BY <3>1, <3>2, <4>1, <4>2
    <3>5. ASSUME NEW k \in 1..Len(nv) PROVE nv[k] = ComesAs(p, Len(nu) + k)
      <4>1. k \in 1..(n - 1) /\ k + 1 \in 1..n /\ m + (k + 1) = (m + 1) + k
        BY <3>1
      <4>2. v[k + 1] = ComesAs(p, m + (k + 1))
        BY <3>2, <4>1
      <4> QED BY <3>1, <4>1, <4>2
    <3>6. inbox'[p] = nu /\ chan'[p] = nv
      BY <1>3 DEF nu, nv
    <3> QED BY <2>1, <2>2, <3>3, <3>4, <3>5, <3>6 DEF Flows
  <2>4. ASSUME NEW q \in Party, q # p PROVE Flows(q)'
    <3>1. Flows(q)
      BY <1>0 DEF Stream
    <3>2. inbox'[q] = inbox[q] /\ chan'[q] = chan[q]
      BY <1>3, <2>4
    <3> QED BY <2>1, <2>2, <3>1, <3>2 DEF Flows
  <2> QED BY <2>3, <2>4 DEF Stream
<1>9. Wires'
  BY <1>0, KeepsWires
<1> QED BY <1>5, <1>6, <1>7, <1>8, <1>9 DEF EvaluatorInv

LEMMA FinishKeeps ==
    ASSUME EvaluatorInv, NEW p \in Party, Finish(p)
    PROVE  EvaluatorInv'
<1>a. PICK r : r = round[p]
  OBVIOUS
<1> USE <1>a
<1> DEFINE q == Peer(p)
           z == Closings(p, r)
           grown == [b \in Buckets |-> [s \in 0..r |-> IF s = r THEN z[b] ELSE wires[p][b][s]]]
<1>0. /\ Forms /\ Paid /\ Exchanging /\ Stream /\ Wires /\ Dealing
      /\ Exchanged(p) /\ posted[p] # <<>>
      /\ round' = [round EXCEPT ![p] = @ + 1]
      /\ posted' = [posted EXCEPT ![p] = <<>>]
      /\ sent' = [sent EXCEPT ![p] = 0]
      /\ inbox' = [inbox EXCEPT ![p] = <<>>]
      /\ UNCHANGED <<sides, seed, chan, taken>>
  BY DEF EvaluatorInv, Finish, Forms, Exchanged
<1>1. /\ Results(p, inbox[p]) = z /\ z \in [Buckets -> Value(r)]
      /\ r \in 1..Rounds /\ round[q] >= r /\ sent[p] = Batch /\ Len(inbox[p]) = Batch
  BY <1>0, ResultsAreClosings
<1>2. wires' = [wires EXCEPT ![p] = grown]
  BY <1>1 DEF Finish
<1>3. /\ q \in Party /\ q # p /\ Peer(q) = p /\ \A s \in Party : s = p \/ s = q
  BY PeerIs
<1>4. /\ wires'[p] = grown /\ wires'[q] = wires[q]
      /\ round'[p] = r + 1 /\ round'[q] = round[q]
      /\ posted'[p] = <<>> /\ posted'[q] = posted[q]
      /\ sent'[p] = 0 /\ sent'[q] = sent[q]
      /\ inbox'[p] = <<>> /\ inbox'[q] = inbox[q]
      /\ chan' = chan
  <2>1. wires = [s \in Party |-> wires[s]]
    BY <1>0 DEF Forms, WireForms
  <2> HIDE DEF grown, q
  <2>2. wires'[p] = grown /\ wires'[q] = wires[q]
    BY <1>2, <1>3, <2>1
  <2>3. posted = [s \in Party |-> posted[s]] /\ round \in [Party -> 1..(Rounds + 1)]
        /\ sent \in [Party -> Nat] /\ inbox \in [Party -> Seq(Pieces)]
    BY <1>0 DEF Forms
  <2> QED BY <1>0, <1>3, <2>2, <2>3
<1>5. /\ round[q] \in {r, r + 1} /\ r \in 1..8
  <2>1. PICK n : n = round[q]
    OBVIOUS
  <2>2. n - r \in {-1, 0, 1}
    BY <1>0, <1>3, <2>1 DEF Exchanging
  <2>3. n \in Int
    BY <1>0, <1>3, <2>1 DEF Forms
  <2>4. n >= r /\ r \in 1..8
    BY <1>1, <2>1, RoundNames
  <2> QED BY ONLY <2>1, <2>2, <2>3, <2>4
<1>6. Batch' = Batch /\ Buckets' = Buckets /\ Dealing' /\ Batch \in Nat \ {0}
      /\ Buckets = 1..Batch
  BY <1>0, BatchIs DEF Batch, Buckets, Dealing
<1>7. \A b \in Buckets : /\ wires'[p][b] = [s \in 0..r |-> IF s = r THEN z[b] ELSE wires[p][b][s]]
                         /\ \A s \in 0..(r - 1) : wires'[p][b][s] = wires[p][b][s]
                         /\ wires'[p][b][r] = z[b]
  <2>1. TAKE b \in Buckets
  <2>2. wires'[p][b] = [s \in 0..r |-> IF s = r THEN z[b] ELSE wires[p][b][s]]
    BY <1>4
  <2> HIDE DEF z
  <2> QED BY <1>5, <2>2
<1>8. /\ \A s \in 1..r : Openings(p, s)' = Openings(p, s)
      /\ \A s \in 1..Rounds : Openings(q, s)' = Openings(q, s)
  <2>1. ASSUME NEW s \in 1..r PROVE Openings(p, s)' = Openings(p, s)
    <3>1. s \in 1..Rounds /\ \A t \in 0..(s - 1) : t \in 0..(r - 1)
      BY <1>5, RoundNames
    <3>2. \A b \in Buckets : \A t \in 0..(s - 1) : wires'[p][b][t] = wires[p][b][t]
      BY <1>7, <3>1
    <3> QED BY <1>0, <3>1, <3>2, OpeningsKept
  <2>2. ASSUME NEW s \in 1..Rounds PROVE Openings(q, s)' = Openings(q, s)
    <3>1. \A b \in Buckets : \A t \in 0..(s - 1) : wires'[q][b][t] = wires[q][b][t]
      BY <1>4
    <3> QED BY <1>0, <1>3, <3>1, OpeningsKept
  <2> QED BY <2>1, <2>2
<1>9. \A x \in Party, s \in 1..r : Closings(x, s)' = Closings(x, s)
  <2>1. TAKE x \in Party, s \in 1..r
  <2>2. s \in 1..Rounds
    BY <1>5, RoundNames
  <2>3. \A y \in Party : Openings(y, s)' = Openings(y, s)
    BY <1>3, <1>8, <2>2
  <2> QED BY <1>0, <2>2, <2>3, ClosingsKept
<1>10. Forms'
  <2>1. /\ round' \in [Party -> 1..(Rounds + 1)]
    <3>1. r + 1 \in 1..(Rounds + 1)
      BY <1>5, RoundNames
    <3> QED BY <1>0, <1>3, <1>4, <3>1 DEF Forms
  <2>2. /\ sent' \in [Party -> Nat] /\ inbox' \in [Party -> Seq(Pieces)]
        /\ posted' = [s \in Party |-> posted'[s]]
    <3>1. <<>> \in Seq(Pieces)
      OBVIOUS
    <3> QED BY <1>0, <3>1 DEF Forms
  <2>3. chan' \in [Party -> Seq(Pieces)] /\ taken' \in [Party -> Nat]
    BY <1>0 DEF Forms
  <2>4. WireForms'
    <3>1. WireForms
      BY <1>0 DEF Forms
    <3>2. wires' = [s \in Party |-> wires'[s]]
      <4>1. wires = [s \in Party |-> wires[s]]
        BY <3>1 DEF WireForms
      <4> HIDE DEF grown
      <4> QED BY <1>2, <4>1
    <3>3. /\ wires'[p] = [b \in Buckets |-> wires'[p][b]]
          /\ wires'[q] = [b \in Buckets |-> wires'[q][b]]
      <4>1. wires'[q] = [b \in Buckets |-> wires'[q][b]]
        <5>1. wires[q] = [b \in Buckets |-> wires[q][b]]
          BY <1>3, <3>1 DEF WireForms
        <5> QED BY <1>4, <5>1
      <4>2. wires'[p] = [b \in Buckets |-> wires'[p][b]]
        BY <1>4
      <4> QED BY <4>1, <4>2
    <3>4. \A b \in Buckets : /\ DOMAIN wires'[p][b] = 0..(round'[p] - 1)
                             /\ DOMAIN wires'[q][b] = 0..(round'[q] - 1)
      <4>1. TAKE b \in Buckets
      <4>2. DOMAIN wires'[p][b] = 0..r
        BY <1>7
      <4>4. (r + 1) - 1 = r
        BY <1>5
      <4>3. DOMAIN wires[q][b] = 0..(round[q] - 1)
        BY <1>3, <3>1 DEF WireForms
      <4> QED BY <1>4, <4>2, <4>3, <4>4
    <3> QED BY <1>3, <1>6, <3>2, <3>3, <3>4 DEF WireForms
  <2> QED BY <1>6, <2>1, <2>2, <2>3, <2>4 DEF Forms
<1>11. Paid'
  <2>1. Begun(p)' = Begun(p) /\ Begun(q)' = Begun(q)
    BY <1>0, <1>4 DEF Begun
  <2> QED BY <1>0, <1>3, <1>6, <2>1 DEF Paid
<1>12. Exchanging'
  <2>1. round'[q] - round'[p] \in {-1, 0, 1} /\ round'[p] - round'[q] \in {-1, 0, 1}
    BY <1>4, <1>5
  <2>2. Len(inbox'[p]) = 0 /\ 0 <= Batch
    BY <1>4, <1>6
  <2>3. posted'[q] # <<>> =>
            round'[q] \in 1..Rounds /\ posted'[q] = Openings(q, round[q])'
    BY <1>0, <1>3, <1>4, <1>8 DEF Exchanging
  <2>4. /\ sent'[q] <= Batch /\ Len(inbox'[q]) <= Batch
        /\ posted'[q] = <<>> => sent'[q] = 0 /\ inbox'[q] = <<>>
    BY <1>0, <1>3, <1>4 DEF Exchanging
  <2>5. /\ sent'[p] <= Batch /\ Len(inbox'[p]) <= Batch
        /\ sent'[p] = 0 /\ inbox'[p] = <<>> /\ posted'[p] = <<>>
    BY <1>4, <2>2
  <2> QED BY <1>3, <1>6, <2>1, <2>3, <2>4, <2>5 DEF Exchanging
<1>13. Stream'
  <2>1. /\ Batch + Len(chan[p]) = Coming(p) /\ Len(chan[p]) \in Nat
        /\ \A k \in 1..Len(chan[p]) : chan[p][k] = ComesAs(p, Batch + k)
    <3>1. Flows(p) /\ chan[p] \in Seq(Pieces)
      BY <1>0 DEF Stream, Forms
    <3> QED BY <1>1, <3>1 DEF Flows
  <2>2. /\ Len(inbox[q]) + Len(chan[q]) = Coming(q)
        /\ Len(inbox[q]) \in Nat /\ Len(chan[q]) \in Nat
        /\ \A k \in 1..Len(inbox[q]) : inbox[q][k] = ComesAs(q, k)
        /\ \A k \in 1..Len(chan[q]) : chan[q][k] = ComesAs(q, Len(inbox[q]) + k)
    <3>1. Flows(q) /\ inbox[q] \in Seq(Pieces) /\ chan[q] \in Seq(Pieces)
      BY <1>0, <1>3 DEF Stream, Forms
    <3> HIDE DEF q
    <3>2. Len(inbox[q]) \in Nat /\ Len(chan[q]) \in Nat
      BY <3>1
    <3> QED BY <3>1, <3>2 DEF Flows
  <2>3. sent[q] \in Nat /\ sent[q] <= Batch
    BY <1>0, <1>3 DEF Forms, Exchanging
  <2>4. Flows(p)'
    <3>1. Len(chan[p]) = Coming(p)' /\ Len(chan[p]) <= Batch
          /\ (Len(chan[p]) > 0 => round[q] = r + 1)
      <4>1. CASE round[q] = r
        <5>1. Coming(p) = sent[q]
          BY <1>5, <4>1 DEF Coming
        <5>2. Coming(p)' = sent[q] - Batch
          BY <1>4, <1>5, <1>6, <4>1 DEF Coming
        <5> QED BY <1>6, <2>1, <2>3, <5>1, <5>2
      <4>2. CASE round[q] = r + 1
        <5>1. Coming(p) = Batch + sent[q]
          BY <4>2 DEF Coming
        <5>2. Coming(p)' = sent[q]
          BY <1>4, <1>5, <1>6, <4>2 DEF Coming
        <5> QED BY <1>6, <2>1, <2>3, <4>2, <5>1, <5>2
      <4> QED BY <1>5, <4>1, <4>2
    <3>2. ASSUME NEW k \in 1..Len(chan[p]) PROVE chan[p][k] = ComesAs(p, k)'
      <4>1. k \in Nat /\ k >= 1 /\ k <= Batch /\ round[q] = r + 1
        BY <1>6, <2>1, <3>1
      <4>2. ~ (Batch + k <= Batch) /\ (Batch + k) - Batch = k
        BY <1>6, <4>1
      <4>3. ComesAs(p, Batch + k) = Openings(q, r + 1)[(Batch + k) - Batch]
        BY <4>2 DEF ComesAs
      <4>4. r + 1 \in 1..Rounds
        <5>1. sent[q] > 0
          <6>1. Coming(p) = Batch + sent[q]
            BY <4>1 DEF Coming
          <6>2. Len(chan[p]) >= 1
            BY <2>1, <4>1
          <6> QED BY <1>6, <2>1, <2>3, <6>1, <6>2
        <5>2. posted[q] # <<>>
          BY <1>0, <1>3, <5>1 DEF Exchanging
        <5> QED BY <1>0, <1>3, <4>1, <5>2 DEF Exchanging
      <4>5. ComesAs(p, k)' = Openings(q, r + 1)'[k]
        BY <1>4, <1>6, <4>1 DEF ComesAs
      <4> QED BY <1>8, <2>1, <4>2, <4>3, <4>4, <4>5
    <3>3. Len(<<>>) = 0 /\ 1..0 = {}
      OBVIOUS
    <3>4. \A n \in Nat : 0 + n = n
      OBVIOUS
    <3> HIDE DEF q
    <3>5. Len(inbox'[p]) + Len(chan'[p]) = Coming(p)'
      BY <1>4, <2>1, <3>1, <3>3, <3>4
    <3>6. \A k \in 1..Len(inbox'[p]) : inbox'[p][k] = ComesAs(p, k)'
      BY <1>4, <3>3
    <3>7. ASSUME NEW k \in 1..Len(chan'[p])
          PROVE  chan'[p][k] = ComesAs(p, k)' /\ Len(inbox'[p]) + k = k
      <4>1. k \in Nat /\ k \in 1..Len(chan[p])
        BY <1>4, <2>1
      <4>2. Len(inbox'[p]) + k = k
        BY <1>4, <3>3, <3>4, <4>1
      <4> QED BY <1>4, <3>2, <4>1, <4>2
    <3> QED BY <3>5, <3>6, <3>7 DEF Flows
  <2>5. Flows(q)'
    <3>1. Coming(q)' = Coming(q) /\ Coming(q) <= Batch /\ (Coming(q) > 0 => round[q] = r)
      <4>1. CASE round[q] = r
        <5>1. Coming(q) = Batch
          BY <1>1, <1>3, <1>5, <4>1 DEF Coming
        <5>2. Coming(q)' = Batch + 0
          BY <1>3, <1>4, <1>5, <1>6, <4>1 DEF Coming
        <5> QED BY <1>6, <4>1, <5>1, <5>2
      <4>2. CASE round[q] = r + 1
        <5>1. Coming(q) = Batch - Batch
          BY <1>1, <1>3, <1>5, <4>2 DEF Coming
        <5>2. Coming(q)' = 0
          BY <1>3, <1>4, <1>5, <1>6, <4>2 DEF Coming
        <5> QED BY <1>6, <5>1, <5>2
      <4> QED BY <1>5, <4>1, <4>2
    <3>4. Coming(q) \in Nat
      <4>1. \A m, n \in Nat : m + n \in Nat
        OBVIOUS
      <4> QED BY <2>2, <4>1
    <3>2. ASSUME NEW k \in 1..Coming(q) PROVE ComesAs(q, k)' = ComesAs(q, k)
      <4>1. k \in Nat /\ k <= Batch /\ round[q] = r
        BY <1>6, <3>1, <3>4
      <4>2. ComesAs(q, k) = Openings(p, r)[k]
        BY <1>3, <4>1 DEF ComesAs
      <4>3. ComesAs(q, k)' = Openings(p, r)'[k]
        BY <1>3, <1>4, <1>6, <4>1 DEF ComesAs
      <4> QED BY <1>5, <1>8, <4>2, <4>3
    <3> HIDE DEF q
    <3>3. \A m, n, c \in Nat : m + n = c =>
             /\ \A k \in 1..m : k \in 1..c
             /\ \A k \in 1..n : m + k \in 1..c
      OBVIOUS
    <3>5. /\ \A k \in 1..Len(inbox[q]) : k \in 1..Coming(q)
          /\ \A k \in 1..Len(chan[q]) : Len(inbox[q]) + k \in 1..Coming(q)
      BY <2>2, <3>3, <3>4
    <3>6. Len(inbox'[q]) + Len(chan'[q]) = Coming(q)'
      BY <1>4, <2>2, <3>1
    <3>7. ASSUME NEW k \in 1..Len(inbox'[q]) PROVE inbox'[q][k] = ComesAs(q, k)'
      BY <1>4, <2>2, <3>2, <3>5
    <3>8. ASSUME NEW k \in 1..Len(chan'[q]), NEW m, m = Len(inbox[q]) + k
          PROVE  chan'[q][k] = ComesAs(q, m)'
      <4>1. k \in 1..Len(chan[q])
        BY <1>4
      <4>2. chan[q][k] = ComesAs(q, m)
        BY <2>2, <3>8, <4>1
      <4>3. m \in 1..Coming(q)
        BY <3>5, <3>8, <4>1
      <4>4. ComesAs(q, m)' = ComesAs(q, m)
        BY <3>2, <4>3
      <4> QED BY <1>4, <4>2, <4>4
    <3>9. \A k \in 1..Len(chan'[q]) : chan'[q][k] = ComesAs(q, Len(inbox[q]) + k)'
      BY <1>4, <3>8
    <3> QED BY <3>6, <3>7, <3>9 DEF Flows
  <2> QED BY <1>3, <2>4, <2>5 DEF Stream
<1>14. Wires'
  <2>1. Knows(p, round[p])'
    <3>1. ASSUME NEW b \in Buckets, NEW s \in 0..r PROVE wires'[p][b][s] \in Value(s)
      <4>1. CASE s = r
        BY <1>1, <1>7, <4>1
      <4>2. CASE s # r
        <5>1. s \in 0..(r - 1)
          BY <1>5, <4>2
        <5>2. Known(wires[p][b], r)
          BY <1>0 DEF Wires, Knows
        <5> QED BY <1>7, <5>1, <5>2 DEF Known
      <4> QED BY <4>1, <4>2
    <3>2. (r + 1) - 1 = r
      BY <1>5
    <3>3. round'[p] = r + 1 /\ Buckets' = Buckets
      BY <1>4, <1>6
    <3>4. \A b \in Buckets : \A s \in 0..(round'[p] - 1) : wires'[p][b][s] \in Value(s)
      BY ONLY <3>1, <3>2, <3>3
    <3> QED BY <3>3, <3>4 DEF Knows, Known
  <2>2. Knows(q, round[q])'
    BY <1>0, <1>3, <1>4, <1>6 DEF Wires, Knows, Known
  <2>3. ASSUME NEW s \in 1..(round'[p] - 1), NEW b \in Buckets'
        PROVE  wires'[p][b][s] = Closings(p, s)'[b]
    <3>1. s \in 1..r /\ b \in Buckets
      BY <1>4, <1>5, <1>6, <2>3
    <3>2. CASE s = r
      BY <1>7, <1>9, <3>1, <3>2
    <3>3. CASE s # r
      <4>1. s \in 1..(r - 1) /\ s \in 0..(r - 1)
        BY <1>5, <3>1, <3>3
      <4>2. wires[p][b][s] = Closings(p, s)[b]
        BY <1>0, <3>1, <4>1 DEF Wires
      <4> QED BY <1>7, <1>9, <3>1, <4>1, <4>2
    <3> QED BY <3>2, <3>3
  <2>4. ASSUME NEW s \in 1..(round'[q] - 1), NEW b \in Buckets'
        PROVE  wires'[q][b][s] = Closings(q, s)'[b]
    <3>1. s \in 1..(round[q] - 1) /\ b \in Buckets /\ s \in 1..r
      BY <1>4, <1>5, <1>6, <2>4
    <3>2. wires[q][b][s] = Closings(q, s)[b]
      BY <1>0, <1>3, <3>1 DEF Wires
    <3> QED BY <1>3, <1>4, <1>9, <3>1, <3>2
  <2> QED BY <1>3, <2>1, <2>2, <2>3, <2>4 DEF Wires
<1> QED BY <1>10, <1>11, <1>12, <1>13, <1>14 DEF EvaluatorInv

-------------------------------------------------------------------------------
(* Sums and products of shares.                                              *)

LEMMA AddBack == ASSUME NEW x \in Fp, NEW y \in Fp PROVE Add(x, y) = Add(y, x)
<1>1. Is(x, x) /\ Is(y, y) /\ x \in Int /\ y \in Int
  BY IsSelf DEF Is
<1>2. Is(Add(x, y), x + y) /\ Is(Add(y, x), y + x)
  BY <1>1, IsSum
<1>3. x + y = y + x
  BY <1>1
<1> QED BY <1>2, <1>3, IsSame

\* Adding up shares and subtracting them comes to the same in either order.
LEMMA Linear ==
    ASSUME NEW a \in Fp, NEW b \in Fp, NEW c \in Fp, NEW d \in Fp
    PROVE  /\ Add(Add(a, b), Add(c, d)) = Add(Add(a, c), Add(b, d))
           /\ Add(Sub(a, b), Sub(c, d)) = Sub(Add(a, c), Add(b, d))
<1>1. Is(a, a) /\ Is(b, b) /\ Is(c, c) /\ Is(d, d)
  BY IsSelf
<1>2. a \in Int /\ b \in Int /\ c \in Int /\ d \in Int
  BY <1>1 DEF Is
<1>3. /\ Is(Add(a, b), a + b) /\ Is(Add(c, d), c + d) /\ Is(Add(a, c), a + c)
      /\ Is(Add(b, d), b + d) /\ Is(Sub(a, b), a - b) /\ Is(Sub(c, d), c - d)
  BY <1>1, IsSum
<1>4. /\ Is(Add(Add(a, b), Add(c, d)), (a + b) + (c + d))
      /\ Is(Add(Add(a, c), Add(b, d)), (a + c) + (b + d))
      /\ Is(Add(Sub(a, b), Sub(c, d)), (a - b) + (c - d))
      /\ Is(Sub(Add(a, c), Add(b, d)), (a + c) - (b + d))
  BY <1>3, IsSum
<1>5. (a + b) + (c + d) = (a + c) + (b + d) /\ (a - b) + (c - d) = (a + c) - (b + d)
  BY <1>2
<1> QED BY <1>4, <1>5, IsSame

\* The shares of a Beaver product open to the product.
LEMMA ProductOpens ==
    ASSUME NEW u, u.a \in Fp, u.b \in Fp, u.c \in Fp,
           NEW v, v.a \in Fp, v.b \in Fp, v.c \in Fp,
           Add(u.c, v.c) = Mul(Add(u.a, v.a), Add(u.b, v.b)),
           NEW x \in Fp, NEW y \in Fp, NEW s \in Fp, NEW t \in Fp,
           NEW d, NEW e,
           d = Add(Sub(x, u.a), Sub(s, v.a)), e = Add(Sub(y, u.b), Sub(t, v.b))
    PROVE  /\ d \in Fp /\ e \in Fp
           /\ Add(ProductShare("R", u, d, e), ProductShare("S", v, d, e))
                = Mul(Add(x, s), Add(y, t))
<1>1. PICK a, b, c, f, g, h : a = u.a /\ b = u.b /\ c = u.c /\ f = v.a /\ g = v.b /\ h = v.c
  OBVIOUS
<1>2. /\ Is(a, a) /\ Is(b, b) /\ Is(c, c) /\ Is(f, f) /\ Is(g, g) /\ Is(h, h)
      /\ Is(x, x) /\ Is(y, y) /\ Is(s, s) /\ Is(t, t)
  BY <1>1, IsSelf
<1>3. /\ a \in Int /\ b \in Int /\ c \in Int /\ f \in Int /\ g \in Int /\ h \in Int
      /\ x \in Int /\ y \in Int /\ s \in Int /\ t \in Int
  BY <1>2 DEF Is
<1>4. PICK k \in Int : k = (x - a) + (s - f)
  BY <1>3
<1>5. PICK l \in Int : l = (y - b) + (t - g)
  BY <1>3
<1>6. Is(d, k) /\ Is(e, l)
  <2>1. Is(Sub(x, a), x - a) /\ Is(Sub(s, f), s - f) /\ Is(Sub(y, b), y - b) /\ Is(Sub(t, g), t - g)
    BY <1>2, IsSum
  <2>2. Is(Add(Sub(x, a), Sub(s, f)), k) /\ Is(Add(Sub(y, b), Sub(t, g)), l)
    BY <2>1, <1>4, <1>5, IsSum
  <2> QED BY <1>1, <2>2
<1>7. Is(Add(Add(c, Mul(d, b)), Mul(e, a)), (c + k * b) + l * a)
  <2>1. Is(Mul(d, b), k * b) /\ Is(Mul(e, a), l * a)
    BY <1>2, <1>6, IsSum
  <2>2. Is(Add(c, Mul(d, b)), c + k * b)
    BY <1>2, <2>1, IsSum
  <2> QED BY <2>1, <2>2, IsSum
<1>8. Is(Add(Add(h, Mul(d, g)), Mul(e, f)), (h + k * g) + l * f)
  <2>1. Is(Mul(d, g), k * g) /\ Is(Mul(e, f), l * f)
    BY <1>2, <1>6, IsSum
  <2>2. Is(Add(h, Mul(d, g)), h + k * g)
    BY <1>2, <2>1, IsSum
  <2> QED BY <2>1, <2>2, IsSum
<1>9. Is(Mul(d, e), k * l)
  BY <1>6, IsSum
<1>10. PICK m, n : /\ m = Add(Add(Add(c, Mul(d, b)), Mul(e, a)), Mul(d, e))
                   /\ n = Add(Add(h, Mul(d, g)), Mul(e, f))
  OBVIOUS
<1>11. Is(Add(m, n), (((c + k * b) + l * a) + k * l) + ((h + k * g) + l * f))
  <2>1. Is(m, ((c + k * b) + l * a) + k * l)
    BY <1>7, <1>9, <1>10, IsSum
  <2> QED BY <1>8, <1>10, <2>1, IsSum
<1>12. Congruent(c + h, (a + f) * (b + g))
  <2>1. Is(Add(c, h), c + h) /\ Is(Add(c, h), (a + f) * (b + g))
    <3>1. Is(Add(a, f), a + f) /\ Is(Add(b, g), b + g) /\ Is(Add(c, h), c + h)
      BY <1>2, IsSum
    <3>2. Is(Mul(Add(a, f), Add(b, g)), (a + f) * (b + g))
      BY <3>1, IsSum
    <3> QED BY <1>1, <3>1, <3>2
  <2>2. /\ Congruent(c + h, Add(c, h)) /\ Congruent(Add(c, h), (a + f) * (b + g))
        /\ Add(c, h) \in Int /\ c + h \in Int /\ (a + f) * (b + g) \in Int
    BY <2>1, CongruentBack, Sizes DEF Is, Fp
  <2> QED BY <2>2, Transitive
<1>13. Is(Add(m, n), (x + s) * (y + t))
  <2>1. PICK r \in Int : r = (k * b + l * a) + (k * l + (k * g + l * f))
    BY <1>3
  <2>2. (((c + k * b) + l * a) + k * l) + ((h + k * g) + l * f) = (c + h) + r
    BY <1>3, <2>1
  <2>3. (a + f) * (b + g) + r = (x + s) * (y + t)
    <3>1. PICK i \in Int : i = a + f
      BY <1>3
    <3>2. PICK j \in Int : j = b + g
      BY <1>3
    <3>3. r = (k * j + l * i) + k * l
      <4>1. k * (b + g) = k * b + k * g /\ l * (a + f) = l * a + l * f
        BY <1>3
      <4>2. k * b \in Int /\ k * g \in Int /\ l * a \in Int /\ l * f \in Int /\ k * l \in Int
        BY <1>3
      <4> QED BY <2>1, <3>1, <3>2, <4>1, <4>2
    <3>4. x + s = k + i /\ y + t = l + j
      BY <1>3, <1>4, <1>5, <3>1, <3>2
    <3>5. i * j + ((k * j + l * i) + k * l) = (k + i) * (l + j)
      OBVIOUS
    <3> QED BY <3>1, <3>2, <3>3, <3>4, <3>5
  <2>4. Congruent((c + h) + r, (a + f) * (b + g) + r)
    <3>1. Congruent(r, r)
      <4>1. r = r + 0 * P
        BY Sizes
      <4> QED BY <4>1 DEF Congruent
    <3> QED BY <1>3, <1>12, <3>1, CongruentSum
  <2>5. Congruent(Add(m, n), (x + s) * (y + t))
    <3>1. Congruent(Add(m, n), (c + h) + r)
      BY <1>11, <2>2 DEF Is
    <3>2. Add(m, n) \in Int /\ (c + h) + r \in Int /\ (x + s) * (y + t) \in Int
      BY <1>3, <1>11, Sizes DEF Is, Fp
    <3> QED BY <2>3, <2>4, <3>1, <3>2, Transitive
  <2>6. Add(m, n) \in Fp /\ (x + s) * (y + t) \in Int
    BY <1>3, <1>11 DEF Is
  <2> QED BY <2>5, <2>6 DEF Is
<1>14. Is(Mul(Add(x, s), Add(y, t)), (x + s) * (y + t))
  <2>1. Is(Add(x, s), x + s) /\ Is(Add(y, t), y + t)
    BY <1>2, IsSum
  <2> QED BY <2>1, IsSum
<1>15. Add(m, n) = Mul(Add(x, s), Add(y, t))
  BY <1>13, <1>14, IsSame
<1>16. m = ProductShare("R", u, d, e) /\ n = ProductShare("S", v, d, e)
  BY <1>1, <1>10 DEF ProductShare
<1> QED BY <1>6, <1>15, <1>16 DEF Is

-------------------------------------------------------------------------------
(* Numbers with the same digits are equal.                                   *)

LEMMA DigitPlaces ==
    /\ DigitBits \in Nat \ {0} /\ TopDigitBits \in Nat \ {0} /\ Digits = 4
    /\ MaskBits = 3 * DigitBits + TopDigitBits /\ MaskBits \in Nat /\ 2 ^ MaskBits = Base
BY DigitAssumption DEF MaskBits, Digits

\* A masked minor and its mask agree on every digit only if they are equal, which
\* is what a zero test goes by (ztest.cpp).
LEMMA DigitsTell ==
    ASSUME NEW z \in Fp, NEW m \in Fp, \A j \in 1..4 : Digit(z, j) = Digit(m, j)
    PROVE  z = m
<1> DEFINE M == MaskBits
           w(j) == IF j = Digits THEN TopDigitBits ELSE DigitBits
           o(j) == DigitBits * (j - 1)
<1>1. z \in 0..(2 ^ M - 1) /\ m \in 0..(2 ^ M - 1) /\ z \in Nat /\ m \in Nat /\ M \in Nat
  BY DigitPlaces, Sizes DEF Fp
<1>2. ASSUME NEW j \in 1..4, NEW k \in Nat, k < w(j)
      PROVE  Bit(z, o(j) + k) = Bit(m, o(j) + k)
  <2>1. PICK f : f = o(j)
    OBVIOUS
  <2>2. PICK v : v = w(j)
    OBVIOUS
  <2>3. f \in Nat /\ v \in Nat /\ k < v
    <3>1. j = 1 \/ j = 2 \/ j = 3 \/ j = 4
      OBVIOUS
    <3> QED BY <1>2, <2>1, <2>2, <3>1, DigitPlaces
  <2>4. Digit(z, j) = (z \div 2 ^ f) % 2 ^ v /\ Digit(m, j) = (m \div 2 ^ f) % 2 ^ v
    BY <2>1, <2>2 DEF Digit
  <2>5. Bit(Digit(z, j), k) = Bit(z, f + k) /\ Bit(Digit(m, j), k) = Bit(m, f + k)
    BY <1>1, <2>3, <2>4, BitOfSlice
  <2> QED BY <2>1, <2>5
<1>3. ASSUME NEW i \in 0..(M - 1) PROVE Bit(z, i) = Bit(m, i)
  <2>1. PICK d \in Nat \ {0} : d = DigitBits
    BY DigitPlaces
  <2>2. PICK t \in Nat \ {0} : t = TopDigitBits
    BY DigitPlaces
  <2>3. i \in Nat /\ i < 3 * d + t
    BY <1>1, <2>1, <2>2, DigitPlaces
  <2>4. /\ o(1) = 0 /\ o(2) = d /\ o(3) = 2 * d /\ o(4) = 3 * d
        /\ w(1) = d /\ w(2) = d /\ w(3) = d /\ w(4) = t
    BY <2>1, <2>2, DigitPlaces
  <2> HIDE DEF o, w
  <2>5. CASE i < d
    <3>1. o(1) + i = i /\ i < w(1)
      BY <2>3, <2>4, <2>5
    <3>2. Bit(z, o(1) + i) = Bit(m, o(1) + i)
      BY <1>2, <2>3, <3>1
    <3> QED BY <3>1, <3>2
  <2>6. CASE d <= i /\ i < 2 * d
    <3>1. o(2) + (i - d) = i /\ i - d < w(2) /\ i - d \in Nat
      BY <2>3, <2>4, <2>6
    <3>2. Bit(z, o(2) + (i - d)) = Bit(m, o(2) + (i - d))
      BY <1>2, <3>1
    <3> QED BY <3>1, <3>2
  <2>7. CASE 2 * d <= i /\ i < 3 * d
    <3>1. o(3) + (i - 2 * d) = i /\ i - 2 * d < w(3) /\ i - 2 * d \in Nat
      BY <2>3, <2>4, <2>7
    <3>2. Bit(z, o(3) + (i - 2 * d)) = Bit(m, o(3) + (i - 2 * d))
      BY <1>2, <3>1
    <3> QED BY <3>1, <3>2
  <2>8. CASE 3 * d <= i
    <3>1. o(4) + (i - 3 * d) = i /\ i - 3 * d < w(4) /\ i - 3 * d \in Nat
      BY <2>3, <2>4, <2>8
    <3>2. Bit(z, o(4) + (i - 3 * d)) = Bit(m, o(4) + (i - 3 * d))
      BY <1>2, <3>1
    <3> QED BY <3>1, <3>2
  <2> QED BY <2>3, <2>5, <2>6, <2>7, <2>8
<1> QED BY <1>1, <1>3, SameBits

-------------------------------------------------------------------------------
(* The row of a set of ids: they are edited in one after the other.          *)

Some(s) == CHOOSE x \in s : TRUE

\* g[s] is the row of s, for every s within S.
RowsOf(g, S) ==
    g = [s \in SUBSET S |->
            IF s = {} THEN ZeroRow ELSE EditRow(g[s \ {Some(s)}], Some(s), 1)]

LEMMA RowIs == ASSUME NEW S PROVE RowOf(S) = (CHOOSE g : RowsOf(g, S))[S]
BY DEF RowOf, FoldSet, MapThenFoldSet, RowsOf, Some

LEMMA SomeIn == ASSUME NEW s, s # {} PROVE Some(s) \in s /\ s \ {Some(s)} # s
BY DEF Some

\* The row of a subset does not depend on the larger set.
LEMMA RowsUnique ==
    ASSUME NEW S, IsFiniteSet(S), NEW D \in SUBSET S, NEW g, NEW h,
           RowsOf(g, S), RowsOf(h, D)
    PROVE  g[D] = h[D]
<1> DEFINE bad == {s \in SUBSET D : g[s] # h[s]}
<1>1. SUFFICES ASSUME bad # {} PROVE FALSE
  OBVIOUS
<1>2. IsFiniteSet(D) /\ bad \in SUBSET (SUBSET D)
  BY FS_Subset
<1>3. PICK s \in bad : \A t \in SUBSET s : t # s => t \notin bad
  <2> HIDE DEF bad
  <2> QED BY <1>1, <1>2, SmallestSet
<1>4. s # {}
  BY <1>3 DEF RowsOf
<1>5. s \ {Some(s)} \in SUBSET s /\ s \ {Some(s)} \in SUBSET D /\ s \ {Some(s)} # s
  BY <1>3, <1>4, SomeIn
<1>6. g[s \ {Some(s)}] = h[s \ {Some(s)}]
  BY <1>3, <1>5
<1>7. /\ g[s] = EditRow(g[s \ {Some(s)}], Some(s), 1)
      /\ h[s] = EditRow(h[s \ {Some(s)}], Some(s), 1)
  BY <1>3, <1>4 DEF RowsOf
<1> QED BY <1>3, <1>6, <1>7

LEMMA RowsExist ==
    ASSUME NEW S, IsFiniteSet(S)
    PROVE  \E g : RowsOf(g, S)
<1> DEFINE bad == {s \in SUBSET S : ~ \E g : RowsOf(g, s)}
<1>1. SUFFICES ASSUME bad # {} PROVE FALSE
  OBVIOUS
<1>2. PICK s \in bad : \A t \in SUBSET s : t # s => t \notin bad
  <2>1. bad \in SUBSET (SUBSET S)
    OBVIOUS
  <2> HIDE DEF bad
  <2> QED BY <1>1, <2>1, SmallestSet
<1> DEFINE g == [t \in SUBSET s |->
                    IF t = {} THEN ZeroRow
                    ELSE EditRow(RowOf(t \ {Some(t)}), Some(t), 1)]
<1>3. ASSUME NEW t \in SUBSET s, t # s
      PROVE  RowsOf(CHOOSE h : RowsOf(h, t), t) /\ IsFiniteSet(t)
  BY <1>2, <1>3, FS_Subset
<1>4. ASSUME NEW u \in SUBSET s, u # s PROVE g[u] = RowOf(u)
  <2> DEFINE h == CHOOSE h : RowsOf(h, u)
  <2>1. RowsOf(h, u) /\ RowOf(u) = h[u]
    BY <1>3, <1>4, RowIs
  <2> HIDE DEF h
  <2>2. CASE u = {}
    BY <2>1, <2>2 DEF RowsOf
  <2>3. CASE u # {}
    <3> DEFINE w == u \ {Some(u)}
               k == CHOOSE k : RowsOf(k, w)
    <3>1. w \in SUBSET u /\ w \in SUBSET s /\ w # s
      BY <2>3, <1>4, SomeIn
    <3>2. RowsOf(k, w) /\ RowOf(w) = k[w]
      BY <1>3, <3>1, RowIs
    <3> HIDE DEF k
    <3>3. h[w] = k[w]
      <4>1. IsFiniteSet(u) /\ w \in SUBSET u
        BY <1>3, <1>4, <3>1
      <4> HIDE DEF w
      <4> QED BY <2>1, <3>2, <4>1, RowsUnique
    <3>4. h[u] = EditRow(h[w], Some(u), 1)
      BY <2>1, <2>3 DEF RowsOf
    <3> QED BY <2>1, <2>3, <3>2, <3>3, <3>4
  <2> QED BY <2>2, <2>3
<1>5. ASSUME NEW t \in SUBSET s, t # {}
      PROVE  g[t] = EditRow(g[t \ {Some(t)}], Some(t), 1)
  <2>1. t \ {Some(t)} \in SUBSET s /\ t \ {Some(t)} # s
    BY <1>5, SomeIn
  <2> QED BY <1>4, <1>5, <2>1
<1>6. RowsOf(g, s)
  <2>1. \A t \in SUBSET s : g[t] = IF t = {} THEN ZeroRow
                                   ELSE EditRow(g[t \ {Some(t)}], Some(t), 1)
    BY <1>5
  <2> HIDE DEF g
  <2>2. g = [t \in SUBSET s |-> g[t]]
    BY DEF g
  <2> QED BY <2>1, <2>2 DEF RowsOf
<1> QED BY <1>2, <1>6

LEMMA RowTyped ==
    ASSUME NEW S, IsFiniteSet(S), S \subseteq Nat
    PROVE  RowOf(S) \in Row
<1> DEFINE g == CHOOSE g : RowsOf(g, S)
           bad == {s \in SUBSET S : g[s] \notin Row}
<1>1. RowsOf(g, S) /\ RowOf(S) = g[S]
  BY RowsExist, RowIs
<1> HIDE DEF g
<1>2. SUFFICES ASSUME bad # {} PROVE FALSE
  BY <1>1
<1>3. PICK s \in bad : \A t \in SUBSET s : t # s => t \notin bad
  <2>1. bad \in SUBSET (SUBSET S)
    OBVIOUS
  <2> HIDE DEF bad
  <2> QED BY <1>2, <2>1, SmallestSet
<1>4. s # {}
  <2>1. ZeroRow \in Row
    BY Sizes DEF ZeroRow, Row, Fp
  <2>2. g[{}] = ZeroRow
    BY <1>1 DEF RowsOf
  <2> QED BY <1>3, <2>1, <2>2
<1>5. s \ {Some(s)} \in SUBSET S /\ Some(s) \in Nat /\ g[s \ {Some(s)}] \in Row
  BY <1>3, <1>4, SomeIn
<1>6. g[s] = EditRow(g[s \ {Some(s)}], Some(s), 1)
  BY <1>1, <1>3, <1>4 DEF RowsOf
<1> QED BY <1>3, <1>5, <1>6, EditTyped

\* The row a set's ids are edited into holds their power sums.
LEMMA RowSums ==
    ASSUME NEW S \in SUBSET AllIds
    PROVE  Sums(RowOf(S), S)
<1> DEFINE g == CHOOSE g : RowsOf(g, S)
           bad == {s \in SUBSET S : ~ Sums(g[s], s)}
<1>0. IsFiniteSet(S)
  BY IdsTyped, FS_Subset
<1>1. RowsOf(g, S) /\ RowOf(S) = g[S]
  BY <1>0, RowsExist, RowIs
<1> HIDE DEF g
<1>2. SUFFICES ASSUME bad # {} PROVE FALSE
  BY <1>1
<1>3. PICK s \in bad : \A t \in SUBSET s : t # s => t \notin bad
  <2>1. bad \in SUBSET (SUBSET S)
    OBVIOUS
  <2> HIDE DEF bad
  <2> QED BY <1>0, <1>2, <2>1, SmallestSet
<1>4. s # {}
  <2>1. g[{}] = ZeroRow
    BY <1>1 DEF RowsOf
  <2> QED BY <1>3, <2>1, NoIds
<1>5. PICK x : x = Some(s)
  OBVIOUS
<1>6. /\ x \in AllIds /\ x \in s /\ s \ {x} \in SUBSET AllIds
      /\ x \notin s \ {x} /\ (s \ {x}) \cup {x} = s
  BY <1>3, <1>4, <1>5, SomeIn
<1>7. Sums(g[s \ {x}], s \ {x})
  BY <1>3, <1>6
<1>8. Sums(EditRow(g[s \ {x}], x, 1), (s \ {x}) \cup {x})
  BY <1>6, <1>7, EditSums
<1>9. g[s] = EditRow(g[s \ {x}], x, 1)
  BY <1>1, <1>3, <1>4, <1>5 DEF RowsOf
<1> QED BY <1>3, <1>6, <1>8, <1>9

LEMMA SidesTyped ==
    ASSUME NEW s \in Sides, NEW p \in Party
    PROVE  Syndrome(p, RowOf(s[p])) \in [1..K -> Fp]
<1>1. s[p] \subseteq 0..(IdLimit - 1) /\ IdLimit \in Nat
  BY EvaluatorAssumption, EncodingAssumption
<1>2. IsFiniteSet(0..(IdLimit - 1))
  BY <1>1, FS_Interval
<1>3. IsFiniteSet(s[p]) /\ s[p] \subseteq Nat
  BY <1>1, <1>2, FS_Subset
<1> QED BY <1>3, RowTyped, SyndromeTyped DEF Row

-------------------------------------------------------------------------------
(* The invariant holds.                                                      *)

LEMMA EvaluatorStart == Init => EvaluatorInv
<1> SUFFICES ASSUME Init PROVE EvaluatorInv
  OBVIOUS
<1>1. Dealing
  <2>1. PICK n \in Batches : sides \in [1..n -> Sides]
    BY DEF Init
  <2>2. n \in Nat /\ Len(sides) = n
    BY <2>1, EvaluatorAssumption
  <2> QED BY <2>1, <2>2 DEF Init, Dealing, Batch
<1>2. Batch \in Nat \ {0} /\ Buckets = 1..Batch
  BY <1>1, BatchIs
<1>3. /\ round = [p \in Party |-> 1] /\ posted = [p \in Party |-> <<>>]
      /\ sent = [p \in Party |-> 0] /\ inbox = [p \in Party |-> <<>>]
      /\ chan = [p \in Party |-> <<>>] /\ taken = [p \in Party |-> 0]
      /\ wires = [p \in Party |-> [b \in Buckets |->
                    [r \in {0} |-> Syndrome(p, RowOf(sides[b][p]))]]]
  BY DEF Init
<1>4. \A p \in Party : /\ round[p] = 1 /\ posted[p] = <<>> /\ sent[p] = 0
                       /\ inbox[p] = <<>> /\ chan[p] = <<>> /\ taken[p] = 0
  BY <1>3
<1>5. \A p \in Party, b \in Buckets :
         wires[p][b] = [r \in {0} |-> Syndrome(p, RowOf(sides[b][p]))]
  BY <1>3
<1>6. 0..(1 - 1) = {0} /\ 1..(1 - 1) = {}
  OBVIOUS
<1>7. Forms
  <2>1. WireForms
    <3>1. wires = [p \in Party |-> wires[p]]
      BY <1>3
    <3>2. \A p \in Party : wires[p] = [b \in Buckets |-> wires[p][b]]
      BY <1>3
    <3>3. \A p \in Party, b \in Buckets : DOMAIN wires[p][b] = 0..(round[p] - 1)
      <4>1. TAKE p \in Party, b \in Buckets
      <4>2. DOMAIN wires[p][b] = {0}
        BY <1>5
      <4>3. round[p] - 1 = 1 - 1
        BY <1>4
      <4> QED BY <1>6, <4>2, <4>3
    <3> QED BY <3>1, <3>2, <3>3 DEF WireForms
  <2>2. 1 \in 1..(Rounds + 1) /\ <<>> \in Seq(Pieces) /\ 0 \in Nat
    BY RoundNames
  <2> QED BY <1>1, <1>3, <2>1, <2>2 DEF Forms
<1>8. Paid
  <2>1. ASSUME NEW p \in Party PROVE Begun(p) = 1 /\ Batch * Before[1] = 0
    BY <1>2, <1>4, Widths DEF Begun
  <2> QED BY <1>4, <2>1 DEF Paid
<1>9. Exchanging
  <2>1. ASSUME NEW p \in Party PROVE round[Peer(p)] - round[p] \in {-1, 0, 1}
    BY <1>4, PeerIs
  <2>2. Len(<<>>) = 0 /\ 0 <= Batch
    BY <1>2
  <2> QED BY <1>4, <2>1, <2>2 DEF Exchanging
<1>10. Stream
  <2>1. ASSUME NEW p \in Party PROVE Flows(p)
    <3>1. Coming(p) = 0
      BY <1>4, PeerIs DEF Coming
    <3>2. Len(<<>>) = 0 /\ 1..0 = {} /\ 0 + 0 = 0
      OBVIOUS
    <3> QED BY <1>4, <3>1, <3>2 DEF Flows
  <2> QED BY <2>1 DEF Stream
<1>11. Wires
  <2>1. ASSUME NEW p \in Party, NEW b \in Buckets PROVE Known(wires[p][b], 1)
    <3>1. sides[b] \in Sides
      BY <1>1, <1>2 DEF Dealing
    <3>2. wires[p][b][0] = Syndrome(p, RowOf(sides[b][p]))
      <4>1. \A v : [r \in {0} |-> v][0] = v
        OBVIOUS
      <4> QED BY <1>5, <4>1
    <3>3. wires[p][b][0] \in Value(0)
      <4>1. Syndrome(p, RowOf(sides[b][p])) \in [1..K -> Fp]
        BY <3>1, SidesTyped
      <4> QED BY <3>2, <4>1, RoundNames DEF Value
    <3>4. \A s \in 0..(1 - 1) : s = 0
      BY <1>6
    <3> QED BY <3>3, <3>4 DEF Known
  <2> QED BY <1>4, <1>6, <2>1 DEF Wires, Knows
<1> QED BY <1>7, <1>8, <1>9, <1>10, <1>11 DEF EvaluatorInv

LEMMA EvaluatorStep == EvaluatorInv /\ [Next]_vars => EvaluatorInv'
<1> SUFFICES ASSUME EvaluatorInv, [Next]_vars PROVE EvaluatorInv'
  OBVIOUS
<1>1. ASSUME NEW p \in Party, Post(p) PROVE EvaluatorInv'
  BY <1>1, PostKeeps
<1>2. ASSUME NEW p \in Party, SendPiece(p) PROVE EvaluatorInv'
  BY <1>2, SendKeeps
<1>3. ASSUME NEW p \in Party, ReceivePiece(p) PROVE EvaluatorInv'
  BY <1>3, ReceiveKeeps
<1>4. ASSUME NEW p \in Party, Finish(p) PROVE EvaluatorInv'
  BY <1>4, FinishKeeps
<1>5. CASE UNCHANGED vars
  <2> USE <1>5 DEF vars
  <2>1. Buckets' = Buckets /\ Batch' = Batch
    BY DEF Buckets, Batch
  <2>2. Forms' = Forms
    BY <2>1 DEF Forms, WireForms, Dealing
  <2>3. \A p, r : Openings(p, r)' = Openings(p, r)
    BY <2>1 DEF Openings, TripleAt, TripleOf, TripleShare, MaskShare
  <2>4. \A p \in Party, r \in 1..Rounds : Closings(p, r)' = Closings(p, r)
    <3>1. UNCHANGED <<sides, seed>>
      OBVIOUS
    <3> QED BY <2>3, <3>1, ClosingsKept
  <2>5. Paid' = Paid
    BY <2>1 DEF Paid, Begun
  <2>6. Exchanging' = Exchanging
    BY <2>1, <2>3 DEF Exchanging
  <2>7. Stream' = Stream
    <3>1. \A p : Coming(p)' = Coming(p)
      BY <2>1 DEF Coming
    <3>2. \A p, k : ComesAs(p, k)' = ComesAs(p, k)
      BY <2>1, <2>3 DEF ComesAs
    <3> QED BY <3>1, <3>2 DEF Stream, Flows
  <2>8. Wires' = Wires
    <3>1. \A p \in Party : \A r \in 1..(round[p] - 1) : r \in 1..Rounds
      <4>1. \A p \in Party : round[p] \in 1..9
        BY RoundNames DEF EvaluatorInv, Forms
      <4> QED BY <4>1, RoundNames
    <3> QED BY <2>1, <2>4, <3>1 DEF Wires, Knows
  <2> QED BY <2>2, <2>5, <2>6, <2>7, <2>8 DEF EvaluatorInv
<1> QED BY <1>1, <1>2, <1>3, <1>4, <1>5 DEF Next, Rest

\* How far one party may be ahead of the other, what is in the sockets, and that
\* every message and every result is the one its round calls for.
THEOREM EvaluatorInvariant == Spec => []EvaluatorInv
BY EvaluatorStart, EvaluatorStep, PTL DEF Spec

\* An evaluation takes 44 triples a bucket at either party, never more
\* (query.cpp:172, beaver.cpp:8-50): ExactBudget.
THEOREM ExactBudgetHolds == Spec => []ExactBudget
<1>1. ASSUME EvaluatorInv PROVE ExactBudget
  <2>1. Forms /\ Paid /\ Exchanging /\ Batch \in Nat \ {0}
    BY <1>1, BatchIs DEF EvaluatorInv, Forms
  <2>2. ASSUME NEW p \in Party
        PROVE  /\ taken[p] <= TriplesPerBucket * Batch
               /\ Finished => taken[p] = TriplesPerBucket * Batch
    <3>1. round[p] \in 1..9 /\ (posted[p] # <<>> => round[p] \in 1..8)
      BY <2>1, RoundNames DEF Forms, Exchanging
    <3>2. Begun(p) \in 1..9 /\ (round[p] = 9 => Begun(p) = 9)
      BY <3>1 DEF Begun
    <3>3. taken[p] = Batch * Before[Begun(p)]
      BY <2>1 DEF Paid
    <3>4. Before[Begun(p)] \in 0..44
      BY <3>2, Widths
    <3>5. \A n \in Nat, m \in 0..44 : n * m <= 44 * n /\ n * 44 = 44 * n
      <4>1. TAKE n \in Nat, m \in 0..44
      <4>2. n * (44 - m) >= 0 /\ n * (44 - m) = 44 * n - n * m /\ n * m \in Int
        OBVIOUS
      <4> QED BY <4>2
    <3>6. Finished => Begun(p) = 9
      BY <3>2, RoundNames DEF Finished
    <3> QED BY <2>1, <3>3, <3>4, <3>5, <3>6, Widths DEF TriplesPerBucket
  <2> QED BY <2>2 DEF ExactBudget, Batch
<1> QED BY <1>1, EvaluatorInvariant, PTL

\* Of n pieces the party behind has sent s and received i, with c on the way to it;
\* the party ahead t, j and d.  One of them can go on.
Unstuck(n, s, t, i, j, c, d) ==
    \/ (s # n /\ d = 0) \/ (i # n /\ c > 0) \/ (s = n /\ i = n)
    \/ (t # n /\ c = 0) \/ (j # n /\ d > 0) \/ (t = n /\ j = n)

LEMMA NotBothFull ==
    ASSUME NEW n \in Nat \ {0}, NEW s \in 0..n, NEW t \in 0..n,
           NEW i \in 0..n, NEW j \in 0..n, NEW c \in Nat, NEW d \in Nat,
           \/ i + c = t /\ j + d = s
           \/ i + c = n + t /\ j + d = s - n
    PROVE  Unstuck(n, s, t, i, j, c, d)
BY DEF Unstuck

\* However small the buffers, the two halves of an exchange never leave both
\* parties waiting for the other to drain its socket (net.hpp:68-79):
\* NeverBothBlocked.
THEOREM NeverBothBlockedHolds == Spec => []NeverBothBlocked
<1>1. ASSUME EvaluatorInv, \A p \in Party : Blocked(p) PROVE FALSE
  <2>1. /\ Forms /\ Exchanging /\ Stream
        /\ Batch \in Nat \ {0} /\ Capacity \in Nat \ {0} /\ Buckets = 1..Batch
    BY <1>1, BatchIs, EvaluatorAssumption DEF EvaluatorInv, Forms
  <2>2. ASSUME NEW p \in Party PROVE Len(posted[p]) = Batch
    <3>1. posted[p] # <<>>
      BY <1>1 DEF Blocked
    <3>2. posted[p] = Openings(p, round[p])
      BY <2>1, <3>1 DEF Exchanging
    <3>3. Openings(p, round[p]) = [b \in 1..Batch |-> Openings(p, round[p])[b]]
      BY <2>1 DEF Openings
    <3> QED BY <2>1, <3>2, <3>3
  <2>3. \A p \in Party :
           /\ sent[p] \in Nat /\ sent[p] <= Batch /\ Len(inbox[p]) \in Nat
           /\ Len(chan[p]) \in Nat /\ Len(inbox[p]) <= Batch
           /\ round[p] \in Nat /\ round[Peer(p)] - round[p] \in {-1, 0, 1}
           /\ Len(inbox[p]) + Len(chan[p]) = Coming(p)
    <3>1. TAKE p \in Party
    <3>2. /\ sent[p] \in Nat /\ Len(inbox[p]) \in Nat /\ Len(chan[p]) \in Nat
          /\ round[p] \in Nat
      BY <2>1 DEF Forms
    <3>3. /\ sent[p] <= Batch /\ Len(inbox[p]) <= Batch
          /\ round[Peer(p)] - round[p] \in {-1, 0, 1}
      BY <2>1 DEF Exchanging
    <3>4. Len(inbox[p]) + Len(chan[p]) = Coming(p)
      BY <2>1 DEF Stream, Flows
    <3> QED BY <3>2, <3>3, <3>4
  <2>4. \A p \in Party :
           /\ sent[p] = Batch \/ Len(chan[Peer(p)]) > 0
           /\ Len(inbox[p]) = Batch \/ Len(chan[p]) = 0
           /\ sent[p] # Batch \/ Len(inbox[p]) # Batch
    <3>1. TAKE p \in Party
    <3>2. chan[p] \in Seq(Pieces)
      BY <2>1 DEF Forms
    <3>3. Len(posted[p]) = Batch /\ posted[p] # <<>>
      BY <1>1, <2>2 DEF Blocked
    <3>4. ~ (sent[p] # Batch /\ Len(chan[Peer(p)]) < Capacity)
      BY <1>1, <3>3 DEF Blocked, CanSend, AllSent
    <3>5. ~ (Len(inbox[p]) < Batch /\ chan[p] # <<>>)
      BY <1>1, <3>3 DEF Blocked, CanReceive, Receives
    <3>6. ~ (sent[p] = Batch /\ Len(inbox[p]) = Batch)
      BY <1>1, <3>3 DEF Blocked, Exchanged, AllSent
    <3>7. Len(chan[p]) = 0 => chan[p] = <<>>
      BY <3>2
    <3>8. chan[p] = <<>> => Len(chan[p]) = 0
      OBVIOUS
    <3>9. Len(chan[Peer(p)]) \in Nat /\ Len(inbox[p]) \in Nat /\ Len(inbox[p]) <= Batch
      BY <2>3, PeerIs
    <3> QED BY <2>1, <3>4, <3>5, <3>6, <3>7, <3>8, <3>9
  \* The party behind has its message still to send or to receive.
  <2>5. PICK p \in Party : round[p] <= round[Peer(p)]
    <3>1. round["R"] \in Nat /\ round["S"] \in Nat
      BY <2>3, PeerIs
    <3> QED BY <3>1, PeerIs
  <2>6. PICK q \in Party : q = Peer(p) /\ Peer(q) = p
    BY PeerIs
  <2>10. /\ sent[p] \in Nat /\ sent[p] <= Batch /\ sent[q] \in Nat /\ sent[q] <= Batch
         /\ round[p] \in Nat /\ round[q] \in Nat
         /\ Len(inbox[p]) \in Nat /\ Len(inbox[q]) \in Nat
         /\ Len(inbox[p]) <= Batch /\ Len(inbox[q]) <= Batch
         /\ Len(chan[p]) \in Nat /\ Len(chan[q]) \in Nat
         /\ Len(inbox[p]) + Len(chan[p]) = Coming(p)
         /\ Len(inbox[q]) + Len(chan[q]) = Coming(q)
    BY <2>3
  <2>11. /\ sent[p] = Batch \/ Len(chan[q]) > 0
         /\ Len(inbox[p]) = Batch \/ Len(chan[p]) = 0
         /\ sent[p] # Batch \/ Len(inbox[p]) # Batch
         /\ sent[q] = Batch \/ Len(chan[p]) > 0
         /\ Len(inbox[q]) = Batch \/ Len(chan[q]) = 0
         /\ sent[q] # Batch \/ Len(inbox[q]) # Batch
    <3>1. \A x, y \in Party : y = Peer(x) =>
             /\ sent[x] = Batch \/ Len(chan[y]) > 0
             /\ Len(inbox[x]) = Batch \/ Len(chan[x]) = 0
             /\ sent[x] # Batch \/ Len(inbox[x]) # Batch
      BY <2>4
    <3>2. q = Peer(p) /\ p = Peer(q)
      BY <2>6
    <3> QED BY <3>1, <3>2
  <2>7. round[q] = round[p] \/ round[q] = round[p] + 1
    <3>1. round[q] - round[p] \in {-1, 0, 1} /\ round[p] <= round[q]
      BY <2>3, <2>5, <2>6
    <3> QED BY <2>10, <3>1
  <2>8. CASE round[q] = round[p]
    <3>1. Coming(p) = sent[q] /\ Coming(q) = sent[p]
      <4>1. round[p] # round[p] + 1
        BY <2>10
      <4> QED BY <2>6, <2>8, <4>1 DEF Coming
    <3>2. Unstuck(Batch, sent[p], sent[q], Len(inbox[p]), Len(inbox[q]),
                  Len(chan[p]), Len(chan[q]))
      <4>1. /\ sent[p] \in 0..Batch /\ sent[q] \in 0..Batch /\ Batch \in Nat \ {0}
            /\ Len(inbox[p]) \in 0..Batch /\ Len(inbox[q]) \in 0..Batch
            /\ Len(chan[p]) \in Nat /\ Len(chan[q]) \in Nat
        BY <2>1, <2>10
      <4>2. Len(inbox[p]) + Len(chan[p]) = sent[q] /\ Len(inbox[q]) + Len(chan[q]) = sent[p]
        BY <2>10, <3>1
      <4> QED BY ONLY <4>1, <4>2, NotBothFull
    <3> QED BY <2>10, <2>11, <3>2 DEF Unstuck
  <2>9. CASE round[q] = round[p] + 1
    <3>1. Coming(p) = Batch + sent[q] /\ Coming(q) = sent[p] - Batch
      <4>1. round[p] # (round[p] + 1) + 1 /\ round[p] # round[p] + 1
        BY <2>10
      <4> QED BY <2>6, <2>9, <4>1 DEF Coming
    <3>2. Unstuck(Batch, sent[p], sent[q], Len(inbox[p]), Len(inbox[q]),
                  Len(chan[p]), Len(chan[q]))
      <4>1. /\ sent[p] \in 0..Batch /\ sent[q] \in 0..Batch /\ Batch \in Nat \ {0}
            /\ Len(inbox[p]) \in 0..Batch /\ Len(inbox[q]) \in 0..Batch
            /\ Len(chan[p]) \in Nat /\ Len(chan[q]) \in Nat
        BY <2>1, <2>10
      <4>2. /\ Len(inbox[p]) + Len(chan[p]) = Batch + sent[q]
            /\ Len(inbox[q]) + Len(chan[q]) = sent[p] - Batch
        BY <2>10, <3>1
      <4> QED BY ONLY <4>1, <4>2, NotBothFull
    <3> QED BY <2>10, <2>11, <3>2 DEF Unstuck
  <2> QED BY <2>7, <2>8, <2>9
<1>2. EvaluatorInv => NeverBothBlocked
  BY <1>1 DEF NeverBothBlocked
<1> QED BY <1>2, EvaluatorInvariant, PTL

\* Every share a party holds or makes is a canonical field element.
THEOREM EvaluatorTypeCorrect == Spec => []TypeOK
<1>1. ASSUME EvaluatorInv PROVE TypeOK
  <2>1. Forms /\ Wires
    BY <1>1 DEF EvaluatorInv
  <2>2. ASSUME NEW p \in Party, NEW b \in Buckets, NEW r \in DOMAIN wires[p][b]
        PROVE  Canonical(wires[p][b][r], r)
    <3>1. r \in 0..(round[p] - 1)
      BY <2>1 DEF Forms, WireForms
    <3>2. PICK z : z = wires[p][b][r]
      OBVIOUS
    <3>3. z \in Value(r)
      BY <2>1, <3>1, <3>2 DEF Wires, Knows, Known
    <3>4. CASE r = MaskRound
      <4>1. z \in [1..GatesPerBucket -> [1..Digits -> Fp]]
        BY <3>3, <3>4, RoundNames DEF Value
      <4> QED BY <3>2, <3>4, <4>1 DEF Canonical
    <3>5. CASE r # MaskRound
      <4>1. z \in [1..K -> Fp] \/ z \in [1..Width[r] -> Fp]
        BY <3>3, <3>5 DEF Value
      <4>2. z \in [DOMAIN z -> Fp]
        BY <4>1
      <4> QED BY <3>2, <3>5, <4>2 DEF Canonical
    <3> QED BY <3>4, <3>5
  <2> QED BY <2>1, <2>2 DEF TypeOK, Forms
<1> QED BY <1>1, EvaluatorInvariant, PTL

-------------------------------------------------------------------------------
(* What the shares of a round open to.                                       *)

\* What the two wires of a bucket open to.
Clear(b, r, i) == Add(wires["R"][b][r][i], wires["S"][b][r][i])

ClearBit(b, g, j) == Add(wires["R"][b][MaskRound][g][j], wires["S"][b][MaskRound][g][j])

ClearMinor(b, g) == Add(Minor(wires["R"][b])[g], Minor(wires["S"][b])[g])

\* What factor k of product i opens to.
Factor(b, r, i, k) ==
    Add(Operands(wires["R"][b], r)[i][k], Operands(wires["S"][b], r)[i][k])

LEMMA Shares ==
    ASSUME EvaluatorInv, NEW r \in 1..Rounds, \A p \in Party : round[p] > r,
           NEW b \in Buckets, NEW p \in Party
    PROVE  /\ Known(wires[p][b], r) /\ Known(wires[p][b], r + 1)
           /\ wires[p][b][r] = Closings(p, r)[b]
           /\ Openings(p, r) \in [Buckets -> Piece(r)]
<1>1. Forms /\ Wires /\ Dealing /\ round[p] \in 1..9 /\ round[p] > r /\ r \in 1..8
  BY RoundNames DEF EvaluatorInv, Forms
<1>2. \A c \in Buckets : Known(wires[p][c], round[p])
  BY <1>1 DEF Wires, Knows
<1>3. \A c \in Buckets : Known(wires[p][c], r) /\ Known(wires[p][c], r + 1)
  <2>1. 0..(r - 1) \subseteq 0..(round[p] - 1) /\ 0..((r + 1) - 1) \subseteq 0..(round[p] - 1)
    BY <1>1
  <2> QED BY <1>2, <2>1 DEF Known
<1>4. r \in 1..(round[p] - 1)
  BY <1>1
<1>5. wires[p][b][r] = Closings(p, r)[b]
  BY <1>1, <1>4 DEF Wires
<1>6. Openings(p, r) \in [Buckets -> Piece(r)]
  BY <1>1, <1>3, OpeningsTyped DEF Knows
<1> QED BY <1>3, <1>5, <1>6

LEMMA RoundMultiplies ==
    ASSUME EvaluatorInv, NEW r \in Multiplies, \A p \in Party : round[p] > r,
           NEW b \in Buckets, NEW i \in 1..Width[r]
    PROVE  /\ Clear(b, r, i) = Mul(Factor(b, r, i, 1), Factor(b, r, i, 2))
           /\ Factor(b, r, i, 1) \in Fp /\ Factor(b, r, i, 2) \in Fp
<1>1. r \in 1..Rounds /\ r # MaskRound /\ Dealing /\ "R" \in Party /\ "S" \in Party
  BY DEF Multiplies, EvaluatorInv, Forms, Party
<1>2. PICK X : X = Operands(wires["R"][b], r)
  OBVIOUS
<1>3. PICK Y : Y = Operands(wires["S"][b], r)
  OBVIOUS
<1>4. X[i][1] \in Fp /\ X[i][2] \in Fp /\ Y[i][1] \in Fp /\ Y[i][2] \in Fp
  BY <1>1, <1>2, <1>3, Shares, OperandsShape
<1>5. PICK u : u = TripleAt("R", r, b, i)
  OBVIOUS
<1>6. PICK v : v = TripleAt("S", r, b, i)
  OBVIOUS
<1>7. /\ u.a \in Fp /\ u.b \in Fp /\ u.c \in Fp /\ v.a \in Fp /\ v.b \in Fp /\ v.c \in Fp
      /\ Add(u.c, v.c) = Mul(Add(u.a, v.a), Add(u.b, v.b))
  BY <1>1, <1>5, <1>6, TripleOpens
<1>8. /\ Openings("R", r)[b][i] = <<Sub(X[i][1], u.a), Sub(X[i][2], u.b)>>
      /\ Openings("S", r)[b][i] = <<Sub(Y[i][1], v.a), Sub(Y[i][2], v.b)>>
  BY <1>1, <1>2, <1>3, <1>5, <1>6 DEF Openings
<1>9. PICK d : d = Add(Sub(X[i][1], u.a), Sub(Y[i][1], v.a))
  OBVIOUS
<1>10. PICK e : e = Add(Sub(X[i][2], u.b), Sub(Y[i][2], v.b))
  OBVIOUS
<1>11. /\ Add(Sub(Y[i][1], v.a), Sub(X[i][1], u.a)) = d
       /\ Add(Sub(Y[i][2], v.b), Sub(X[i][2], u.b)) = e
  <2>1. /\ Sub(X[i][1], u.a) \in Fp /\ Sub(Y[i][1], v.a) \in Fp
        /\ Sub(X[i][2], u.b) \in Fp /\ Sub(Y[i][2], v.b) \in Fp
    BY <1>4, <1>7, SubCorrect
  <2> QED BY <1>9, <1>10, <2>1, AddBack
<1>12. /\ Closings("R", r)[b][i] = ProductShare("R", u, d, e)
       /\ Closings("S", r)[b][i] = ProductShare("S", v, d, e)
  <2>1. Peer("R") = "S" /\ Peer("S") = "R"
    BY PeerIs
  <2>2. /\ Openings("R", r)[b][i][1] = Sub(X[i][1], u.a)
        /\ Openings("R", r)[b][i][2] = Sub(X[i][2], u.b)
        /\ Openings("S", r)[b][i][1] = Sub(Y[i][1], v.a)
        /\ Openings("S", r)[b][i][2] = Sub(Y[i][2], v.b)
    BY <1>8
  <2>3. Closings("R", r)[b][i] = ProductShare("R", u, d, e)
    BY <1>1, <1>5, <1>9, <1>10, <2>1, <2>2 DEF Closings
  <2>4. Closings("S", r)[b][i] = ProductShare("S", v, d, e)
    BY <1>1, <1>6, <1>11, <2>1, <2>2 DEF Closings
  <2> QED BY <2>3, <2>4
<1>13. Add(ProductShare("R", u, d, e), ProductShare("S", v, d, e))
         = Mul(Add(X[i][1], Y[i][1]), Add(X[i][2], Y[i][2]))
  <2>1. PICK x, y, z, t : x = X[i][1] /\ y = X[i][2] /\ z = Y[i][1] /\ t = Y[i][2]
    OBVIOUS
  <2>2. x \in Fp /\ y \in Fp /\ z \in Fp /\ t \in Fp
    BY <1>4, <2>1
  <2>3. d = Add(Sub(x, u.a), Sub(z, v.a)) /\ e = Add(Sub(y, u.b), Sub(t, v.b))
    BY <1>9, <1>10, <2>1
  <2>4. Add(ProductShare("R", u, d, e), ProductShare("S", v, d, e)) = Mul(Add(x, z), Add(y, t))
    BY ONLY <1>7, <2>2, <2>3, ProductOpens
  <2> QED BY <2>1, <2>4
<1>14. wires["R"][b][r] = Closings("R", r)[b] /\ wires["S"][b][r] = Closings("S", r)[b]
  BY <1>1, Shares
<1>15. Add(X[i][1], Y[i][1]) \in Fp /\ Add(X[i][2], Y[i][2]) \in Fp
  BY <1>4, AddCorrect
<1> QED BY <1>2, <1>3, <1>12, <1>13, <1>14, <1>15 DEF Clear, Factor

LEMMA SumIsFirst ==
    ASSUME NEW x \in Fp, NEW m \in Fp PROVE Add(x, m) = m <=> x = 0
<1>1. /\ Is(Add(x, m), x + m) /\ Is(m, m) /\ Is(x, x) /\ x \in Int /\ m \in Int
      /\ Add(x, m) \in Fp
  BY IsSelf, IsSum DEF Is
<1>2. ASSUME x = 0 PROVE Add(x, m) = m
  <2>1. Is(Add(x, m), m)
    BY <1>1, <1>2
  <2> QED BY <1>1, <2>1, IsSame
<1>3. ASSUME Add(x, m) = m PROVE x = 0
  <2>1. Is(Sub(Add(x, m), m), (x + m) - m) /\ Is(Sub(m, m), m - m)
    BY <1>1, IsSum
  <2>2. (x + m) - m = x /\ m - m = 0
    BY <1>1
  <2>3. Is(Sub(m, m), x) /\ Is(Sub(m, m), 0)
    BY <1>3, <2>1, <2>2
  <2>4. Is(0, 0)
    BY IsSelf, Bits01
  <2>5. Sub(m, m) = x /\ Sub(m, m) = 0
    BY <1>1, <2>3, <2>4, IsSame
  <2> QED BY <2>5
<1> QED BY <1>2, <1>3

\* A bit for each digit: whether the masked minor and the mask agree on it.
LEMMA RoundTestsDigits ==
    ASSUME EvaluatorInv, \A p \in Party : round[p] > MaskRound,
           NEW b \in Buckets, NEW g \in 1..4
    PROVE  \E z, m \in Fp :
              /\ z = m <=> ClearMinor(b, g) = 0
              /\ \A j \in 1..4 :
                    ClearBit(b, g, j) = IF Digit(z, j) = Digit(m, j) THEN 1 ELSE 0
<1>1. /\ MaskRound \in 1..Rounds /\ MaskRound = 3 /\ Dealing /\ "R" \in Party /\ "S" \in Party
      /\ g \in 1..GatesPerBucket /\ Digits = 4 /\ 1..Digits = 1..4
  BY RoundNames DEF EvaluatorInv, Forms, Party
<1>2. PICK x, k : x = Minor(wires["R"][b])[g] /\ k = MaskShare("R", GateOf(b, g))
  OBVIOUS
<1>3. PICK y, l : y = Minor(wires["S"][b])[g] /\ l = MaskShare("S", GateOf(b, g))
  OBVIOUS
<1>4. x \in Fp /\ y \in Fp /\ k \in Fp /\ l \in Fp
  <2>1. Known(wires["R"][b], 3) /\ Known(wires["S"][b], 3)
    BY <1>1, Shares
  <2> QED BY <1>1, <1>2, <1>3, <2>1, MinorTyped, MaskTyped
<1>5. Openings("R", MaskRound)[b][g] = Add(x, k) /\ Openings("S", MaskRound)[b][g] = Add(y, l)
  BY <1>1, <1>2, <1>3 DEF Openings
<1>6. PICK z : z = Add(Add(x, k), Add(y, l))
  OBVIOUS
<1>7. PICK m : m = Add(k, l)
  OBVIOUS
<1>8. /\ z \in Fp /\ m \in Fp /\ Add(x, k) \in Fp /\ Add(y, l) \in Fp
      /\ Add(Add(y, l), Add(x, k)) = z /\ z = Add(Add(x, y), m) /\ Add(x, y) \in Fp
  <2>1. Add(x, k) \in Fp /\ Add(y, l) \in Fp /\ Add(x, y) \in Fp /\ m \in Fp
    BY <1>4, <1>7, AddCorrect
  <2>2. z \in Fp
    BY <1>6, <2>1, AddCorrect
  <2>3. z = Add(Add(x, y), m)
    BY <1>4, <1>6, <1>7, Linear
  <2>4. Add(Add(y, l), Add(x, k)) = z
    BY <1>6, <2>1, AddBack
  <2> QED BY <2>1, <2>2, <2>3, <2>4
<1>9. z = m <=> ClearMinor(b, g) = 0
  BY <1>2, <1>3, <1>8, SumIsFirst DEF ClearMinor
<1>10. ASSUME NEW j \in 1..4
       PROVE  ClearBit(b, g, j) = IF Digit(z, j) = Digit(m, j) THEN 1 ELSE 0
  <2>1. PICK d : d = Digit(z, j)
    OBVIOUS
  <2>2. Peer("R") = "S" /\ Peer("S") = "R"
    BY PeerIs
  <2>3. Closings("R", MaskRound)[b][g][j] = LeafShare("R", GateOf(b, g), j, d)
    BY <1>1, <1>5, <1>6, <2>1, <2>2 DEF Closings
  <2>4. Closings("S", MaskRound)[b][g][j] = LeafShare("S", GateOf(b, g), j, d)
    BY <1>1, <1>5, <1>8, <2>1, <2>2 DEF Closings
  <2>5. /\ wires["R"][b][MaskRound] = Closings("R", MaskRound)[b]
        /\ wires["S"][b][MaskRound] = Closings("S", MaskRound)[b]
    BY <1>1, Shares
  <2>6. Add(LeafShare("R", GateOf(b, g), j, d), LeafShare("S", GateOf(b, g), j, d))
          = IF d = Digit(m, j) THEN 1 ELSE 0
    BY <1>1, <1>2, <1>3, <1>7, LeafOpens
  <2> QED BY <2>1, <2>3, <2>4, <2>5, <2>6 DEF ClearBit
<1> QED BY <1>8, <1>9, <1>10

LEMMA MulBits ==
    /\ Mul(0, 0) = 0 /\ Mul(0, 1) = 0 /\ Mul(1, 0) = 0 /\ Mul(1, 1) = 1
<1>1. \A b \in {0, 1}, a \in Fp : Mul(b, a) = b * a
  BY MulBit
<1>2. Mul(0, 0) = 0 * 0 /\ Mul(0, 1) = 0 * 1 /\ Mul(1, 0) = 1 * 0 /\ Mul(1, 1) = 1 * 1
  BY <1>1, Bits01
<1> QED BY <1>2

LEMMA Twice ==
    \A g \in 1..4 : /\ 2 * g - 1 \in 1..8 /\ 2 * g \in 1..8
                    /\ ((2 * g - 1) + 1) \div 2 = g /\ (2 * g + 1) \div 2 = g
                    /\ ((2 * g - 1) + 1) % 2 = 0 /\ (2 * g + 1) % 2 = 1
OBVIOUS

\* Rounds 3 to 5 are a zero test: 1 if the minor is 0, and 0 otherwise.
LEMMA RoundsTest ==
    ASSUME EvaluatorInv, \A p \in Party : round[p] > 5, NEW b \in Buckets, NEW g \in 1..4
    PROVE  Clear(b, 5, g) = IF ClearMinor(b, g) = 0 THEN 1 ELSE 0
<1>1. /\ \A p \in Party : round[p] > MaskRound /\ round[p] > 4 /\ round[p] > 5
      /\ 4 \in Multiplies /\ 5 \in Multiplies /\ Width[4] = 8 /\ Width[5] = 4 /\ MaskRound = 3
  <2>1. \A p \in Party : round[p] \in 1..9
    BY RoundNames DEF EvaluatorInv, Forms
  <2> QED BY <2>1, RoundNames, Widths
<1>2. PICK z, m \in Fp :
         /\ z = m <=> ClearMinor(b, g) = 0
         /\ \A j \in 1..4 : ClearBit(b, g, j) = IF Digit(z, j) = Digit(m, j) THEN 1 ELSE 0
  BY <1>1, RoundTestsDigits
<1>3. \A j \in 1..4 : ClearBit(b, g, j) \in {0, 1}
  BY <1>2
<1>4. ClearMinor(b, g) = 0 <=> \A j \in 1..4 : ClearBit(b, g, j) = 1
  <2>1. (\A j \in 1..4 : Digit(z, j) = Digit(m, j)) => z = m
    BY DigitsTell
  <2> QED BY <1>2, <2>1
<1>5. /\ Clear(b, 4, 2 * g - 1) = Mul(ClearBit(b, g, 1), ClearBit(b, g, 2))
      /\ Clear(b, 4, 2 * g) = Mul(ClearBit(b, g, 3), ClearBit(b, g, 4))
  <2>1. ASSUME NEW p
        PROVE  /\ Operands(wires[p][b], 4)[2 * g - 1]
                    = <<wires[p][b][3][g][1], wires[p][b][3][g][2]>>
               /\ Operands(wires[p][b], 4)[2 * g]
                    = <<wires[p][b][3][g][3], wires[p][b][3][g][4]>>
    <3>1. PICK w : w = wires[p][b]
      OBVIOUS
    <3>2. \A i \in 1..8 : Operands(w, 4)[i] =
             <<w[3][(i + 1) \div 2][2 * ((i + 1) % 2) + 1],
               w[3][(i + 1) \div 2][2 * ((i + 1) % 2) + 2]>>
      BY DEF Operands
    <3>3. /\ 2 * g - 1 \in 1..8 /\ 2 * g \in 1..8
          /\ ((2 * g - 1) + 1) \div 2 = g /\ (2 * g + 1) \div 2 = g
          /\ ((2 * g - 1) + 1) % 2 = 0 /\ (2 * g + 1) % 2 = 1
      BY Twice
    <3>4. Operands(w, 4)[2 * g - 1] = <<w[3][g][2 * 0 + 1], w[3][g][2 * 0 + 2]>>
      BY ONLY <3>2, <3>3
    <3>5. Operands(w, 4)[2 * g] = <<w[3][g][2 * 1 + 1], w[3][g][2 * 1 + 2]>>
      BY ONLY <3>2, <3>3
    <3> QED BY <3>1, <3>4, <3>5
  <2>2. 2 * g - 1 \in 1..Width[4] /\ 2 * g \in 1..Width[4]
    BY <1>1, Twice
  <2>3. /\ Clear(b, 4, 2 * g - 1) = Mul(Factor(b, 4, 2 * g - 1, 1), Factor(b, 4, 2 * g - 1, 2))
        /\ Clear(b, 4, 2 * g) = Mul(Factor(b, 4, 2 * g, 1), Factor(b, 4, 2 * g, 2))
    BY <1>1, <2>2, RoundMultiplies
  <2>4. /\ Factor(b, 4, 2 * g - 1, 1) = ClearBit(b, g, 1)
        /\ Factor(b, 4, 2 * g - 1, 2) = ClearBit(b, g, 2)
        /\ Factor(b, 4, 2 * g, 1) = ClearBit(b, g, 3)
        /\ Factor(b, 4, 2 * g, 2) = ClearBit(b, g, 4)
    <3>1. PICK n, l : n = 2 * g - 1 /\ l = 2 * g
      OBVIOUS
    <3>2. \A p : /\ Operands(wires[p][b], 4)[n][1] = wires[p][b][3][g][1]
                 /\ Operands(wires[p][b], 4)[n][2] = wires[p][b][3][g][2]
                 /\ Operands(wires[p][b], 4)[l][1] = wires[p][b][3][g][3]
                 /\ Operands(wires[p][b], 4)[l][2] = wires[p][b][3][g][4]
      <4>1. TAKE p
      <4>2. /\ Operands(wires[p][b], 4)[n] = <<wires[p][b][3][g][1], wires[p][b][3][g][2]>>
            /\ Operands(wires[p][b], 4)[l] = <<wires[p][b][3][g][3], wires[p][b][3][g][4]>>
        BY <2>1, <3>1
      <4> QED BY <4>2
    <3>3. /\ Factor(b, 4, n, 1) = ClearBit(b, g, 1) /\ Factor(b, 4, n, 2) = ClearBit(b, g, 2)
          /\ Factor(b, 4, l, 1) = ClearBit(b, g, 3) /\ Factor(b, 4, l, 2) = ClearBit(b, g, 4)
      BY <1>1, <3>2, Zenon DEF Factor, ClearBit
    <3> QED BY <3>1, <3>3
  <2> QED BY <2>3, <2>4
<1>6. Clear(b, 5, g) = Mul(Clear(b, 4, 2 * g - 1), Clear(b, 4, 2 * g))
  <2>1. ASSUME NEW p
        PROVE  Operands(wires[p][b], 5)[g] = <<wires[p][b][4][2 * g - 1], wires[p][b][4][2 * g]>>
    BY DEF Operands
  <2>2. Clear(b, 5, g) = Mul(Factor(b, 5, g, 1), Factor(b, 5, g, 2))
    BY <1>1, RoundMultiplies
  <2>3. /\ Factor(b, 5, g, 1) = Clear(b, 4, 2 * g - 1)
        /\ Factor(b, 5, g, 2) = Clear(b, 4, 2 * g)
    <3>1. PICK n, l : n = 2 * g - 1 /\ l = 2 * g
      OBVIOUS
    <3>2. \A p : /\ Operands(wires[p][b], 5)[g][1] = wires[p][b][4][n]
                 /\ Operands(wires[p][b], 5)[g][2] = wires[p][b][4][l]
      <4>1. TAKE p
      <4>2. Operands(wires[p][b], 5)[g] = <<wires[p][b][4][n], wires[p][b][4][l]>>
        BY <2>1, <3>1
      <4> QED BY <4>2
    <3>3. Factor(b, 5, g, 1) = Clear(b, 4, n) /\ Factor(b, 5, g, 2) = Clear(b, 4, l)
      BY <3>2, Zenon DEF Factor, Clear
    <3> QED BY <3>1, <3>3
  <2> QED BY <2>2, <2>3
<1>7. PICK h, i, j, k : /\ h = ClearBit(b, g, 1) /\ i = ClearBit(b, g, 2)
                        /\ j = ClearBit(b, g, 3) /\ k = ClearBit(b, g, 4)
  OBVIOUS
<1>8. h \in {0, 1} /\ i \in {0, 1} /\ j \in {0, 1} /\ k \in {0, 1}
  BY <1>3, <1>7
<1>9. ClearMinor(b, g) = 0 <=> h = 1 /\ i = 1 /\ j = 1 /\ k = 1
  <2>1. \A n \in 1..4 : n = 1 \/ n = 2 \/ n = 3 \/ n = 4
    OBVIOUS
  <2> QED BY <1>4, <1>7, <2>1
<1>10. Clear(b, 5, g) = Mul(Mul(h, i), Mul(j, k))
  BY <1>5, <1>6, <1>7
<1>11. Mul(h, i) = (IF h = 1 /\ i = 1 THEN 1 ELSE 0) /\ Mul(j, k) = (IF j = 1 /\ k = 1 THEN 1 ELSE 0)
  BY <1>8, MulBits
<1> QED BY <1>8, <1>9, <1>10, <1>11, MulBits

\* The shares of every product open to the product, and those of every zero test
\* to whether its minor is zero (beaver.cpp:8-50, ztest.cpp): RoundsOpen.
THEOREM RoundsOpenHolds == Spec => []RoundsOpen
<1>1. ASSUME EvaluatorInv PROVE RoundsOpen
  <2>1. ASSUME NEW b \in Buckets, NEW r \in (1..Rounds) \ {MaskRound}, Past(r),
               NEW i \in DOMAIN Operands(wires["R"][b], r)
        PROVE  Opened(Wire("R", b, r)[i], Wire("S", b, r)[i])
                 = Mul(Opened(Operands(wires["R"][b], r)[i][1], Operands(wires["S"][b], r)[i][1]),
                       Opened(Operands(wires["R"][b], r)[i][2], Operands(wires["S"][b], r)[i][2]))
    <3>1. r \in Multiplies /\ r \in 1..Rounds /\ \A p \in Party : round[p] > r
      BY <2>1 DEF Multiplies, Past
    <3>2. Known(wires["R"][b], r)
      BY <1>1, <3>1, Shares DEF Party
    <3>3. i \in 1..Width[r]
      BY <2>1, <3>1, <3>2, OperandsShape
    <3>4. Clear(b, r, i) = Mul(Factor(b, r, i, 1), Factor(b, r, i, 2))
      BY <1>1, <3>1, <3>3, RoundMultiplies
    <3> QED BY <3>4 DEF Clear, Factor, Opened, Wire
  <2>2. ASSUME NEW b \in Buckets, Past(5), NEW g \in 1..GatesPerBucket
        PROVE  Opened(Wire("R", b, 5)[g], Wire("S", b, 5)[g])
                 = IF Opened(Minor(wires["R"][b])[g], Minor(wires["S"][b])[g]) = 0
                   THEN 1 ELSE 0
    <3>1. g \in 1..4 /\ \A p \in Party : round[p] > 5
      BY <2>2, RoundNames DEF Past
    <3>2. Clear(b, 5, g) = IF ClearMinor(b, g) = 0 THEN 1 ELSE 0
      BY <1>1, <3>1, RoundsTest
    <3> QED BY <3>2 DEF Clear, ClearMinor, Opened, Wire
  <2> QED BY <2>1, <2>2 DEF RoundsOpen
<1> QED BY <1>1, EvaluatorInvariant, PTL

-------------------------------------------------------------------------------
(* What the shares of a result open to.                                      *)

\* The sum of two parties' shares.
Sum(x, y) == [i \in DOMAIN x |-> Add(x[i], y[i])]

\* What the rows of a bucket open to.
ClearSyndrome(b) == Sum(wires["R"][b][0], wires["S"][b][0])

LEMMA SyndromeShared ==
    ASSUME EvaluatorInv, NEW b \in Buckets, NEW p \in Party
    PROVE  wires[p][b][0] \in [1..7 -> Fp]
<1>1. round[p] \in 1..9 /\ Known(wires[p][b], round[p])
  BY RoundNames DEF EvaluatorInv, Forms, Wires, Knows
<1> QED BY <1>1, RoundNames, ValuesKnown

\* Round 1 multiplies the entries of the syndrome.
LEMMA LayerOneOpens ==
    ASSUME EvaluatorInv, Past(1), NEW b \in Buckets, NEW i \in 1..20
    PROVE  /\ ClearSyndrome(b) \in [1..7 -> Fp]
           /\ Clear(b, 1, i) = Mul(ClearSyndrome(b)[Xi[i] + 1], ClearSyndrome(b)[Yi[i] + 1])
<1>1. wires["R"][b][0] \in [1..7 -> Fp] /\ wires["S"][b][0] \in [1..7 -> Fp]
  BY SyndromeShared DEF Party
<1>2. ClearSyndrome(b) \in [1..7 -> Fp]
  BY <1>1, AddCorrect DEF ClearSyndrome, Sum
<1>3. \A p : /\ Operands(wires[p][b], 1)[i][1] = wires[p][b][0][Xi[i] + 1]
             /\ Operands(wires[p][b], 1)[i][2] = wires[p][b][0][Yi[i] + 1]
  <2>1. TAKE p
  <2>2. Operands(wires[p][b], 1) = LayerOne(wires[p][b][0])
    BY DEF Operands
  <2>3. Operands(wires[p][b], 1)[i] = <<wires[p][b][0][Xi[i] + 1], wires[p][b][0][Yi[i] + 1]>>
    BY <2>2 DEF LayerOne
  <2> QED BY <2>3
<1>4. Xi[i] + 1 \in 1..7 /\ Yi[i] + 1 \in 1..7
  BY LayerOnePlaces
<1>5. /\ Factor(b, 1, i, 1) = ClearSyndrome(b)[Xi[i] + 1]
      /\ Factor(b, 1, i, 2) = ClearSyndrome(b)[Yi[i] + 1]
  BY <1>1, <1>3, <1>4 DEF Factor, ClearSyndrome, Sum
<1>6. 1 \in Multiplies /\ i \in 1..Width[1] /\ \A p \in Party : round[p] > 1
  BY RoundNames, Widths DEF Past
<1> QED BY <1>2, <1>5, <1>6, RoundMultiplies

\* c is shared as a and b.
SharedAs(c, a, b) == a \in Fp /\ b \in Fp /\ c = Add(a, b)

LEMMA StepAdds ==
    ASSUME NEW a, NEW b, NEW c, SharedAs(c, a, b), NEW x, NEW y, NEW z, SharedAs(z, x, y)
    PROVE  SharedAs(Add(c, z), Add(a, x), Add(b, y)) /\ SharedAs(Sub(c, z), Sub(a, x), Sub(b, y))
<1>1. a \in Fp /\ b \in Fp /\ x \in Fp /\ y \in Fp /\ c = Add(a, b) /\ z = Add(x, y)
  BY DEF SharedAs
<1>2. /\ Add(a, x) \in Fp /\ Add(b, y) \in Fp /\ Sub(a, x) \in Fp /\ Sub(b, y) \in Fp
  BY <1>1, AddCorrect, SubCorrect
<1>3. /\ Add(Add(a, x), Add(b, y)) = Add(Add(a, b), Add(x, y))
      /\ Add(Sub(a, x), Sub(b, y)) = Sub(Add(a, b), Add(x, y))
  BY ONLY <1>1, Linear
<1> QED BY <1>1, <1>2, <1>3 DEF SharedAs

LEMMA DifferencesAdd ==
    ASSUME NEW x \in [1..20 -> Fp], NEW y \in [1..20 -> Fp], NEW i \in 1..20, NEW j \in 1..20
    PROVE  Sub(Sum(x, y)[i], Sum(x, y)[j]) = Add(Sub(x[i], x[j]), Sub(y[i], y[j]))
<1>1. SharedAs(Sum(x, y)[i], x[i], y[i]) /\ SharedAs(Sum(x, y)[j], x[j], y[j])
  BY DEF Sum, SharedAs
<1>2. SharedAs(Sub(Sum(x, y)[i], Sum(x, y)[j]), Sub(x[i], x[j]), Sub(y[i], y[j]))
  BY ONLY <1>1, StepAdds
<1> QED BY <1>2 DEF SharedAs

\* What is combined of the shares adds up to what is combined of the sums.
LEMMA TopsAdd ==
    ASSUME NEW x \in [1..20 -> Fp], NEW y \in [1..20 -> Fp]
    PROVE  LET t == Top(x)  u == Top(y)  v == Top(Sum(x, y)) IN
           /\ v.T12 = Add(t.T12, u.T12) /\ v.T13 = Add(t.T13, u.T13)
           /\ v.T14 = Add(t.T14, u.T14) /\ v.T23 = Add(t.T23, u.T23)
           /\ v.T24 = Add(t.T24, u.T24) /\ v.T34 = Add(t.T34, u.T34)
<1>1. \A i, j \in 1..20 : Sub(Sum(x, y)[i], Sum(x, y)[j]) = Add(Sub(x[i], x[j]), Sub(y[i], y[j]))
  BY DifferencesAdd
<1>2. PICK z : z = Sum(x, y)
  OBVIOUS
<1>3. \A i, j \in 1..20 : Sub(z[i], z[j]) = Add(Sub(x[i], x[j]), Sub(y[i], y[j]))
  BY ONLY <1>1, <1>2
<1>4. \A m : /\ Top(m).T12 = Sub(m[1], m[2])
             /\ Top(m).T13 = Sub(m[3], m[4])
             /\ Top(m).T14 = Sub(m[5], m[6])
             /\ Top(m).T23 = Sub(m[6], m[7])
             /\ Top(m).T24 = Sub(m[8], m[9])
             /\ Top(m).T34 = Sub(m[10], m[11])
  BY DEF Top
<1>5. /\ Sub(z[1], z[2]) = Add(Sub(x[1], x[2]), Sub(y[1], y[2]))
      /\ Sub(z[3], z[4]) = Add(Sub(x[3], x[4]), Sub(y[3], y[4]))
      /\ Sub(z[5], z[6]) = Add(Sub(x[5], x[6]), Sub(y[5], y[6]))
      /\ Sub(z[6], z[7]) = Add(Sub(x[6], x[7]), Sub(y[6], y[7]))
      /\ Sub(z[8], z[9]) = Add(Sub(x[8], x[9]), Sub(y[8], y[9]))
      /\ Sub(z[10], z[11]) = Add(Sub(x[10], x[11]), Sub(y[10], y[11]))
  BY ONLY <1>3
<1> QED BY ONLY <1>2, <1>4, <1>5

LEMMA BottomsAdd ==
    ASSUME NEW x \in [1..20 -> Fp], NEW y \in [1..20 -> Fp]
    PROVE  LET t == Bottom(x)  u == Bottom(y)  v == Bottom(Sum(x, y)) IN
           /\ v.B12 = Add(t.B12, u.B12) /\ v.B13 = Add(t.B13, u.B13)
           /\ v.B14 = Add(t.B14, u.B14) /\ v.B23 = Add(t.B23, u.B23)
           /\ v.B24 = Add(t.B24, u.B24) /\ v.B34 = Add(t.B34, u.B34)
<1>1. \A i, j \in 1..20 : Sub(Sum(x, y)[i], Sum(x, y)[j]) = Add(Sub(x[i], x[j]), Sub(y[i], y[j]))
  BY DifferencesAdd
<1>2. PICK z : z = Sum(x, y)
  OBVIOUS
<1>3. \A i, j \in 1..20 : Sub(z[i], z[j]) = Add(Sub(x[i], x[j]), Sub(y[i], y[j]))
  BY ONLY <1>1, <1>2
<1>4. \A m : /\ Bottom(m).B12 = Sub(m[10], m[11])
             /\ Bottom(m).B13 = Sub(m[12], m[13])
             /\ Bottom(m).B14 = Sub(m[14], m[15])
             /\ Bottom(m).B23 = Sub(m[15], m[16])
             /\ Bottom(m).B24 = Sub(m[17], m[18])
             /\ Bottom(m).B34 = Sub(m[19], m[20])
  BY DEF Bottom
<1>5. /\ Sub(z[10], z[11]) = Add(Sub(x[10], x[11]), Sub(y[10], y[11]))
      /\ Sub(z[12], z[13]) = Add(Sub(x[12], x[13]), Sub(y[12], y[13]))
      /\ Sub(z[14], z[15]) = Add(Sub(x[14], x[15]), Sub(y[14], y[15]))
      /\ Sub(z[15], z[16]) = Add(Sub(x[15], x[16]), Sub(y[15], y[16]))
      /\ Sub(z[17], z[18]) = Add(Sub(x[17], x[18]), Sub(y[17], y[18]))
      /\ Sub(z[19], z[20]) = Add(Sub(x[19], x[20]), Sub(y[19], y[20]))
  BY ONLY <1>3
<1> QED BY ONLY <1>2, <1>4, <1>5

LEMMA LayerTwosAdd ==
    ASSUME NEW d \in [1..7 -> Fp], NEW e \in [1..7 -> Fp],
           NEW x \in [1..20 -> Fp], NEW y \in [1..20 -> Fp],
           NEW i \in 1..9, NEW k \in 1..2
    PROVE  LayerTwo(Sum(d, e), Sum(x, y))[i][k] = Add(LayerTwo(d, x)[i][k], LayerTwo(e, y)[i][k])
<1> DEFINE t == Top(x)
           u == Top(y)
           v == Top(Sum(x, y))
           p == Bottom(x)
           q == Bottom(y)
           r == Bottom(Sum(x, y))
<1>1. /\ v.T12 = Add(t.T12, u.T12) /\ v.T13 = Add(t.T13, u.T13)
      /\ v.T14 = Add(t.T14, u.T14) /\ v.T23 = Add(t.T23, u.T23)
      /\ v.T24 = Add(t.T24, u.T24) /\ v.T34 = Add(t.T34, u.T34)
      /\ r.B12 = Add(p.B12, q.B12) /\ r.B13 = Add(p.B13, q.B13)
      /\ r.B14 = Add(p.B14, q.B14) /\ r.B23 = Add(p.B23, q.B23)
      /\ r.B24 = Add(p.B24, q.B24) /\ r.B34 = Add(p.B34, q.B34)
  BY TopsAdd, BottomsAdd
<1>2. \A j \in 1..7 : Sum(d, e)[j] = Add(d[j], e[j])
  BY DEF Sum
<1>3. \A c, m, a, b : LayerTwo(c, m)[i] =
         << <<c[1], Top(m).T34>>, <<c[2], Top(m).T24>>, <<c[3], Top(m).T23>>,
            <<Top(m).T12, Bottom(m).B34>>, <<Top(m).T13, Bottom(m).B24>>,
            <<Top(m).T14, Bottom(m).B23>>, <<Top(m).T23, Bottom(m).B14>>,
            <<Top(m).T24, Bottom(m).B13>>, <<Top(m).T34, Bottom(m).B12>> >>[i]
  BY DEF LayerTwo
<1>4. /\ LayerTwo(d, x)[i] =
         << <<d[1], t.T34>>, <<d[2], t.T24>>, <<d[3], t.T23>>, <<t.T12, p.B34>>, <<t.T13, p.B24>>,
            <<t.T14, p.B23>>, <<t.T23, p.B14>>, <<t.T24, p.B13>>, <<t.T34, p.B12>> >>[i]
      /\ LayerTwo(e, y)[i] =
         << <<e[1], u.T34>>, <<e[2], u.T24>>, <<e[3], u.T23>>, <<u.T12, q.B34>>, <<u.T13, q.B24>>,
            <<u.T14, q.B23>>, <<u.T23, q.B14>>, <<u.T24, q.B13>>, <<u.T34, q.B12>> >>[i]
  BY <1>3
<1>5. PICK s : s = Sum(d, e)
  OBVIOUS
<1>6. LayerTwo(s, Sum(x, y))[i] =
         << <<s[1], v.T34>>, <<s[2], v.T24>>, <<s[3], v.T23>>, <<v.T12, r.B34>>, <<v.T13, r.B24>>,
            <<v.T14, r.B23>>, <<v.T23, r.B14>>, <<v.T24, r.B13>>, <<v.T34, r.B12>> >>[i]
  BY <1>3
<1>7. s[1] = Add(d[1], e[1]) /\ s[2] = Add(d[2], e[2]) /\ s[3] = Add(d[3], e[3])
  BY <1>2, <1>5
<1> HIDE DEF t, u, v, p, q, r
<1>8. k = 1 \/ k = 2
  OBVIOUS
<1>9. i \in {1, 2, 3, 4, 5, 6, 7, 8, 9}
  OBVIOUS
<1>10. LayerTwo(s, Sum(x, y))[i][k] = Add(LayerTwo(d, x)[i][k], LayerTwo(e, y)[i][k])
  <2>1. CASE i \in {1, 2, 3}
    BY <2>1, <1>1, <1>4, <1>6, <1>7, <1>8
  <2>2. CASE i \in {4, 5, 6}
    BY <2>2, <1>1, <1>4, <1>6, <1>8
  <2>3. CASE i \in {7, 8, 9}
    BY <2>3, <1>1, <1>4, <1>6, <1>8
  <2> QED BY <1>9, <2>1, <2>2, <2>3
<1> QED BY <1>5, <1>10

LEMMA MinorsAdd ==
    ASSUME NEW d \in [1..7 -> Fp], NEW e \in [1..7 -> Fp],
           NEW x \in [1..20 -> Fp], NEW y \in [1..20 -> Fp],
           NEW m \in [1..9 -> Fp], NEW n \in [1..9 -> Fp], NEW g \in 1..4
    PROVE  MinorsOf(Sum(d, e), Sum(x, y), Sum(m, n))[g]
             = Add(MinorsOf(d, x, m)[g], MinorsOf(e, y, n)[g])
<1>1. PICK s : s = Sum(m, n)
  OBVIOUS
<1>2. \A j \in 1..9 : SharedAs(s[j], m[j], n[j])
  BY <1>1 DEF Sum, SharedAs
<1>3. /\ SharedAs(s[1], m[1], n[1]) /\ SharedAs(s[2], m[2], n[2]) /\ SharedAs(s[3], m[3], n[3])
      /\ SharedAs(s[4], m[4], n[4]) /\ SharedAs(s[5], m[5], n[5]) /\ SharedAs(s[6], m[6], n[6])
      /\ SharedAs(s[7], m[7], n[7]) /\ SharedAs(s[8], m[8], n[8]) /\ SharedAs(s[9], m[9], n[9])
  BY ONLY <1>2
<1>4. Sum(d, e)[1] = Add(d[1], e[1])
  BY DEF Sum
<1>5. Top(Sum(x, y)).T12 = Add(Top(x).T12, Top(y).T12)
  BY TopsAdd
<1>6. SharedAs(Add(Sub(s[1], s[2]), s[3]), Add(Sub(m[1], m[2]), m[3]), Add(Sub(n[1], n[2]), n[3]))
  <2>1. SharedAs(Sub(s[1], s[2]), Sub(m[1], m[2]), Sub(n[1], n[2]))
    BY ONLY <1>3, StepAdds
  <2> QED BY ONLY <1>3, <2>1, StepAdds
<1>7. SharedAs(Add(Sub(Add(Add(Sub(s[4], s[5]), s[6]), s[7]), s[8]), s[9]),
               Add(Sub(Add(Add(Sub(m[4], m[5]), m[6]), m[7]), m[8]), m[9]),
               Add(Sub(Add(Add(Sub(n[4], n[5]), n[6]), n[7]), n[8]), n[9]))
  <2>1. SharedAs(Sub(s[4], s[5]), Sub(m[4], m[5]), Sub(n[4], n[5]))
    BY ONLY <1>3, StepAdds
  <2>2. SharedAs(Add(Sub(s[4], s[5]), s[6]), Add(Sub(m[4], m[5]), m[6]), Add(Sub(n[4], n[5]), n[6]))
    BY ONLY <1>3, <2>1, StepAdds
  <2>3. SharedAs(Add(Add(Sub(s[4], s[5]), s[6]), s[7]), Add(Add(Sub(m[4], m[5]), m[6]), m[7]),
                 Add(Add(Sub(n[4], n[5]), n[6]), n[7]))
    BY ONLY <1>3, <2>2, StepAdds
  <2>4. SharedAs(Sub(Add(Add(Sub(s[4], s[5]), s[6]), s[7]), s[8]),
                 Sub(Add(Add(Sub(m[4], m[5]), m[6]), m[7]), m[8]),
                 Sub(Add(Add(Sub(n[4], n[5]), n[6]), n[7]), n[8]))
    BY ONLY <1>3, <2>3, StepAdds
  <2> QED BY ONLY <1>3, <2>4, StepAdds
<1>8. /\ Add(Sub(s[1], s[2]), s[3]) = Add(Add(Sub(m[1], m[2]), m[3]), Add(Sub(n[1], n[2]), n[3]))
      /\ Add(Sub(Add(Add(Sub(s[4], s[5]), s[6]), s[7]), s[8]), s[9])
           = Add(Add(Sub(Add(Add(Sub(m[4], m[5]), m[6]), m[7]), m[8]), m[9]),
                 Add(Sub(Add(Add(Sub(n[4], n[5]), n[6]), n[7]), n[8]), n[9]))
  BY <1>6, <1>7 DEF SharedAs
<1>9. g = 1 \/ g = 2 \/ g = 3 \/ g = 4
  OBVIOUS
<1> QED BY <1>1, <1>4, <1>5, <1>8, <1>9 DEF MinorsOf

\* Rounds 1 and 2 are the circuit.
LEMMA MinorsOpen ==
    ASSUME EvaluatorInv, Past(2), NEW b \in Buckets, NEW g \in 1..4
    PROVE  ClearMinor(b, g) = MinorsInClear(ClearSyndrome(b))[g]
<1>1. PICK d, x, m : d = wires["R"][b][0] /\ x = wires["R"][b][1] /\ m = wires["R"][b][2]
  OBVIOUS
<1>2. PICK e, y, n : e = wires["S"][b][0] /\ y = wires["S"][b][1] /\ n = wires["S"][b][2]
  OBVIOUS
<1>3. /\ \A p \in Party : round[p] > 2 /\ round[p] > 1
      /\ 1 \in Multiplies /\ 2 \in Multiplies /\ 2 \in 1..Rounds /\ 3 \in 1..(Rounds + 1)
      /\ Width[1] = 20 /\ Width[2] = 9
  <2>1. \A p \in Party : round[p] \in 1..9 /\ round[p] > 2
    BY RoundNames DEF EvaluatorInv, Forms, Past
  <2> QED BY <2>1, RoundNames, Widths
<1>4. /\ d \in [1..7 -> Fp] /\ x \in [1..20 -> Fp] /\ m \in [1..9 -> Fp]
      /\ e \in [1..7 -> Fp] /\ y \in [1..20 -> Fp] /\ n \in [1..9 -> Fp]
  <2>1. Known(wires["R"][b], 3) /\ Known(wires["S"][b], 3)
    <3>1. 2 + 1 = 3
      OBVIOUS
    <3> QED BY <1>3, <3>1, Shares DEF Party
  <2> QED BY <1>1, <1>2, <1>3, <2>1, ValuesKnown
<1>5. PICK D, M, N : D = Sum(d, e) /\ M = Sum(x, y) /\ N = Sum(m, n)
  OBVIOUS
<1>6. D = ClearSyndrome(b)
  BY <1>1, <1>2, <1>5 DEF ClearSyndrome
<1>7. M = [i \in DOMAIN LayerOne(D) |-> Mul(LayerOne(D)[i][1], LayerOne(D)[i][2])]
  <2>1. \A i \in 1..20 : M[i] = Clear(b, 1, i)
    BY <1>1, <1>2, <1>4, <1>5 DEF Sum, Clear
  <2>2. \A i \in 1..20 : M[i] = Mul(D[Xi[i] + 1], D[Yi[i] + 1])
    BY <1>3, <1>6, <2>1, LayerOneOpens DEF Past
  <2>3. M = [i \in 1..20 |-> M[i]]
    BY <1>4, <1>5 DEF Sum
  <2>4. LayerOne(D) = [i \in 1..20 |-> <<D[Xi[i] + 1], D[Yi[i] + 1]>>]
    BY DEF LayerOne
  <2>5. /\ DOMAIN LayerOne(D) = 1..20
        /\ \A i \in 1..20 : /\ LayerOne(D)[i][1] = D[Xi[i] + 1]
                            /\ LayerOne(D)[i][2] = D[Yi[i] + 1]
    BY <2>4
  <2>6. \A i \in 1..20 : M[i] = Mul(LayerOne(D)[i][1], LayerOne(D)[i][2])
    BY <2>2, <2>5
  <2> QED BY ONLY <2>3, <2>5, <2>6
<1>8. N = [i \in DOMAIN LayerTwo(D, M) |-> Mul(LayerTwo(D, M)[i][1], LayerTwo(D, M)[i][2])]
  <2>1. \A i \in 1..9 : N[i] = Clear(b, 2, i)
    BY <1>1, <1>2, <1>4, <1>5 DEF Sum, Clear
  <2>2. ASSUME NEW i \in 1..9, NEW k \in 1..2
        PROVE  Factor(b, 2, i, k) = LayerTwo(D, M)[i][k]
    <3>1. /\ Operands(wires["R"][b], 2) = LayerTwo(d, x)
          /\ Operands(wires["S"][b], 2) = LayerTwo(e, y)
      BY <1>1, <1>2 DEF Operands
    <3>2. LayerTwo(D, M)[i][k] = Add(LayerTwo(d, x)[i][k], LayerTwo(e, y)[i][k])
      <4>1. LayerTwo(Sum(d, e), Sum(x, y))[i][k] = Add(LayerTwo(d, x)[i][k], LayerTwo(e, y)[i][k])
        BY ONLY <1>4, i \in 1..9, k \in 1..2, LayerTwosAdd
      <4> QED BY ONLY <1>5, <4>1
    <3> QED BY <3>1, <3>2 DEF Factor
  <2>3. \A i \in 1..9 : Clear(b, 2, i) = Mul(Factor(b, 2, i, 1), Factor(b, 2, i, 2))
    BY <1>3, RoundMultiplies
  <2>4. 1 \in 1..2 /\ 2 \in 1..2
    OBVIOUS
  <2>5. \A i \in 1..9 : N[i] = Mul(LayerTwo(D, M)[i][1], LayerTwo(D, M)[i][2])
    BY <2>1, <2>2, <2>3, <2>4
  <2>6. N = [i \in 1..9 |-> N[i]]
    BY <1>4, <1>5 DEF Sum
  <2>7. DOMAIN LayerTwo(D, M) = 1..9
    BY DEF LayerTwo
  <2> QED BY ONLY <2>5, <2>6, <2>7
<1>9. MinorsInClear(D) = MinorsOf(D, M, N)
  BY <1>7, <1>8 DEF MinorsInClear
<1>10. MinorsOf(D, M, N)[g] = Add(MinorsOf(d, x, m)[g], MinorsOf(e, y, n)[g])
  BY <1>4, <1>5, MinorsAdd
<1>11. ClearMinor(b, g) = Add(MinorsOf(d, x, m)[g], MinorsOf(e, y, n)[g])
  BY <1>1, <1>2 DEF ClearMinor, Minor
<1> QED BY <1>6, <1>9, <1>10, <1>11

LEMMA UpToT == \A n \in 0..T : n \in Fp
<1>1. PICK n \in Nat : n = MaskBits - 1
  BY DigitPlaces
<1>2. n >= 3 /\ n + 1 = MaskBits
  BY <1>1, DigitPlaces
<1>3. Base = 2 * 2 ^ n /\ n < 2 ^ n /\ 2 ^ n \in Nat
  BY <1>2, DigitPlaces, Doubles, PowAbove, PowNat
<1>4. P > 4
  BY <1>2, <1>3, Sizes
<1> QED BY <1>4, Sizes DEF Fp, T

\* Rounds 6 to 8 multiply up the zero tests of the minors from the last one on.
LEMMA SuffixesOpen ==
    ASSUME EvaluatorInv, Past(8), NEW b \in Buckets
    PROVE  /\ Clear(b, 6, 1) = Mul(Clear(b, 5, 3), Clear(b, 5, 4))
           /\ Clear(b, 7, 1) = Mul(Clear(b, 5, 2), Clear(b, 6, 1))
           /\ Clear(b, 8, 1) = Mul(Clear(b, 5, 1), Clear(b, 7, 1))
<1>1. /\ \A p \in Party : round[p] > 6 /\ round[p] > 7 /\ round[p] > 8
      /\ 6 \in Multiplies /\ 7 \in Multiplies /\ 8 \in Multiplies
      /\ 1 \in 1..Width[6] /\ 1 \in 1..Width[7] /\ 1 \in 1..Width[8]
  <2>1. \A p \in Party : round[p] \in 1..9 /\ round[p] > 8
    BY RoundNames DEF EvaluatorInv, Forms, Past
  <2> QED BY <2>1, RoundNames, Widths
<1>2. \A p : /\ Operands(wires[p][b], 6)[1][1] = wires[p][b][5][3]
             /\ Operands(wires[p][b], 6)[1][2] = wires[p][b][5][4]
             /\ Operands(wires[p][b], 7)[1][1] = wires[p][b][5][2]
             /\ Operands(wires[p][b], 7)[1][2] = wires[p][b][6][1]
             /\ Operands(wires[p][b], 8)[1][1] = wires[p][b][5][1]
             /\ Operands(wires[p][b], 8)[1][2] = wires[p][b][7][1]
  <2>1. TAKE p
  <2>2. /\ Operands(wires[p][b], 6)[1] = <<wires[p][b][5][3], wires[p][b][5][4]>>
        /\ Operands(wires[p][b], 7)[1] = <<wires[p][b][5][2], wires[p][b][6][1]>>
        /\ Operands(wires[p][b], 8)[1] = <<wires[p][b][5][1], wires[p][b][7][1]>>
    BY DEF Operands
  <2> QED BY <2>2
<1>3. /\ Factor(b, 6, 1, 1) = Clear(b, 5, 3) /\ Factor(b, 6, 1, 2) = Clear(b, 5, 4)
      /\ Factor(b, 7, 1, 1) = Clear(b, 5, 2) /\ Factor(b, 7, 1, 2) = Clear(b, 6, 1)
      /\ Factor(b, 8, 1, 1) = Clear(b, 5, 1) /\ Factor(b, 8, 1, 2) = Clear(b, 7, 1)
  BY <1>2, Zenon DEF Factor, Clear
<1>4. /\ Clear(b, 6, 1) = Mul(Factor(b, 6, 1, 1), Factor(b, 6, 1, 2))
      /\ Clear(b, 7, 1) = Mul(Factor(b, 7, 1, 1), Factor(b, 7, 1, 2))
      /\ Clear(b, 8, 1) = Mul(Factor(b, 8, 1, 1), Factor(b, 8, 1, 2))
  BY <1>1, RoundMultiplies
<1> QED BY <1>3, <1>4

\* How many of the minors after the last nonzero one are zero.
LEMMA CountsDown ==
    ASSUME NEW D, NEW c \in [1..4 -> {0, 1}], \A g \in 1..4 : D[g] = 0 <=> c[g] = 1,
           NEW c6, c6 = Mul(c[3], c[4]), NEW c7, c7 = Mul(c[2], c6), NEW c8, c8 = Mul(c[1], c7)
    PROVE  Sub(4, Add(Add(Add(c8, c7), c6), c[4])) = TOf(D)
<1>1. c[1] \in {0, 1} /\ c[2] \in {0, 1} /\ c[3] \in {0, 1} /\ c[4] \in {0, 1}
  OBVIOUS
<1>2. /\ c6 = IF c[3] = 1 /\ c[4] = 1 THEN 1 ELSE 0
      /\ c7 = IF c[2] = 1 /\ c[3] = 1 /\ c[4] = 1 THEN 1 ELSE 0
      /\ c8 = IF c[1] = 1 /\ c[2] = 1 /\ c[3] = 1 /\ c[4] = 1 THEN 1 ELSE 0
  <2>1. c6 = IF c[3] = 1 /\ c[4] = 1 THEN 1 ELSE 0
    BY <1>1, MulBits
  <2>2. c7 = IF c[2] = 1 /\ c[3] = 1 /\ c[4] = 1 THEN 1 ELSE 0
    BY <1>1, <2>1, MulBits
  <2> QED BY <1>1, <2>1, <2>2, MulBits
<1>3. PICK k \in Int : k = 4 - (((c8 + c7) + c6) + c[4])
  BY <1>1, <1>2
<1>4. k \in 0..T /\ (k = 0 \/ D[k] # 0) /\ \A u \in (k + 1)..T : D[u] = 0
  <2>1. T = 4
    BY DEF T
  <2>2. \A u \in 1..4 : u = 1 \/ u = 2 \/ u = 3 \/ u = 4
    OBVIOUS
  <2>3. /\ D[1] = 0 <=> c[1] = 1
        /\ D[2] = 0 <=> c[2] = 1
        /\ D[3] = 0 <=> c[3] = 1
        /\ D[4] = 0 <=> c[4] = 1
    OBVIOUS
  <2>4. CASE c[4] = 0
    <3>1. k = 4 /\ (k + 1)..T = {}
      BY <1>1, <1>2, <1>3, <2>1, <2>4
    <3> QED BY <2>1, <2>3, <2>4, <3>1
  <2>5. CASE c[4] = 1 /\ c[3] = 0
    <3>1. k = 3 /\ (k + 1)..T = {4}
      BY <1>1, <1>2, <1>3, <2>1, <2>5
    <3> QED BY <2>1, <2>3, <2>5, <3>1
  <2>6. CASE c[4] = 1 /\ c[3] = 1 /\ c[2] = 0
    <3>1. k = 2 /\ (k + 1)..T = {3, 4}
      BY <1>1, <1>2, <1>3, <2>1, <2>6
    <3> QED BY <2>1, <2>3, <2>6, <3>1
  <2>7. CASE c[4] = 1 /\ c[3] = 1 /\ c[2] = 1 /\ c[1] = 0
    <3>1. k = 1 /\ (k + 1)..T = {2, 3, 4}
      BY <1>1, <1>2, <1>3, <2>1, <2>7
    <3> QED BY <2>1, <2>3, <2>7, <3>1
  <2>8. CASE c[4] = 1 /\ c[3] = 1 /\ c[2] = 1 /\ c[1] = 1
    <3>1. k = 0 /\ (k + 1)..T = {1, 2, 3, 4}
      BY <1>1, <1>2, <1>3, <2>1, <2>8
    <3> QED BY <2>1, <2>3, <2>8, <3>1
  <2> QED BY <1>1, <2>4, <2>5, <2>6, <2>7, <2>8
<1>5. TOf(D) = k
  <2>1. ASSUME NEW t \in 0..T, t = 0 \/ D[t] # 0, \A u \in (t + 1)..T : D[u] = 0
        PROVE  t = k
    <3>1. ~ (t < k)
      <4>1. SUFFICES ASSUME t < k PROVE FALSE
        OBVIOUS
      <4>2. k \in (t + 1)..T /\ k # 0
        BY <1>4, <4>1 DEF T
      <4> QED BY <1>4, <2>1, <4>2
    <3>2. ~ (k < t)
      <4>1. SUFFICES ASSUME k < t PROVE FALSE
        OBVIOUS
      <4>2. t \in (k + 1)..T /\ t # 0
        BY <1>4, <4>1 DEF T
      <4> QED BY <1>4, <2>1, <4>2
    <3> QED BY <1>4, <3>1, <3>2 DEF T
  <2> QED BY <1>4, <2>1 DEF TOf
<1>6. Sub(4, Add(Add(Add(c8, c7), c6), c[4])) = k
  <2>1. Is(c8, c8) /\ Is(c7, c7) /\ Is(c6, c6) /\ Is(c[4], c[4]) /\ Is(4, 4) /\ Is(k, k)
    BY <1>1, <1>2, <1>4, UpToT, IsSelf, Bits01 DEF T
  <2>2. Is(Add(c8, c7), c8 + c7)
    BY <2>1, IsSum
  <2>3. Is(Add(Add(c8, c7), c6), (c8 + c7) + c6)
    BY <2>1, <2>2, IsSum
  <2>4. Is(Add(Add(Add(c8, c7), c6), c[4]), ((c8 + c7) + c6) + c[4])
    BY <2>1, <2>3, IsSum
  <2>5. Is(Sub(4, Add(Add(Add(c8, c7), c6), c[4])), k)
    BY <1>3, <2>1, <2>4, IsSum
  <2> QED BY <2>1, <2>5, IsSame
<1> QED BY <1>5, <1>6

\* The shares of a bucket's result open to the t of its syndrome.
LEMMA ResultOpens ==
    ASSUME EvaluatorInv, Past(8), NEW b \in Buckets
    PROVE  Add(Result("R", wires["R"][b]), Result("S", wires["S"][b]))
             = TOf(MinorsInClear(ClearSyndrome(b)))
<1>1. \A p \in Party : round[p] = 9 /\ round[p] > 5 /\ round[p] > 2
  <2>1. \A p \in Party : round[p] \in 1..9 /\ round[p] > 8
    BY RoundNames DEF EvaluatorInv, Forms, Past
  <2> QED BY <2>1
<1>2. PICK D : D = MinorsInClear(ClearSyndrome(b))
  OBVIOUS
<1>3. PICK c : c = [g \in 1..4 |-> Clear(b, 5, g)]
  OBVIOUS
<1>4. \A g \in 1..4 : c[g] = IF D[g] = 0 THEN 1 ELSE 0
  <2>1. TAKE g \in 1..4
  <2>2. Clear(b, 5, g) = IF ClearMinor(b, g) = 0 THEN 1 ELSE 0
    BY <1>1, RoundsTest
  <2>3. ClearMinor(b, g) = D[g]
    BY <1>1, <1>2, MinorsOpen DEF Past
  <2> QED BY <1>3, <2>2, <2>3
<1>5. c \in [1..4 -> {0, 1}] /\ \A g \in 1..4 : D[g] = 0 <=> c[g] = 1
  BY <1>3, <1>4
<1>6. PICK c6, c7, c8 : c6 = Clear(b, 6, 1) /\ c7 = Clear(b, 7, 1) /\ c8 = Clear(b, 8, 1)
  OBVIOUS
<1>7. c6 = Mul(c[3], c[4]) /\ c7 = Mul(c[2], c6) /\ c8 = Mul(c[1], c7)
  BY <1>3, <1>6, SuffixesOpen
<1>8. Sub(4, Add(Add(Add(c8, c7), c6), c[4])) = TOf(D)
  BY <1>5, <1>7, CountsDown
<1>9. PICK x5, x6, x7, x8 : /\ x5 = wires["R"][b][5][4] /\ x6 = wires["R"][b][6][1]
                            /\ x7 = wires["R"][b][7][1] /\ x8 = wires["R"][b][8][1]
  OBVIOUS
<1>10. PICK y5, y6, y7, y8 : /\ y5 = wires["S"][b][5][4] /\ y6 = wires["S"][b][6][1]
                             /\ y7 = wires["S"][b][7][1] /\ y8 = wires["S"][b][8][1]
  OBVIOUS
<1>11. ASSUME NEW p \in Party
       PROVE  /\ wires[p][b][5][4] \in Fp /\ wires[p][b][6][1] \in Fp
              /\ wires[p][b][7][1] \in Fp /\ wires[p][b][8][1] \in Fp
  <2>1. Known(wires[p][b], 9) /\ 9 \in 1..(Rounds + 1)
    BY <1>1, RoundNames DEF EvaluatorInv, Wires, Knows
  <2>2. /\ wires[p][b][5] \in [1..4 -> Fp] /\ wires[p][b][6] \in [1..1 -> Fp]
        /\ wires[p][b][7] \in [1..1 -> Fp] /\ wires[p][b][8] \in [1..1 -> Fp]
    BY <2>1, ValuesKnown
  <2> QED BY <2>2
<1>12. /\ x5 \in Fp /\ x6 \in Fp /\ x7 \in Fp /\ x8 \in Fp
       /\ y5 \in Fp /\ y6 \in Fp /\ y7 \in Fp /\ y8 \in Fp
  BY <1>9, <1>10, <1>11 DEF Party
<1>13. c[4] = Add(x5, y5) /\ c6 = Add(x6, y6) /\ c7 = Add(x7, y7) /\ c8 = Add(x8, y8)
  BY <1>3, <1>6, <1>9, <1>10 DEF Clear
<1>14. /\ Result("R", wires["R"][b]) = Sub(4, Add(Add(Add(x8, x7), x6), x5))
       /\ Result("S", wires["S"][b]) = Sub(0, Add(Add(Add(y8, y7), y6), y5))
  BY <1>9, <1>10 DEF Result
<1>15. PICK x, y, z : /\ x = Add(Add(Add(x8, x7), x6), x5) /\ y = Add(Add(Add(y8, y7), y6), y5)
                      /\ z = Add(Add(Add(c8, c7), c6), c[4])
  OBVIOUS
<1>16. SharedAs(z, x, y)
  <2>1. SharedAs(c8, x8, y8) /\ SharedAs(c7, x7, y7) /\ SharedAs(c6, x6, y6) /\ SharedAs(c[4], x5, y5)
    BY <1>12, <1>13 DEF SharedAs
  <2>2. SharedAs(Add(c8, c7), Add(x8, x7), Add(y8, y7))
    BY ONLY <2>1, StepAdds
  <2>3. SharedAs(Add(Add(c8, c7), c6), Add(Add(x8, x7), x6), Add(Add(y8, y7), y6))
    BY ONLY <2>1, <2>2, StepAdds
  <2> QED BY ONLY <1>15, <2>1, <2>3, StepAdds
<1>17. SharedAs(4, 4, 0)
  <2>1. 4 \in Fp /\ 0 \in Fp
    BY UpToT DEF T
  <2>2. Is(4, 4) /\ Is(0, 0) /\ 4 + 0 = 4
    BY <2>1, IsSelf
  <2>3. Is(Add(4, 0), 4 + 0)
    BY <2>2, IsSum
  <2>4. Add(4, 0) = 4
    BY ONLY <2>2, <2>3, IsSame
  <2> QED BY <2>1, <2>4 DEF SharedAs
<1>18. Sub(4, z) = Add(Sub(4, x), Sub(0, y))
  <2>1. SharedAs(Sub(4, z), Sub(4, x), Sub(0, y))
    BY ONLY <1>16, <1>17, StepAdds
  <2> QED BY <2>1 DEF SharedAs
<1> QED BY <1>2, <1>8, <1>14, <1>15, <1>18

LEMMA ResultTyped ==
    ASSUME EvaluatorInv, NEW p \in Party, round[p] = 9, NEW b \in Buckets
    PROVE  Result(p, wires[p][b]) \in Fp
<1>1. Known(wires[p][b], 9) /\ 9 \in 1..(Rounds + 1)
  BY RoundNames DEF EvaluatorInv, Wires, Knows
<1>2. /\ wires[p][b][5] \in [1..4 -> Fp] /\ wires[p][b][6] \in [1..1 -> Fp]
      /\ wires[p][b][7] \in [1..1 -> Fp] /\ wires[p][b][8] \in [1..1 -> Fp]
  BY <1>1, ValuesKnown
<1>3. PICK x5, x6, x7, x8 : /\ x5 = wires[p][b][5][4] /\ x6 = wires[p][b][6][1]
                            /\ x7 = wires[p][b][7][1] /\ x8 = wires[p][b][8][1]
  OBVIOUS
<1>4. x5 \in Fp /\ x6 \in Fp /\ x7 \in Fp /\ x8 \in Fp
  BY <1>2, <1>3
<1>5. Add(Add(Add(x8, x7), x6), x5) \in Fp
  <2>1. Add(x8, x7) \in Fp
    BY <1>4, AddCorrect
  <2>2. Add(Add(x8, x7), x6) \in Fp
    BY <1>4, <2>1, AddCorrect
  <2> QED BY <1>4, <2>2, AddCorrect
<1>6. 4 \in Fp /\ 0 \in Fp
  BY UpToT DEF T
<1> QED BY <1>3, <1>5, <1>6, SubCorrect DEF Result

-------------------------------------------------------------------------------
(* The evaluation implements JointEvaluation.                                *)

\* Nothing writes to the rows that an evaluation began with.
RowsKept ==
    \A p \in Party, b \in Buckets : wires[p][b][0] = Syndrome(p, RowOf(sides[b][p]))

LEMMA FinishMoves ==
    ASSUME EvaluatorInv, NEW p \in Party, Finish(p)
    PROVE  /\ sides' = sides /\ Buckets' = Buckets /\ round[p] \in 1..8
           /\ round'[p] = round[p] + 1
           /\ \A q \in Party : q # p => round'[q] = round[q] /\ wires'[q] = wires[q]
           /\ \A b \in Buckets : wires'[p][b][0] = wires[p][b][0]
<1>1. /\ Forms /\ Exchanged(p) /\ posted[p] # <<>> /\ sides' = sides
      /\ round' = [round EXCEPT ![p] = @ + 1]
  BY DEF EvaluatorInv, Finish, Exchanged
<1>2. PICK r : r = round[p]
  OBVIOUS
<1>3. r \in 1..8
  BY <1>1, <1>2, ResultsAreClosings, RoundNames DEF EvaluatorInv
<1>4. PICK z : z = Results(p, inbox[p])
  OBVIOUS
<1>5. PICK grown : grown = [b \in Buckets |-> [s \in 0..r |-> IF s = r THEN z[b] ELSE wires[p][b][s]]]
  OBVIOUS
<1>6. wires' = [wires EXCEPT ![p] = grown]
  BY <1>2, <1>4, <1>5 DEF Finish
<1>7. wires = [q \in Party |-> wires[q]] /\ round \in [Party -> 1..(Rounds + 1)]
  BY <1>1 DEF Forms, WireForms
<1>8. \A b \in Buckets : grown[b][0] = wires[p][b][0]
  BY <1>3, <1>5
<1>9. Buckets' = Buckets
  BY <1>1 DEF Buckets
<1>10. /\ round'[p] = round[p] + 1 /\ wires'[p] = grown
       /\ \A q \in Party : q # p => round'[q] = round[q] /\ wires'[q] = wires[q]
  BY ONLY <1>1, <1>6, <1>7, p \in Party
<1> QED BY <1>1, <1>2, <1>3, <1>8, <1>9, <1>10

LEMMA RowsStay ==
    ASSUME EvaluatorInv, RowsKept, [Next]_vars
    PROVE  RowsKept'
<1>1. CASE UNCHANGED <<sides, wires>>
  BY <1>1 DEF RowsKept, Buckets
<1>2. ASSUME NEW p \in Party, Finish(p) PROVE RowsKept'
  <2>1. \A q \in Party : \A b \in Buckets : wires'[q][b][0] = wires[q][b][0]
    <3>1. TAKE q \in Party
    <3>2. CASE q = p
      BY <1>2, <3>2, FinishMoves
    <3>3. CASE q # p
      BY <1>2, <3>3, FinishMoves
    <3> QED BY <3>2, <3>3
  <2>2. sides' = sides /\ Buckets' = Buckets
    BY <1>2, FinishMoves
  <2> QED BY <2>1, <2>2 DEF RowsKept
<1> QED BY <1>1, <1>2 DEF Next, Post, SendPiece, ReceivePiece, Rest, vars

LEMMA RowsStart == Init => RowsKept
<1>1. SUFFICES ASSUME Init, NEW p \in Party, NEW b \in Buckets
               PROVE  wires[p][b][0] = Syndrome(p, RowOf(sides[b][p]))
  BY DEF RowsKept
<1>2. wires[p][b] = [r \in {0} |-> Syndrome(p, RowOf(sides[b][p]))]
  BY <1>1 DEF Init
<1>3. \A v : [r \in {0} |-> v][0] = v
  OBVIOUS
<1> QED BY <1>2, <1>3

\* When both parties are through, the shares of a bucket's result open to the t
\* of the difference of its two rows (symdiff.cpp:66-76), however many ids
\* differ.
ResultsOpen ==
    Past(Rounds) =>
        \A b \in Buckets :
            Add(Result("R", wires["R"][b]), Result("S", wires["S"][b]))
              = TOf(MinorsInClear(Sum(Syndrome("R", RowOf(sides[b]["R"])),
                                      Syndrome("S", RowOf(sides[b]["S"])))))

\* What holds of both parties once they are through, and what it rests on: the
\* rows they began with are still the rows of their ids.
THEOREM ResultsOpenHolds == Spec => [](EvaluatorInv /\ RowsKept /\ ResultsOpen)
<1>1. Init => EvaluatorInv /\ RowsKept
  BY EvaluatorStart, RowsStart
<1>2. EvaluatorInv /\ RowsKept /\ [Next]_vars => (EvaluatorInv /\ RowsKept)'
  BY EvaluatorStep, RowsStay
<1>3. EvaluatorInv /\ RowsKept => ResultsOpen
  <2>1. SUFFICES ASSUME EvaluatorInv, RowsKept, Past(8), NEW b \in Buckets
                 PROVE  Add(Result("R", wires["R"][b]), Result("S", wires["S"][b]))
                          = TOf(MinorsInClear(Sum(Syndrome("R", RowOf(sides[b]["R"])),
                                                  Syndrome("S", RowOf(sides[b]["S"])))))
    BY RoundNames DEF ResultsOpen
  <2>2. /\ wires["R"][b][0] = Syndrome("R", RowOf(sides[b]["R"]))
        /\ wires["S"][b][0] = Syndrome("S", RowOf(sides[b]["S"]))
    BY <2>1 DEF RowsKept, Party
  <2> QED BY <2>1, <2>2, ResultOpens DEF ClearSyndrome
<1> QED BY <1>1, <1>2, <1>3, PTL DEF Spec

LEMMA TInRange == \A D : TOf(D) \in 0..T
<1>1. TAKE D
<1>2. PICK t \in 0..T : (t = 0 \/ D[t] # 0) /\ \A u \in (t + 1)..T : D[u] = 0
  <2>1. T = 4 /\ 5..4 = {} /\ 4..4 = {4} /\ 3..4 = {3, 4} /\ 2..4 = {2, 3, 4} /\ 1..4 = {1, 2, 3, 4}
    BY DEF T
  <2>2. CASE D[4] # 0
    BY <2>1, <2>2
  <2>3. CASE D[4] = 0 /\ D[3] # 0
    BY <2>1, <2>3
  <2>4. CASE D[4] = 0 /\ D[3] = 0 /\ D[2] # 0
    BY <2>1, <2>4
  <2>5. CASE D[4] = 0 /\ D[3] = 0 /\ D[2] = 0 /\ D[1] # 0
    BY <2>1, <2>5
  <2>6. CASE D[4] = 0 /\ D[3] = 0 /\ D[2] = 0 /\ D[1] = 0
    BY <2>1, <2>6
  <2> QED BY <2>2, <2>3, <2>4, <2>5, <2>6
<1> QED BY <1>2 DEF TOf

Differences == [b \in Buckets |-> Cardinality(Difference(b))]

SharesOf(p) ==
    IF round[p] <= Rounds THEN <<>> ELSE [b \in Buckets |-> Result(p, wires[p][b])]

LEMMA DifferenceCounted ==
    ASSUME Dealing, NEW b \in Buckets
    PROVE  Cardinality(Difference(b)) \in Nat
<1>1. sides[b] \in Sides
  BY BatchIs DEF Dealing
<1>2. /\ sides[b]["R"] \subseteq 0..(IdLimit - 1) /\ sides[b]["S"] \subseteq 0..(IdLimit - 1)
      /\ IdLimit \in Nat
  BY <1>1, EvaluatorAssumption, EncodingAssumption DEF Party
<1>3. Difference(b) \subseteq 0..(IdLimit - 1)
  BY <1>2 DEF Difference
<1>4. IsFiniteSet(Difference(b))
  <2>1. IsFiniteSet(0..(IdLimit - 1))
    BY <1>2, FS_Interval
  <2> QED BY <1>3, <2>1, FS_Subset
<1> QED BY <1>4, FS_CardinalityType

\* One of the numbers the abstract evaluation may decode a bucket to.
LEMMA DecodesTo ==
    ASSUME EvaluatorInv, ResultsOpen, Past(Rounds), NEW b \in Buckets
    PROVE  Add(Result("R", wires["R"][b]), Result("S", wires["S"][b]))
             \in IF Cardinality(Difference(b)) <= T THEN {Cardinality(Difference(b))} ELSE 0..T
<1>1. PICK d : d = Sum(Syndrome("R", RowOf(sides[b]["R"])), Syndrome("S", RowOf(sides[b]["S"])))
  OBVIOUS
<1>2. PICK D : D = MinorsInClear(d)
  OBVIOUS
<1>3. Add(Result("R", wires["R"][b]), Result("S", wires["S"][b])) = TOf(D)
  BY <1>1, <1>2 DEF ResultsOpen
<1>4. sides[b] \in Sides
  BY BatchIs DEF Dealing, EvaluatorInv, Forms
<1>5. Cardinality(Difference(b)) <= T => TOf(D) = Cardinality(Difference(b))
  <2>1. PICK s, t : s = sides[b]["R"] /\ t = sides[b]["S"]
    OBVIOUS
  <2>2. s \in SUBSET AllIds /\ t \in SUBSET AllIds
    BY <1>4, <2>1, EvaluatorAssumption DEF AllIds, Party
  <2>3. Sums(RowOf(s), s) /\ Sums(RowOf(t), t)
    BY <2>2, RowSums
  <2>4. PICK x, y : x = Syndrome("R", RowOf(s)) /\ y = Syndrome("S", RowOf(t))
    OBVIOUS
  <2>5. x \in [1..7 -> Fp] /\ y \in [1..7 -> Fp]
    BY <1>4, <2>1, <2>4, SidesTyped DEF Party, K
  <2>6. d \in Row /\ \A k \in 1..7 : d[k] = Add(x[k], y[k])
    <3>1. d = [k \in 1..7 |-> Add(x[k], y[k])]
      BY <1>1, <2>1, <2>4, <2>5 DEF Sum
    <3> QED BY <2>5, <3>1, AddCorrect DEF Row, K
  <2>7. \A k \in 1..7 : Is(d[k], Gap(s, t)[k])
    BY <2>2, <2>3, <2>4, <2>6, SyndromesAdd
  <2>8. Difference(b) = Apart(s, t)
    BY <2>1 DEF Difference, Apart
  <2>9. Cardinality(Apart(s, t)) \in Nat
    BY <2>8, DifferenceCounted DEF EvaluatorInv, Forms
  <2>10. ASSUME Cardinality(Apart(s, t)) <= 4
         PROVE  TOf(D) = Cardinality(Apart(s, t))
    <3>1. Cardinality(Apart(s, t)) \in 0..4
      BY <2>9, <2>10
    <3> QED BY <1>2, <2>2, <2>6, <2>7, <3>1, MinorsCount, PrimeAssumption
  <2> QED BY <2>8, <2>10 DEF T
<1>6. TOf(D) \in 0..T
  BY TInRange
<1> QED BY <1>3, <1>5, <1>6

LEMMA SharesMove ==
    ASSUME EvaluatorInv, NEW p \in Party, Finish(p)
    PROVE  \/ UNCHANGED <<sides, [q \in Party |-> SharesOf(q)]>>
           \/ /\ round[p] = 8 /\ round'[p] = 9 /\ UNCHANGED sides
              /\ SharesOf(p)' = [b \in Buckets |-> Result(p, wires'[p][b])]
              /\ SharesOf(p) = <<>>
              /\ \A q \in Party : q # p => SharesOf(q)' = SharesOf(q)
<1>1. /\ sides' = sides /\ Buckets' = Buckets /\ round[p] \in 1..8
      /\ round'[p] = round[p] + 1
      /\ \A q \in Party : q # p => round'[q] = round[q] /\ wires'[q] = wires[q]
  BY FinishMoves
<1>2. \A q \in Party : q # p => SharesOf(q)' = SharesOf(q)
  BY <1>1 DEF SharesOf, Result
<1>3. SharesOf(p) = <<>>
  BY <1>1, RoundNames DEF SharesOf
<1>4. CASE round[p] = 8
  <2>1. round'[p] = 9 /\ ~ (round'[p] <= Rounds)
    BY <1>1, <1>4, RoundNames
  <2>2. SharesOf(p)' = [b \in Buckets |-> Result(p, wires'[p][b])]
    BY <1>1, <2>1 DEF SharesOf, Result
  <2> QED BY <1>1, <1>2, <1>3, <1>4, <2>1, <2>2
<1>5. CASE round[p] # 8
  <2>1. SharesOf(p)' = <<>>
    BY <1>1, <1>5, RoundNames DEF SharesOf
  <2> QED BY <1>1, <1>2, <1>3, <2>1
<1> QED BY <1>4, <1>5

AllShares == [q \in Party |-> SharesOf(q)]

LEMMA ImplementsStart == EvaluatorInv /\ Init => Joint!Init
<1>1. SUFFICES ASSUME EvaluatorInv, Init PROVE Joint!Init
  OBVIOUS
<1>2. \A b \in Buckets : Cardinality(Difference(b)) >= 0
  BY <1>1, DifferenceCounted DEF EvaluatorInv, Forms
<1>3. \A p \in Party : round[p] <= Rounds
  BY <1>1, RoundNames DEF Init
<1> QED BY <1>2, <1>3 DEF Joint!Init, Joint!Buckets, Joint!Party, Party

\* The actions of JointEvaluation, in terms of this module.
LEMMA JointActions ==
    ASSUME NEW p \in Party
    PROVE  /\ Joint!First(p) <=>
                /\ AllShares[p] = <<>> /\ AllShares[Peer(p)] = <<>>
                /\ AllShares'[p] \in [DOMAIN Differences -> Fp]
                /\ AllShares' = [AllShares EXCEPT ![p] = AllShares'[p]]
                /\ UNCHANGED Differences
           /\ Joint!Second(p) <=>
                /\ AllShares[p] = <<>> /\ AllShares[Peer(p)] # <<>>
                /\ AllShares'[p] \in [DOMAIN Differences -> Fp]
                /\ AllShares' = [AllShares EXCEPT ![p] = AllShares'[p]]
                /\ \A b \in DOMAIN Differences :
                     Add(AllShares'[p][b], AllShares[Peer(p)][b])
                       \in IF Differences[b] <= T THEN {Differences[b]} ELSE 0..T
                /\ UNCHANGED Differences
           /\ Joint!vars = <<Differences, AllShares>>
           /\ UNCHANGED <<Differences, AllShares>> <=> UNCHANGED Joint!vars
           /\ Joint!First(p) => Joint!Next
           /\ Joint!Second(p) => Joint!Next
<1>1. Joint!Peer(p) = Peer(p) /\ Joint!Party = Party
  BY DEF Joint!Peer, Joint!Party, Peer, Party
<1>2. AllShares = [q \in Party |-> IF round[q] <= Rounds THEN <<>>
                                   ELSE [b \in Buckets |-> Result(q, wires[q][b])]]
  BY DEF AllShares, SharesOf
<1>3. AllShares' = [q \in Party |-> IF round[q] <= Rounds THEN <<>>
                                   ELSE [b \in Buckets |-> Result(q, wires[q][b])]]'
  BY DEF AllShares, SharesOf
<1>4. /\ Differences = [b \in Buckets |-> Cardinality(Difference(b))]
      /\ Differences' = [b \in Buckets |-> Cardinality(Difference(b))]'
  BY DEF Differences
<1>5. Joint!First(p) <=>
                /\ AllShares[p] = <<>> /\ AllShares[Peer(p)] = <<>>
                /\ AllShares'[p] \in [DOMAIN Differences -> Fp]
                /\ AllShares' = [AllShares EXCEPT ![p] = AllShares'[p]]
                /\ UNCHANGED Differences
  BY <1>1, <1>2, <1>3, <1>4, Zenon DEF Joint!First, Joint!Buckets
<1>6. Joint!Second(p) <=>
                /\ AllShares[p] = <<>> /\ AllShares[Peer(p)] # <<>>
                /\ AllShares'[p] \in [DOMAIN Differences -> Fp]
                /\ AllShares' = [AllShares EXCEPT ![p] = AllShares'[p]]
                /\ \A b \in DOMAIN Differences :
                     Add(AllShares'[p][b], AllShares[Peer(p)][b])
                       \in IF Differences[b] <= T THEN {Differences[b]} ELSE 0..T
                /\ UNCHANGED Differences
  BY <1>1, <1>2, <1>3, <1>4, Zenon DEF Joint!Second, Joint!Buckets, Joint!Decoded
<1>7. /\ Joint!vars = <<Differences, AllShares>>
      /\ UNCHANGED <<Differences, AllShares>> <=> UNCHANGED Joint!vars
  BY <1>2, <1>3, <1>4, Zenon DEF Joint!vars
<1>8. (Joint!First(p) => Joint!Next) /\ (Joint!Second(p) => Joint!Next)
  BY <1>1 DEF Joint!Next
<1> QED BY <1>5, <1>6, <1>7, <1>8

\* A result is an element of the field, and the two shares of one open to what
\* the abstract evaluation allows.
ResultsShared ==
    /\ \A p \in Party : round[p] = 9 => \A b \in Buckets : Result(p, wires[p][b]) \in Fp
    /\ Past(Rounds) =>
         \A b \in Buckets :
            Add(Result("R", wires["R"][b]), Result("S", wires["S"][b]))
              \in IF Cardinality(Difference(b)) <= T THEN {Cardinality(Difference(b))} ELSE 0..T

LEMMA ImplementsStep ==
    ASSUME EvaluatorInv, ResultsShared', [Next]_vars
    PROVE  [Joint!Next]_(Joint!vars)
<1>1. CASE UNCHANGED <<sides, round, wires>>
  <2>1. Buckets' = Buckets /\ \A b : Difference(b)' = Difference(b)
    BY <1>1 DEF Buckets, Difference
  <2>2. Differences' = Differences
    BY <2>1 DEF Differences
  <2>3. AllShares' = AllShares
    BY <1>1, <2>1 DEF AllShares, SharesOf, Result
  <2> QED BY <2>2, <2>3, JointActions DEF Party
<1>2. ASSUME NEW p \in Party, Finish(p) PROVE [Joint!Next]_(Joint!vars)
  <2>1. PICK q : q = Peer(p) /\ q \in Party /\ q # p /\ \A x \in Party : x = p \/ x = q
    BY PeerIs
  <2>2. Buckets' = Buckets /\ sides' = sides /\ round[p] \in 1..8 /\ round'[q] = round[q]
    BY <1>2, <2>1, FinishMoves
  <2>3. Differences' = Differences
    BY <2>2 DEF Differences, Difference
  <2>4. /\ AllShares[p] = SharesOf(p) /\ AllShares[q] = SharesOf(q)
        /\ AllShares'[p] = SharesOf(p)' /\ AllShares'[q] = SharesOf(q)'
        /\ AllShares = [x \in Party |-> AllShares[x]] /\ AllShares' = [x \in Party |-> AllShares'[x]]
    BY <2>1 DEF AllShares
  <2>5. CASE AllShares' = AllShares
    BY <2>3, <2>5, JointActions
  <2>6. CASE /\ round[p] = 8 /\ round'[p] = 9
             /\ SharesOf(p)' = [b \in Buckets |-> Result(p, wires'[p][b])]
             /\ SharesOf(p) = <<>> /\ SharesOf(q)' = SharesOf(q)
    <3>1. AllShares' = [AllShares EXCEPT ![p] = AllShares'[p]]
      BY <2>1, <2>4, <2>6
    <3>2. AllShares'[p] \in [DOMAIN Differences -> Fp]
      <4>1. \A b \in Buckets : Result(p, wires'[p][b]) \in Fp
        BY <2>2, <2>6 DEF ResultsShared, Result
      <4>2. DOMAIN Differences = Buckets
        BY DEF Differences
      <4> QED BY <2>4, <2>6, <4>1, <4>2
    <3>3. CASE round[q] <= Rounds
      <4>1. AllShares[q] = <<>>
        BY <2>4, <3>3 DEF SharesOf
      <4> QED BY <2>1, <2>3, <2>4, <2>6, <3>1, <3>2, <4>1, JointActions
    <3>4. CASE ~ (round[q] <= Rounds)
      <4>1. round'[q] = 9 /\ Past(8)' /\ Rounds = 8
        <5>1. round[q] \in 1..9
          BY <2>1, RoundNames DEF EvaluatorInv, Forms
        <5> QED BY <2>1, <2>2, <2>6, <3>4, <5>1, RoundNames DEF Past
      <4>2. SharesOf(q)' = [b \in Buckets |-> Result(q, wires'[q][b])]
        BY <2>2, <4>1 DEF SharesOf, Result
      <4>3. AllShares[q] # <<>>
        <5>1. 1 \in Buckets
          BY BatchIs DEF EvaluatorInv, Forms
        <5>2. DOMAIN SharesOf(q) = Buckets
          BY <2>6, <4>2
        <5>3. DOMAIN <<>> = {}
          OBVIOUS
        <5> QED BY <2>4, <5>1, <5>2, <5>3
      <4>4. ASSUME NEW b \in Buckets
            PROVE  Add(AllShares'[p][b], AllShares[q][b])
                     \in IF Differences[b] <= T THEN {Differences[b]} ELSE 0..T
        <5>1. PICK x, y : x = Result(p, wires'[p][b]) /\ y = Result(q, wires'[q][b])
          OBVIOUS
        <5>2. AllShares'[p][b] = x /\ AllShares[q][b] = y
          BY <2>4, <2>6, <4>2, <5>1
        <5>3. Add(x, y) = Add(Result("R", wires'["R"][b]), Result("S", wires'["S"][b]))
          <6>2. x \in Fp /\ y \in Fp
            BY <2>1, <2>2, <2>6, <4>1, <5>1 DEF ResultsShared, Result
          <6>3. Add(x, y) = Add(y, x)
            BY <6>2, AddBack
          <6>4. (p = "R" /\ q = "S") \/ (p = "S" /\ q = "R")
            BY <2>1 DEF Party
          <6> QED BY <5>1, <6>3, <6>4
        <5>4. Add(Result("R", wires'["R"][b]), Result("S", wires'["S"][b]))
                \in IF Cardinality(Difference(b)) <= T THEN {Cardinality(Difference(b))} ELSE 0..T
          <6>1. Difference(b)' = Difference(b)
            BY <2>2 DEF Difference
          <6> QED BY <2>2, <4>1, <6>1 DEF ResultsShared, Result
        <5>5. Differences[b] = Cardinality(Difference(b))
          BY DEF Differences
        <5> QED BY <5>2, <5>3, <5>4, <5>5
      <4>5. DOMAIN Differences = Buckets
        BY DEF Differences
      <4>6. AllShares[p] = <<>>
        BY <2>4, <2>6
      <4> QED BY <2>1, <2>3, <3>1, <3>2, <4>3, <4>4, <4>5, <4>6, JointActions
    <3> QED BY <3>3, <3>4
  <2>7. \/ AllShares' = AllShares
        \/ /\ round[p] = 8 /\ round'[p] = 9
           /\ SharesOf(p)' = [b \in Buckets |-> Result(p, wires'[p][b])]
           /\ SharesOf(p) = <<>> /\ SharesOf(q)' = SharesOf(q)
    BY <1>2, <2>1, SharesMove DEF AllShares
  <2> QED BY <2>5, <2>6, <2>7
<1> QED BY <1>1, <1>2 DEF Next, Post, SendPiece, ReceivePiece, Rest, vars

\* The evaluation does what Session takes for granted of it: whatever the order
\* in which the two parties get through their rounds, the first to finish gets
\* some shares, and the other the ones that complete them to the size of the
\* difference, if it is small (query.cpp:164-185).
THEOREM EvaluatesHolds == Spec => Evaluates
<1>1. EvaluatorInv /\ Init => Joint!Init
  BY ImplementsStart
<1>2. EvaluatorInv /\ ResultsOpen => ResultsShared
  BY ResultTyped, DecodesTo DEF ResultsShared
<1>3. EvaluatorInv /\ ResultsShared' /\ [Next]_vars => [Joint!Next]_(Joint!vars)
  BY ImplementsStep
<1> QED BY <1>1, <1>2, <1>3, ResultsOpenHolds, PTL DEF Spec, Evaluates, Joint!Spec

===============================================================================
