---------------------------- MODULE BucketEvaluator ----------------------------
(***************************************************************************)
(* SymDiffEvaluator::eval_buckets at both parties, share by share: seven   *)
(* rounds of Beaver multiplications and one of masked openings, all        *)
(* buckets batched in every round.  In a round a party takes correlations  *)
(* off its pools, in order, and exchanges shares of the values to be       *)
(* opened with the peer, through sockets that hold only so much; each      *)
(* party runs at its own pace.  Session does all of it in the one step     *)
(* Evaluate.                                                               *)
(***************************************************************************)
EXTENDS Minors, DigitSplit, FiniteSets, FiniteSetsExt

CONSTANTS
    Sides,      \* the pairs of id sets a bucket may hold
    Batches,    \* the numbers of buckets evaluated together
    Seeds,      \* the randomness Setup may have dealt
    Dealt,      \* Dealt[seed][id]: a triple's a, b, and the Receiver's aR, bR, cR
    Mask,       \* Mask[seed][id]: the two shares of a gate's mask
    Leaf,       \* Leaf[seed][id]: the Receiver's share of a DPF leaf
    Capacity    \* the pieces of a message that fit the socket buffers one way

Party == {"R", "S"}
Peer(p) == IF p = "R" THEN "S" ELSE "R"

Rounds == 8
MaskRound == 3
TriplesPerBucket == 44
GatesPerBucket == 4

ASSUME EvaluatorAssumption ==
    /\ Sides \subseteq [Party -> SUBSET (0..(IdLimit - 1))]
    /\ Batches \subseteq Nat \ {0}
    /\ Capacity \in Nat \ {0}

\* What the minors' telling the size of a difference rests on: the field is that of
\* a prime, and the generator test leaves out no prime factor of its order.
ASSUME PrimeAssumption == PrimeField /\ AllFactors

\* Setup deals shares that are field elements.
ASSUME DealtAssumption ==
    \A n \in Batches, s \in Seeds :
        /\ \A id \in 0..(TriplesPerBucket * n - 1) :
             Dealt[s][id] \in [a : Fp, b : Fp, aR : Fp, bR : Fp, cR : Fp]
        /\ \A id \in 0..(GatesPerBucket * n - 1) : Mask[s][id] \in [Party -> Fp]
        /\ \A id \in 1..(GatesPerBucket * Digits * n) : Leaf[s][id] \in Fp

VARIABLES
    sides,  \* the id sets behind each bucket's rows
    seed,
    round,  \* the round each party is in; Rounds + 1 when it has finished
    posted, \* its message of that round, a piece per bucket, <<>> if none yet
    sent,   \* the pieces of it that are in the socket
    inbox,  \* the pieces of the peer's message it has received
    chan,   \* chan[p]: the pieces on their way to p
    wires,  \* wires[p][b][r]: p's shares of the results of round r on bucket b
    taken   \* the triples each party has taken

vars == <<sides, seed, round, posted, sent, inbox, chan, wires, taken>>

Buckets == DOMAIN sides

-------------------------------------------------------------------------------
(* The correlations, as Setup deals them.                                    *)

TripleShare(p, id) ==
    LET t == Dealt[seed][id] IN
    IF p = "R" THEN [a |-> t.aR, b |-> t.bR, c |-> t.cR]
    ELSE [a |-> Sub(t.a, t.aR), b |-> Sub(t.b, t.bR), c |-> Sub(Mul(t.a, t.b), t.cR)]

MaskShare(p, id) == Mask[seed][id][p]

\* Tree j of a gate's key is one at digit j of the mask and zero elsewhere.
LeafShare(p, id, j, digit) ==
    LET m    == Add(MaskShare("R", id), MaskShare("S", id))
        leaf == IF digit = Digit(m, j) THEN 1 ELSE 0
        mine == Leaf[seed][id * Digits + j]
    IN  IF p = "R" THEN mine ELSE Sub(leaf, mine)

-------------------------------------------------------------------------------
(* What is multiplied in a round, from the results w of the rounds before.   *)
(* w[0] is the syndrome, w[3] has the four digits of each of the four gates. *)

Minor(w) == MinorsOf(w[0], w[1], w[2])

\* Mutant: each gate's digits are multiplied up one after the other.
OperandsOneByOne(w, r) ==
    CASE r = 1 -> LayerOne(w[0])
      [] r = 2 -> LayerTwo(w[0], w[1])
      [] r = 4 -> [i \in 1..12 |-> LET g == (i + 2) \div 3 IN
                                   <<w[3][g][1 + (i % 3)], w[3][g][2 + (i % 3)]>>]
      [] r = 5 -> [g \in 1..4 |-> <<w[4][3 * g - 2], w[4][3 * g]>>]
      [] r = 6 -> << <<w[5][3], w[5][4]>> >>
      [] r = 7 -> << <<w[5][2], w[6][1]>> >>
      [] r = 8 -> << <<w[5][1], w[7][1]>> >>

\* Rounds 4 and 5 multiply up the digits of each gate in pairs, rounds 6 to 8
\* are the suffix products b3 b4, b2 b3 b4 and b1 b2 b3 b4.
Operands(w, r) ==
    CASE r = 1 -> LayerOne(w[0])
      [] r = 2 -> LayerTwo(w[0], w[1])
      [] r = 4 -> [i \in 1..8 |-> LET g == (i + 1) \div 2
                                      j == 2 * ((i + 1) % 2)
                                  IN  <<w[3][g][j + 1], w[3][g][j + 2]>>]
      [] r = 5 -> [g \in 1..4 |-> <<w[4][2 * g - 1], w[4][2 * g]>>]
      [] r = 6 -> << <<w[5][3], w[5][4]>> >>
      [] r = 7 -> << <<w[5][2], w[6][1]>> >>
      [] r = 8 -> << <<w[5][1], w[7][1]>> >>

\* Mutant: both parties put in the public 4.
ResultWithTwoFours(p, w) ==
    Sub(4, Add(Add(Add(w[8][1], w[7][1]), w[6][1]), w[5][4]))

\* A party's share of the bucket's t.
Result(p, w) ==
    Sub(IF p = "R" THEN 4 ELSE 0,
        Add(Add(Add(w[8][1], w[7][1]), w[6][1]), w[5][4]))

-------------------------------------------------------------------------------
(* A round.                                                                  *)

\* The triple taken for product i of bucket b, when n are taken for each bucket
\* and the first to be taken is from.
TripleOf(p, from, n, b, i) == TripleShare(p, from + (b - 1) * n + i - 1)

GateOf(b, g) == (b - 1) * GatesPerBucket + g - 1

Wanted(p) ==
    IF round[p] = MaskRound THEN 0 ELSE Len(Operands(wires[p][1], round[p]))

\* The shares of x - a and y - b, or of D + m.
Opening(p) ==
    LET n == Wanted(p) IN
    IF round[p] = MaskRound
    THEN [b \in Buckets |->
            [g \in 1..GatesPerBucket |->
                Add(Minor(wires[p][b])[g], MaskShare(p, GateOf(b, g)))]]
    ELSE [b \in Buckets |->
            [i \in 1..n |->
                LET xy == Operands(wires[p][b], round[p])[i]
                    t  == TripleOf(p, taken[p], n, b, i)
                IN  <<Sub(xy[1], t.a), Sub(xy[2], t.b)>>]]

\* Take the correlations, and begin the exchange.
Post(p) ==
    /\ round[p] \in 1..Rounds /\ posted[p] = <<>>
    /\ posted' = [posted EXCEPT ![p] = Opening(p)]
    /\ taken' = [taken EXCEPT ![p] = @ + Wanted(p) * Len(sides)]
    /\ UNCHANGED <<sides, seed, round, sent, inbox, chan, wires>>

AllSent(p) == sent[p] = Len(posted[p])

CanSend(p) == ~AllSent(p) /\ Len(chan[Peer(p)]) < Capacity

\* Mutant: send() and then recv().
ReceivesLater(p) == posted[p] # <<>> /\ AllSent(p)

\* The two halves of an exchange go on side by side.
Receives(p) == posted[p] # <<>>

CanReceive(p) ==
    Receives(p) /\ Len(inbox[p]) < Len(posted[p]) /\ chan[p] # <<>>

SendPiece(p) ==
    /\ CanSend(p)
    /\ sent' = [sent EXCEPT ![p] = @ + 1]
    /\ chan' = [chan EXCEPT ![Peer(p)] = Append(@, posted[p][sent'[p]])]
    /\ UNCHANGED <<sides, seed, round, posted, inbox, wires, taken>>

ReceivePiece(p) ==
    /\ CanReceive(p)
    /\ inbox' = [inbox EXCEPT ![p] = Append(@, Head(chan[p]))]
    /\ chan' = [chan EXCEPT ![p] = Tail(@)]
    /\ UNCHANGED <<sides, seed, round, posted, sent, wires, taken>>

Exchanged(p) == posted[p] # <<>> /\ AllSent(p) /\ Len(inbox[p]) = Len(posted[p])

\* Mutant: both parties add d * e.
ProductOnBothSides(p, t, d, e) ==
    Add(Add(Add(t.c, Mul(d, t.b)), Mul(e, t.a)), Mul(d, e))

\* Mutant: the last sum is left unreduced.
ProductUnreduced(p, t, d, e) ==
    LET z == Add(Add(t.c, Mul(d, t.b)), Mul(e, t.a))
    IN  IF p = "R" THEN z + Mul(d, e) ELSE z

\* A party's share of x * y; the Receiver alone adds the public d * e.
ProductShare(p, t, d, e) ==
    LET z == Add(Add(t.c, Mul(d, t.b)), Mul(e, t.a))
    IN  IF p = "R" THEN Add(z, Mul(d, e)) ELSE z

Results(p, theirs) ==
    IF round[p] = MaskRound
    THEN [b \in Buckets |->
            [g \in 1..GatesPerBucket |->
                LET z == Add(posted[p][b][g], theirs[b][g])
                IN  [j \in 1..Digits |-> LeafShare(p, GateOf(b, g), j, Digit(z, j))]]]
    ELSE LET n    == Wanted(p)
             from == taken[p] - n * Len(sides)
         IN  [b \in Buckets |->
                [i \in 1..n |->
                    ProductShare(p, TripleOf(p, from, n, b, i),
                                 Add(posted[p][b][i][1], theirs[b][i][1]),
                                 Add(posted[p][b][i][2], theirs[b][i][2]))]]

\* What a party makes of the opened values.
Finish(p) ==
    /\ Exchanged(p)
    /\ LET z == Results(p, inbox[p]) IN
       wires' = [wires EXCEPT ![p] =
                    [b \in Buckets |-> [r \in 0..round[p] |->
                        IF r = round[p] THEN z[b] ELSE @[b][r]]]]
    /\ round' = [round EXCEPT ![p] = @ + 1]
    /\ posted' = [posted EXCEPT ![p] = <<>>]
    /\ sent' = [sent EXCEPT ![p] = 0]
    /\ inbox' = [inbox EXCEPT ![p] = <<>>]
    /\ UNCHANGED <<sides, seed, chan, taken>>

-------------------------------------------------------------------------------

RowOf(ids) == FoldSet(LAMBDA x, row : EditRow(row, x, 1), ZeroRow, ids)

Init ==
    /\ \E n \in Batches : sides \in [1..n -> Sides]
    /\ seed \in Seeds
    /\ round = [p \in Party |-> 1]
    /\ posted = [p \in Party |-> <<>>]
    /\ sent = [p \in Party |-> 0]
    /\ inbox = [p \in Party |-> <<>>]
    /\ chan = [p \in Party |-> <<>>]
    /\ wires = [p \in Party |-> [b \in Buckets |->
                    [r \in {0} |-> Syndrome(p, RowOf(sides[b][p]))]]]
    /\ taken = [p \in Party |-> 0]

Finished == \A p \in Party : round[p] = Rounds + 1

Rest == Finished /\ UNCHANGED vars

Next ==
    \/ \E p \in Party : Post(p) \/ SendPiece(p) \/ ReceivePiece(p) \/ Finish(p)
    \/ Rest

Spec == Init /\ [][Next]_vars

-------------------------------------------------------------------------------

\* Every share a party comes to hold is a canonical field element.
Canonical(z, r) ==
    IF r = MaskRound THEN \A g \in DOMAIN z : z[g] \in [1..Digits -> Fp]
    ELSE z \in [DOMAIN z -> Fp]

TypeOK ==
    /\ round \in [Party -> 1..(Rounds + 1)]
    /\ taken \in [Party -> Nat]
    /\ \A p \in Party, b \in Buckets :
         \A r \in DOMAIN wires[p][b] : Canonical(wires[p][b][r], r)

Opened(x, y) == Add(x, y)
Wire(p, b, r) == wires[p][b][r]
Past(r) == \A p \in Party : round[p] > r

\* The shares of what a multiplication round yields open to the products of
\* what the shares of its factors open to (beaver.cpp:8-50); those of a zero
\* test to 1 if its minor opens to 0, and to 0 otherwise (ztest.cpp).
RoundsOpen ==
    \A b \in Buckets :
        /\ \A r \in (1..Rounds) \ {MaskRound} :
             Past(r) =>
                LET xyR == Operands(wires["R"][b], r)
                    xyS == Operands(wires["S"][b], r)
                IN  \A i \in DOMAIN xyR :
                        Opened(Wire("R", b, r)[i], Wire("S", b, r)[i])
                          = Mul(Opened(xyR[i][1], xyS[i][1]), Opened(xyR[i][2], xyS[i][2]))
        /\ Past(5) =>
             \A g \in 1..GatesPerBucket :
                Opened(Wire("R", b, 5)[g], Wire("S", b, 5)[g])
                  = IF Opened(Minor(wires["R"][b])[g], Minor(wires["S"][b])[g]) = 0
                    THEN 1 ELSE 0

\* The evaluation does what Session's Evaluate takes for granted: each
\* party finishes once and for all, and then the shares of every bucket's result
\* add up to the size of the symmetric difference of its two id sets, or to some
\* number up to T if that is beyond T (symdiff.cpp:66-76, query.cpp:164-185).
Difference(b) ==
    (sides[b]["R"] \ sides[b]["S"]) \cup (sides[b]["S"] \ sides[b]["R"])

Joint == INSTANCE JointEvaluation WITH
    Field <- Fp, Plus <- Add, Limit <- T,
    differences <- [b \in Buckets |-> Cardinality(Difference(b))],
    shares <- [p \in Party |->
        IF round[p] <= Rounds THEN <<>>
        ELSE [b \in Buckets |-> Result(p, wires[p][b])]]

Evaluates == Joint!Spec

\* An evaluation takes 44 triples a bucket at either party, never more: what
\* eval_union makes sure of beforehand is enough, and a pool provisioned for
\* exactly the target is not left with a remainder that drifts (query.cpp:172).
ExactBudget ==
    \A p \in Party :
        /\ taken[p] <= TriplesPerBucket * Len(sides)
        /\ Finished => taken[p] = TriplesPerBucket * Len(sides)

\* However small the buffers, one party can always go on with its exchange:
\* send() and then recv() at both would leave each waiting for the other to
\* drain its socket (net.hpp:68-79), and no test shows it (net_exchange.cpp:59).
Blocked(p) == posted[p] # <<>> /\ ~CanSend(p) /\ ~CanReceive(p) /\ ~Exchanged(p)

NeverBothBlocked == \E p \in Party : ~Blocked(p)
===============================================================================
