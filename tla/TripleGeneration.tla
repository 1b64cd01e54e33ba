--------------------------- MODULE TripleGeneration ---------------------------
(***************************************************************************)
(* vole::beaver_triples at both parties, for one batch.  A triple takes    *)
(* two oblivious linear evaluations, one for each cross term of            *)
(* (aR + aS) * (bR + bS), each over the next 61 OTs of the pools; the      *)
(* Sender's factor in each is what its OT choices happen to spell.  The    *)
(* messages of libOTe's noisy VOLE are a joint step, on field elements     *)
(* that it handles through CoeffCtxFp61.                                   *)
(***************************************************************************)
EXTENDS Field, Sequences

CONSTANTS
    Count,          \* the triples of the batch
    OlePerCallOts,  \* 61, the bits of a field element
    Samples,        \* the words the Receiver may draw
    OtPools         \* the OTs the two pools may hold

Party == {"R", "S"}

PoolSize == 2 * OlePerCallOts * Count

\* An OT: the Receiver has both of its pads, the Sender the one it chose.
Ot == [pads : [{0, 1} -> 0..(WordSize - 1)], choice : {0, 1}]

ASSUME TripleAssumption ==
    /\ Count \in Nat \ {0}
    /\ OlePerCallOts \in Nat \ {0}
    /\ Base = 2 ^ OlePerCallOts
    /\ Samples \subseteq 0..(WordSize - 1)
    /\ OtPools \subseteq [1..PoolSize -> Ot]

VARIABLES
    ots,    \* the OTs of the batch
    out,    \* out[p]: p's shares of the triples made so far
    cur,    \* cur[p]: what p has of the triple being made
    pc,     \* "draw", "first", "second", "done" or "stopped"
    cursor  \* the OTs each party has taken off its pool

vars == <<ots, out, cur, pc, cursor>>

Nothing == [a |-> 0, b |-> 0, u |-> 0]

\* OtPool::take(kOlePerCallOts).
Slice(p) == SubSeq(ots, cursor[p] + 1, cursor[p] + OlePerCallOts)

\* The Receiver's fresh a and b.
Draw ==
    /\ pc["R"] = "draw"
    /\ \E a, b \in Samples :
         cur' = [cur EXCEPT !["R"] = [Nothing EXCEPT !.a = FromU64(a), !.b = FromU64(b)]]
    /\ pc' = [pc EXCEPT !["R"] = "first"]
    /\ UNCHANGED <<ots, out, cursor>>

SenderReady ==
    /\ pc["S"] = "draw"
    /\ cur' = [cur EXCEPT !["S"] = Nothing]
    /\ pc' = [pc EXCEPT !["S"] = "first"]
    /\ UNCHANGED <<ots, out, cursor>>

-------------------------------------------------------------------------------
(* The noisy VOLE, row by row.  The Receiver's corrections lead from the pad  *)
(* of the bit 1 to that of the bit 0, less x * 2^i; the Sender applies those  *)
(* of the bits that make up its factor to the pads it has.                    *)

Total(shares) ==
    LET acc[i \in 0..OlePerCallOts] ==
            IF i = 0 THEN 0 ELSE Add(acc[i - 1], shares[i])
    IN  acc[OlePerCallOts]

\* Mutant: the pads are taken for field elements as they are.
FromBlockUnreduced(word) == word

FromBlock(word) == FromU64(word)

BinaryDecomposition(y) == [i \in 1..OlePerCallOts |-> Bit(y, i - 1)]

Correction(ot, i, x) ==
    Sub(Sub(FromBlock(ot.pads[0]), FromBlock(ot.pads[1])), Mul(x, 2 ^ (i - 1)))

ReceiverVole(slice) == Total([i \in DOMAIN slice |-> FromBlock(slice[i].pads[0])])

SenderVole(slice, corrections, y) ==
    LET bits == BinaryDecomposition(y)
    IN  Total([i \in DOMAIN slice |->
            LET pad == FromBlock(slice[i].pads[slice[i].choice])
            IN  IF bits[i] = 1 THEN Add(pad, corrections[i]) ELSE pad])

-------------------------------------------------------------------------------

\* Mutant: the choices are read from the other end.
DeltaBackwards(slice) ==
    LET raw[i \in 0..OlePerCallOts] ==
            IF i = 0 THEN 0 ELSE 2 * raw[i - 1] + slice[i].choice
    IN  raw[OlePerCallOts]

\* What the choices spell: an element, or P, which ends the Sender.
DeltaFromChoices(slice) ==
    LET raw[i \in 0..OlePerCallOts] ==
            IF i = 0 THEN 0 ELSE raw[i - 1] + slice[i].choice * 2 ^ (i - 1)
    IN  raw[OlePerCallOts]

\* Mutant: the Sender forgets to negate its share.
SenderShareKept(v) == v

\* The noisy VOLE gives the Receiver v + x * y for the Sender's v.
SenderShare(v) == Neg(v)

\* One call, x is the Receiver's factor.  The Sender refuses choices that spell P,
\* the Receiver corrections that are not field elements.
Ole(step, x) ==
    /\ \A p \in Party : pc[p] = step /\ cursor[p] + OlePerCallOts <= PoolSize
    /\ cursor' = [p \in Party |-> cursor[p] + OlePerCallOts]
    /\ UNCHANGED ots
    /\ LET y           == DeltaFromChoices(Slice("S"))
           corrections == [i \in 1..OlePerCallOts |-> Correction(Slice("R")[i], i, x)]
           v           == SenderVole(Slice("S"), corrections, y)
           got == [cur EXCEPT !["R"].u = Add(@, ReceiverVole(Slice("R"))),
                              !["S"].u = Add(@, SenderShare(v)),
                              !["S"].b = IF step = "first" THEN y ELSE @,
                              !["S"].a = IF step = "second" THEN y ELSE @]
           refuses == [p \in Party |->
               IF p = "S" THEN y = P
               ELSE \E i \in DOMAIN corrections : corrections[i] \notin Fp]
       IN  \/ /\ \E p \in Party : refuses[p] /\ pc' = [pc EXCEPT ![p] = "stopped"]
              /\ UNCHANGED <<cur, out>>
           \/ /\ \A p \in Party : ~refuses[p]
              /\ cur' = got
              /\ IF step = "first"
                 THEN pc' = [p \in Party |-> "second"] /\ UNCHANGED out
                 ELSE /\ out' = [p \in Party |-> Append(out[p],
                              [a |-> got[p].a, b |-> got[p].b,
                               c |-> Add(Mul(got[p].a, got[p].b), got[p].u)])]
                      /\ pc' = [p \in Party |->
                              IF Len(out[p]) + 1 = Count THEN "done" ELSE "draw"]

FirstCrossTerm  == Ole("first", cur["R"].a)
SecondCrossTerm == Ole("second", cur["R"].b)

\* A party left alone.
PeerGone(p) ==
    /\ pc[p] # "stopped" /\ \E q \in Party : pc[q] = "stopped"
    /\ pc' = [pc EXCEPT ![p] = "stopped"]
    /\ UNCHANGED <<ots, out, cur, cursor>>

Rest == (\A p \in Party : pc[p] \in {"done", "stopped"}) /\ UNCHANGED vars

Init ==
    /\ ots \in OtPools
    /\ out = [p \in Party |-> <<>>]
    /\ cur = [p \in Party |-> Nothing]
    /\ pc = [p \in Party |-> "draw"]
    /\ cursor = [p \in Party |-> 0]

Next ==
    \/ Draw \/ SenderReady \/ FirstCrossTerm \/ SecondCrossTerm \/ Rest
    \/ \E p \in Party : PeerGone(p)

Spec == Init /\ [][Next]_vars

-------------------------------------------------------------------------------

\* The shares of every triple open to a product, whatever the choices spell: the
\* one thing BeaverEngine::mul relies on (vole_beaver.cpp:84-127, vole_beaver.hpp:50-62).
TriplesMultiply ==
    \A i \in DOMAIN out["R"] :
        LET opened(f) == Add(out["R"][i][f], out["S"][i][f])
        IN  opened("c") = Mul(opened("a"), opened("b"))

\* Whatever words the pads and the Receiver's samples are, every correction is
\* the canonical element serialize and deserialize insist on: a batch ends early
\* for nothing but choices that spell P (coeff_ctx.hpp:142-170, vole_beaver.cpp:25-34).
EndsOnlyOnP ==
    (\E p \in Party : pc[p] = "stopped") =>
        DeltaFromChoices(SubSeq(ots, cursor["S"] - OlePerCallOts + 1, cursor["S"])) = P
===============================================================================
