----------------------------- MODULE GatePipeline -----------------------------
(***************************************************************************)
(* ztgate::generate_ztgates at both parties, for one batch of zero-test    *)
(* gates.  A gate's mask is the exclusive or of two private halves; the    *)
(* one mask that is 0 in the field is rejected by a joint test of its bits *)
(* and sampled again, the others become additive shares, and a DPF key is  *)
(* made at the digits of each.  Everything is paid with OTs of a pool both *)
(* parties walk through; its size allows for a few rejections.             *)
(*                                                                         *)
(* The multiplications and the key generation of libOTe are joint steps.   *)
(***************************************************************************)
EXTENDS DigitSplit, Sequences, FiniteSets

CONSTANTS
    Count,          \* the gates of the batch
    Halves,         \* the halves that may be sampled
    Shares,         \* what the Receiver's additive share of a mask may be
    Slack,          \* the rejections the pool's size allows for: 4
    MaxResample,    \* PipelineOpts::max_resample_rounds: 8
    MinOts          \* the least number of OTs an extension is asked for: 128

ASSUME PipelineAssumption ==
    /\ Count \in Nat \ {0}
    /\ Halves \subseteq 0..P
    /\ Shares \subseteq Fp
    /\ {Slack, MaxResample, MinOts} \subseteq Nat

Party == {"R", "S"}
Peer(p) == IF p = "R" THEN "S" ELSE "R"
Gate  == 1..Count

AndGates   == MaskBits - 1
OtsDkg     == Digits * (DigitBits + 1)
OtsPerGate == OtsDkg + AndGates + MaskBits

AtLeast(n, m) == IF n >= m THEN n ELSE m

\* Mutant: no allowance for rejections.
PoolWithoutSlack == AtLeast(OtsPerGate * Count, MinOts)

PoolSize == AtLeast(OtsPerGate * Count + AndGates * Slack, MinOts)

VARIABLES
    half,       \* half[p][g]: p's half of g's mask
    pending,    \* the gates whose masks p has yet to see accepted
    pc,
    cursor,     \* the OTs p has taken off its pool
    chan,       \* chan[p]: the test results on their way to p
    bit,        \* p's shares of the test results of this round
    rejected, resamples,
    mask,       \* mask[p][g]: p's additive share of g's mask
    keyed       \* the gates p has a key for, 1..keyed[p]

vars == <<half, pending, pc, cursor, chan, bit, rejected, resamples, mask, keyed>>

Ended == {"done", "stopped"}

-------------------------------------------------------------------------------
(* Masks as bits.                                                            *)

Xor(x, y) == (x + y) % 2

XorOf(x, y) ==
    LET sum[j \in 0..MaskBits] ==
            IF j = 0 THEN 0
            ELSE sum[j - 1] + Xor(Bit(x, j - 1), Bit(y, j - 1)) * 2 ^ (j - 1)
    IN  sum[MaskBits]

BitsOf(g) == [j \in 1..MaskBits |-> Xor(Bit(half["R"][g], j - 1), Bit(half["S"][g], j - 1))]

\* One level of the tree of AND gates: pairs of neighbours, an odd last bit as
\* it is.
Halved(bits) ==
    [j \in 1..((Len(bits) + 1) \div 2) |->
        IF 2 * j <= Len(bits) THEN bits[2 * j - 1] * bits[2 * j] ELSE bits[Len(bits)]]

AllOnes(bits) ==
    LET level[k \in 0..MaskBits] == IF k = 0 THEN bits ELSE Halved(level[k - 1])
    IN  level[MaskBits][1]

\* The sum of bit * 2^j in the field.
Weighted(bits) ==
    LET pow[j \in 1..MaskBits] == IF j = 1 THEN 1 ELSE Add(pow[j - 1], pow[j - 1])
        acc[j \in 0..MaskBits] ==
            IF j = 0 THEN 0 ELSE Add(acc[j - 1], Mul(bits[j], pow[j]))
    IN  acc[MaskBits]

-------------------------------------------------------------------------------
(* The steps.                                                                *)

\* What p is about to take off its pool.
Price(p) ==
    CASE pc[p] = "test"    -> AndGates * Cardinality(pending[p])
      [] pc[p] = "convert" -> MaskBits * Count
      [] pc[p] = "key"     -> OtsDkg
      [] OTHER             -> 0

Enough(p) == cursor[p] + Price(p) <= PoolSize

\* Both parties enter the same multiplication, of the same size.
Together(step) ==
    /\ \A p \in Party : pc[p] = step /\ Enough(p)
    /\ Price("R") = Price("S")
    /\ cursor' = [p \in Party |-> cursor[p] + Price(p)]

\* gmw_all_ones up to the send of the result's shares.
TestMasks ==
    /\ Together("test")
    /\ \E r \in [Gate -> {0, 1}] :
         /\ \A g \in Gate \ pending["R"] : r[g] = 0
         /\ bit' = [p \in Party |-> [g \in Gate |->
                        IF g \notin pending[p] THEN 0
                        ELSE IF p = "R" THEN r[g] ELSE Xor(r[g], AllOnes(BitsOf(g)))]]
    /\ chan' = [p \in Party |-> Append(chan[p], bit'[Peer(p)])]
    /\ pc' = [p \in Party |-> "open"]
    /\ UNCHANGED <<half, pending, rejected, resamples, mask, keyed>>

\* Mutant: the opened bits are not looked at.
Accepted(p, theirs) == {}

\* Mutant: a party looks at its own share only.
OwnShare(p, theirs) == {g \in pending[p] : bit[p][g] = 1}

Bad(p, theirs) == {g \in pending[p] : Xor(bit[p][g], theirs[g]) = 1}

Resample(p, bad) ==
    /\ \E new \in [bad -> Halves] :
         half' = [half EXCEPT ![p] = [g \in Gate |-> IF g \in bad THEN new[g] ELSE @[g]]]
    /\ pending' = [pending EXCEPT ![p] = bad]
    /\ resamples' = [resamples EXCEPT ![p] = @ + 1]
    /\ pc' = [pc EXCEPT ![p] = "test"]

\* The recv of gmw_all_ones, and the rest of the rejection loop.
OpenBits(p) ==
    /\ pc[p] = "open" /\ chan[p] # <<>>
    /\ chan' = [chan EXCEPT ![p] = Tail(@)]
    /\ LET bad == Bad(p, Head(chan[p])) IN
       /\ rejected' = [rejected EXCEPT ![p] = @ + Cardinality(bad)]
       /\ IF bad = {}
          THEN pc' = [pc EXCEPT ![p] = "convert"] /\ UNCHANGED <<half, pending, resamples>>
          ELSE IF resamples[p] = MaxResample
          THEN pc' = [pc EXCEPT ![p] = "stopped"] /\ UNCHANGED <<half, pending, resamples>>
          ELSE Resample(p, bad)
    /\ UNCHANGED <<cursor, bit, mask, keyed>>

\* gilboa_b2a: additive shares of every mask.
Convert ==
    /\ Together("convert")
    /\ \E r \in [Gate -> Shares] :
         mask' = [p \in Party |-> [g \in Gate |->
                    IF p = "R" THEN r[g] ELSE Sub(Weighted(BitsOf(g)), r[g])]]
    /\ pc' = [p \in Party |-> "key"]
    /\ UNCHANGED <<half, pending, chan, bit, rejected, resamples, keyed>>

\* The keyGen of one gate, at the digits of the two halves.
KeyGen ==
    /\ Together("key")
    /\ keyed["R"] = keyed["S"]
    /\ keyed' = [p \in Party |-> keyed[p] + 1]
    /\ pc' = [p \in Party |-> IF keyed'[p] = Count THEN "done" ELSE "key"]
    /\ UNCHANGED <<half, pending, chan, bit, rejected, resamples, mask>>

\* OtPool::take on what is left of the pool, or the peer gone.
Stop(p) ==
    /\ \/ ~Enough(p)
       \/ pc[p] \notin Ended /\ chan[p] = <<>> /\ pc[Peer(p)] = "stopped"
    /\ pc' = [pc EXCEPT ![p] = "stopped"]
    /\ UNCHANGED <<half, pending, cursor, chan, bit, rejected, resamples, mask, keyed>>

Rest == (\A p \in Party : pc[p] \in Ended) /\ UNCHANGED vars

Init ==
    /\ half \in [Party -> [Gate -> Halves]]
    /\ pending = [p \in Party |-> Gate]
    /\ pc = [p \in Party |-> "test"]
    /\ cursor = [p \in Party |-> 0]
    /\ chan = [p \in Party |-> <<>>]
    /\ bit = [p \in Party |-> [g \in Gate |-> 0]]
    /\ rejected = [p \in Party |-> 0]
    /\ resamples = [p \in Party |-> 0]
    /\ mask = [p \in Party |-> [g \in Gate |-> 0]]
    /\ keyed = [p \in Party |-> 0]

Next ==
    \/ TestMasks \/ Convert \/ KeyGen
    \/ \E p \in Party : OpenBits(p) \/ Stop(p)
    \/ Rest

Spec == Init /\ [][Next]_vars

-------------------------------------------------------------------------------

\* The digits of the opened mask of a finished gate are those its key was made
\* at: BucketEvaluator relies on it for every masked value.  The mask of all
\* ones would break it, being 0 in the field (ztgate_pipeline.cpp:261-300).
GatesSound ==
    (\A p \in Party : pc[p] = "done") =>
        \A g \in Gate, j \in 1..Digits :
            Digit(Add(mask["R"][g], mask["S"][g]), j)
              = XorOf(Digit(half["R"][g], j), Digit(half["S"][g], j))

\* When both parties enter a joint step, it is the same one on the same gates,
\* and they use the same OTs for it: what decides is public.
SameOts ==
    pc["R"] = pc["S"] =>
        /\ cursor["R"] = cursor["S"]
        /\ pc["R"] = "test" => pending["R"] = pending["S"]
        /\ keyed["R"] = keyed["S"]

\* A batch fails only after more rejections than its pool allows for, or too
\* many in a row (setup.cpp:58-69).
SlackSuffices ==
    (\E p \in Party : pc[p] = "stopped") =>
        \E p \in Party : rejected[p] > Slack \/ resamples[p] = MaxResample
===============================================================================
