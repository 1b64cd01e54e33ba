------------------------------ MODULE PoolsProofs ------------------------------
(***************************************************************************)
(* Proofs about Pools: the two parties walk through the same calls, number *)
(* what they make alike, and take it in the same order, for any batch and  *)
(* pool sizes and any number of queries.                                   *)
(*                                                                         *)
(* What makes this inductive is what neither party ever checks: both have  *)
(* been dealt the same correlations (Dealt), of which each has taken a     *)
(* part, and what one has taken and is about to take together is as much   *)
(* as it is at the other.                                                  *)
(***************************************************************************)
EXTENDS Pools, SequenceTheorems, TLAPS

Control == {"base", "ready", "filled", "taking", "stopped"} \cup Kind

Correlation == [id : Nat, item : Nat]

\* Every correlation p has ever been given, oldest first.
Dealt(p, k) == used[p][k] \o order[p][k]

PoolsType ==
    /\ pc \in [Party -> Control]
    /\ leg \in [Party -> 1..3]
    /\ need \in [Party -> [Kind -> Nat]]
    /\ order \in [Party -> [Kind -> Seq(Correlation)]]
    /\ used \in [Party -> [Kind -> Seq(Correlation)]]
    /\ next \in [Party -> Nat]
    /\ want \in [Party -> [Kind -> Nat]]
    /\ {target, dealt, queries} \subseteq Nat

\* Both parties are at the same place, or one is still taking what the other has
\* taken, or one has stopped.
InStep ==
    \/ pc["R"] = pc["S"]
    \/ {pc["R"], pc["S"]} = {"ready", "taking"}
    \/ \E p \in Party : pc[p] = "stopped"

Alike ==
    /\ leg["R"] = leg["S"] /\ need["R"] = need["S"]
    /\ \A k \in Kind :
          /\ Dealt("R", k) = Dealt("S", k)
          /\ Len(used["R"][k]) + want["R"][k] = Len(used["S"][k]) + want["S"][k]

\* The two counters of a party, of numbers and of correlations, never part.
Numbered ==
    \A p \in Party :
        /\ next[p] = dealt
        /\ \A k \in Kind : \A i \in DOMAIN Dealt(p, k) :
              Dealt(p, k)[i].item = Dealt(p, k)[i].id + 1

Filling(p) ==
    /\ pc[p] = "base" => target = 0 /\ leg[p] # 3
    /\ pc[p] \notin {"taking", "stopped"} => want[p] = Zero
    /\ pc[p] = "filled" => need[p] = Zero
    /\ pc[p] \in Kind \cup {"filled"} =>
          \A k \in Kind : Len(order[p][k]) + need[p][k] >= PerEvaluation[k] * target

PoolsInv ==
    /\ PoolsType
    /\ InStep
    /\ Alike
    /\ Numbered
    /\ \A p \in Party : Filling(p)

-------------------------------------------------------------------------------
(* Sequences of correlations.                                                *)

LEMMA ConcatCancel ==
    ASSUME NEW S, NEW a \in Seq(S), NEW b \in Seq(S), NEW c \in Seq(S), NEW d \in Seq(S),
           a \o b = c \o d, Len(a) = Len(c)
    PROVE  a = c /\ b = d
<1>1. /\ Len(a) \in Nat /\ Len(b) \in Nat /\ Len(c) \in Nat /\ Len(d) \in Nat
      /\ Len(a) + Len(b) = Len(c) + Len(d)
  BY ConcatProperties, LenProperties
<1>2. a = c
  <2>1. ASSUME NEW i \in 1..Len(a) PROVE a[i] = c[i]
    <3>1. (a \o b)[i] = a[i] /\ (c \o d)[i] = c[i]
      BY <1>1, <2>1, ConcatProperties
    <3> QED BY <3>1
  <2> QED BY <2>1, SeqEqual
<1>3. b = d
  BY <1>2, ConcatSimplifications
<1> QED BY <1>2, <1>3

LEMMA TakeOne ==
    ASSUME NEW S, NEW u \in Seq(S), NEW o \in Seq(S), o # <<>>
    PROVE  /\ Head(o) \in S /\ Tail(o) \in Seq(S)
           /\ Append(u, Head(o)) \in Seq(S) /\ Len(Append(u, Head(o))) = Len(u) + 1
           /\ Append(u, Head(o)) \o Tail(o) = u \o o
<1>1. /\ Head(o) \in S /\ Tail(o) \in Seq(S)
  BY HeadTailProperties
<1>2. Append(u, Head(o)) = u \o <<Head(o)>> /\ Append(u, Head(o)) \in Seq(S)
      /\ Len(Append(u, Head(o))) = Len(u) + 1
  BY <1>1, AppendProperties, AppendIsConcat
<1>3. <<Head(o)>> \in Seq(S) /\ <<Head(o)>> \o Tail(o) = o
  BY <1>1
<1>4. (u \o <<Head(o)>>) \o Tail(o) = u \o (<<Head(o)>> \o Tail(o))
  BY <1>1, <1>3, ConcatAssociative
<1> QED BY <1>1, <1>2, <1>3, <1>4

\* Everything p has or had is at some place of what it was dealt.
LEMMA ItemsDealt ==
    ASSUME PoolsType, NEW p \in Party, NEW k \in Kind, NEW x \in Items(p, k)
    PROVE  /\ x \in Correlation
           /\ \E i \in DOMAIN Dealt(p, k) : x = Dealt(p, k)[i]
<1> DEFINE u == used[p][k]
           o == order[p][k]
<1>1. u \in Seq(Correlation) /\ o \in Seq(Correlation)
  BY DEF PoolsType
<1>2. x \in ToSet(u) \/ x \in ToSet(o)
  BY DEF Items
<1> HIDE DEF u, o
<1>3. /\ u \o o \in Seq(Correlation) /\ Len(u \o o) = Len(u) + Len(o)
      /\ DOMAIN (u \o o) = 1..(Len(u) + Len(o))
      /\ Len(u) \in Nat /\ Len(o) \in Nat
      /\ DOMAIN u = 1..Len(u) /\ DOMAIN o = 1..Len(o)
      /\ \A i \in 1..(Len(u) + Len(o)) :
            (u \o o)[i] = IF i <= Len(u) THEN u[i] ELSE o[i - Len(u)]
  BY <1>1, ConcatProperties, LenProperties
<1>4. \E i \in DOMAIN (u \o o) : x = (u \o o)[i]
  <2>1. CASE x \in ToSet(u)
    <3>1. PICK i \in 1..Len(u) : x = u[i]
      BY <1>3, <2>1 DEF ToSet
    <3>2. i \in DOMAIN (u \o o) /\ (u \o o)[i] = x
      BY <1>3, <3>1
    <3> QED BY <3>2
  <2>2. CASE x \in ToSet(o)
    <3>1. PICK i \in 1..Len(o) : x = o[i]
      BY <1>3, <2>2 DEF ToSet
    <3>2. Len(u) + i \in DOMAIN (u \o o) /\ (u \o o)[Len(u) + i] = x
      BY <1>3, <3>1
    <3> QED BY <3>2
  <2> QED BY <1>2, <2>1, <2>2
<1>5. x \in Correlation
  BY <1>3, <1>4, ElementOfSeq
<1> QED BY <1>4, <1>5 DEF Dealt, u, o

\* Two parties that wait for nothing more have the same in their pools.
LEMMA EqualPools ==
    ASSUME PoolsInv, \A p \in Party : want[p] = Zero
    PROVE  order["R"] = order["S"] /\ used["R"] = used["S"]
<1>1. "R" \in Party /\ "S" \in Party
  BY DEF Party
<1>2. ASSUME NEW k \in Kind
      PROVE  order["R"][k] = order["S"][k] /\ used["R"][k] = used["S"][k]
  <2>1. /\ used["R"][k] \in Seq(Correlation) /\ used["S"][k] \in Seq(Correlation)
        /\ order["R"][k] \in Seq(Correlation) /\ order["S"][k] \in Seq(Correlation)
    BY <1>1 DEF PoolsInv, PoolsType
  <2>2. want["R"][k] = 0 /\ want["S"][k] = 0
    BY <1>1 DEF Zero
  <2>3. Len(used["R"][k]) = Len(used["S"][k])
    BY <2>1, <2>2, LenProperties DEF PoolsInv, Alike
  <2>4. used["R"][k] \o order["R"][k] = used["S"][k] \o order["S"][k]
    BY DEF PoolsInv, Alike, Dealt
  <2> DEFINE a == used["R"][k]
             b == order["R"][k]
             c == used["S"][k]
             d == order["S"][k]
  <2>5. /\ a \in Seq(Correlation) /\ b \in Seq(Correlation)
        /\ c \in Seq(Correlation) /\ d \in Seq(Correlation)
        /\ a \o b = c \o d /\ Len(a) = Len(c)
    BY <2>1, <2>3, <2>4
  <2>6. a = c /\ b = d
    <3> HIDE DEF a, b, c, d
    <3> QED BY <2>5, ConcatCancel
  <2> QED BY <2>6
<1> QED BY <1>1, <1>2 DEF PoolsInv, PoolsType

LEMMA PhaseIn ==
    ASSUME NEW left \in [Kind -> Nat], NEW then
    PROVE  /\ Phase(left, then) \in Kind \cup {then}
           /\ Phase(left, then) \notin Kind => left = Zero
<1>1. CASE left["triples"] > 0
  BY <1>1 DEF Phase, Kind
<1>2. CASE left["triples"] = 0 /\ left["gates"] > 0
  BY <1>2 DEF Phase, Kind
<1>3. CASE left["triples"] = 0 /\ left["gates"] = 0
  <2>1. left = Zero
    BY <1>3 DEF Kind, Zero
  <2>2. Phase(left, then) = then
    BY <1>3, <2>1 DEF Phase
  <2> QED BY <2>1, <2>2
<1> QED BY <1>1, <1>2, <1>3 DEF Kind

\* What call a party is in, by where it is.
LEMMA Calls ==
    ASSUME NEW p, InCall(p), leg[p] \in 1..3
    PROVE  /\ Call(p).what = "base" <=> pc[p] = "base"
           /\ Call(p).what = "extend" <=> pc[p] \in Kind /\ leg[p] # 3
           /\ \A k \in Kind : Call(p).what = k <=> pc[p] = k /\ leg[p] = 3
BY DEF InCall, Call, Kind

LEMMA Meeting ==
    ASSUME PoolsInv, Meet
    PROVE  /\ pc["R"] = pc["S"] /\ \A p \in Party : pc[p] = pc["R"] /\ leg[p] = leg["R"]
           /\ \A p \in Party : InCall(p) /\ leg[p] \in 1..3
<1>1. \A p \in Party : InCall(p) /\ leg[p] \in 1..3 /\ pc[p] \in {"base"} \cup Kind
  BY DEF Meet, PoolsInv, PoolsType, InCall
<1>2. pc["R"] = pc["S"]
  BY <1>1 DEF PoolsInv, InStep, Party, Kind
<1> QED BY <1>1, <1>2 DEF PoolsInv, Alike, Party

-------------------------------------------------------------------------------
(* The steps.                                                                *)

\* What a step that neither makes nor takes a correlation keeps.
LEMMA Undealt ==
    ASSUME PoolsInv, UNCHANGED <<order, used, next, dealt>>
    PROVE  /\ Numbered'
           /\ \A p \in Party, k \in Kind : Dealt(p, k)' = Dealt(p, k)
BY DEF PoolsInv, Numbered, Dealt

\* A step in which some parties do nothing but stop.
LEMMA StopPools ==
    ASSUME PoolsInv, NEW p \in Party, pc' = [pc EXCEPT ![p] = "stopped"],
           UNCHANGED <<leg, need, order, used, next, want, target, dealt, queries>>
    PROVE  PoolsInv'
<1>1. pc'[p] = "stopped" /\ \A q \in Party : pc'[q] = pc[q] \/ pc'[q] = "stopped"
  BY DEF PoolsInv, PoolsType
<1>2. PoolsType' /\ InStep'
  BY <1>1 DEF PoolsInv, PoolsType, Control, InStep
<1>3. Numbered' /\ Alike'
  BY Undealt DEF PoolsInv, Alike, Party
<1>4. \A q \in Party : Filling(q)'
  BY <1>1 DEF PoolsInv, Filling, Kind
<1> QED BY <1>2, <1>3, <1>4 DEF PoolsInv

LEMMA BaseOtsPools ==
    ASSUME PoolsInv, BaseOts
    PROVE  PoolsInv'
<1>1. \A p \in Party : pc[p] = "base" /\ leg[p] = leg["R"] /\ leg[p] \in 1..2
  BY Meeting, Calls DEF BaseOts, PoolsInv, Filling, Party
<1>2. /\ UNCHANGED <<need, order, used, next, want, target, dealt, queries>>
      /\ \E n \in {1, 2} : leg' = Both(n)
      /\ \/ UNCHANGED pc
         \/ pc' = [p \in Party |-> Phase(need[p], AfterFill)] /\ leg' = Both(1)
  BY DEF BaseOts
<1>3. \A p \in Party : pc'[p] \in {"base", "ready", "filled"} \cup Kind
  <2>1. \A p \in Party : need[p] \in [Kind -> Nat]
    BY DEF PoolsInv, PoolsType
  <2> QED BY <1>1, <1>2, <2>1, PhaseIn DEF AfterFill
<1>4. "R" \in Party /\ "S" \in Party
  BY DEF Party
<1>5. pc'["R"] = pc'["S"] /\ pc' \in [Party -> Control]
  <2>1. need["R"] = need["S"]
    BY DEF PoolsInv, Alike
  <2>2. pc'["R"] = pc'["S"]
    BY <1>1, <1>2, <1>4, <2>1
  <2>3. pc' \in [Party -> Control]
    BY <1>2, <1>3 DEF PoolsInv, PoolsType, Control
  <2> QED BY <2>2, <2>3
<1>6. PoolsType' /\ InStep'
  <2>1. leg' \in [Party -> 1..3]
    BY <1>2 DEF Both
  <2> QED BY <1>2, <1>5, <2>1 DEF PoolsInv, PoolsType, InStep
<1>7. Numbered' /\ Alike'
  BY <1>2, <1>4, Undealt DEF PoolsInv, Alike, Both
<1>8. ASSUME NEW p \in Party PROVE Filling(p)'
  <2>1. pc[p] = "base" /\ want[p] = Zero /\ target = 0
    BY <1>1 DEF PoolsInv, Filling
  <2>2. pc'[p] = "filled" => need[p] = Zero
    <3>1. need[p] \in [Kind -> Nat]
      BY DEF PoolsInv, PoolsType
    <3> QED BY <1>2, <2>1, <3>1, PhaseIn DEF AfterFill, Kind
  <2>3. \A k \in Kind : Len(order[p][k]) + need[p][k] >= PerEvaluation[k] * target
    <3>1. ASSUME NEW k \in Kind PROVE PerEvaluation[k] * target = 0
      BY <2>1, <3>1, PoolsAssumption
    <3>2. \A k \in Kind : Len(order[p][k]) \in Nat /\ need[p][k] \in Nat
      BY LenProperties DEF PoolsInv, PoolsType
    <3> QED BY <3>1, <3>2
  <2>4. leg'[p] # 3
    BY <1>2 DEF Both
  <2> QED BY <1>2, <2>1, <2>2, <2>3, <2>4 DEF Filling
<1> QED BY <1>6, <1>7, <1>8 DEF PoolsInv

LEMMA ExtendPools ==
    ASSUME PoolsInv, Extend
    PROVE  PoolsInv'
<1>1. \A p \in Party : pc[p] \in Kind /\ leg[p] = leg["R"] /\ leg[p] \in 1..2
  BY Meeting, Calls DEF Extend, Party
<1>2. /\ UNCHANGED <<pc, need, order, used, next, want, target, dealt, queries>>
      /\ \A p \in Party : leg'[p] = leg[p] + 1
      /\ leg' \in [Party -> 1..3]
  BY <1>1 DEF Extend
<1>3. PoolsType' /\ InStep'
  BY <1>2 DEF PoolsInv, PoolsType, InStep
<1>4. Numbered' /\ Alike'
  BY <1>1, <1>2, Undealt DEF PoolsInv, Alike, Party
<1>5. \A p \in Party : Filling(p)'
  BY <1>1, <1>2 DEF PoolsInv, Filling, Kind
<1> QED BY <1>3, <1>4, <1>5 DEF PoolsInv

LEMMA RefillPools ==
    ASSUME PoolsInv, Refill
    PROVE  PoolsInv'
<1>1. /\ \A p \in Party : pc[p] = "ready"
      /\ leg' = Both(1)
      /\ UNCHANGED <<order, used, next, want, dealt>>
      /\ queries' = queries + 1
      /\ "R" \in Party /\ "S" \in Party
  BY DEF Refill, Party
<1>2. PICK t \in Targets :
         /\ target' = t
         /\ need' = [p \in Party |-> [k \in Kind |-> Needed(p, k, PerEvaluation[k] * t)]]
         /\ pc' = [p \in Party |-> Phase(need'[p], "filled")]
  BY DEF Refill
<1>3. \A p \in Party : want[p] = Zero
  BY <1>1 DEF PoolsInv, Filling
<1>4. ASSUME NEW p \in Party, NEW k \in Kind
      PROVE  /\ PerEvaluation[k] * t \in Nat
             /\ Len(order[p][k]) \in Nat
             /\ Needed(p, k, PerEvaluation[k] * t) \in Nat
             /\ Len(order[p][k]) + Needed(p, k, PerEvaluation[k] * t) >= PerEvaluation[k] * t
  <2>1. order[p][k] \in Seq(Correlation)
    BY DEF PoolsInv, PoolsType
  <2>2. Len(order[p][k]) \in Nat
    BY <2>1, LenProperties
  <2>3. PerEvaluation[k] \in Nat /\ t \in Nat
    BY PoolsAssumption
  <2>4. PerEvaluation[k] * t \in Nat
    BY <2>3
  <2> DEFINE goal == PerEvaluation[k] * t
             have == Len(order[p][k])
  <2>5. Needed(p, k, goal) = IF have >= goal THEN 0 ELSE goal - have
    BY DEF Needed
  <2> HIDE DEF goal, have
  <2>6. goal \in Nat /\ have \in Nat
    BY <2>2, <2>4 DEF goal, have
  <2>7. Needed(p, k, goal) \in Nat /\ have + Needed(p, k, goal) >= goal
    BY <2>5, <2>6
  <2> QED BY <2>6, <2>7 DEF goal, have
<1>5. need' \in [Party -> [Kind -> Nat]]
  BY <1>2, <1>4
<1>6. /\ \A p \in Party : pc'[p] \in Kind \cup {"filled"}
      /\ \A p \in Party : pc'[p] = "filled" => need'[p] = Zero
  <2>1. ASSUME NEW p \in Party
        PROVE  /\ Phase(need'[p], "filled") \in Kind \cup {"filled"}
               /\ Phase(need'[p], "filled") \notin Kind => need'[p] = Zero
    BY <1>5, PhaseIn
  <2>2. \A p \in Party : pc'[p] = Phase(need'[p], "filled")
    BY <1>2
  <2>3. "filled" \notin Kind
    BY DEF Kind
  <2> QED BY <2>1, <2>2, <2>3
<1>7. need'["R"] = need'["S"]
  <2>1. order["R"] = order["S"]
    BY <1>3, EqualPools
  <2>2. \A k \in Kind : Needed("R", k, PerEvaluation[k] * t) = Needed("S", k, PerEvaluation[k] * t)
    BY <2>1 DEF Needed
  <2> QED BY <1>1, <1>2, <2>2
<1>8. pc'["R"] = pc'["S"] /\ pc' \in [Party -> Control]
  <2>1. pc'["R"] = pc'["S"]
    BY <1>1, <1>2, <1>7
  <2>2. pc' \in [Party -> Control]
    BY <1>2, <1>6 DEF Control
  <2> QED BY <2>1, <2>2
<1>9. PoolsType' /\ InStep'
  <2>1. {target, dealt, queries}' \subseteq Nat
    BY <1>1, <1>2, PoolsAssumption DEF PoolsInv, PoolsType
  <2> QED BY <1>1, <1>5, <1>8, <2>1 DEF PoolsInv, PoolsType, InStep, Both
<1>10. Numbered' /\ Alike'
  BY <1>1, <1>7, Undealt DEF PoolsInv, Alike, Both
<1>11. ASSUME NEW p \in Party PROVE Filling(p)'
  <2>1. pc'[p] \in Kind \cup {"filled"} /\ want'[p] = Zero
    BY <1>1, <1>3, <1>6
  <2>2. \A k \in Kind : Len(order'[p][k]) + need'[p][k] >= PerEvaluation[k] * target'
    BY <1>1, <1>2, <1>4
  <2> QED BY <1>6, <2>1, <2>2 DEF Filling, Kind
<1> QED BY <1>9, <1>10, <1>11 DEF PoolsInv

LEMMA BeginEvaluationPools ==
    ASSUME PoolsInv, BeginEvaluation
    PROVE  PoolsInv'
<1>1. /\ \A p \in Party : pc[p] = "filled"
      /\ UNCHANGED <<leg, need, order, used, next, target, dealt, queries>>
      /\ "R" \in Party /\ "S" \in Party
  BY DEF BeginEvaluation, Party
<1>2. PICK n \in 0..target :
         /\ want' = Both([k \in Kind |-> PerEvaluation[k] * n])
         /\ pc' = [p \in Party |->
                IF \E k \in Kind : Len(order[p][k]) < want'[p][k] THEN "stopped"
                ELSE IF n = 0 THEN "ready" ELSE "taking"]
  BY DEF BeginEvaluation
<1>3. order["R"] = order["S"] /\ used["R"] = used["S"]
  BY <1>1, EqualPools DEF PoolsInv, Filling
<1>4. /\ \A p \in Party : want'[p] = [k \in Kind |-> PerEvaluation[k] * n]
      /\ \A k \in Kind : PerEvaluation[k] * n \in Nat
      /\ n = 0 => \A k \in Kind : PerEvaluation[k] * n = 0
  <2>1. \A p \in Party : want'[p] = [k \in Kind |-> PerEvaluation[k] * n]
    BY <1>2 DEF Both
  <2>2. target \in Nat
    BY DEF PoolsInv, PoolsType
  <2>3. n \in Nat
    BY <2>2
  <2>4. ASSUME NEW k \in Kind
        PROVE  PerEvaluation[k] * n \in Nat /\ (n = 0 => PerEvaluation[k] * n = 0)
    <3>1. PerEvaluation[k] \in Nat
      BY PoolsAssumption
    <3> QED BY <2>3, <3>1
  <2> QED BY <2>1, <2>4
<1>5. /\ pc'["R"] = pc'["S"]
      /\ \A p \in Party : pc'[p] \in {"stopped", "ready", "taking"}
      /\ \A p \in Party : pc'[p] = "ready" => n = 0
  BY <1>1, <1>2, <1>3, <1>4
<1>6. PoolsType' /\ InStep'
  <2>1. want' \in [Party -> [Kind -> Nat]]
    BY <1>2, <1>4 DEF Both
  <2>2. pc' \in [Party -> Control]
    BY <1>2, <1>5 DEF Control
  <2> QED BY <1>1, <1>5, <2>1, <2>2 DEF PoolsInv, PoolsType, InStep
<1>7. Numbered' /\ Alike'
  BY <1>1, <1>3, <1>4, Undealt DEF PoolsInv, Alike
<1>8. ASSUME NEW p \in Party PROVE Filling(p)'
  <2>1. pc'[p] = "ready" => want'[p] = Zero
    BY <1>4, <1>5 DEF Zero
  <2> QED BY <1>5, <2>1 DEF Filling, Kind
<1> QED BY <1>6, <1>7, <1>8 DEF PoolsInv

LEMMA TakePools ==
    ASSUME PoolsInv, NEW p \in Party, NEW k \in Kind, Take(p, k)
    PROVE  PoolsInv'
<1> DEFINE u == used[p][k]
           o == order[p][k]
<1>1. u \in Seq(Correlation) /\ o \in Seq(Correlation)
  BY DEF PoolsInv, PoolsType
<1>2. o # <<>> /\ pc[p] = "taking" /\ want[p][k] > 0
  BY DEF Take
<1>3. /\ UNCHANGED <<leg, need, next, target, dealt, queries>>
      /\ order' = [order EXCEPT ![p][k] = Tail(o)]
      /\ used' = [used EXCEPT ![p][k] = Append(u, Head(o))]
      /\ want' = [want EXCEPT ![p][k] = want[p][k] - 1]
      /\ pc' = [pc EXCEPT ![p] = IF want'[p] = Zero THEN "ready" ELSE pc[p]]
  BY DEF Take
<1>4. /\ Tail(o) \in Seq(Correlation) /\ Append(u, Head(o)) \in Seq(Correlation)
      /\ Len(Append(u, Head(o))) = Len(u) + 1
      /\ Append(u, Head(o)) \o Tail(o) = u \o o
      /\ Len(u) \in Nat
  <2> HIDE DEF u, o
  <2> QED BY <1>1, <1>2, TakeOne, LenProperties
<1> HIDE DEF u, o
<1>5. /\ order'[p][k] = Tail(o) /\ used'[p][k] = Append(u, Head(o))
      /\ want'[p][k] = want[p][k] - 1
      /\ \A q \in Party, l \in Kind : q # p \/ l # k =>
            order'[q][l] = order[q][l] /\ used'[q][l] = used[q][l] /\ want'[q][l] = want[q][l]
      /\ \A q \in Party : q # p => want'[q] = want[q]
  <2>1. /\ order \in [Party -> [Kind -> Seq(Correlation)]]
        /\ used \in [Party -> [Kind -> Seq(Correlation)]]
        /\ want \in [Party -> [Kind -> Nat]]
    BY DEF PoolsInv, PoolsType
  <2>2. /\ order'[p][k] = Tail(o)
        /\ \A q \in Party, l \in Kind : q # p \/ l # k => order'[q][l] = order[q][l]
    BY <1>3, <2>1
  <2>3. /\ used'[p][k] = Append(u, Head(o))
        /\ \A q \in Party, l \in Kind : q # p \/ l # k => used'[q][l] = used[q][l]
    BY <1>3, <2>1
  <2>4. /\ want'[p][k] = want[p][k] - 1
        /\ \A q \in Party, l \in Kind : q # p \/ l # k => want'[q][l] = want[q][l]
        /\ \A q \in Party : q # p => want'[q] = want[q]
    BY <1>3, <2>1
  <2> QED BY <2>2, <2>3, <2>4
<1>6. PoolsType'
  <2>1. /\ order' \in [Party -> [Kind -> Seq(Correlation)]]
        /\ used' \in [Party -> [Kind -> Seq(Correlation)]]
    BY <1>3, <1>4 DEF PoolsInv, PoolsType
  <2>2. want' \in [Party -> [Kind -> Nat]]
    <3>1. want \in [Party -> [Kind -> Nat]]
      BY DEF PoolsInv, PoolsType
    <3>2. want[p][k] - 1 \in Nat
      BY <1>2, <3>1
    <3> QED BY <1>3, <3>1, <3>2
  <2>3. pc' \in [Party -> Control]
    BY <1>2, <1>3 DEF PoolsInv, PoolsType, Control
  <2> QED BY <1>3, <2>1, <2>2, <2>3 DEF PoolsInv, PoolsType
<1>7. /\ pc'[p] \in {"ready", "taking"} /\ (pc'[p] = "ready" => want'[p] = Zero)
      /\ \A q \in Party : q # p => pc'[q] = pc[q]
  BY <1>2, <1>3 DEF PoolsInv, PoolsType
<1>8. InStep'
  BY <1>2, <1>7 DEF PoolsInv, InStep, Party
<1>9. \A q \in Party, l \in Kind : Dealt(q, l)' = Dealt(q, l)
  BY <1>4, <1>5 DEF Dealt, u, o
<1>10. Numbered'
  BY <1>3, <1>9 DEF PoolsInv, Numbered
<1>11. \A q \in Party, l \in Kind :
          Len(used'[q][l]) + want'[q][l] = Len(used[q][l]) + want[q][l]
  <2>1. \A q \in Party, l \in Kind : want[q][l] \in Nat
    BY DEF PoolsInv, PoolsType
  <2>2. Len(used'[p][k]) + want'[p][k] = Len(used[p][k]) + want[p][k]
    BY <1>4, <1>5, <2>1 DEF u
  <2> QED BY <1>5, <2>2
<1>12. Alike'
  BY <1>3, <1>9, <1>11 DEF PoolsInv, Alike, Party
<1>13. ASSUME NEW q \in Party PROVE Filling(q)'
  <2>1. CASE q = p
    BY <1>7, <2>1 DEF Filling, Kind
  <2>2. CASE q # p
    <3>1. order'[q] = order[q]
      BY <1>3, <2>2 DEF PoolsInv, PoolsType
    <3>2. pc'[q] = pc[q] /\ want'[q] = want[q]
      BY <1>5, <1>7, <2>2
    <3> QED BY <1>3, <3>1, <3>2 DEF PoolsInv, Filling
  <2> QED BY <2>1, <2>2
<1> QED BY <1>6, <1>8, <1>10, <1>12, <1>13 DEF PoolsInv

\* What a batch of n, of which the first has number m, adds to a pool.
Made(m, n) == [i \in 1..n |-> [id |-> m + i - 1, item |-> m + i]]

LEMMA MadeSequence ==
    ASSUME NEW m \in Nat, NEW n \in Nat
    PROVE  /\ Made(m, n) \in Seq(Correlation) /\ Len(Made(m, n)) = n
           /\ \A i \in 1..n : Made(m, n)[i].item = Made(m, n)[i].id + 1
<1>1. \A i \in 1..n : [id |-> m + i - 1, item |-> m + i] \in Correlation
  BY DEF Correlation
<1>2. Made(m, n) \in [1..n -> Correlation]
  BY <1>1 DEF Made
<1>3. Made(m, n) \in Seq(Correlation) /\ Len(Made(m, n)) = n
  BY <1>2
<1>4. \A i \in 1..n : Made(m, n)[i].item = Made(m, n)[i].id + 1
  BY DEF Made
<1> QED BY <1>3, <1>4

LEMMA MakePools ==
    ASSUME PoolsInv, NEW k \in Kind, Make(k)
    PROVE  PoolsInv'
<1> DEFINE n == Batch("R", k)
           made == Made(dealt, n)
           left(p) == [need[p] EXCEPT ![k] = @ - n]
<1>1. "R" \in Party /\ "S" \in Party
  BY DEF Party
<1>2. \A p \in Party : pc[p] = k /\ leg[p] = 3
  BY <1>1, Meeting, Calls DEF Make
<1>3. /\ UNCHANGED <<used, want, target, queries>>
      /\ need' = [p \in Party |-> left(p)]
      /\ next' = [p \in Party |-> next[p] + n]
      /\ leg' = Both(1)
      /\ dealt' = dealt + n
      /\ order' = [p \in Party |-> [order[p] EXCEPT ![k] = @ \o made]]
      /\ \A p \in Party : pc'[p] \in {"stopped", Phase(left(p), AfterFill)}
      /\ pc' \in [Party -> {pc'[p] : p \in Party}]
  <2>1. \A p \in Party : next[p] = dealt
    BY DEF PoolsInv, Numbered
  <2>2. \A p \in Party :
           [i \in 1..n |-> [id |-> NextNumber(p, k) + i - 1, item |-> dealt + i]] = made
    BY <2>1 DEF NextNumber, Made
  <2> QED BY <2>2 DEF Make
<1>4. /\ n \in Nat /\ dealt \in Nat
      /\ \A p \in Party : need[p][k] - n \in Nat
  <2>1. \A p \in Party : need[p] \in [Kind -> Nat] /\ need[p] = need["R"]
    BY DEF PoolsInv, PoolsType, Alike, Party
  <2>2. n \in Nat /\ n <= need["R"][k]
    BY <1>1, <2>1, PoolsAssumption DEF Batch, AtMost
  <2>3. dealt \in Nat
    BY DEF PoolsInv, PoolsType
  <2>4. \A p \in Party : need[p][k] = need["R"][k] /\ need[p][k] \in Nat
    BY <2>1
  <2> QED BY <2>2, <2>3, <2>4
<1>5. /\ made \in Seq(Correlation) /\ Len(made) = n
      /\ \A i \in 1..n : made[i].item = made[i].id + 1
  BY <1>4, MadeSequence
<1> HIDE DEF n, made
<1>6. ASSUME NEW p \in Party
      PROVE  /\ order[p][k] \o made \in Seq(Correlation)
             /\ Len(order[p][k] \o made) = Len(order[p][k]) + n
             /\ Len(order[p][k]) \in Nat
             /\ used[p][k] \o (order[p][k] \o made) = Dealt(p, k) \o made
             /\ Dealt(p, k) \in Seq(Correlation)
  <2> DEFINE u == used[p][k]
             o == order[p][k]
  <2>1. u \in Seq(Correlation) /\ o \in Seq(Correlation)
    BY DEF PoolsInv, PoolsType
  <2>2. Dealt(p, k) = u \o o
    BY DEF Dealt
  <2> HIDE DEF u, o
  <2>3. o \o made \in Seq(Correlation) /\ Len(o \o made) = Len(o) + Len(made)
    BY <1>5, <2>1, ConcatProperties
  <2>4. u \o o \in Seq(Correlation) /\ Len(o) \in Nat
    BY <2>1, ConcatProperties, LenProperties
  <2>5. (u \o o) \o made = u \o (o \o made)
    BY <1>5, <2>1, ConcatAssociative
  <2> QED BY <1>5, <2>2, <2>3, <2>4, <2>5 DEF u, o
<1>7. /\ \A p \in Party : left(p) \in [Kind -> Nat]
      /\ left("R") = left("S")
  <2>1. \A p \in Party : need[p] \in [Kind -> Nat] /\ need[p] = need["R"]
    BY DEF PoolsInv, PoolsType, Alike, Party
  <2> QED BY <1>1, <1>4, <2>1
<1>8. ASSUME NEW p \in Party
      PROVE  /\ pc'[p] \in Kind \cup {"ready", "filled", "stopped"}
             /\ pc'[p] \in {"ready", "filled"} => left(p) = Zero
  <2> DEFINE then == AfterFill
             x == left(p)
  <2>1. then \in {"ready", "filled"}
    BY DEF AfterFill
  <2>2. x \in [Kind -> Nat] /\ pc'[p] \in {"stopped", Phase(x, then)}
    BY <1>3, <1>7
  <2> HIDE DEF then, x
  <2>3. Phase(x, then) \in Kind \cup {then} /\ (Phase(x, then) \notin Kind => x = Zero)
    BY <2>2, PhaseIn
  <2>4. x = left(p)
    BY DEF x
  <2> QED BY <2>1, <2>2, <2>3, <2>4 DEF Kind
<1>9. PoolsType'
  <2>1. pc' \in [Party -> Control]
    BY <1>3, <1>8 DEF Control
  <2>2. order' \in [Party -> [Kind -> Seq(Correlation)]]
    BY <1>3, <1>6 DEF PoolsInv, PoolsType
  <2>3. need' \in [Party -> [Kind -> Nat]]
    BY <1>3, <1>7
  <2>4. next' \in [Party -> Nat] /\ dealt' \in Nat /\ leg' \in [Party -> 1..3]
    <3>1. next \in [Party -> Nat]
      BY DEF PoolsInv, PoolsType
    <3>2. next' \in [Party -> Nat]
      <4>1. \A p \in Party : next[p] + n \in Nat
        BY <1>4, <3>1
      <4>2. next' = [p \in Party |-> next[p] + n]
        BY <1>3
      <4> QED BY <4>1, <4>2
    <3>3. dealt' \in Nat
      BY <1>3, <1>4
    <3>4. leg' \in [Party -> 1..3]
      BY <1>3 DEF Both
    <3> QED BY <3>2, <3>3, <3>4
  <2> QED BY <1>3, <2>1, <2>2, <2>3, <2>4 DEF PoolsInv, PoolsType
<1>10. InStep'
  <2>1. Phase(left("R"), AfterFill) = Phase(left("S"), AfterFill)
    BY <1>7
  <2> HIDE DEF left
  <2> QED BY <1>1, <1>3, <2>1 DEF InStep
<1>11. \A p \in Party, l \in Kind :
          Dealt(p, l)' = IF l = k THEN Dealt(p, l) \o made ELSE Dealt(p, l)
  <2>1. ASSUME NEW p \in Party, NEW l \in Kind
        PROVE  order'[p][l] = IF l = k THEN order[p][l] \o made ELSE order[p][l]
    BY <1>3 DEF PoolsInv, PoolsType
  <2>2. ASSUME NEW p \in Party, NEW l \in Kind
        PROVE  Dealt(p, l)' = IF l = k THEN Dealt(p, l) \o made ELSE Dealt(p, l)
    <3>1. Dealt(p, l)' = used[p][l] \o order'[p][l]
      BY <1>3 DEF Dealt
    <3>2. CASE l = k
      BY <1>6, <2>1, <3>1, <3>2
    <3>3. CASE l # k
      BY <2>1, <3>1, <3>3 DEF Dealt
    <3> QED BY <3>2, <3>3
  <2> QED BY <2>2
<1>12. Numbered'
  <2>1. \A p \in Party : next'[p] = dealt'
    BY <1>3 DEF PoolsInv, Numbered
  <2>2. ASSUME NEW p \in Party, NEW i \in DOMAIN (Dealt(p, k) \o made)
        PROVE  (Dealt(p, k) \o made)[i].item = (Dealt(p, k) \o made)[i].id + 1
    <3> DEFINE d == Dealt(p, k)
    <3>1. d \in Seq(Correlation) /\ \A j \in DOMAIN d : d[j].item = d[j].id + 1
      BY <1>6 DEF PoolsInv, Numbered
    <3>2. i \in DOMAIN (d \o made)
      BY <2>2
    <3> HIDE DEF d
    <3>3. /\ i \in 1..(Len(d) + n) /\ Len(d) \in Nat
          /\ DOMAIN d = 1..Len(d)
          /\ (d \o made)[i] = IF i <= Len(d) THEN d[i] ELSE made[i - Len(d)]
      BY <1>5, <3>1, <3>2, ConcatProperties, LenProperties
    <3>4. (d \o made)[i].item = (d \o made)[i].id + 1
      <4>1. CASE i <= Len(d)
        <5>1. i \in DOMAIN d /\ (d \o made)[i] = d[i]
          BY <3>3, <4>1
        <5> QED BY <3>1, <5>1
      <4>2. CASE ~(i <= Len(d))
        <5>1. i - Len(d) \in 1..n /\ (d \o made)[i] = made[i - Len(d)]
          BY <1>4, <3>3, <4>2
        <5> QED BY <1>5, <5>1
      <4> QED BY <4>1, <4>2
    <3> QED BY <3>4 DEF d
  <2>3. ASSUME NEW p \in Party, NEW l \in Kind, NEW i \in DOMAIN (Dealt(p, l)')
        PROVE  (Dealt(p, l)')[i].item = (Dealt(p, l)')[i].id + 1
    <3>1. CASE l = k
      BY <1>11, <2>2, <2>3, <3>1
    <3>2. CASE l # k
      BY <1>11, <2>3, <3>2 DEF PoolsInv, Numbered
    <3> QED BY <3>1, <3>2
  <2> QED BY <2>1, <2>3 DEF Numbered
<1>13. Alike'
  <2>1. leg'["R"] = leg'["S"] /\ need'["R"] = need'["S"]
    BY <1>1, <1>3, <1>7 DEF Both
  <2>2. \A l \in Kind : Dealt("R", l)' = Dealt("S", l)'
    BY <1>1, <1>11 DEF PoolsInv, Alike
  <2> QED BY <1>3, <2>1, <2>2 DEF PoolsInv, Alike
<1>14. ASSUME NEW p \in Party PROVE Filling(p)'
  <2>1. want[p] = Zero /\ \A l \in Kind : Len(order[p][l]) + need[p][l] >= PerEvaluation[l] * target
    BY <1>2 DEF PoolsInv, Filling, Kind
  <2>2. ASSUME NEW l \in Kind
        PROVE  Len(order'[p][l]) + need'[p][l] = Len(order[p][l]) + need[p][l]
    <3>1. CASE l = k
      <4>1. order'[p][l] = order[p][l] \o made /\ need'[p][l] = need[p][l] - n
        BY <1>3, <3>1 DEF PoolsInv, PoolsType
      <4>2. need[p][l] \in Nat
        BY DEF PoolsInv, PoolsType
      <4>3. Len(order'[p][l]) = Len(order[p][l]) + n /\ Len(order[p][l]) \in Nat
        BY <1>6, <3>1, <4>1
      <4>4. need'[p][l] = need[p][l] - n
        BY <4>1
      <4> HIDE DEF left
      <4> QED BY <1>4, <4>2, <4>3, <4>4
    <3>2. CASE l # k
      BY <1>3, <3>2 DEF PoolsInv, PoolsType
    <3> QED BY <3>1, <3>2
  <2>3. pc'[p] = "filled" => need'[p] = Zero
    BY <1>3, <1>8
  <2> QED BY <1>3, <1>8, <2>1, <2>2, <2>3 DEF Filling, Kind
<1> QED BY <1>9, <1>10, <1>12, <1>13, <1>14 DEF PoolsInv

-------------------------------------------------------------------------------
(* The invariant and what it gives.                                          *)

LEMMA PoolsInit == Init => PoolsInv
<1> SUFFICES ASSUME Init PROVE PoolsInv
  OBVIOUS
<1>1. /\ \A p \in Party : pc[p] = "base" /\ leg[p] = 1 /\ next[p] = 0 /\ want[p] = Zero
      /\ \A p \in Party, k \in Kind : order[p][k] = <<>> /\ used[p][k] = <<>>
      /\ target = 0 /\ dealt = 0 /\ queries = 0
      /\ "R" \in Party /\ "S" \in Party
  BY DEF Init, Both, Party
<1>2. /\ need \in [Party -> [Kind -> Nat]] /\ need["R"] = need["S"]
  BY PoolsAssumption, <1>1 DEF Init, Both
<1>3. <<>> \in Seq(Correlation) /\ <<>> \o <<>> = <<>> /\ DOMAIN <<>> = {}
  OBVIOUS
<1>4. \A p \in Party, k \in Kind : Dealt(p, k) = <<>>
  BY <1>1, <1>3 DEF Dealt
<1>5. PoolsType
  BY <1>2, <1>3 DEF Init, PoolsType, Both, Zero, Control
<1>6. Numbered
  BY <1>1, <1>3, <1>4 DEF Numbered
<1>7. Alike
  BY <1>1, <1>2, <1>4 DEF Alike
<1>8. InStep /\ \A p \in Party : Filling(p)
  BY <1>1 DEF InStep, Filling, Kind
<1> QED BY <1>5, <1>6, <1>7, <1>8 DEF PoolsInv

LEMMA PoolsStep == PoolsInv /\ [Next]_vars => PoolsInv'
<1> SUFFICES ASSUME PoolsInv, [Next]_vars PROVE PoolsInv'
  OBVIOUS
<1>1. CASE BaseOts
  BY <1>1, BaseOtsPools
<1>2. CASE Extend
  BY <1>2, ExtendPools
<1>3. CASE Refill
  BY <1>3, RefillPools
<1>4. CASE BeginEvaluation
  BY <1>4, BeginEvaluationPools
<1>5. ASSUME NEW k \in Kind, Make(k) PROVE PoolsInv'
  BY <1>5, MakePools
<1>6. ASSUME NEW p \in Party, Fail(p) \/ PeerGone(p) PROVE PoolsInv'
  BY <1>6, StopPools DEF Fail, PeerGone
<1>7. ASSUME NEW p \in Party, NEW k \in Kind, Take(p, k) PROVE PoolsInv'
  BY <1>7, TakePools
<1>8. CASE Rest \/ UNCHANGED vars
  <2>1. UNCHANGED vars
    BY <1>8 DEF Rest
  <2> QED BY <2>1 DEF vars, PoolsInv, PoolsType, InStep, Alike, Numbered, Filling, Dealt
<1> QED BY <1>1, <1>2, <1>3, <1>4, <1>5, <1>6, <1>7, <1>8 DEF Next

THEOREM PoolsInvariant == Spec => []PoolsInv
<1> QED BY PoolsInit, PoolsStep, PTL DEF Spec

LEMMA OppositeWays ==
    /\ Opposite("send") = "recv" /\ Opposite("recv") = "send" /\ Opposite("both") = "both"
    /\ \A i \in 1..2 :
          /\ BaseWays("R")[i] = Opposite(BaseWays("S")[i])
          /\ ExtendWays("R")[i] = Opposite(ExtendWays("S")[i])
<1>1. Opposite("send") = "recv" /\ Opposite("recv") = "send" /\ Opposite("both") = "both"
  BY DEF Opposite
<1>2. /\ BaseWays("R")[1] = "send" /\ BaseWays("R")[2] = "recv"
      /\ BaseWays("S")[1] = "recv" /\ BaseWays("S")[2] = "send"
  BY DEF BaseWays
<1>3. /\ ExtendWays("R")[1] = "send" /\ ExtendWays("R")[2] = "recv"
      /\ ExtendWays("S")[1] = "recv" /\ ExtendWays("S")[2] = "send"
  BY DEF ExtendWays
<1> QED BY <1>1, <1>2, <1>3

LEMMA CallsMatch ==
    ASSUME PoolsInv, \A p \in Party : InCall(p)
    PROVE  Match(Call("R"), Call("S"))
<1>1. "R" \in Party /\ "S" \in Party
  BY DEF Party
<1>2. pc["R"] = pc["S"] /\ pc["R"] \in {"base"} \cup Kind
  BY <1>1 DEF PoolsInv, InStep, InCall, Party, Kind
<1>3. leg["R"] = leg["S"] /\ leg["R"] \in 1..3 /\ (pc["R"] = "base" => leg["R"] \in 1..2)
  BY <1>1 DEF PoolsInv, Alike, PoolsType, Filling
<1>4. \A k \in Kind : Batch("R", k) = Batch("S", k)
  BY DEF PoolsInv, Alike, Batch
<1>5. CASE pc["R"] = "base"
  <2>1. /\ Call("R") = [what |-> "base", way |-> BaseWays("R")[leg["R"]], size |-> 0]
        /\ Call("S") = [what |-> "base", way |-> BaseWays("S")[leg["R"]], size |-> 0]
    BY <1>2, <1>3, <1>5 DEF Call
  <2>2. BaseWays("R")[leg["R"]] = Opposite(BaseWays("S")[leg["R"]])
    BY <1>3, <1>5, OppositeWays
  <2> QED BY <2>1, <2>2 DEF Match
<1>6. CASE pc["R"] \in Kind /\ leg["R"] \in {1, 2}
  <2> DEFINE size == OtsFor(pc["R"], Batch("R", pc["R"]))
  <2>1. /\ Call("R") = [what |-> "extend", way |-> ExtendWays("R")[leg["R"]], size |-> size]
        /\ Call("S") = [what |-> "extend", way |-> ExtendWays("S")[leg["R"]], size |-> size]
    BY <1>2, <1>3, <1>4, <1>6 DEF Call, Kind
  <2>2. ExtendWays("R")[leg["R"]] = Opposite(ExtendWays("S")[leg["R"]])
    BY <1>6, OppositeWays
  <2> HIDE DEF size
  <2> QED BY <2>1, <2>2 DEF Match
<1>7. CASE pc["R"] \in Kind /\ leg["R"] = 3
  <2> DEFINE size == Batch("R", pc["R"])
  <2>1. /\ Call("R") = [what |-> pc["R"], way |-> "both", size |-> size]
        /\ Call("S") = [what |-> pc["R"], way |-> "both", size |-> size]
    BY <1>2, <1>3, <1>4, <1>7 DEF Call, Kind
  <2> HIDE DEF size
  <2> QED BY <2>1, OppositeWays DEF Match
<1> QED BY <1>2, <1>3, <1>5, <1>6, <1>7

\* The parties are never in calls that do not fit (setup_ot.cpp:9-48,
\* setup.cpp:79-144): SameCall, for any sizes and targets.
THEOREM SameCallHolds == Spec => []SameCall
<1>1. PoolsInv => SameCall
  BY CallsMatch DEF SameCall, Meet
<1> QED BY <1>1, PoolsInvariant, PTL

\* A correlation number means one correlation, at both parties and over all
\* refills, and both take them in one order (setup.cpp:71-103): OneMeaning.
THEOREM OneMeaningHolds == Spec => []OneMeaning
<1>1. ASSUME PoolsInv, NEW p \in Party, NEW q \in Party, NEW k \in Kind, NEW l \in Kind,
             NEW x \in Items(p, k), NEW y \in Items(q, l)
      PROVE  x.id = y.id <=> x.item = y.item
  <2>1. PoolsType
    BY <1>1 DEF PoolsInv
  <2>2. x \in Correlation /\ y \in Correlation /\ x.item = x.id + 1 /\ y.item = y.id + 1
    BY <1>1, <2>1, ItemsDealt DEF PoolsInv, Numbered
  <2> QED BY <2>2 DEF Correlation
<1>2. ASSUME PoolsInv, NEW k \in Kind, NEW i \in DOMAIN used["R"][k] \cap DOMAIN used["S"][k]
      PROVE  used["R"][k][i] = used["S"][k][i]
  <2>1. ASSUME NEW p \in Party, i \in DOMAIN used[p][k]
        PROVE  used[p][k][i] = Dealt(p, k)[i]
    <3> DEFINE u == used[p][k]
               o == order[p][k]
    <3>1. u \in Seq(Correlation) /\ o \in Seq(Correlation)
      BY <1>2 DEF PoolsInv, PoolsType
    <3>2. i \in DOMAIN u
      BY <2>1
    <3> HIDE DEF u, o
    <3>3. Len(u) \in Nat /\ Len(o) \in Nat /\ i \in 1..Len(u)
      BY <3>1, <3>2, LenProperties
    <3>4. (u \o o)[i] = u[i]
      BY <3>1, <3>3, ConcatProperties
    <3> QED BY <3>4 DEF Dealt, u, o
  <2>2. Dealt("R", k)[i] = Dealt("S", k)[i]
    BY <1>2 DEF PoolsInv, Alike
  <2> QED BY <1>2, <2>1, <2>2 DEF Party
<1>3. PoolsInv => OneMeaning
  BY <1>1, <1>2 DEF OneMeaning
<1> QED BY <1>3, PoolsInvariant, PTL

\* After a refill both pools cover any evaluation up to the target, and hold
\* the same at both parties (query.cpp:168-174, party_main.cpp:379-389):
\* Provisioned, whatever the queries before took and left.
THEOREM ProvisionedHolds == Spec => []Provisioned
<1>1. ASSUME PoolsInv, \A p \in Party : pc[p] = "filled"
      PROVE  /\ order["R"] = order["S"]
             /\ \A k \in Kind : Len(order["R"][k]) >= PerEvaluation[k] * target
  <2>1. order["R"] = order["S"]
    BY <1>1, EqualPools DEF PoolsInv, Filling
  <2>2. ASSUME NEW k \in Kind PROVE Len(order["R"][k]) >= PerEvaluation[k] * target
    <3>1. need["R"] = Zero /\ Len(order["R"][k]) + need["R"][k] >= PerEvaluation[k] * target
      BY <1>1 DEF PoolsInv, Filling, Party
    <3>2. Len(order["R"][k]) \in Nat
      BY LenProperties, <1>1 DEF PoolsInv, PoolsType, Party
    <3> QED BY <3>1, <3>2 DEF Zero
  <2> QED BY <2>1, <2>2
<1>2. PoolsInv => Provisioned
  BY <1>1 DEF Provisioned
<1> QED BY <1>2, PoolsInvariant, PTL

===============================================================================
