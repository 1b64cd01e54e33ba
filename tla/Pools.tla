--------------------------------- MODULE Pools ---------------------------------
(***************************************************************************)
(* The offline phase at both parties: Setup::run, and for every query      *)
(* Setup::refill_offline to the common target and the takes of the         *)
(* evaluation.  Each party walks through its own list of calls into        *)
(* libOTe; two such calls get anywhere only with each other.  What a batch *)
(* does inside is in TripleGeneration and GatePipeline.                    *)
(***************************************************************************)
EXTENDS Naturals, Sequences, FiniteSets, SequencesExt

CONSTANTS
    PerEvaluation,  \* the triples and gates one bucket takes: 44 and 4
    OtsPerItem,     \* the OTs a triple and a gate take: 122 and kOtsPerGate
    SlackOts,       \* the OTs a gate batch has beyond that
    BatchSize,      \* kBatchSize: 512
    MinOts,         \* the least number of OTs an extension is asked for: 128
    InitialSizes,   \* what Setup::run may be asked for; party_main asks for none
    Targets,        \* the evaluations a query may be provisioned for
    MaxQueries      \* bound: queries of a run

Party == {"R", "S"}
Peer(p) == IF p = "R" THEN "S" ELSE "R"
Kind  == {"triples", "gates"}

ASSUME PoolsAssumption ==
    /\ PerEvaluation \in [Kind -> Nat \ {0}]
    /\ OtsPerItem \in [Kind -> Nat \ {0}]
    /\ {SlackOts, MinOts, MaxQueries} \subseteq Nat
    /\ BatchSize \in Nat \ {0}
    /\ InitialSizes \subseteq [Kind -> Nat]
    /\ Targets \subseteq Nat \ {0}

VARIABLES
    pc,      \* "base", "triples", "gates", "ready", "filled", "taking" or "stopped"
    leg,     \* which call of the base OTs or of a batch p is at
    need,    \* need[p][k]: what the running refill has yet to make
    order,   \* order[p][k]: the pool, oldest first: numbers and correlations
    used,    \* used[p][k]: what has been taken off it, in order
    next,    \* next_corr_id
    want,    \* want[p][k]: what the running evaluation has yet to take
    target,  \* the evaluations the pools were last filled for
    dealt,   \* the correlations made so far, by either kind of batch
    queries

vars == <<pc, leg, need, order, used, next, want, target, dealt, queries>>

Zero == [k \in Kind |-> 0]
Both(x) == [p \in Party |-> x]

-------------------------------------------------------------------------------
(* The calls.                                                                *)

\* Mutant: both parties run the base OTs in the same order.
SameWays(p) == <<"send", "recv">>

\* The two directions of the base OTs share one socket.
BaseWays(p) == IF p = "R" THEN <<"send", "recv">> ELSE <<"recv", "send">>

ExtendWays(p) == IF p = "R" THEN <<"send", "recv">> ELSE <<"recv", "send">>

AtLeast(n, m) == IF n >= m THEN n ELSE m
AtMost(n, m)  == IF n <= m THEN n ELSE m

Batch(p, k) == AtMost(need[p][k], BatchSize)

OtsFor(k, batch) ==
    AtLeast(OtsPerItem[k] * batch + (IF k = "gates" THEN SlackOts ELSE 0), MinOts)

InCall(p) == pc[p] \in {"base"} \cup Kind

\* The call p is in.
Call(p) ==
    IF pc[p] = "base"
    THEN [what |-> "base", way |-> BaseWays(p)[leg[p]], size |-> 0]
    ELSE IF leg[p] \in {1, 2}
    THEN [what |-> "extend", way |-> ExtendWays(p)[leg[p]],
          size |-> OtsFor(pc[p], Batch(p, pc[p]))]
    ELSE [what |-> pc[p], way |-> "both", size |-> Batch(p, pc[p])]

Opposite(way) == CASE way = "send" -> "recv" [] way = "recv" -> "send" [] OTHER -> way

Match(c, d) == c.what = d.what /\ c.size = d.size /\ c.way = Opposite(d.way)

Meet == (\A p \in Party : InCall(p)) /\ Match(Call("R"), Call("S"))

\* Triples are made before gates, at both parties.
Phase(left, then) ==
    CASE left["triples"] > 0 -> "triples"
      [] left["triples"] = 0 /\ left["gates"] > 0 -> "gates"
      [] left = Zero -> then

AfterFill == IF queries = 0 THEN "ready" ELSE "filled"

BaseOts ==
    /\ Meet /\ Call("R").what = "base"
    /\ IF leg["R"] = 1
       THEN leg' = Both(2) /\ UNCHANGED pc
       ELSE leg' = Both(1) /\ pc' = [p \in Party |-> Phase(need[p], AfterFill)]
    /\ UNCHANGED <<need, order, used, next, want, target, dealt, queries>>

\* One direction of fill_ot_pool.
Extend ==
    /\ Meet /\ Call("R").what = "extend"
    /\ leg' = [p \in Party |-> leg[p] + 1]
    /\ UNCHANGED <<pc, need, order, used, next, want, target, dealt, queries>>

\* Mutant: each pool numbers its own items.
OwnNumber(p, k) == Len(order[p][k]) + Len(used[p][k])

\* One counter for both pools, carried over every refill.
NextNumber(p, k) == next[p]

\* One batch: both parties number the new correlations, each by its own
\* counter, and append them to the pool, which refuses a number it has seen.
Make(k) ==
    /\ Meet /\ Call("R").what = k
    /\ LET n == Batch("R", k)
           made(p) == [i \in 1..n |->
                         [id |-> NextNumber(p, k) + i - 1, item |-> dealt + i]]
           seen(p) == {x.id : x \in ToSet(order[p][k]) \cup ToSet(used[p][k])}
           left(p) == [need[p] EXCEPT ![k] = @ - n]
           fresh(p) == seen(p) \cap {x.id : x \in ToSet(made(p))} = {}
       IN  /\ need' = [p \in Party |-> left(p)]
           /\ order' = [p \in Party |-> [order[p] EXCEPT ![k] = @ \o made(p)]]
           /\ next' = [p \in Party |-> next[p] + n]
           /\ pc' = [p \in Party |-> IF fresh(p) THEN Phase(left(p), AfterFill)
                                     ELSE "stopped"]
           /\ leg' = Both(1)
           /\ dealt' = dealt + n
    /\ UNCHANGED <<used, want, target, queries>>

\* Something fails within a call: a pool of OTs runs out, the Sender's choices
\* spell P, a mask is rejected too often, the connection is lost.
Fail(p) ==
    /\ InCall(p)
    /\ pc' = [pc EXCEPT ![p] = "stopped"]
    /\ UNCHANGED <<leg, need, order, used, next, want, target, dealt, queries>>

-------------------------------------------------------------------------------
(* Between the calls.                                                        *)

\* Mutant: the refill counts what was ever made.
NeedOfGenerated(p, k, goal) ==
    LET have == Len(order[p][k]) + Len(used[p][k])
    IN  IF have >= goal THEN 0 ELSE goal - have

Needed(p, k, goal) ==
    LET have == Len(order[p][k]) IN IF have >= goal THEN 0 ELSE goal - have

\* The parties have exchanged their sizes and computed the same target;
\* refill_offline begins.
Refill ==
    /\ \A p \in Party : pc[p] = "ready"
    /\ queries < MaxQueries
    /\ queries' = queries + 1
    /\ \E t \in Targets :
         /\ target' = t
         /\ need' = [p \in Party |-> [k \in Kind |-> Needed(p, k, PerEvaluation[k] * t)]]
         /\ pc' = [p \in Party |-> Phase(need'[p], "filled")]
    /\ leg' = Both(1)
    /\ UNCHANGED <<order, used, next, want, dealt>>
\* The parties have agreed on n buckets; eval_union looks at both pools first.
BeginEvaluation ==
    /\ \A p \in Party : pc[p] = "filled"
    /\ \E n \in 0..target :
         /\ want' = Both([k \in Kind |-> PerEvaluation[k] * n])
         /\ pc' = [p \in Party |->
                IF \E k \in Kind : Len(order[p][k]) < want'[p][k] THEN "stopped"
                ELSE IF n = 0 THEN "ready" ELSE "taking"]
    /\ UNCHANGED <<leg, need, order, used, next, target, dealt, queries>>

\* CorrelationPool::take, by the evaluator, each party at its own pace.
Take(p, k) ==
    /\ pc[p] = "taking" /\ want[p][k] > 0
    /\ order[p][k] # <<>>
    /\ order' = [order EXCEPT ![p][k] = Tail(@)]
    /\ used' = [used EXCEPT ![p][k] = Append(@, Head(order[p][k]))]
    /\ want' = [want EXCEPT ![p][k] = @ - 1]
    /\ pc' = [pc EXCEPT ![p] = IF want'[p] = Zero THEN "ready" ELSE @]
    /\ UNCHANGED <<leg, need, next, target, dealt, queries>>

\* The peer of a process that has ended cannot go on.
PeerGone(p) ==
    /\ pc[p] # "stopped" /\ pc[Peer(p)] = "stopped"
    /\ pc' = [pc EXCEPT ![p] = "stopped"]
    /\ UNCHANGED <<leg, need, order, used, next, want, target, dealt, queries>>

Rest ==
    /\ \/ \A p \in Party : pc[p] = "stopped"
       \/ queries = MaxQueries /\ \A p \in Party : pc[p] = "ready"
    /\ UNCHANGED vars

Init ==
    /\ pc = Both("base")
    /\ leg = Both(1)
    /\ \E sizes \in InitialSizes : need = Both(sizes)
    /\ order = Both([k \in Kind |-> <<>>])
    /\ used = Both([k \in Kind |-> <<>>])
    /\ next = Both(0)
    /\ want = Both(Zero)
    /\ target = 0
    /\ dealt = 0
    /\ queries = 0

Next ==
    \/ BaseOts \/ Extend \/ Refill \/ BeginEvaluation
    \/ \E k \in Kind : Make(k)
    \/ \E p \in Party : Fail(p) \/ PeerGone(p)
    \/ \E p \in Party, k \in Kind : Take(p, k)
    \/ Rest

Spec == Init /\ [][Next]_vars

\* A call both parties are in goes on, and a lost connection is noticed; that a
\* call fails, or another query comes, nothing makes sure of.
Fairness ==
    /\ WF_vars(BaseOts) /\ WF_vars(Extend)
    /\ \A k \in Kind : WF_vars(Make(k))
    /\ \A p \in Party : WF_vars(PeerGone(p))

FairSpec == Spec /\ Fairness

-------------------------------------------------------------------------------

\* Two parties that are both in a call into libOTe are in the two ends of the
\* same call, on as many items: otherwise each waits, or reads bytes meant for
\* something else.  Nothing they send each other says which call it is
\* (setup_ot.cpp:9-48, setup.cpp:79-144).
SameCall == (\A p \in Party : InCall(p)) => Meet

\* A correlation number means one correlation, at both parties, in both pools
\* and over all refills, and what a party takes i-th is the other half of what
\* its peer takes i-th; the parties never compare numbers (setup.cpp:71-103).
Items(p, k) == ToSet(order[p][k]) \cup ToSet(used[p][k])

OneMeaning ==
    /\ \A p, q \in Party, k, l \in Kind :
         \A x \in Items(p, k), y \in Items(q, l) :
            x.id = y.id <=> x.item = y.item
    /\ \A k \in Kind : \A i \in DOMAIN used["R"][k] \cap DOMAIN used["S"][k] :
            used["R"][k][i] = used["S"][k][i]

\* After a refill both pools of either party cover any evaluation of the query,
\* whatever the queries before left in them, so that no query is refused
\* (query.cpp:168-174), and the two parties have the same in them, so that
\* none is refused at one party alone (party_main.cpp:379-389).
Provisioned ==
    (\A p \in Party : pc[p] = "filled") =>
        /\ order["R"] = order["S"]
        /\ \A k \in Kind : Len(order["R"][k]) >= PerEvaluation[k] * target

\* A fill ends, at both parties and in the same way: both have what they asked
\* for, or both have stopped.  No call, and no failure of one, leaves a party
\* waiting for its peer (setup_ot.cpp:9-48, setup.cpp:165-203).
FillsEndTogether ==
    (\E p \in Party : InCall(p)) ~>
        \/ \A p \in Party : pc[p] \in {"ready", "filled"}
        \/ \A p \in Party : pc[p] = "stopped"
===============================================================================
