------------------------------- MODULE Session -------------------------------
(***************************************************************************)
(* Two party_main processes working through their schedules, day by day:   *)
(* schedule check, edits, provisioning, an optional change of bucket       *)
(* oracle, the query on its incremental or full path, the commit to        *)
(* state.bin and the opening of the count.  Between sessions the processes *)
(* are down; a process may crash at any point of a session, and the next   *)
(* session starts from what the two state files hold.                      *)
(*                                                                         *)
(* pc[p] is the name of the exchange p waits in, or                        *)
(*   "idle"    between two days,       "eval"    in the joint evaluation,  *)
(*   "commit"  shares known, not yet in st or on disk,                     *)
(*   "done"    exited normally,        "stopped" ended by an error,        *)
(*   "crashed" killed.                                                     *)
(***************************************************************************)
EXTENDS PartyState, Sequences

CONSTANTS
    Day,            \* the days a schedule file may list: [label, query, maintenance]
    Schedules,      \* the schedule files a party may be started with
    Forced,         \* the values of --force-refresh each session may use
    Phi,            \* Params::PHI
    Contribution,   \* the 32-byte salt contributions; 0 is the all-zero one
    Refreshed,      \* Refreshed[r_R, r_S]: BucketOracle::refreshed
    Masks,          \* the field elements a fresh share of the Receiver may be
    InitIds,        \* the id sets the initial load may give a party
    MaxEdits,       \* bound on the entries of one day's edit lists
    MaxSessions,    \* bound on the sessions
    MaxCrashes,     \* bound on the crashes
    MaxOffline,     \* bound on the --update-only invocations
    BudgetStops,    \* whether --budget-s may end a party's session early
    FailedExchange  \* what an exchange that cannot complete may do: "stop" the
                    \* process, or return and leave its buffer "untouched"

Party == {"R", "S"}
Peer(p) == IF p = "R" THEN "S" ELSE "R"

Waiting == {"sync", "provision", "salt", "round0", "jtilde", "supports", "open"}
Ended   == {"done", "stopped", "crashed"}
Control == Waiting \cup Ended \cup {"idle", "eval", "commit"}

NoDay    == [label |-> 0, query |-> FALSE, maintenance |-> FALSE]
NoAnswer == -1

ASSUME SessionAssumption ==
    /\ Day \subseteq [label : Nat \ {0}, query : BOOLEAN, maintenance : BOOLEAN]
    /\ Schedules \subseteq Seq(Day)
    /\ Forced \subseteq [Party -> BOOLEAN]
    /\ Phi \in Nat
    /\ 0 \in Contribution
    /\ Refreshed \in [Contribution \X Contribution -> Salt]
    /\ Masks \subseteq Fp
    /\ InitIds \subseteq SUBSET Id
    /\ {MaxEdits, MaxSessions, MaxCrashes, MaxOffline} \subseteq Nat
    /\ BudgetStops \in BOOLEAN
    /\ FailedExchange \subseteq {"stop", "untouched"}

Message ==
    [kind : {"sync"}, day : Day]
        \cup [kind : {"provision"}, size : Int]
        \cup [kind : {"salt"}, r : Contribution]
        \cup [kind : {"round0"}, size : Int, announce : BOOLEAN]
        \cup [kind : {"jtilde", "supports"}, set : SUBSET Index]
        \cup [kind : {"open"}, share : Fp]

\* The locals of one query.
Locals ==
    [forced : BOOLEAN, r : Contribution, peer_size : Int,
     path : {"none", "full", "incremental"}, mine : SUBSET Index,
     betas : SUBSET Index, fresh : [Index -> Fp], share : Fp]

NoLocals ==
    [forced |-> FALSE, r |-> 0, peer_size |-> 0, path |-> "none", mine |-> {},
     betas |-> {}, fresh |-> [b \in Index |-> 0], share |-> 0]

VARIABLES
    st,        \* the PartyState of each process
    disk,      \* what each party's state.bin holds
    oracle,    \* the salt of each process's params.oracle
    pc,
    chan,      \* chan[p]: the messages on their way to p
    loc,       \* the locals of each process's current query
    pool,      \* bucket evaluations each process has correlations for
    day,       \* the index of each process's current day
    schedule,  \* the schedule file each process was started with
    force,     \* each process's --force-refresh
    answer,    \* the count each process opened last in the current day
    why,       \* why a stopped process stopped
    session, crashes, offline   \* counters of the bounds

procVars   == <<st, oracle, loc, pool, day, answer>>
inputVars  == <<schedule, force, session, offline>>
vars       == <<st, disk, oracle, pc, chan, loc, pool, day, schedule, force,
                answer, why, session, crashes, offline>>

Today(p) == schedule[p][day[p]]

-------------------------------------------------------------------------------
(* The channel.                                                              *)

Send(p, m) == chan' = [chan EXCEPT ![Peer(p)] = Append(@, m)]

Rest(p) == IF chan[p] = <<>> THEN <<>> ELSE Tail(chan[p])

Consume(p) == chan' = [chan EXCEPT ![p] = Rest(p)]

\* Take the message just received off the channel and send m.
Reply(p, m) ==
    chan' = [chan EXCEPT ![p] = Rest(p), ![Peer(p)] = Append(@, m)]

Incoming(p, kind) == chan[p] # <<>> /\ Head(chan[p]).kind = kind

\* The exchange p waits in can never complete: the peer is in another
\* exchange, or gone.
Failed(p) ==
    \/ pc[p] \in Waiting /\ chan[p] # <<>> /\ Head(chan[p]).kind # pc[p]
    \/ pc[p] \in Waiting /\ chan[p] = <<>> /\ pc[Peer(p)] \in Ended
    \/ /\ pc[p] = "eval"
       /\ \/ chan[p] # <<>>
          \/ pc[Peer(p)] \in Ended
          \/ pc[Peer(p)] = "eval" /\ loc[Peer(p)].betas # loc[p].betas

\* What the exchange p waits in delivers; untouched holds what a buffer nothing
\* was written to may read as.
Delivered(p, kind, untouched) ==
    IF Incoming(p, kind) THEN {Head(chan[p])}
    ELSE IF Failed(p) /\ "untouched" \in FailedExchange THEN untouched
    ELSE {}

\* The sizes an uninitialized buffer may read as.
AnySize == 0..Cardinality(Id)

-------------------------------------------------------------------------------
(* The end of a process.                                                     *)

Goto(p, l) == pc' = [pc EXCEPT ![p] = l]

\* Mutant: a check that fails is reported, and nothing else happens.
StopReported(p, r) ==
    /\ why' = [why EXCEPT ![p] = r]
    /\ UNCHANGED <<chan, disk, pc, crashes>>
    /\ UNCHANGED procVars
    /\ UNCHANGED inputVars

\* SYMPSICA_REQUIRE failing for the reason r.
Stop(p, r) ==
    /\ Goto(p, "stopped")
    /\ why' = [why EXCEPT ![p] = r]
    /\ UNCHANGED <<chan, disk, crashes>>
    /\ UNCHANGED procVars
    /\ UNCHANGED inputVars

-------------------------------------------------------------------------------
(* The day loop up to the query.                                             *)

BeginDay(p) ==
    /\ pc[p] = "idle"
    /\ day[p] <= Len(schedule[p])
    /\ Send(p, [kind |-> "sync", day |-> Today(p)])
    /\ Goto(p, "sync")
    /\ answer' = [answer EXCEPT ![p] = NoAnswer]
    /\ UNCHANGED <<st, disk, oracle, loc, pool, day, why, crashes>>
    /\ UNCHANGED inputVars

\* Update::apply with any short lists, then the provisioning message of a
\* query day or the next day of the loop.
ApplyEdits(p, I, D) ==
    LET s == Apply(st[p], I, D, oracle[p]) IN
    /\ st' = [st EXCEPT ![p] = s]
    /\ IF Today(p).query
       THEN /\ Reply(p, [kind |-> "provision", size |-> s.my_size])
            /\ Goto(p, "provision")
            /\ UNCHANGED day
       ELSE /\ Consume(p)
            /\ Goto(p, "idle")
            /\ day' = [day EXCEPT ![p] = @ + 1]
    /\ UNCHANGED <<disk, oracle, loc, pool, answer, why, crashes>>
    /\ UNCHANGED inputVars

\* Mutant: the digest leaves the maintenance marker out.
SameMarkers(m, d) == m.label = d.label /\ m.query = d.query

\* Mutant: the digest is received into the buffer it was sent from, so that an
\* exchange that failed unnoticed looks like agreement.
SameInPlace(m, d) == m \in {NoDay, d}

\* ScheduleSync::sync: the two digests of label, query and maintenance agree.
SameDay(m, d) == m = d

\* After an exchange that failed unnoticed the digest buffer (salt.cpp:138) is
\* uninitialized.  NoDay stands for all it may read as but one value: that its
\* 64 bits happen to be the party's own digest is left out.

RecvSync(p) ==
    /\ pc[p] = "sync"
    /\ \E m \in Delivered(p, "sync", {[kind |-> "sync", day |-> NoDay]}) :
         IF ~SameDay(m.day, Today(p)) THEN Stop(p, "drift")
         ELSE IF ~SaltMatches(st[p], oracle[p]) THEN Stop(p, "salt")
         ELSE \E I, D \in SUBSET Id :
                /\ Cardinality(I) + Cardinality(D) <= MaxEdits
                /\ ApplyEdits(p, I, D)

\* Mutant: provisioned for an incremental query only.
IncrementalTarget(nA, nB) == 2 * UMax

EvaluationTarget(nA, nB) == IF 2 * UMax >= nA + nB THEN 2 * UMax ELSE nA + nB

\* Mutant: the caller's force_full is dropped.
BeginUnforced(p, s, forced) ==
    /\ Reply(p, [kind |-> "round0", size |-> s.my_size, announce |-> Announces(s)])
    /\ loc' = [loc EXCEPT ![p] = NoLocals]
    /\ Goto(p, "round0")

\* Query::run up to round 0.
BeginQuery(p, s, forced) ==
    /\ Reply(p, [kind |-> "round0", size |-> s.my_size, announce |-> Announces(s)])
    /\ loc' = [loc EXCEPT ![p] = [NoLocals EXCEPT !.forced = forced]]
    /\ Goto(p, "round0")

BeginRefresh(p) ==
    \E r \in Contribution \ {0} :
        /\ Reply(p, [kind |-> "salt", r |-> r])
        /\ loc' = [loc EXCEPT ![p] = [NoLocals EXCEPT !.r = r]]
        /\ Goto(p, "salt")

\* refill_offline to the common target, then maintenance or a plain query.
RecvProvision(p) ==
    /\ pc[p] = "provision"
    /\ \E m \in Delivered(p, "provision",
                          [kind : {"provision"}, size : AnySize]) :
         LET target == EvaluationTarget(st[p].my_size, m.size) IN
         IF ~SaltMatches(st[p], oracle[p]) THEN Stop(p, "salt")
         ELSE /\ pool' = [pool EXCEPT ![p] = IF @ >= target THEN @ ELSE target]
              /\ IF Due(st[p].query_no, Phi, Today(p).maintenance, force[p])
                 THEN BeginRefresh(p)
                 ELSE BeginQuery(p, st[p], FALSE)
              /\ UNCHANGED <<st, disk, oracle, day, answer, why, crashes>>
              /\ UNCHANGED inputVars

\* Mutant: each party hashes its own contribution first.
OwnFirst(p, mine, theirs) == Refreshed[mine, theirs]

\* The Receiver's contribution comes first, whoever hashes.
RefreshedSalt(p, mine, theirs) ==
    IF p = "R" THEN Refreshed[mine, theirs] ELSE Refreshed[theirs, mine]

\* SaltManager::refresh, once both contributions are there.
RecvSalt(p) ==
    /\ pc[p] = "salt"
    /\ \E m \in Delivered(p, "salt", {[kind |-> "salt", r |-> 0]}) :
         LET salt == RefreshedSalt(p, loc[p].r, m.r)
             s    == Rebuilt(st[p], salt)
         IN  /\ oracle' = [oracle EXCEPT ![p] = salt]
             /\ st' = [st EXCEPT ![p] = s]
             /\ BeginQuery(p, s, TRUE)
    /\ UNCHANGED <<disk, pool, day, answer, why, crashes>>
    /\ UNCHANGED inputVars

-------------------------------------------------------------------------------
(* The query.                                                                *)

Publish(p, kind, path, peerSize, set) ==
    /\ Reply(p, [kind |-> kind, set |-> set])
    /\ loc' = [loc EXCEPT ![p].peer_size = peerSize, ![p].path = path,
                          ![p].mine = set]
    /\ Goto(p, kind)
    /\ UNCHANGED <<st, disk, oracle, pool, day, answer, why, crashes>>
    /\ UNCHANGED inputVars

PublishDirty(p, peerSize) ==
    IF Cardinality(st[p].J) > UMax THEN Stop(p, "umax")
    ELSE \E pad \in Pads(UMax - Cardinality(st[p].J), st[p].J) :
            Publish(p, "jtilde", "incremental", peerSize, st[p].J \cup pad)

PublishSupports(p, peerSize) ==
    LET occupied == Occupied(st[p])
        target   == CapM(st[p].my_size)
    IN  IF Cardinality(occupied) > target THEN Stop(p, "occupied")
        ELSE \E pad \in Pads(target - Cardinality(occupied), occupied) :
                Publish(p, "supports", "full", peerSize, occupied \cup pad)

\* SwitchRule::decide on what round 0 brought, then the path's first half.
RecvRound0(p) ==
    /\ pc[p] = "round0"
    /\ \E m \in Delivered(p, "round0",
                          [kind : {"round0"}, size : AnySize, announce : BOOLEAN]) :
         IF \/ loc[p].forced
            \/ Decide(st[p].my_size, m.size, Announces(st[p]),
                      st[p].query_no = 0, m.announce) = "full"
         THEN PublishSupports(p, m.size)
         ELSE PublishDirty(p, m.size)

\* An untouched buffer holds no supports, and the index 0 in place of a J~.
EmptyIndices(kind) == {[kind |-> kind, set |-> IF kind = "jtilde" THEN {0} ELSE {}]}

RecvIndices(p) ==
    /\ pc[p] \in {"jtilde", "supports"}
    /\ \E m \in Delivered(p, pc[p], EmptyIndices(pc[p])) :
         LET betas == loc[p].mine \cup m.set IN
         IF /\ pc[p] = "supports"
            /\ Cardinality(m.set) # CapM(loc[p].peer_size)
         THEN Stop(p, "length")
         ELSE IF pool[p] < Cardinality(betas) THEN Stop(p, "exhausted")
         ELSE /\ Consume(p)
              /\ loc' = [loc EXCEPT ![p].betas = betas]
              /\ Goto(p, "eval")
              /\ UNCHANGED <<st, disk, oracle, pool, day, answer, why, crashes>>
              /\ UNCHANGED inputVars

\* The number of ids in which the two rows of bucket b differ: the rank of the
\* Hankel matrix of the jointly held syndrome.
Rank(b) == Cardinality({x \in Id : st["R"].table[b][x] # st["S"].table[b][x]})

\* The evaluator is exact up to T; beyond T it returns some value up to T.
Decoded(b) == IF Rank(b) <= T THEN {Rank(b)} ELSE 0..T

\* SymDiffEvaluator::eval_buckets: uniformly random shares of every bucket's
\* symmetric difference, one half at each party.
Evaluate ==
    /\ \A p \in Party : pc[p] = "eval" /\ ~Failed(p)
    /\ LET betas == loc["R"].betas IN
       \E mask \in [betas -> Masks], t \in [betas -> 0..T] :
         /\ \A b \in betas : t[b] \in Decoded(b)
         /\ loc' = [p \in Party |->
              [loc[p] EXCEPT !.fresh = [b \in Index |->
                 IF b \notin betas THEN 0
                 ELSE IF p = "R" THEN mask[b]
                 ELSE (t[b] - mask[b]) % P]]]
         /\ pool' = [p \in Party |-> pool[p] - Cardinality(betas)]
    /\ pc' = [p \in Party |-> "commit"]
    /\ UNCHANGED <<st, disk, oracle, chan, day, answer, why, crashes>>
    /\ UNCHANGED inputVars

\* The evaluation of a party whose exchanges fail unnoticed: its shares are
\* unrelated to any bucket.
EvaluateAlone(p) ==
    /\ pc[p] = "eval"
    /\ Failed(p)
    /\ "untouched" \in FailedExchange
    /\ \E junk \in [loc[p].betas -> Masks] :
         loc' = [loc EXCEPT ![p].fresh = [b \in Index |->
                    IF b \in loc[p].betas THEN junk[b] ELSE 0]]
    /\ pool' = [pool EXCEPT ![p] = @ - Cardinality(loc[p].betas)]
    /\ Goto(p, "commit")
    /\ UNCHANGED <<st, disk, oracle, chan, day, answer, why, crashes>>
    /\ UNCHANGED inputVars

\* Mutant: the count is opened before anything is saved.
CommitUnsaved(p) ==
    /\ pc[p] = "commit"
    /\ LET s == Commit(st[p], loc[p].path, loc[p].betas, loc[p].fresh)
           c == Convert(p, s.t_share, s.my_size, loc[p].peer_size)
       IN  /\ st' = [st EXCEPT ![p] = s]
           /\ loc' = [loc EXCEPT ![p] = [NoLocals EXCEPT !.share = c]]
           /\ Send(p, [kind |-> "open", share |-> c])
    /\ Goto(p, "open")
    /\ UNCHANGED <<disk, oracle, pool, day, answer, why, crashes>>
    /\ UNCHANGED inputVars

\* detail::commit and the save it ends with, convert, and the send of open().
CommitQuery(p) ==
    /\ pc[p] = "commit"
    /\ LET s == Commit(st[p], loc[p].path, loc[p].betas, loc[p].fresh)
           c == Convert(p, s.t_share, s.my_size, loc[p].peer_size)
       IN  /\ st' = [st EXCEPT ![p] = s]
           /\ disk' = [disk EXCEPT ![p] = s]
           /\ loc' = [loc EXCEPT ![p] = [NoLocals EXCEPT !.share = c]]
           /\ Send(p, [kind |-> "open", share |-> c])
    /\ Goto(p, "open")
    /\ UNCHANGED <<oracle, pool, day, answer, why, crashes>>
    /\ UNCHANGED inputVars

\* Mutant: open() receives the peer's half by exchange(), whose errors are
\* dropped.
RecvOpenExchanged(p) ==
    /\ pc[p] = "open"
    /\ \E m \in Delivered(p, "open", {[kind |-> "open", share |-> 0]}) :
         answer' = [answer EXCEPT ![p] = (loc[p].share + m.share) % P]
    /\ Consume(p)
    /\ loc' = [loc EXCEPT ![p] = NoLocals]
    /\ day' = [day EXCEPT ![p] = @ + 1]
    /\ Goto(p, "idle")
    /\ UNCHANGED <<st, disk, oracle, pool, why, crashes>>
    /\ UNCHANGED inputVars

\* The recv of open(): the count is known and the day is over.
RecvOpen(p) ==
    /\ pc[p] = "open"
    /\ Incoming(p, "open")
    /\ answer' = [answer EXCEPT ![p] = (loc[p].share + Head(chan[p]).share) % P]
    /\ Consume(p)
    /\ loc' = [loc EXCEPT ![p] = NoLocals]
    /\ day' = [day EXCEPT ![p] = @ + 1]
    /\ Goto(p, "idle")
    /\ UNCHANGED <<st, disk, oracle, pool, why, crashes>>
    /\ UNCHANGED inputVars

-------------------------------------------------------------------------------
(* The end of a session, failures, and what happens between sessions.        *)

Exit(p) ==
    /\ pc[p] = "idle"
    /\ \/ day[p] > Len(schedule[p])
       \/ BudgetStops /\ day[p] > 1
    /\ Goto(p, "done")
    /\ UNCHANGED <<disk, chan, why, crashes>>
    /\ UNCHANGED procVars
    /\ UNCHANGED inputVars

\* An error of the dead connection surfaces and ends the process.
LosePeer(p) ==
    /\ Failed(p)
    /\ "stop" \in FailedExchange \/ pc[p] = "open"
    /\ Stop(p, "peer")

\* Messages still in the sender's buffers die with it.
Crash(p) ==
    /\ pc[p] \notin Ended
    /\ crashes < MaxCrashes
    /\ crashes' = crashes + 1
    /\ Goto(p, "crashed")
    /\ \/ UNCHANGED chan
       \/ /\ chan[Peer(p)] # <<>>
          /\ chan' = [chan EXCEPT ![Peer(p)] = SubSeq(@, 1, Len(@) - 1)]
    /\ UNCHANGED <<disk, why>>
    /\ UNCHANGED procVars
    /\ UNCHANGED inputVars

Down == \A p \in Party : pc[p] \in Ended

\* Both parties are started again: load, connect, Setup::run with empty pools.
StartSession ==
    /\ Down
    /\ session < MaxSessions
    /\ session' = session + 1
    /\ \E sched \in [Party -> Schedules], f \in Forced :
         schedule' = sched /\ force' = f
    /\ st' = disk
    /\ oracle' = [p \in Party |-> disk[p].oracle_salt]
    /\ pc' = [p \in Party |-> "idle"]
    /\ chan' = [p \in Party |-> <<>>]
    /\ loc' = [p \in Party |-> NoLocals]
    /\ pool' = [p \in Party |-> 0]
    /\ day' = [p \in Party |-> 1]
    /\ answer' = [p \in Party |-> NoAnswer]
    /\ why' = [p \in Party |-> "none"]
    /\ UNCHANGED <<disk, crashes, offline>>

\* party_main --update-only: load, apply the edits, save, exit.
UpdateOnly(p) ==
    /\ pc[p] \in Ended
    /\ offline < MaxOffline
    /\ offline' = offline + 1
    /\ \E I, D \in SUBSET Id :
         /\ Cardinality(I) + Cardinality(D) <= MaxEdits
         /\ disk' = [disk EXCEPT ![p] = Apply(@, I, D, @.oracle_salt)]
    /\ UNCHANGED <<chan, pc, why, crashes, schedule, force, session>>
    /\ UNCHANGED procVars

\* Nothing is left to do within the bounds.
Quiescent ==
    /\ Down
    /\ session = MaxSessions
    /\ UNCHANGED vars

-------------------------------------------------------------------------------

Init ==
    /\ \E ids \in [Party -> InitIds] :
         disk = [p \in Party |-> LoadedWith(ids[p])]
    /\ st = disk
    /\ oracle = [p \in Party |-> EpochZero]
    /\ pc = [p \in Party |-> "done"]
    /\ chan = [p \in Party |-> <<>>]
    /\ loc = [p \in Party |-> NoLocals]
    /\ pool = [p \in Party |-> 0]
    /\ day = [p \in Party |-> 1]
    /\ schedule = [p \in Party |-> <<>>]
    /\ force = [p \in Party |-> FALSE]
    /\ answer = [p \in Party |-> NoAnswer]
    /\ why = [p \in Party |-> "none"]
    /\ session = 0 /\ crashes = 0 /\ offline = 0

\* What a live process does by itself.
Step(p) ==
    \/ BeginDay(p) \/ RecvSync(p) \/ RecvProvision(p) \/ RecvSalt(p)
    \/ RecvRound0(p) \/ RecvIndices(p) \/ EvaluateAlone(p)
    \/ CommitQuery(p) \/ RecvOpen(p) \/ LosePeer(p)
    \/ pc[p] = "idle" /\ day[p] > Len(schedule[p]) /\ Exit(p)

Next ==
    \/ \E p \in Party :
          \/ BeginDay(p) \/ RecvSync(p) \/ RecvProvision(p) \/ RecvSalt(p)
          \/ RecvRound0(p) \/ RecvIndices(p) \/ EvaluateAlone(p)
          \/ CommitQuery(p) \/ RecvOpen(p) \/ LosePeer(p)
          \/ Exit(p) \/ Crash(p) \/ UpdateOnly(p)
    \/ Evaluate
    \/ StartSession
    \/ Quiescent

Spec == Init /\ [][Next]_vars

Fairness == WF_vars(Evaluate) /\ \A p \in Party : WF_vars(Step(p))

FairSpec == Spec /\ Fairness

===============================================================================
