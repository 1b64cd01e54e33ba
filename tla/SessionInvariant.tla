--------------------------- MODULE SessionInvariant ---------------------------
(***************************************************************************)
(* The inductive invariant of two parties none of whose processes has ever *)
(* crashed: how far one may be ahead of the other, what the messages       *)
(* between them say, and how what they hold fits together.                 *)
(*                                                                         *)
(* One party waits in an exchange until the other has entered it too, so   *)
(* at any time both are at the same place, or one is exactly one place     *)
(* ahead, or one has ended and the other is about to find out.  Parties    *)
(* that crash fall back to what their state files hold: the last part says *)
(* how those fit together when a session has one query.                    *)
(***************************************************************************)
EXTENDS SessionProperties

-------------------------------------------------------------------------------
(* Where the parties are.                                                    *)

\* The places of a day on which there is a query.
Asked == {"provision", "salt", "round0", "jtilde", "supports", "eval", "commit",
          "open"}

Indexing == {"jtilde", "supports", "eval"}

\* The place of the party behind and that of the party ahead.
Leads ==
    {<<"idle", "sync">>, <<"sync", "provision">>, <<"provision", "salt">>,
     <<"provision", "round0">>, <<"salt", "round0">>, <<"round0", "jtilde">>,
     <<"round0", "supports">>, <<"jtilde", "eval">>, <<"supports", "eval">>,
     <<"commit", "open">>}

\* Those in which the party ahead is in the next day.
DayLeads ==
    {<<"sync", "idle">>, <<"sync", "sync">>, <<"open", "idle">>, <<"open", "sync">>}

\* What p says in its message m of kind k and day d.
Says(p, k, d, m) ==
    /\ m.kind = k
    /\ k = "sync" => m.day = schedule[p][d]
    /\ k \in {"provision", "round0"} => m.size = st[p].my_size
    /\ k = "salt" => IF pc[p] = "salt" THEN m.r = loc[p].r
                     ELSE oracle[p] = RefreshedSalt(Peer(p), loc[Peer(p)].r, m.r)
    /\ k = "round0" => m.announce = Announces(st[p])
    /\ k \in {"jtilde", "supports"} => m.set = loc[p].mine
    /\ k = "open" => m.share = Convert(p, st[p].t_share, st[p].my_size,
                                       st[Peer(p)].my_size)

\* One message is on its way from p, of kind k and day d; or two.
OneFrom(p, k, d) ==
    Len(chan[Peer(p)]) = 1 /\ Says(p, k, d, chan[Peer(p)][1])

TwoFrom(p, k, d, l, e) ==
    /\ Len(chan[Peer(p)]) = 2
    /\ Says(p, k, d, chan[Peer(p)][1])
    /\ Says(p, l, e, chan[Peer(p)][2])

NoneFrom(p) == chan[Peer(p)] = <<>>

Together ==
    /\ pc["R"] = pc["S"] /\ day["R"] = day["S"]
    /\ pc["R"] \notin Ended
    /\ \A p \in Party : IF pc[p] \in Waiting THEN OneFrom(p, pc[p], day[p])
                        ELSE NoneFrom(p)

\* The messages of a party q + p that has passed k and is at l.
AheadBy(p, k, l) ==
    /\ NoneFrom(Peer(p))
    /\ IF k \notin Waiting THEN OneFrom(p, l, day[p])
       ELSE IF l \notin Waiting THEN OneFrom(p, k, day[Peer(p)])
       ELSE TwoFrom(p, k, day[Peer(p)], l, day[p])

QuietDay(p, d) ==
    schedule[p][d] = schedule[Peer(p)][d] /\ ~ schedule[p][d].query

Ahead(p) ==
    LET k == pc[Peer(p)]
        l == pc[p]
    IN  /\ AheadBy(p, k, l)
        /\ \/ <<k, l>> \in Leads /\ day[p] = day[Peer(p)]
           \/ <<k, l>> \in DayLeads /\ day[p] = day[Peer(p)] + 1
        /\ <<k, l>> = <<"provision", "round0">> => ~ loc[p].forced
        /\ k = "sync" /\ l \in {"idle", "sync"} =>
              QuietDay(p, day[Peer(p)]) /\ answer[p] = NoAnswer

\* p has left; the other is between two days, or about to find out, or has one
\* message left to take.
Gone(p) ==
    LET q == Peer(p) IN
    /\ pc[p] \in Ended
    /\ \/ pc[q] \in Ended
       \/ /\ pc[q] \in {"idle", "sync"} /\ NoneFrom(p)
          /\ pc[p] = "done" => day[p] = day[q]
       \/ /\ pc[q] = "sync" /\ OneFrom(p, "sync", day[q])
          /\ schedule[p][day[q]] = schedule[q][day[q]] => QuietDay(p, day[q])
          /\ pc[p] = "done" => day[p] = day[q] + 1
       \/ /\ pc[q] = "open" /\ OneFrom(p, "open", day[q])
          /\ pc[p] = "done" => day[p] = day[q] + 1

Places == Together \/ \E p \in Party : Ahead(p) \/ Gone(p)

-------------------------------------------------------------------------------
(* What they decide.                                                         *)

DueToday(p) == Due(st[p].query_no, Phi, Today(p).maintenance, force[p])

FullPath ==
    \/ \E p \in Party : DueToday(p)
    \/ Decide(st["R"].my_size, st["S"].my_size, Announces(st["R"]),
              st["R"].query_no = 0, Announces(st["S"])) = "full"

Target == EvaluationTarget(st["R"].my_size, st["S"].my_size)

AgreedQuery(p) ==
    schedule["R"][day[p]] = schedule["S"][day[p]] /\ Today(p).query

\* p's indices: those its path asks for, padded to the length the peer expects.
Padded(p) ==
    /\ loc[p].mine \subseteq Index
    /\ IF FullPath
       THEN /\ Occupied(st[p]) \subseteq loc[p].mine
            /\ Cardinality(loc[p].mine) = CapM(st[p].my_size)
       ELSE /\ st[p].J \subseteq loc[p].mine
            /\ Cardinality(loc[p].mine) = UMax

Decisions(p) ==
    /\ pc[p] \in Asked => AgreedQuery(p)
    /\ pc[p] = "salt" => DueToday(p)
    /\ pc[p] \in {"round0"} \cup Indexing => loc[p].forced = DueToday(p)
    /\ pc[p] \in Indexing =>
          /\ loc[p].path = IF FullPath THEN "full" ELSE "incremental"
          /\ Padded(p)
    /\ pc[p] = "jtilde" => ~ FullPath
    /\ pc[p] = "supports" => FullPath
    /\ pc[p] \in Indexing \cup {"commit"} => loc[p].peer_size = st[Peer(p)].my_size
    /\ pc[p] = "eval" => loc[p].betas = loc["R"].mine \cup loc["S"].mine
    /\ pc[p] = "open" => loc[p].share = Convert(p, st[p].t_share, st[p].my_size,
                                                st[Peer(p)].my_size)

\* p has refilled its pool for today's query and the peer has not.
Refilled(p) == pc[Peer(p)] = "provision" /\ pc[p] \in {"salt", "round0"}

Provisions(p) ==
    /\ pc[p] \in {"salt", "round0"} \cup Indexing => pool[p] >= Target
    /\ Refilled(p) => pool[p] = IF pool[Peer(p)] >= Target THEN pool[Peer(p)]
                                ELSE Target
    /\ ~ Refilled(p) /\ ~ Refilled(Peer(p)) => pool[p] = pool[Peer(p)]

-------------------------------------------------------------------------------
(* How what they hold fits together.                                         *)

\* What p holds, or will hold in memory once it has committed.
Working(p) ==
    IF pc[p] = "commit"
    THEN Commit(st[p], loc[p].path, loc[p].betas, loc[p].fresh)
    ELSE st[p]

\* What p would come back with once everybody has committed.
Durable(p) == IF pc[p] = "commit" THEN Working(p) ELSE disk[p]

Rebuilding(p) == pc[p] \in {"round0"} \cup Indexing /\ loc[p].forced

Resalted(p) == pc[p] = "round0" /\ pc[Peer(p)] = "salt"

Related(sR, sS) ==
    /\ sR.query_no = sS.query_no
    /\ sR.oracle_salt = sS.oracle_salt
    /\ sR.query_no > 0 => CoherentCaches(sR, sS)

InMemory ==
    /\ Working("R").query_no = Working("S").query_no
    /\ (\A p \in Party : ~ Resalted(p)) => st["R"].oracle_salt = st["S"].oracle_salt
    /\ (\A p \in Party : ~ Rebuilding(p)) /\ Working("R").query_no > 0
          => CoherentCaches(Working("R"), Working("S"))

OnDisk == Related(Durable("R"), Durable("S"))

Saved(p) == disk[p] = st[p] \/ (pc[p] \in Ended /\ offline > 0)

\* A half of an opened count is out only when both states are on disk.
Settled(p) ==
    pc[p] = "open" =>
        \A q \in Party : \/ pc[q] = "commit"
                         \/ st[q].J = {} /\ Saved(q) /\ st[q].query_no > 0

RightCount(c) ==
    NoOverflow => c = Cardinality(st["R"].my_ids \cap st["S"].my_ids) % P

Answers(p) ==
    /\ pc[p] \notin Ended \cup {"idle"} => answer[p] = NoAnswer
    /\ pc[p] = "idle" /\ answer[p] # NoAnswer =>
          RightCount(answer[p]) /\ \A q \in Party : Saved(q)

\* Nobody ends but by having finished, or by learning that the peer has other
\* plans or is gone; and that only if the plans differ or the peer left early.
Endings(p) ==
    /\ why[p] \in {"none", "drift", "peer"}
    /\ pc[p] # "crashed"
    /\ pc[p] = "sync" => day[p] <= Len(schedule[p])
    /\ schedule["R"] = schedule["S"] /\ pc[p] = "stopped" => LeftEarly(Peer(p))

JointInv ==
    /\ Places
    /\ \A p \in Party : /\ Decisions(p) /\ Provisions(p) /\ Settled(p)
                        /\ Answers(p) /\ Endings(p)
    /\ InMemory
    /\ OnDisk

-------------------------------------------------------------------------------
(* One query a session, whatever crashes: what the two files hold, and how    *)
(* far they can still get.                                                   *)

\* The last day of a schedule, and only that one, has a query: what the crash
\* matrix starts its processes with.
AsksLast(s) == s # <<>> /\ \A i \in DOMAIN s : s[i].query <=> i = Len(s)

OneQueryEach == \A s \in Schedules : AsksLast(s)

\* The places of a session up to its joint evaluation.
Unevaluated == {"idle", "sync", "provision", "salt", "round0", "jtilde", "supports",
                "eval"}

\* p may still commit a query in this session, and the most queries its file can
\* hold by the end of it.
MayCommit(p) == pc[p] \notin Ended \cup {"open"} /\ day[p] <= Len(schedule[p])

CanReach(p) == disk[p].query_no + (IF MayCommit(p) THEN 1 ELSE 0)

\* The two maps of shares have the same keys, and read as zero elsewhere.
KeyedAlike(sR, sS) ==
    /\ sR.cached = sS.cached
    /\ \A b \in Index \ sR.cached : sR.cache[b] = 0 /\ sS.cache[b] = 0

\* No file ever holds more queries than there were sessions.
OnceInv ==
    \A p \in Party :
        /\ pc[p] = "sync" => day[p] <= Len(schedule[p])
        /\ pc[p] \in Asked => day[p] = Len(schedule[p])
        /\ st[p].query_no = disk[p].query_no
        /\ CanReach(p) <= session

\* A party has lost a session for good; both are before their joint evaluation;
\* or both have passed it, and only the commits are left.
LostOne == \E p \in Party : CanReach(p) < session

BeforeEvaluation ==
    /\ JointInv
    /\ \A p \in Party : pc[p] \in Unevaluated /\ day[p] <= Len(schedule[p])
    /\ KeyedAlike(st["R"], st["S"])

PastEvaluation ==
    /\ \A p \in Party :
         /\ \/ pc[p] \in {"commit", "open"} \cup Ended
            \/ pc[p] = "idle" /\ day[p] > Len(schedule[p])
         /\ Durable(p).my_ids = st[p].my_ids
         /\ session > 0 => Durable(p).J = {}
    /\ Related(Durable("R"), Durable("S"))
    /\ KeyedAlike(Durable("R"), Durable("S"))
===============================================================================
