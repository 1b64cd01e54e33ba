-------------------------- MODULE SessionProperties --------------------------
(***************************************************************************)
(* What the two-party day loop of Session promises.                        *)
(***************************************************************************)
EXTENDS Session, CrashPostCheck

\* Every variable stays in its type.
TypeOK ==
    /\ st \in [Party -> States]
    /\ disk \in [Party -> States]
    /\ oracle \in [Party -> Salt]
    /\ pc \in [Party -> Control]
    /\ chan \in [Party -> Seq(Message)]
    /\ loc \in [Party -> Locals]
    /\ pool \in [Party -> Int]
    /\ day \in [Party -> Nat \ {0}]
    /\ schedule \in [Party -> Schedules \cup {<<>>}]
    /\ force \in [Party -> BOOLEAN]
    /\ answer \in [Party -> Fp \cup {NoAnswer}]
    /\ why \in [Party -> {"none", "drift", "salt", "umax", "occupied",
                          "length", "exhausted", "peer"}]
    /\ {session, crashes, offline} \subseteq Nat

\* A party's table is exactly the table of its ids under the salt it records,
\* its size is their number: in memory and on disk, whatever crashes, and
\* whatever changes of oracle and offline edits came before.
\* (update.cpp, salt.cpp:111-113, query.cpp commit, state.cpp save/load)
Consistent(s) ==
    /\ s.table = TableOf(s.my_ids, s.oracle_salt)
    /\ BucketsOf(s.my_ids, s.oracle_salt) \subseteq s.rows
    /\ s.my_size = Cardinality(s.my_ids)

LocalCoherence ==
    \A p \in Party :
        /\ Consistent(st[p])
        /\ Consistent(disk[p])
        /\ pc[p] \notin Ended => oracle[p] = st[p].oracle_salt

\* The sum of the parties' shares of every bucket neither of them has touched
\* since its last commit is the bucket's symmetric difference, unless that is
\* beyond what a bucket decodes, and their
\* t_shares add up to the sum over all buckets.  An incremental query reads
\* the clean buckets from nowhere else (query.cpp:236-256).
Opened(sR, sS, b) == (sR.cache[b] + sS.cache[b]) % P

Differences(sR, sS, b) ==
    Cardinality({x \in Id : sR.table[b][x] # sS.table[b][x]})

CoherentCaches(sR, sS) ==
    /\ \A b \in Index \ (sR.J \cup sS.J) :
          Differences(sR, sS, b) <= T
             => Opened(sR, sS, b) = Differences(sR, sS, b) % P
    /\ (sR.t_share + sS.t_share) % P
         = AddShares([b \in Index |-> Opened(sR, sS, b)], Index)

BetweenQueries(p) == pc[p] \in {"idle", "sync", "provision"}

CacheCoherent ==
    (/\ \A p \in Party : BetweenQueries(p)
     /\ st["R"].query_no = st["S"].query_no
     /\ st["R"].query_no > 0)
    => CoherentCaches(st["R"], st["S"])

\* The same of the two state files whenever both processes are down: what the
\* next session loads is a matching pair.  Only --force-refresh at one party
\* alone, which no check of the parties covers, may leave another one.
SameFlags == force["R"] = force["S"]

DiskCoherent ==
    Down /\ SameFlags
         => /\ disk["R"].query_no = disk["S"].query_no
            /\ disk["R"].oracle_salt = disk["S"].oracle_salt
            /\ disk["R"].query_no > 0 => CoherentCaches(disk["R"], disk["S"])

\* The count a party opens is the size of the intersection of the two sets the
\* parties held in that query, unless a bucket held more differences then than
\* it decodes.  An overflow of an earlier query has no effect any more.
NoOverflow == \A b \in Index : Rank(b) <= T

CountCorrect ==
    \A p \in Party :
        (pc[p] = "idle" /\ answer[p] # NoAnswer /\ NoOverflow)
        => answer[p] = Cardinality(st["R"].my_ids \cap st["S"].my_ids)

\* The query number the last query q committed began with.
LastNumber(q) == IF st[q].query_no > 0 THEN st[q].query_no - 1 ELSE 0

\* Nobody is told a count by a query that was a maintenance query for one party
\* and a plain one for the other: because the --force-refresh of the two differ,
\* or because a crash has left their query numbers apart and only one of them
\* was a multiple of Phi (party_main.cpp:607; the digest of line 596 covers
\* neither).  The one party enters an exchange more than the other, and their
\* halves of the count never meet.
Changes(q, p) ==
    \/ force[q]
    \/ Due(LastNumber(q), Phi, schedule[p][day[p] - 1].maintenance, FALSE)

MixedQueriesTellNothing ==
    \A p \in Party :
        (pc[p] = "idle" /\ answer[p] # NoAnswer) => (Changes("R", p) <=> Changes("S", p))

\* Parties that evaluate together bucket their ids with the same oracle.
OneOracle ==
    (\A p \in Party : pc[p] = "eval") => oracle["R"] = oracle["S"]

\* Both parties take the same path to the same list of buckets with the same
\* number of correlations left, and neither ever trips over an internal
\* check: SwitchRule, the padding and the provisioning agree on both sides.
Lockstep ==
    /\ (\A p \in Party : pc[p] = "eval") =>
          /\ loc["R"].path = loc["S"].path
          /\ loc["R"].betas = loc["S"].betas
          /\ pool["R"] = pool["S"]
    /\ \A p \in Party : why[p] \notin {"salt", "umax", "occupied", "length",
                                      "exhausted"}

\* Once a count is opened by one party, the very states it is about are on both
\* disks: each save precedes its party's half of open(), and nothing is edited
\* before both halves are in (query.cpp:264 before party_main.cpp:626).  Only an
\* offline edit after its process has ended takes a disk further.
AnswerDurable ==
    \A p, q \in Party :
        (pc[p] = "idle" /\ answer[p] # NoAnswer)
        => \/ disk[q] = st[q]
           \/ pc[q] \in Ended /\ offline > 0

\* Whatever crashes: when every session so far has left one more query in both
\* state files, the two pass the post-crash check, with the ids the parties
\* last worked with (run_crash_matrix.py, step 5b, is one crash at a time).
PostCheckPasses ==
    (/\ Down /\ session > 0
     /\ \A p \in Party : disk[p].query_no = session)
    => PostCheck(disk["R"], disk["S"], st["R"].my_ids, st["S"].my_ids, session)

\* Parties started with the same schedule and the same force flag both work
\* through it to its end: no check, drift guard or lost exchange ever ends one
\* of a healthy pair, unless its peer has left early, after a day that used up
\* its --budget-s (party_main.cpp:641-649).
LeftEarly(p) == pc[p] = "done" /\ day[p] <= Len(schedule[p])

HealthyPairFinishes ==
    (/\ Down /\ session > 0
     /\ schedule["R"] = schedule["S"] /\ SameFlags)
    => \A p \in Party : pc[p] # "done" => LeftEarly(Peer(p))

\* Every session comes to an end, whatever a crash or a stop of one process
\* leaves the other waiting for.
SessionEnds == []<>Down

\* The refinement: the sets in use are the ids in memory, the saved ones those
\* on disk, and a query is outstanding from the joint evaluation to the last
\* opening of its count.
InQuery == \E p \in Party : pc[p] \in {"commit", "open"}

Promise == INSTANCE PsiCardinality WITH
    held  <- [p \in Party |-> st[p].my_ids],
    saved <- [p \in Party |-> disk[p].my_ids],
    asked <- IF InQuery THEN Cardinality(st["R"].my_ids \cap st["S"].my_ids)
                        ELSE NoAnswer,
    told  <- answer

\* Session implements PsiCardinality.
Implements == Promise!Spec
===============================================================================
