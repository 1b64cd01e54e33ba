---------------------------- MODULE CrashPostCheck ----------------------------
(***************************************************************************)
(* crash_post_check: what the crash matrix asks of the two state files     *)
(* after a crash when both parties have committed the query, before        *)
(* anything is run again.  It is given the ids each party should hold and  *)
(* the number of queries that should be committed.                         *)
(***************************************************************************)
EXTENDS PartyState

\* One file by itself; the oracle is restored from the salt the file records.
FileCheck(s, ids, queries) ==
    /\ s.my_ids = ids
    /\ CheckAgainst(s, ids, s.oracle_salt)
    /\ s.J = {}
    /\ s.query_no = queries

\* The two files together.
PairCheck(sR, sS) ==
    /\ sR.oracle_salt = sS.oracle_salt
    /\ sR.cached = sS.cached
    /\ AddShares([b \in Index |-> sR.cache[b] + sS.cache[b]], sR.cached)
         = (sR.t_share + sS.t_share) % P

PostCheck(sR, sS, idsR, idsS, queries) ==
    /\ FileCheck(sR, idsR, queries)
    /\ FileCheck(sS, idsS, queries)
    /\ PairCheck(sR, sS)
===============================================================================
