# SYMPSICA in TLA+

SYMPSICA computes, day after day, the size of the intersection of two parties'
changing sets. Each party keeps its ids in buckets, as power sums; a query
evaluates the buckets that changed (or all of them) on secret shares, caches
the results, and opens one number. This directory models the C++ program
(`src/src`, `src/include`, `src/apps`), checks the models with TLC and proves
theorems about them with TLAPS. `PROJECT.json` lists the components, the runs,
the mutants that show each property can fail, the source lines behind every
definition, the hazards, the findings and the theorems.

## 1. Inventory

| part | state it keeps | operations | talks to |
|---|---|---|---|
| day loop, `apps/party_main.cpp` | schedule, flags, `Params` (with the oracle), `Pools`, `PartyState` | load, one day after another, `--update-only`, `--budget-s`, `--force-refresh` | everything below, in a fixed order per day |
| `Update::apply`, `protocols/update.cpp` | – | filter the edit lists, edit table, ids, dirty set, size | `PartyState`, oracle |
| `PartyState`, `core/state.cpp`, `core/table.cpp` | ids, rows of power sums, dirty set `J`, cached shares, `t_share`, sizes, query number, salt; `state.bin` | save, load, salt guard | file system |
| `Query`, `SwitchRule`, `protocols/query.cpp` | locals of one query | round 0, choice of path, padding, exchange of indices, evaluation, commit, convert, open | peer, evaluator, pools, `save` |
| `SaltManager`, `ScheduleSync`, `protocols/salt.cpp` | – | due rule, salt exchange, rebuild, forced full query; digest of the day | peer, `Query` |
| evaluator, `gates/*.cpp`, `core/share.cpp` | shares of one batch of buckets | 7 rounds of Beaver products, 1 of masked openings and DPF leaves | peer, both pools |
| `Setup`, pools, `protocols/setup.cpp`, `detail/*`, `core/pools.cpp` | base OTs, triples, zero-test gates, correlation numbers | base OTs once, refill in batches of 512, take, take by id | peer, libOTe |
| `Channel`, `utils/net.cpp` | a socket | send, receive, exchange | coproto |
| field, encoding, wire codec, `utils/*` | – | arithmetic modulo 2^61 - 1, generator, bucket oracle | – |

The two processes share nothing but messages. They run the same loop, and
every exchange must be met by the same exchange at the peer; nothing tags a
message with what it is, so what keeps them together is that each derives the
next step from values both have. A party is one thread; all concurrency is
between the two of them.

What is hard, and where it is looked at (the full list is `hazards` in
`PROJECT.json`):

* *stale shares*: an incremental query adds up cached results of earlier days.
  A bucket that changed and was not marked is wrong only queries later
  (`CacheCoherent`, `DiskCoherent`, `CountCorrect`).
* *desynchronisation*: path, padding, provisioning and salt are decided at two
  places from exchanged values (`Lockstep`, `OneOracle`, `HealthyPairFinishes`).
* *crashes*: each party saves on its own, in the middle of a joint query, with
  a seven-call `save` (`NeverTorn`, `SavesAtomically`, `AnswerDurable`,
  `LocalCoherence`, `PostCheckPasses`, and the two findings below); what a
  reader makes of a cut, older or damaged file (`OnlyWholeFilesLoad`,
  `NothingFromBeyond`).
* *lost peers*: an exchange that cannot complete ends the process or, because
  `Channel::exchange` drops the results of `when_all_ready` (net.cpp:122),
  returns and leaves the buffer as it was (`DiskCoherent`, `SessionEnds`,
  `MixedQueriesTellNothing`, `FillsEndTogether`).
* *masked arithmetic*: interleaved rounds, zero tests on masked values,
  rejected masks, vanishing minors, factors spelled by OT choices
  (`RoundsOpen`, `Evaluates`, `GatesSound`, `SameOts`, `MinorsTell`,
  `TriplesMultiply`, `EndsOnlyOnP`).
* *budgets*: correlations are provisioned before it is known what is needed
  (`ExactBudget`, `SlackSuffices`, `HealthyPairFinishes`).

## 2. Modules

```
PsiCardinality   what the two users are promised          (abstract)
   ^ Implements
PartyState <- Session <- SessionProperties <- MCSession    the day loop of two parties
PartyState <- CrashPostCheck <-+                           the post-crash check
SessionProperties <- SessionInvariant <- SessionProofs     what relates the two parties
AtomicState  <- StateFile                                  save() and load(), call by call
StateFile, StateLayout <- StateBytes <- MCStateFile, StateFileProofs  the bytes of state.bin
Field <- Encoding <- Minors <- PowerSums                   Fp, rows, minors, what they tell
Minors <- FieldProofs                                      arithmetic, for any field
PowerSums, FieldProofs <- PowerSumProofs                   any ids, any edits
JointEvaluation  what a query takes for granted of an evaluation  (abstract)
   ^ Evaluates
Minors, DigitSplit <- BucketEvaluator <- MCBucketEvaluator eval_buckets, share by share
BucketEvaluator, FieldProofs <- EvaluatorProofs            what it yields, for any field
DigitSplit <- GatePipeline <- GateProofs                   generate_ztgates
Field <- TripleGeneration <- MCTripleGeneration, TripleProofs  beaver_triples
Pools <- MCPools, PoolsProofs                              Setup, refill_offline, CorrelationPool
```

**PartyState** has one party's record and every local operation as an operator
on it: `Apply` is `Update::apply` with its three filters, `Rebuilt` the second
half of `SaltManager::refresh`, `Decide` and `Due` the two rules,
`CommitReplace` and `CommitAccumulate` the two commits, `Convert` the local
share of the count. A row of power sums is the multiset of ids edited into it:
power sums are additive over edits and, up to K = 7 ids, determined by and
determining the multiset; PowerSums has that on field elements (`RowsTell`). `rows` is the key set of the table's map, since an edit never
erases a row and `run_full` has to leave emptied ones out. Index 0 exists
beside 1..M because a buffer that was never written reads as 0.

**Session** is the day loop of both processes, one action from one blocking
call to the next: `BeginDay`, `RecvSync` (the digest check, all of
`Update::apply`, and the provisioning message), `RecvProvision` (refill to the
common target, due rule, first message of refresh or query), `RecvSalt`,
`RecvRound0` (path, padding, publication), `RecvIndices`, `Evaluate`,
`CommitQuery` (commit, save, convert, send), `RecvOpen`. Around them: `Exit`
(end of schedule or `--budget-s`), `LosePeer`, `EvaluateAlone`, `Crash`,
`StartSession` (load both state files, connect, empty pools), `UpdateOnly`.
Messages are records in a FIFO per receiver. A process that dies may take its
last message with it. `Failed` says when an exchange cannot complete: the next
message belongs to another exchange, or there is none and the peer is gone.
The constant `FailedExchange` gives what happens then; both outcomes are
allowed except in the two finding runs, which need only the plain one.
The digest buffer of `ScheduleSync::sync` is uninitialized, so that after an
exchange that failed unnoticed it may hold any bytes. The model delivers `NoDay`,
which stands for every value but one: that the 64 bits happen to be the
party's own digest is left out. (The other buffers that are not initialized hold
any size a set may have, and any announcement.)
A failed `open` always ends the process: its receive is a call of its own
(share.cpp:19) whose error surfaces.
`Evaluate` is the joint evaluation in one step: for every bucket, shares of the
number of differing ids if that is at most T and of any number up to T
otherwise. BucketEvaluator has it in full, and JointEvaluation, which it
implements, is what this step assumes. When processes end, `st` keeps their last state so that
properties can speak of it; `StartSession` overwrites it from `disk`.

**PsiCardinality** is the promise: sets that are edited and saved, questions,
and answers that are the size of the intersection of the sets as they were
when asked. `Implements` (SessionProperties) is the refinement.

**CrashPostCheck** is the program of that name: what the crash matrix asks of the
two state files when both parties have committed the query (ids, tables rebuilt
under the recorded salt, empty dirty sets, the query number, equal salts, equal
key sets of the caches, `t_share` against the sum of the cache). SessionProperties
asks it of every pair of files that says so of itself (`PostCheckPasses`).

**StateFile** has `save` call by call (open the temporary file, write, flush,
fsync, close, rename), any prefix of it cut by a kill or a failing call, power
losses, and `load`. `path` is what processes see, `dir` what the directory on
the disk names: nobody syncs the directory, so it lags. **AtomicState** is what
callers rely on. There a state is any value with a size. **StateLayout** has the
bytes: `Serialize` what `save` puts into its buffer, `Load` what `load` makes of
any bytes, with each of its checks against what is left of the file. Its words
wrap, as `u64_vec_wire_size` does. **StateBytes** puts the two together, a block
of StateFile being a byte of StateLayout, for states as the types of `PartyState`
allow them (`HeldInBytes`).

**Field** is `Fp` on words that wrap, with the double fold of `mul`.
**Encoding** adds the generator search, `sigma` and row edits; **Minors** the
28 and 12 products of the two layers and `t_of`; **PowerSums** lets ids come
and go in one bucket of both parties. **BucketEvaluator** runs the eight rounds
of `eval_buckets` at both parties, each at its own pace: correlations are taken
in order, shares of masked values are exchanged and opened. A message is cut
into a piece per bucket and the sockets hold `Capacity` of them one way, so the
two halves of `Channel::exchange` show (`SendPiece`, `ReceivePiece`); where the
cut falls in the bytes does not matter. **GatePipeline** makes
a batch of zero-test gates (sampling, joint rejection test, B2A, DPF keys) out
of a sized pool of OTs; **TripleGeneration** a batch of Beaver triples out of
two oblivious linear evaluations each. The Sender's factor in one is what its OT
choices spell (`DeltaFromChoices`); libOTe's noisy VOLE takes that number apart
again (`BinaryDecomposition`) and applies the Receiver's corrections to the pads
of the choices, on elements `CoeffCtxFp61` made of random blocks. **DigitSplit** cuts a mask into four
digits. **Pools** is the sequence of calls into libOTe that each party makes in
`Setup::run` and `refill_offline` (`Call`), the numbering of the correlations
and the takes of a query: a call is a step of both parties that is possible
only when they are in the two ends of the same call. The common target comes
from Session, what happens inside a batch from the two modules before.
**JointEvaluation** is the abstract evaluation: each party gets its shares once,
in either order, and they add up to the size of the difference of each bucket.
What libOTe does (OT extension, noisy VOLE, DPF key generation, DPF leaves) is
external: a joint step with the outcome its interface promises.

## 3. Runs

| run | question | distinct states |
|---|---|---|
| Queries | do both parties stay in step, are cached shares and counts right, on every path, with overflowing buckets and early `--budget-s` exits? | 1.20 M |
| Sessions | the same over two sessions and an offline edit, on disk as well; does the whole implement PsiCardinality, and does a healthy pair finish? | 1.09 M |
| Maintenance | scheduled, periodic (`Phi` = 2) and forced changes of the oracle; diverging schedules; `--force-refresh` at either, both or neither; a `--budget-s` that ends one party early | 0.98 M |
| Recovery | two crashes anywhere in three sessions of full queries, the third query a maintenance one, for both or, after a crash, for one alone; do committed files pass the post-crash check, is nobody told a count by a mixed query, does every session end? | 1.17 M |
| SplitOracle | finding: two oracles after a crash in a maintenance query | stops |
| StaleReplay | finding: a wrong count after a crash in an incremental query | stops |
| StateFile | is `save` atomic, does `load` tell whole files from others, byte by byte? | 9.2 k |
| PowerSums | do rows and minors tell what Session takes from them? | 16 k |
| BucketEvaluator | do the eight rounds implement the evaluation, in every interleaving, at the stated price, and over full sockets? | 54 k |
| Pools | are both parties in the same calls, do numbers mean the same, are queries never short, does every fill end at both? | 85 k |
| GatePipeline | rejected masks: are gates right, do both parties use the same OTs, is the slack enough? | 48 k |
| TripleGeneration | do the triples multiply whatever the OT choices spell, and does a batch end early for nothing else? | 56 k |

Sessions and Recovery, where no bucket overflows (`T` = 4), check counts by
`Implements`, which includes `CountCorrect`. `LocalCoherence` is checked where the
salt changes most and proved for every instance.

Bounds of the Session runs. Three ids, three buckets, `UMax` = 1: the smallest
numbers with which a set can be empty, equal, overlapping; a dirty set can be
padded, full or too large (announced); 2 * UMax is on either side of the sum of
the sizes; a bucket can hold two ids (oracles of MCSession, `MCCollide`) and,
with T = 1 in Queries, more differences than it decodes. Three days let a
cached share be made, become stale and be read again. P = 7 exceeds every sum
of counts that occurs. The Receiver's fresh shares come from `Masks`, two
values in Queries, where a sum of shares could depend on them, one elsewhere:
the arithmetic is linear in them. One edit per day; two days with an edit each
undo one another, which is what the table, `J` and ghost rows need. Recovery
has two ids in two buckets and `UMax` = 2, so that every query is full: with
incremental ones the pair does not recover, see StaleReplay. A crash between the
two saves leaves query numbers apart by one; with `Phi` = 2 and three sessions of
one query each, the third is then due at one party only. A fourth session
after a crash in a maintenance query would show SplitOracle again. `MaxSessions`, `MaxCrashes`, `MaxOffline`
bound the histories; a crash, a restart and a second crash fit. In Maintenance
the peer of a party whose budget ended it starts another day alone; the digest it
never receives must stop it before it saves (`DiskCoherent`, with the mutant
`SameInPlace`).

The field runs scale 2^61 - 1 down to 127 (ids below 64), 31 or 7: Mersenne
numbers too, with `WordSize` wide enough for the same folds. 0 and 63 are ids
whose first minor vanishes (3^63 = -1 mod 127), the counterpart of the real
field's 0 and (P - 1) / 2. Masks of GatePipeline have 5 bits in digits of 1, 1,
1 and 2 bits, and all-ones masks occur in every round until the slack is used
up. StateFile has three saves of three states: a fresh one, one with edits and
one after a query, so that every list of the format occurs empty and with
entries; bytes have four values, words two bytes, indices and salts one, which
makes sixteen length prefixes that wrap as the 2^64 real ones do. A file can be cut
at each of its bytes. TripleGeneration has two triples over the field of 7
elements (three OTs a product), every choice of the six OTs of a triple, and pads
and samples that are words beyond the field. BucketEvaluator has buffers of one piece and messages of
two, the least with which a message does not fit. Pools has batches of two,
refills of up to three batches the last of which is short, three queries that
take anything from nothing to all they were provisioned for, and extensions on
either side of the least number of OTs.

Fairness (Session's `FairSpec`, used in Recovery): weak fairness of each process's own
steps and of the joint evaluation. A party is one thread that takes its next
step whenever it can; messages in a socket arrive; and the death of a peer
closes its socket, so that an exchange that cannot complete ends one of the two
ways above. No fairness is assumed of crashes, restarts, offline edits or
budget stops.

Fairness in Pools (`FairSpec`): a call into libOTe that both parties are in goes
on, and a party whose peer has ended notices, for the same reasons. None is
assumed of failures, of another query, or of the takes of an evaluation. With it
every fill ends at both parties, with what they asked for or with both stopped
(`FillsEndTogether`).

BucketEvaluator has no liveness property: deadlock freedom and `NeverBothBlocked`
are checked, and no behaviour of it repeats a state.

### Findings

* **SplitOracle** (`OneOracle`). A maintenance query records the new salt at
  each party by a save of its own. A crash of one party before its save leaves
  two state files with different salts. After a restart the guard that should
  catch this (state.cpp:263-269) compares each file with the oracle built from
  the same file, and passes; the parties evaluate under two oracles.
* **StaleReplay** (`CountCorrect`). query.cpp:260-262 says that after a crash
  before `save` only the file's atomicity matters. The peer has committed,
  though, and has saved a new share of every bucket the query evaluated, padding
  included. The crashed party restarts from its previous commit: with the old
  shares of those buckets, and, because edits are in memory only until a commit
  saves them, with an empty dirty set like its peer. A bucket that is in neither
  dirty set is not evaluated again, so the next incremental query adds a new
  share to an old one and opens a wrong count. (Were the bucket still in `J`, it
  would be evaluated and repaired.) No edit is needed: in TLC's trace the bucket
  is one both parties had only padded with.
  run_crash_matrix.py:51-57 waives such replays; the comment does not.

Two behaviours are not findings, because nothing promises otherwise. Edits since
the last query are in memory only and are lost when a networked session ends;
`Implements` checks that a party then falls back to its last saved set. And a pair
started with different `--force-refresh` flags goes two ways (the day digest does
not cover the flag), each party meeting the other's message in the wrong
exchange; so does a pair whose query numbers a crash has left apart, on a day
that is a multiple of phi for one of them. `MixedQueriesTellNothing` says, and is
proved, that neither is told a count by such a query, and `LocalCoherence` holds
of such pairs too. If the failed exchanges end
the processes, nothing else goes wrong either. If they go unnoticed
(net.cpp:122), one party can commit and save shares that belong to no bucket
before its `open` fails, while the other has stopped: the files no longer match,
which is why `DiskCoherent` and `HealthyPairFinishes` speak of pairs that agree on
the flag (`SameFlags`), and a later session of such a pair can open a wrong count.

## 4. Proofs

All theorems hold for every value of the constants the modules' assumptions
allow: any sets of ids, buckets and salts, any schedules, any number of
sessions, crashes, refills, batches, and fields of any Mersenne size. The
assumptions (`ConstantsAssumption`, `SessionAssumption`, `StateFileAssumption`,
`FieldAssumption`, `EncodingAssumption`, `GeneratorAssumption`,
`DigitAssumption`, `EvaluatorAssumption`, `DealtAssumption`,
`PipelineAssumption`, `TripleAssumption`, `PoolsAssumption`, `LayoutAssumption`,
`ModulusAssumption`) are each evaluated by a run. `GeneratorAssumption` says that
the search for a generator ends, which the program relies on as well (it would
loop), and `DealtAssumption` that Setup deals field elements (`TriplesMultiply`
and `GatesSound` are about where they come from). The listed theorems are in
`PROJECT.json`; what follows is how they hang together.

### The day loop

`SessionProofs` is about one party, and about what shares add up to.

* `LocalCoherenceHolds` and `TypeCorrect`, for every behaviour. LocalCoherence
  speaks of running parties and says nothing of how records look, so the
  inductive invariant `LocalInv` adds that every state, in memory and on disk, is
  a record whose table, rows and size are those of its ids under its salt
  (`Sound`), and that a running process's oracle is its state's. The lemmas say
  what each operation does to `Sound`: `EditTableOf` (editing the table of a set
  gives the table of the edited set, because the filters make insertions new
  and deletions present), `EditSize`, `ApplySound`, `RebuiltSound`,
  `CommitSound`, `LoadedSound`.
* *Sums over buckets.* `SumOver` of the model picks one element after another,
  so what it computes needs an induction over finite sets. The library's
  induction theorems take an operator and cannot be used; `WFMin` of
  WellFoundedInduction takes a set, and with the ordering of finite sets by
  inclusion it gives the smallest counterexample. That yields `SumOver` adding
  up whatever is picked first (`SumRemove`), and from there
  `AccumulateCoherent` (an incremental commit turns caches that were right
  outside the dirty sets into caches that are right) and `CountFromShares` (what the
  converted shares open to is the size of the intersection, modulo P).

The second half of `SessionProofs` is mostly about a pair without crashes. What the two processes decide
agrees only because each has seen the values the other decides from, and the
messages that carry them may still be under way. `SessionInvariant` writes this
down as `JointInv`:

* `Places`: both parties are at the same exchange, or one is exactly one exchange
  ahead, or one has ended and the other is about to notice; with it, what each
  of the two queues holds in each of these cases, and that every message says
  what its sender's record says.
* `Decisions`, `Provisions`: path, indices, peer's size and pool of a party that
  has decided are those computed from both records.
* `InMemory`, `OnDisk`: query numbers and salts are equal and caches coherent,
  between the states the parties have or *will have committed*. A party commits
  while the other still evaluates, so nothing like this holds of `st` and `disk`
  as they are.
* `Settled`, `Answers`, `Endings`: no half of a count is under way before both
  states are saved, an answer is right, and nobody ends without a reason.

`PairAlways` is the invariant of the specification, by one lemma per action.
From it follow `LockstepHolds`, `OneOracleHolds`, `CacheCoherentHolds`,
`DiskCoherentHolds`, `CountCorrectHolds`, `HealthyPairFinishesHolds`, and
`ImplementsHolds`: every step of such a pair is a step of PsiCardinality under
the refinement mapping, or leaves it alone. Their hypotheses are the limits of
what the program keeps, not of the proof:

* `[]SameFlags`: with unequal `--force-refresh` the parties leave each other's
  exchanges (section 3, after the findings).
* `crashes = 0`: StaleReplay and SplitOracle are what happens otherwise.
* `Cardinality(Id) < P`, where a count is claimed: the opened number is one
  modulo P. There are 2^61 - 1 of them in the program.
* `NoOverflow`, which CountCorrect has as its own condition: with more than T
  differences in a bucket the evaluation means nothing (`Implements` needs it
  always, because PsiCardinality has no wrong answers).

`SessionProofs!AnswerDurableHolds` has none of these hypotheses: whoever has
been told a count has it on disk, and so has the peer, in every behaviour, with
crashes, unequal flags, failed exchanges and offline edits. Since the parties may
have drifted arbitrarily far apart, JointInv is of no use here. The argument
counts messages: a party sends one when it enters an exchange and takes one when
it leaves, so while both live there are as many messages under way as parties
waiting (`Balanced`). Together with what a party's last message says of where it
is, no party can get from an opening to the edits of the next day before its
peer has taken its half.

`SessionProofs!MixedQueriesTellNothingHolds` is as unconditional, and refines that
count. `TellInv` knows of each live pair either that both are in the same day and
the queue of each party is as long as what the peer has sent that day less what
it has taken itself (`SameDays`), or that one has finished the day the other is about
to finish (`NextDay`). A party due for maintenance takes one message more than
one that is not. So the peer's half of a count is at the head of a party's queue
when it waits for it only if both were due or neither was (`OpenSays`); in
between, messages are taken for what they are not, and the invariant says nothing of
what they hold.

`SessionProofs!PostCheckPassesHolds` has crashes again, any number at any point: two
files that have both committed every query pass the check of crash_post_check.
The hypotheses are those of the crash matrix, a query a session, on its last day
(`OneQueryEach`), and a maintenance rule both share (`[]SameFlags`); offline
edits are excluded for lack of any record of them. A session counts once in each
file, so a file holds at most as many queries as there were sessions (`OnceInv`),
and a party that ends before its commit leaves a file that is a query short for
good (`LostOne`): such a pair is never asked for equal records again, however its
salts and caches drift. Otherwise either both are before their joint evaluation,
and then JointInv holds anew, because the session began with files that belong
together (`BeforeEvaluation`), or both have passed it, and a party that is still
to commit has fixed the same buckets and the matching shares (`PastEvaluation`).
With more queries a session equal numbers need not stand for the same queries.

### State file

`NeverTornHolds` from `FilesInv` (type, how far the temporary file is at each
call, every file under the final name whole and synced), and
`SavesAtomicallyHolds`, the refinement of AtomicState, with `RegisterInv` (a
running process works on what is on disk) added. For any set of states, any file
size of each, any number of saves, with kills, failures and power losses.

The other two theorems are about the bytes: `OnlyWholeFilesLoadHolds` and
`NothingFromBeyondHolds`, for any widths of words, indices and salts (an index
narrower than a word), any number of values of a byte, any number of power sums
of a row and any modulus that fits a word. Their hypothesis `HeldInBytes` says
that the states are those the types of `PartyState` allow and that a block is a
byte; TLC evaluates it for the states of the run. The argument:

* a number written in its width is read back (`ReadBack`, digit by digit), and
  the pieces of `Serialize` stand where the running position of `Load` looks for
  them, however many entries the maps have (`FlattenIs`, `SerializeIs`,
  `CutFields`);
* the keys come in ascending order and once each (`AscendingIs`), so the entries
  read one after the other are the map again (`MapOfIs`, `WholeLoads`);
* in a file cut short, the first count that is missing lies at a place known from
  the counts before it, and whatever is read in its stead, what must follow it
  ends beyond the file (`RefusesCut`): the file is refused by a length, never by
  the luck of its contents;
* of an arbitrary sequence of bytes, what `Load` accepts has no more ids, rows,
  marks and shares than were counted, and the counts fit the file, since
  `Fits` bounds the length of the ids without wrapping (`LoadsWhatIsThere`).

### Field

`AddCorrect`, `SubCorrect`, `NegCorrect`, `ReduceCorrect`, `MulCorrect`,
`FromU64Correct`: each operation returns the canonical residue of the exact
result, and no intermediate word wraps unnoticed, for every `Base` and every
`WordSize` between 4 * Base and Base * (Base - 2), 2^61 and 2^64 among them. A
fold keeps the residue and brings a number below Base^2 to below 2 * Base, then
to at most Base, and P is the only non-canonical residue left.

The second part of FieldProofs is what the other arithmetic proofs stand on:
the congruence modulo P and its compatibility with the operations; induction on
naturals by `WFMin`; recursive functions on an interval, which exist and are
typed by the same means; powers of two; and bits (`SameBits`, `BitOfSlice`).

### Rows and minors

What a query takes for granted of the encoding, proved for any prime field in
the third part of FieldProofs and, for two parties that edit their rows in any
order, in PowerSumProofs:

* *Encodings differ* (`SigmaApart`). From Euclid's lemma Fermat's little theorem,
  so the order of an element divides P - 1; a proper divisor leaves out a prime
  factor, and the candidate would have failed the test of that factor. Hence
  the powers of the generator below P - 1 are different.
* *Rows tell ids* (`RowsApart`, `RowsTellHolds`). Newton's identities, each by an
  induction over the set, give the elementary symmetric values from the power
  sums, dividing by 1..7 (hence `K < P`); two sets with the same values are the
  roots of one polynomial.
* *Minors tell sizes* (`MinorsCount`, `MinorsTellHolds`). The circuit computes the
  Hankel minors (`CircuitIs`). With n encodings that differ, each with
  the sign of the side it is on, the minor of order n is the product of signs,
  encodings and squared differences, a unit, and those of higher order vanish. Both are
  identities of polynomials in up to four unknowns, taken apart until the
  SMT backend's arithmetic finds them.

The hypotheses are `PrimeField` and `AllFactors` (no prime factor of P - 1 is
missing from the list of the generator test), both assumed in PowerSums and
BucketEvaluator. They are true of 2^61 - 1 and the list of encoding.cpp, and TLC
evaluates them for the small field of the runs. Without them the statements are
false: a generator that is none gives two ids one encoding. The sums of the model are set folds; that a
fold adds up in any order is proved (`AnyOrder`), as are the existence of the
least element, induction over subsets and the division of a number by another.

### Gates and triples

* `GateProofs`. `GateInvariant` says how many OTs each party has paid for the
  masks it tried, that one is at most one message ahead of the other, and what both
  know of a mask that was accepted. The rest is arithmetic: the secret-shared
  bits weighted by powers of two are the mask, the digits cut from the mask are
  those cut from the bits, and a mask that is not all ones is a canonical
  element. From it `GatesSoundHolds`, `SameOtsHolds` and `SlackSufficesHolds`.
* `TripleProofs`. `OleCorrect`: row by row, the Sender's sum falls behind the
  Receiver's by x times what the choices have spelled so far; after the last
  row, by x * y. The inductive invariant of the batch needs the state in the
  middle of a triple, where its shares open to the first cross term (`HalfWay`). From it `TriplesMultiplyHolds` and `EndsOnlyOnPHolds`. That
  decomposing a factor gives the choices back is `SameBits`.

To be within reach, the sums of TripleGeneration are recursive functions, row by
row as the loops of the program are.

### The evaluator

`EvaluatorProofs` is about the two parties of BucketEvaluator, for every field,
every number of buckets, whatever Setup dealt and however small the sockets.
Its inductive invariant `EvaluatorInv` says of each party:

* `Paid`: it has taken the triples of the rounds it has begun, and no others;
* `Exchanging`: the parties are at most a round apart, and what a party has
  posted is the message of its round;
* `Stream`: what it has received and what is in its socket are, in order, the
  peer's message of its round and then, if the peer is ahead, the beginning of
  the next one. Nothing in a socket says which round or bucket it belongs to;
* `Wires`: what it holds of the rounds behind it is what their messages yield.

Messages and results are functions of earlier rounds (`Openings`, `Closings`),
so they stay what they were while the parties move on (`OpeningsKept`,
`ClosingsKept`). From the invariant follow

* `ExactBudgetHolds`, the widths of the rounds summing to 44;
* `NeverBothBlockedHolds`: two parties that can neither send nor receive would
  each have a full socket in front of them and an empty one behind them;
* `EvaluatorTypeCorrect`. It needs that rows are made of field elements, that is
  induction over set folds (`RowTyped`) and square-and-multiply (`PowTyped`);
* `RoundsOpenHolds`. A Beaver product is taken through the congruences modulo P
  (`ProductOpens`); a zero test compares digits, which decide equality because
  the bits do (`DigitsTell`, from `SameBits`), and multiplies the four verdicts;
* `ResultsOpenHolds`. Minors are linear between the products (`MinorsAdd`), so
  opening commutes with the circuit, and the sum of the suffix products counts
  down to the last nonzero minor (`CountsDown`): the shares of a result open to
  the `t_of` of the opened syndrome, however many ids differ;
* `EvaluatesHolds`, the refinement of JointEvaluation: `Finish` of round 8 is the
  step `First` or `Second`, everything else stutters. With `MinorsCount`
  the `t_of` that the shares open to is the number of ids that differ, as long as
  it is at most four.

### Pools

`PoolsProofs!PoolsInvariant`: when both parties are in the same call, between
two calls, or one has stopped, what they have been dealt is equal (used and
unused together), what one has taken and is about to take is what the other has
taken and is about to take, and the numbers are those of a single counter. From
it `SameCallHolds`, `OneMeaningHolds`, `ProvisionedHolds`.

### Only model-checked

* Liveness (`SessionEnds`, `FillsEndTogether`): temporal proofs with fairness and
  ENABLED are out of the prover's reach.
* What Recovery checks of `Implements` and what PostCheckPasses says of sessions
  with several queries: with crashes the files are related only while every
  session has one.

## 5. Not modelled

Command line, schedule file syntax, JSONL output, audit dump, `Params::echo`;
byte layouts of messages; BLAKE3 (the oracle is any function
from salts and ids to buckets) and pseudo-random streams (any outcome); secrecy
of the shares; `OverflowChecker::check`, which always aborts and is not called;
`Fp::inv`, which nothing calls; `take_by_id` and the wiping of taken keys; the
`SYMPSICA_*` wrong-build switches, which exist for negative tests;
the type traits and byte copies of `coeff_ctx.hpp`, vendored code, benchmarks,
baselines, data and test drivers (`crash_probe` among them).
Session keeps of the pools the number of evaluations they are good for, and of
the channel order and failure, not capacity.

## 6. Plan

Order: what makes an answer wrong first (day loop, state, crash), then what its
joint step assumes (evaluator, gates, triples), then what its channel and pools
assume, then more proofs.

1. *(done)* Session with its properties and refinement, StateFile, the field
   and the evaluator, the offline pipelines and pools; LocalCoherence, the
   state file and the field operations proved.
2. *(done)* The bytes of the state file, the post-crash check, pairs that
   disagree on `--force-refresh`, the evaluation as an abstract specification the
   evaluator implements, the OTs under a triple, liveness of the pools.
3. Not taken up: GatePipeline and TripleGeneration composed under Pools. A batch
   is one step of Pools, and both modules check what that step takes for granted
   (`SameOts`, `SlackSuffices`, `EndsOnlyOnP`); put together, their states
   multiply and no further property comes of it. Power losses under a session
   show nothing StaleReplay and SplitOracle do not.
4. *(done)* Proofs: the joint invariant of the day loop and what follows from it,
   the refinement of PsiCardinality, AnswerDurable for every behaviour, the
   pools, the gates, the triples, the evaluator and its refinement of
   JointEvaluation, types.
5. *(done)* Proofs for pairs that have parted ways: MixedQueriesTellNothing, for
   which messages are counted, and PostCheckPasses, for which sessions are.
6. *(done)* What rows and minors tell of the ids, for any prime field; what `load`
   makes of the bytes of a state file, for any layout of the kind.
