# Experience Hub: TLA+ models and proofs

Experience Hub is a local service in which agents keep experiences, share them
as capsules, and generate ideas from them. Everything it knows is in one SQLite
file: an append-only event ledger, source rows that the events name, receipts
that make every command idempotent, and projections that can be rebuilt from
the ledger. Several processes (services, maintenance commands, a background
worker) may have the file open at the same time, may be stopped or die at any
point, and read a wall clock that may step back.

This directory holds models of that system for TLC, and proofs for TLAPS. All
source paths below are relative to `src/experience_hub/`.

## 1. Inventory

| Component | State | Operations | Interacts with |
|---|---|---|---|
| Receipts and commands (`storage/idempotency.py`, `database.py`, `unit_of_work.py`, `event_store.py`) | receipts, ledger, writer lock, savepoint | reserve, replay, conflict, attach, complete, commit, roll back | every command of every other component |
| Projections (`storage/projections.py`) | tables, version rows, checkpoints | apply a batch, validate at startup, verify, repair | appending commands, processes of other releases, the receipts in progress |
| Inspiration runs (`inspiration/service.py`, `recovery.py`, `api/inflight.py`) | start receipt, trace, projected status, ideas, tasks in flight | start, freeze, generate, finalize, recover, shut down | receipts, writer lock, clock, other processes |
| Generation budget (`inspiration/deadlines.py`) | elapsed time, tokens consumed, operator results | run an operator, skip, expire, settle, finalize | generator, monotonic clock, projector, source validator |
| Ideas (`inspiration/incubation.py`, `lifecycle.py`, `projector.py`) | ideas, mechanism clusters, adopters | find again, evaluate, reject, adopt, archive | experiences, runs |
| Experiences (`experiences/`) | versions, temperature, pin, links, counters | create, version, confirm, corroborate, refute, pin, unpin, restore | lifecycle, retrieval, sharing |
| Lifecycle (`lifecycle/`) | cycle receipts, worker tick | evaluate, demote, archive, manual and background cycle | experiences, ideas |
| Retrieval (`retrieval/`) | accesses | search, get | experiences |
| Sharing (`sharing/`) | topics, subscriptions, capsules, inbox, adoptions, feedback, reputation | publish, deliver, adopt, reject, retract, judge | experiences, receipts, clock |
| Candidates and capture (`experiences/candidate_*.py`, `capture/`) | evidence, pending candidates, decisions | capture, adopt, reject | experiences, receipts |
| Passports (`passports/`) | quarantined imports, transfers | export, import, adopt, reject | experiences, receipts, other hubs |
| Source validation (`storage/validation.py`, `sharing/validation.py`, ...) | none | audit source rows, receipts and ledger against each other | run by startup, verification and repair |
| Replay lab (`experiments/`) | workspace files | publish artifact groups | a copied snapshot |
| Agents, HTTP, command line, benchmark, release evidence, migrations | little or none | plumbing | all |

What is hard about it:

- commands are retried, race, and reuse keys; a process can die or a task be
  cancelled between any two steps, even at the commit;
- a run spans three transactions with a model call in between, while other
  processes may recover it, and runs finish in another order than they start;
- releases with different reducers share one ledger, and a reducer has an online
  path and a rebuild path that must come to the same rows and the same verdicts;
- the worker and manual cycles act on times read earlier, the clock steps back,
  and each handler compares its time with some of the times that the reducer and
  the validator later compare;
- deadlines and tokens are handed from operator to operator;
- a capsule or a passport reaches an agent over several paths and more than
  once, and finds experiences there that are warm, cold or archived;
- the source validator refuses to start a database whose history breaks a rule,
  so whatever a writer lets through counts.

The last point shapes the models. In most modules the ledger, the rows and the
receipts are explicit, the reducers are operators over them with their refusals,
and the source validator is a predicate that every reachable state has to
satisfy: the commands, the reducers and the validator are three descriptions of
the same rules, written apart in the code, and most hazards are that they
disagree. `PROJECT.json` lists the hazards with their lines and the properties
that cover them.

What makes each component correct, in a line: a key is decided once and every
answer is that decision; tables equal the replay of the ledger; every run ends,
and its receipt, trace, status and ideas agree; pool and deadline hold and what
is recorded passes the audit; experiences cool by hysteresis only, stay unique
in content and are archived only when unused; confidence follows independent
roots, provenance is the path taken, and trust replays from the ledger; an
idea's counters are what its history says; what waits for a decision is decided
once, and nothing becomes an experience before.

## 2. Modules

| Module | Models | Kind |
|---|---|---|
| `Receipts` | the receipt store as operators | helpers |
| `ExactlyOnce` | what the command layer promises its callers | abstract specification |
| `CommandLedger` | commands in one transaction, at the grain of BEGIN, savepoint, COMMIT | component, implements `ExactlyOnce` |
| `CommandLedgerProofs` | its invariants and its refinement | proofs |
| `Projections` | reducers, versions, verification, repair | component |
| `ProjectionsProofs` | types, replay of the tables, verdicts of verifications | proofs |
| `InspirationRun` | the command that spans three transactions, recovery, shutdown | component, implements `ExactlyOnce` too |
| `InspirationProofs` | types, runs against their receipts, its refinement | proofs |
| `GenerationBudget` | the provider phase of one run and its audit | component |
| `GenerationBudgetProofs` | types, pool and deadline, rejections, the audit of recorded runs | proofs |
| `ExperienceMemory` | experiences, access and lifecycle cycles | component |
| `MemoryReducers` | payloads and reducers of experiences and their terms | operators, over `ExperienceMemory` |
| `MemoryAudit` | the source validator of experiences | operators, over `MemoryReducers` |
| `MemoryProofs` | the kinds of steps; types, archive, demotions, answers of cycles, codecs, contents; reducer and validator against the ledger: acceptance, rebuild, audit | proofs |
| `Sharing` | capsules from publication to reputation | component |
| `SharingReducers`, `SharingAudit` | the three reducers of sharing; the validator of the graph and of the receipts | operators, over `Sharing` |
| `SharingProofs` | types, counts of verdicts, provenance; that every startup accepts the stored graph but for two named exceptions; what rejections die of | proofs |
| `IdeaIncubation` | the planner of clusters and the shapes of payloads, as pure operators | operators |
| `IdeaReducers`, `IdeaAudit` | the reducers of clusters and ideas; the validator of ideas | operators |
| `IdeaLedger` | runs that retain ideas, evaluations, decisions, adoptions, the archive | component, composes the three before |
| `IdeaProofs` | planner, reducers and commands: types with all payloads, the counters of clusters | proofs |
| `ImportSources` | rows, receipts and experiences that captures and passports share | operators |
| `Candidates`, `Passports` | extraction, views, reducers and validators of each | operators |
| `Quarantine` | what waits is decided once, and enters only then | abstract specification |
| `Imports` | captures, candidates and passports over one experience store | composition, implements `Quarantine` |
| `ImportsProofs` | what commands write and reducers make of it; types, the refinement of `Quarantine` | proofs |
| `MC...` | values of the constants for TLC | instances |

The modules are layered. `CommandLedger` shows that a transaction takes effect
at once or not at all and is answered consistently; the modules above take a
transaction as one action on that ground. A command refused with an error of the
protocol changes nothing but its receipt and is an action only where the receipt
matters later. A command that dies of an integrity error (its own reducer, or
the loading of its rows, refuses what the handler let through) is recorded in a
variable `refused` (`IdeaLedger`, `Imports`, `Sharing`), so that an invariant can say
which of these can happen; in `ExperienceMemory` and `GenerationBudget` an invariant
says that none does.
`InspirationRun` takes one provider phase as one action, which
`GenerationBudget` takes apart; `IdeaLedger` takes a run as its start and its
finalization and follows the ideas from there.

### CommandLedger

A call is where `CommandExecutor.execute` stands. `BeginImmediate` and
`BeginBusy` are `Database._transaction`; `ReserveNew`, `ReserveReplay` and
`ReserveConflict` are the three outcomes of `ReceiptStore.reserve`;
`HandlerWrites`, `HandlerReturns`, `HandlerRejects` (a replayable error, which
rolls the savepoint back and keeps the receipt) and `HandlerRaises` are the
handler; `Commit`, `CommitUnanswered` (durable, but cancelled before anyone was
told), `CommitFails`, `Rollback`, `Deliver`, `LoseReply`, `Crash` and `Restart`
end it. `wReceipts` and `wEvents` are the database as the writer sees it. A
response is the part of the ledger its execution filled, so two executions never
answer alike by accident. `CommittedReceiptsExact` says that no committed
receipt is left in progress and that the events of a command are in the ledger
exactly when its receipt says so, once.

### Projections

A table is the set of applications that made it, each with the event, the
reducer version and what it found in the table: two tables are equal exactly
when the same reducer made them from the same events in the same order.
`Apply`/`ApplyRefused` are `apply_event`, `RepairBlocked`, `RepairSwap`,
`RepairCommit` the repair; `Start` and `StartRefused` are
`ApplicationRuntime.initialize` with `validate_startup` (in one step, although it
reads row by row: `apply_event` and `verify` check the rows again, and nothing
relies on the first check alone); `Install` is an upgrade, `Damage` a table changed
behind the program's back.

`verify` is modelled read by read (`VerifyVersion`, `VerifyHead`, `VerifyReplay`,
`VerifyCheckpoint`, `VerifyRow`, `VerifyTable`, `VerifyEnd`), because its session is
not one snapshot. The SQLite driver begins a transaction before the first INSERT and
not before a SELECT, so every read up to the first event copied into a temporary
table sees the last commit of its moment; the first read after that INSERT fixes
what all later ones see (`Sees`, `AfterRead`). A verification of a ledger without
relevant events never gets a snapshot at all. The head is read again at the end,
and `EventHeadChanged` (`"moved"`) takes precedence over the verdict.

`ProjectionsReplay` says that an undamaged table is the replay of the ledger under
the version its row names, so two releases never mix rows. `VerifyIsExact` says that
a match is reported only if every table was read and none was damaged, and a
mismatch only if one was, or was made by another release after the version check.
That the latter does not happen is what the documents promise and the code does not
do (section 4).

### InspirationRun

`Start`, `Freeze`/`FreezeFails` and `Finalize` are the transactions of
`InspirationRunExecutor`, `Generate` the model call between them, `Abandon` what
an exception, cancellation or busy database leaves. `Lookup` is the route's look
at stored answers before the transaction. `Boot`, `Recover` and `BootFails` are
a service start; `BeginShutdown` and `EndShutdown` are
`InFlightRunRegistry.shutdown`. `LegalPhase` and `Recoverable` are what the
recovery demands of a trace before it ends it; `filed` and `recovery` keep the
times of the two receipts. `RunAgreesWithReceipt` is the projected status plus
`ValidRun`, the rules of the source validator for runs, which have to hold in
every reachable state: after any crash the next startup accepts the database.

### GenerationBudget

`Choose` is the head of the loop in `BoundedGenerationRunner.run`
(`EmptySnapshot`, `ExhaustedBefore`, `SkipReservation`, `StartCall`);
`CallReturns`, `CallRefused` and `CallExpires` are how an attempt ends;
`Finalize` writes one event per operator. `WellFormed` and `ProjectorAccepts`
are what payload types and the projector refuse; `AuditAccepts` is what
`storage/validation.py` checks of reservations, tokens, deadlines, timeouts,
counters and the terminal event at verification and startup. Time is in ticks,
`Milli` to the millisecond, since the ledger rounds down. The provider client
has no timeout of its own (`generators/openai_compatible.py:104`), so only the
runner's deadline ends a call.

### ExperienceMemory, MemoryReducers, MemoryAudit

One action per command and per cycle. `Mutate` and `ApplyOrderedEvents` build the
events of a command, each with a snapshot before and after, check them as the
writer does (`LegalCommandSequence`, `LegalCycleSequence`: which events one
command or one cycle may append, and in which order) and reduce them.
`MemoryReducers` has one operator per event type (`AccessedAgrees`,
`EvaluatedAgrees`, `ArchivedAgrees`, ...), which is what the reducer demands of
the event in the context of the row it finds, and the index of terms made from
creations and versions; `RebuildReproduces` compares the rebuild with the tables
and, since a refused event yields no table, says that none was refused.
`MemoryAudit` is the source validator: identities, order of versions, links,
uniqueness of current contents, the codec each version is stored in.

The worker's cycle has a key made of its time. `receipts` are the answers kept under
these keys: a cycle whose handler reads a clock that stepped back after the tick was
read is refused with a replayable `invalid_evaluated_at`, and every later tick at that
time gets the same answer (`Stored`). `CyclesResume` therefore promises that a cycle
runs to the end of the explored time unless that very time was refused.

Activation is one of the four bands that the thresholds tell apart; a cycle may
find an experience in any band, as the scores themselves are floating point and
not modelled. `WorkerTicks` reads the clock and `WorkerRuns` runs the cycle later
with the time read. The lease of a cycle is not modelled: a cycle holds the
writer lock from claim to release. The provenance of a corroboration is in
`Sharing`. Ledger positions across experiences are left out, hence the order in
which the targets of links came to be.

### Sharing, SharingReducers, SharingAudit

One action per command over an explicit ledger with receipts. A command reads
the clock when its receipt is reserved, in its handler and when it completes,
and the clock may move between these, forward or back (`Drifts`); `back` of a receipt
remembers that it went back, which no row does. `RejectInboxItem` ends the route or,
where the handler let through what the inbox reducer refuses, dies of it
(`RejectionDies`). `SharingReducers` has the reducers of capsule states, inbox items
and reputation, each online and as a rebuild, the rebuilt inbox with the validator of
adoption sources at its end; `SharingAudit` has the validator of the graph: aggregates and their
clocks, topics, subscriptions, capsules, deliveries, terminals, retractions,
feedback streams, trust, adoptions with the checkpoint of the experience they
changed, provenance, receipts. `GraphValid` and `AdoptionsValid` are that
validator; `ProvenanceIsAPath` is stronger than the code's check: the chain a
capsule names is a path of adoptions that happened, each before the next. The
validator also wants the deliveries of a publication in the order of the recipients'
identifiers, which is the order in which they are made (`list_eligible_subscriptions`);
recipients here have no order.

Confidence is the set of roots that contributed to it, hot and warm are one
("active"), and a restore is one event. Paging, hashes and encodings are left
out.

### IdeaIncubation, IdeaReducers, IdeaAudit, IdeaLedger

`IdeaIncubation` is `inspiration/incubation.py`: which cluster an idea belongs to
(`Assigned`, over a table of similarities), whether it counts as a recurrence,
what the counters, the grade and the retention become (`PlanOccurrence`,
`PlanEvaluation`, `PlanAdoption`), and what the payload types refuse.
`IdeaReducers` reduces clusters and idea states, online and in a rebuild, with
the sources each event must agree with. The two paths differ in the code: the
verdict on a policy archive looks at the cluster, which online is the cluster at
the time and in a rebuild is taken from the history. `IdeaAudit` is the
validator: the history of every idea, the receipts of its decisions, the run and
the cluster it came from. `IdeaLedger` has the commands: `StartRun`, `Finalize`
(retaining several ideas, in order), `Evaluate`, `Decide`, `Adopt`, `AdoptAgain`
(the same adoption under another key, after the experience has changed),
`ArchiveCycle`, and the writes and changes of experiences that an adoption may
meet. `CountersRecounted` counts the counters of each cluster anew, from the
ideas.

A receipt is reserved at one reading and completed at the same or the next one.
A step back inside a command would leave `completed_at` before the event, which
nothing in the code guards against and the validator refuses; the model leaves
it out. Between commands the clock is any.

### ImportSources, Candidates, Passports, Imports, Quarantine

`Candidates` has the extraction of evidence from a trajectory with truncation
and sharing (`Extracted`, `UniqueEvidence`), the view that authenticates the
lineage of a candidate before it is decided, its reducer and the validator of
the capture graph. `Passports` has export with its chain of hops (`Exported`), the
verification of a document (`Verifies`), the view, the reducer and the validator
with the answers it can expect of each receipt (`StatesAt`). `Imports` puts both
over one store of experiences: a candidate and a document of the same content
meet, a document comes back to the agent it left, an experience is archived or
revised between import and decision. `ImplementsQuarantine`: items wait, each is
decided once, and an experience of adopted origin comes into being by an adoption
only. A document is known by its position, a trajectory by a model value that
stands for its manifest; the agents exist from the start, as in `IdeaLedger`.

## 3. Runs

| Run | Shows | Bounds |
|---|---|---|
| `command` | receipts, ledger and answers agree; `ExactlyOnce` is implemented | two processes, three calls, two keys, two requests, two events per handler: race, retry, key reuse and a partial write need no more |
| `projections` | tables are the replay, versions never mix; verification is exact, whatever is committed between its reads | two processes that serve, one of which also repairs and the other verifies (a second verification would share nothing with the first), two releases, two reducers of which one changes, two events in batches of one or two, one lost row per table and repair |
| `inspiration` | receipt, trace, status and ideas agree as recovery and validator demand; `ExactlyOnce` is implemented; under fairness every run and every shutdown ends | two processes with a task each, one key, two requests, a clock of two readings. A second key would share nothing but the recovery transaction, which ends every run on its own |
| `budget` | pool, recordability, the audit, the run ends | up to three operators, totals for none to three reservations, two ticks to the millisecond, so that readings fall on, before and after a deadline |
| `memory_cycles` | the rebuild, hysteresis and, under fairness, cycles resume | one experience created at reading 0, three readings, two evaluations to demote, one reading to archive, one command (none if it is created hot), three cycles, and the worker: ticks read before the clock steps back, cycles refused for it, the replay of the refusal. Three readings are a low, a high and a low evaluation, or two that demote and a third that archives |
| `memory_content` | the validator, archive of unused experiences only, one answer per cycle, dependents hold off the archive | two experiences, two contents, one further version of one of them, three readings, one evaluation to demote, two readings to archive, three cycles. No worker: a cycle of its own time is that of a manual one, whose time may be past as well. Slices: `Alone` with commands at any reading, and with two experiences, at the first and last reading only, `Restored` and `Linked` |
| `sharing` | three reducers, the graph, adoptions, provenance | three agents, one topic, two contents, `MaxHops` 2, three capsules (so `MaxHops` allows every path there is), eleven commands, two readings with one step back or one command in which the clock moves, either way. Slices: `Relaying` over three agents and back, `Versioning`, `Ending`, `Corroborating` cold and archived experiences, `Judging` |
| `ideas` | reducers, validator, counters, no command dies of an earlier one | two agents, two snapshots, three mechanisms (1 near 2, 2 near 3), two runs, three ideas, five idea events, five receipts, three readings, retention of 1 and 2. Slices: `Recurring`, `Deciding`, `Adopting` |
| `imports` | reducers, validators, no integrity refusal, `Quarantine` is implemented | two agents, three trajectories, three contents, one foreign document, four documents, three hops, five receipts, eight events, two readings. Slices: `Capturing`, `Deciding`, `Travelling`, `Meeting` |
| `budget_evidence`, `ideas_load`, `imports_repeated` (violations) | disagreements, below | the instances of `budget`, `ideas` and `imports` |

The large components are explored in slices. `Explored` is a predicate on
the history of a state that guards every action, so a step is taken only into a
state within it; a slice holds of every prefix of what it holds of, so each is
explored to its end, and one run is the union of several small instances, each
aimed at one kind of interaction. Other constants `Max...` are bounds of the
model too and appear as guards, except `MaxHops`, `MaxPerOperator`, `MaxPerRun`
and `MaxEvidence`, which are the program's own, at small values.

`CHECK_DEADLOCK FALSE` belongs to models whose bounds use up (cycles, commands,
events) or that end with their result; `command`, `projections` and `inspiration`
check for deadlock. Symmetry is used only in `command`, for constants that no
definition tells apart and without a liveness property.

Fairness. `InspirationRun`: a task that can move does, since each of its awaits
has a timeout or a deadline, and the drain of a shutdown ends, since it cancels
after a timeout; that services are started again is a premise of
`RecoveryEndsEveryRun`. `GenerationBudget`: the runner's own steps and the
deadline's cancellation, never the generator's answer. `ExperienceMemory`: the
clock, the ticker, and, as strong fairness, the worker's transaction, which
other writers may keep out again and again but not for ever (each waits at most
the busy timeout and holds the lock for one command). The other modules state no
fairness: nothing in them is promised to happen without a request.

Every property of a passing run has a mutant: a plausible bug in one mapped
definition with which TLC finds the property violated.

## 4. Disagreements found

With a run:

1. `budget_evidence`: an operator that finds no pair in a non-empty snapshot is
   recorded as insufficient evidence, which the source validator refuses.
2. `ideas_load`: `load_clusters` expects the latest generated event of a cluster
   to carry the cluster's last signal time, but a run that started earlier and
   finished later leaves the later time standing. From then on no run can be
   finalized. The validator refuses such a cluster too, so a startup fails as
   well; `SourcesValid` of `IdeaLedger` leaves out exactly the ideas that were
   found late (`FoundLate`).
3. `imports_repeated`: a repeated import is answered from the state it finds and
   writes no event, and a later decision compares its time with the first import
   alone. If the clock steps back in between, the stored answer "pending" lies
   after the decision, and the validator refuses it for good. `SourcesValid` of
   `Imports` leaves out exactly these imports (`DecidedBeforeRepeated`).

Noticed while modelling, and kept out of the properties by a named exception or
a bound:

- Projections: verification "uses one consistent read transaction"
  (`docs/architecture/foundation-contracts.md:182`), but it reads the version rows,
  the head and the first events before any transaction begins
  (`storage/projections.py:369`). The head is read again at the end, the version
  rows are not. When a newer release writes in between, a verification of the
  older one compares its own replay with tables of the other version and reports
  damage where there is none. `VerifyIsExact` leaves out exactly the tables of
  another release (`own`); without that TLC reaches such a mismatch.
- Sharing: "a command clock behind a relevant causal anchor fails with
  `clock_regression`" (`docs/architecture/social-propagation-contracts.md:427`), but
  the rejection of a capsule compares its time with the capsule's own transitions and
  the route only (`sharing/service.py:939`, `sharing/repository.py:108`) and appends
  its event. Behind the feedback of another recipient the inbox reducer refuses it
  (`sharing/projector.py:1643`), and the command dies of an integrity error.
  `RebuildReproduces` says that commands of sharing die of nothing else, and TLC
  reaches a state in which one did.
- Sharing: the contract promises for each command event a receipt with an
  "enclosing command clock" (lines 373 to 375 of the same document), which the
  validator asks for (`sharing/validation.py:1815`). Handlers stamp their events with a
  reading of their own that is never compared with the receipt's
  (`sharing/service.py:608`); when the clock steps back inside a command, its event is
  outside its receipt, and no later startup accepts the database. `GraphValid` leaves
  out exactly the receipts of such commands (`back`).
- Candidates: an adoption onto an equivalent experience compares its time with
  nothing in that experience, and takes an archived one as it is; passports
  refuse both (`restore_required`, `clock_regression`). After a step back of the
  clock the capture validator refuses the graph (`AdoptedBeforeWritten`).
- Sharing: an adoption compares its time with the capsule's own transitions and
  its route, not with the feedback of other observers
  (`sharing/repository.py:108`), which the validator does (`validation.py:968`,
  `AdoptedBehindFeedback`).
- Ideas: the commands compare the event with the reservation of the receipt, and
  nothing compares it with the completion (section 2).
- Sharing: `root_is_represented` knows adoptions only, so an agent that adopts a
  relay of its own capsule has its own root raise its confidence, where the
  contract document speaks of independent roots.
- Budget: a skipped operator is stamped with a fresh reading, so its event may
  carry a millisecond of elapsed time without a reservation, which
  `storage/validation.py:2728` refuses; `AuditAccepts` leaves these results out
  (`SkippedLater`).
- Projections: `docs/architecture/foundation-contracts.md:198` says repair may
  reconcile a declared reducer version upgrade, but the repair command first
  initializes the runtime (`cli/app.py:317`, `runtime.py:236`), whose startup
  validation refuses the old version.
- Inspiration: the runbook says a graceful stop clears
  `maintenance_blocked_by_inflight`; a run abandoned by a busy database
  (`Abandon`) stays in progress until the next service start, which
  `RecoveryEndsEveryRun` relies on.

## 5. Proofs

`CommandLedgerProofs` proves, for all sets of processes, calls, keys and
requests and every bound: `TypeOK`, `CommittedReceiptsExact`,
`AnswersAreDurable`, the action property `HistoryGrows` (no step rewrites the
committed ledger or a completed receipt) and the refinement
`ImplementsExactlyOnce`. None of them is inductive alone. What an uncommitted
writer does depends on where its call stands, so the invariant `IInv` adds who
holds the lock (`LockOwner`) and, for each point of `execute`, how the working
database relates to the committed one: clean before the reservation; in the
handler, the committed ledger extended by events of this key only, with the
savepoint equal to the reservation; at the commit, a completed row whose
response names exactly the appended positions. `Invariance` goes action by
action; the action property and the refinement follow from the invariant and the
single step. The assumptions are that every call has a process
(`HomeAssumption`) and that the bound is a number.

`ProjectionsProofs` proves `TypeOK`, `ProjectionsReplay` and `VerifyIsExact`, for
every set of processes and reducers, every registry, every assignment of event types,
any number of releases and every bound. `ProjectionsReplay` speaks of the committed
database, which a commit replaces by the writer's copy in one step, so the invariant
says the same of every copy there is (`Faithful`): of the writer's, with the events it
has appended and not yet applied left out (`WorkFaithful`); of one whose tables were
just swapped by a repair, damaged or not before; and of what the transaction of a
verification sees. A table is compared with the applications an ordered replay would
make of the events it has seen (`ReplaySeen`, which is the model's `Replay` when none
is left: `NothingDue`), so a step only has to say which event it adds; the checkpoint
of a row is the greatest of them. The reads of a verification come from several
commits, and nothing can be said of them in general; but the ledger only grows
(`Extends`), so that if it still ends at the head that was noted first, every read saw
the same events. `ReadsFaithful` therefore says what the temporary tables, the
checkpoints and the comparisons made so far are worth (`ReadsOne`) on that condition
alone, which `VerifyEnd` is the one to establish.

`InspirationProofs` proves `TypeOK`, `RunAgreesWithReceipt` and the refinement
`ImplementsExactlyOnce`, for every set of processes, tasks, keys and requests. The
invariant describes each run by its status (`Shape`): which of the trace, the two
receipts and their times are there, and in which order; each working task by the
run it works on (`Fits`); and says that a run has one working task at most
(`Alone`), which is why a task that comes back late finds the run still its own or
already ended, never half of both. The refinement takes the finalization of a run,
its recovery, or the refusal of an unconfigured start for the one step of
`ExactlyOnce` that decides a key, and every other step for a stutter or for a
reply that repeats the decision.

`GenerationBudgetProofs` proves `TypeOK`, `PoolHolds`, `NeverRejected`,
`AuditAccepts`, and `AttemptsEndInTime` beside them, for every set of
configurations within the declared limits, every number of ticks per millisecond
and every range of the clock. `PoolHolds` needs the types of the runner's scalars
only; the lemmas `ConfigurationFacts` (a reservation and the deadlines of one
configuration) and `SettleKeeps` (an attempt charged at most its reservation keeps
the pool) carry the arithmetic. The audit recomputes totals over the whole record
with recursive functions, so its invariant keeps the books (`AuditInv`): each
result was dealt with at the totals that those before it left, and the runner's
counters are the totals of all. Nothing about a recursive function can be taken
for granted here: that its totals do not change when a result is appended is
proved from the least place where they would (`WFMin`).

`MemoryProofs` proves `TypeOK`, `ForgottenOnlyUnused`, `Hysteresis`,
`CyclesAnswerOnce`, the action property `ArchiveSparesDependents`, and two clauses of the audit
(`CodecMatchesTemperature`, and that no two experiences of an owner have the same
current content), for every finite set of experiences, every policy and every
bound. Its first part shows that each of the actions is one of five kinds of step: nothing, an experience enters, one is revised, a command uses some, a cycle
evaluates some, each with what it appends to the ledgers (`StepKinds`, `Fates`).
The invariants then go over the kinds. The base of all of them is that a pinned
experience is hot and that only what was never created is empty.
`ForgottenOnlyUnused` needs `ColdSince`: a cold experience has a demotion in its
ledger at the time it last moved, and nothing but revisions, refutations and
evaluations after it. `Hysteresis` needs what the counter of an experience counts (`Counting`): the
evaluations in a stretch at the end of its history without a move, all of which
proposed the demotion from its temperature, spaced by the interval. `CyclesAnswerOnce` needs that no evaluation is without the
answer of its cycle, so that a cycle at a new time counts from nothing.
The assumptions are that there are finitely many experiences, that every
experience has an owner, that the relations are those of the source and that the
policy's numbers are positive.

Its last part proves `RebuildReproduces` and `AuditAccepts`: the reducer refuses no event that a command or a cycle appends, and a
rebuild returns the projected state and terms. The invariant `MemoryLedger` says
that every event of a ledger goes on from the one before it and is accepted where
it stands (`Taken`), and keeps beside it what the next event will be measured by
(`Ready`): a ledger has two events at least and ends in the projected state, the
version is the number of version rows, an archived experience was archived by its
last event, and a time that is not before the last event is before none of the
times that the reducer compares (`Anchored`). The last one carries the cases where
the clock stepped back. Acceptance survives as the ledger and the versions grow
(`AcceptedStill`), so a step only answers for what it appends: nothing, a creation,
a version, or a sequence of drafts each of which `Succeeds` the one before it
(`ContinuedTaken`); one lemma per action shows which (`StepAdvances`). The rebuild
is a recursive function over the positions of the ledger, and that it passes through the
states recorded in the events is shown at the least position where it would not.
`AuditAccepts` of `MemoryAudit` follows with two more facts of each ledger
(`Auditable`): what wrote its versions stands in the order of the versions and of time
(`Documented`), and every link of every version, superseded ones too, goes to another
experience of the owner (`Linked`). That an event wrote a version at the version's own
time and at the place its number allows is what the reducer already asked of it
(`TakenWriting`).

`SharingProofs` proves `TypeOK`, `ProvenanceIsAPath` and `GraphValid`, for every set of
agents and topics, every lifetime, hop limit and bound, and a clock that moves either
way between commands and inside them. The types are not inductive
alone: a reputation is a record of numbers that feedback increases and decreases,
so `Typed` says what they count, the capsules of a subject about which the
observer's latest feedback has that verdict (`VerdictsAreCounted`), and the count
of a replaced verdict is then at least one. For provenance `Kept` adds that
every capsule has one publication in the ledger (`PublicationsKept`); that the
status and the route of a capsule name events of the ledger (`StatusesKept`,
`RoutesKept`); that an adoption ended its route and carries the path of what it
adopted, one per capsule and adopter (`AdoptionsKept`); and that every hop of a
path is a capsule with the path up to there, the same root, an earlier publication
and no later time (`PathsKept`). `RelayedPath` is the step that matters: a relay
extends the path of its parent by the parent. The assumptions are that the limits
are numbers, that lifetimes are positive and that an experience may have one
version at least.

Its second part proves `GraphValid` (`StoredGraphAccepted`) for the same constants and
any history, with the two exceptions that `GraphValid` itself names: an adoption behind
another observer's feedback, and the receipt of a command inside which the clock
stepped back. The validator
asks of the whole ledger, so its clauses are not inductive: one more event could
change any count or order. The invariant `Graph` says instead what each event says of
those before it and of immutable rows (`Said`: it is filed under its aggregate, no
older than the events of that aggregate, within its receipt; a subscription or a
publication comes after its topic, a delivery after its publication and in the same
command, an end after its delivery and behind the newest event of its capsule), and
that those types of events stand for rows one to one (`OneEach`). What an old event
says stays true as long as sources only grow (`SaidKept`), so a command answers for
its own events only. Three facts are kept beside it because later handlers rely on
them: what the state of a capsule and of a pending route refers to
(`StateSaid`, `RouteSaid`), without which an end is not measured by the capsule's
times; that versions have events (`VersionsSaid`), by which a publication is no
older than what it publishes; and who had subscribed (`Delivered`). The clauses follow by
counting: aggregates of one and of two events, deliveries in bijection with the prior
subscribers, and the hops of a path, which differ because each has a path of another
length. Its last part shows that a rejection dies of nothing but feedback
(`RefusalsInvariance`, which is the first clause of `RebuildReproduces`): every other event of a capsule is no newer than its last
transition (`NotBehindTransition`), with which the handler did compare.

`IdeaProofs` proves `TypeOK`, with the shape of every payload ever written, and
`CountersRecounted`, for every set of agents, mechanisms and snapshots, every table of
similarities, retention and bound, and runs that finish in any order. It has three
parts. The first is the planner alone: whatever graded cluster it is given (`IsGraded`), a
recurrence, a revised verdict or an adoption leaves a graded one, and the transition
passes the checks of its payload (`GrownTo`, `RevisedTo`, `JoinedTo`), as long as the
planner returns one; that it refuses a count below zero or more adopters than ideas
is what keeps them in range. The second part is what the rows count, which takes the
events. `AmountsTo` says what a row is of the ideas `M` of its cluster and of the
first `n` events, and `Good` says it of every row, with three facts that it rests on.
Events are `Told`: each has its shape and names an idea that exists. Ideas are adopted
exactly if the ledger has an adoption of them (`AdoptionsTold`), because the reducer
counts adopters in the ledger and the table has decisions. Clusters are `Apart`: no
mechanism of one is fully similar to one of another. Without it two clusters could
come to share a mechanism, and the planner would have no plan for any idea
(`PlannableClusters`). That the most similar cluster takes an idea keeps them apart
(`AssignedFits`), for which the assumption on similarity is needed: fully similar
mechanisms resemble every other one alike. A new cluster has a name that no row has,
since a mechanism is near itself (`NewFits`). An event that the reducers accept keeps
`Good` (`NextEvent`, `GeneratedIsGood`); a command with any number of events, or a run
with any number of ideas, by the least place where it would not. The third part goes over the
commands: each appends what may follow (`Appendable`), or ends in one of four refusals.
The proof uses what the reducers check, not that they never refuse: that is
`NothingElseRefused`.
The assumptions are `SimilarityAssumption`, that mechanisms are ordered like numbers, that bounds and
retentions are numbers, and that `None` is no verdict and no cluster
(`NoneAssumption`).

`ImportsProofs` proves `TypeOK` and the refinement `ImplementsQuarantine`, for every
set of agents, trajectories, contents and foreign documents, every slice and every
bound, clocks that step back included. A command of this component builds its rows
one after the other (receipt, experience, versions, events, adoption, decision) and
then sends its events through two reducers that read those rows back, so the proof
follows that order. Its first part says what each builder leaves of the rows it is
given: which log grew and by what, that earlier rows stand (`Extends`, `SameRows`).
The second says what the reducers make of the appended events: that a table changes
at one row at most for an event and otherwise stays (`Overwritten`, `Added`), and that
this carries over a whole command, shown at the least event where it would not. A
capture appends any number of candidates, so its part is again about the least draft.
The third part follows each command from its receipt to its commit and shows that it
is a step of `Quarantine`; a command that a reducer refuses changes nothing but
`refused`.

The invariant `IInv` is stronger than the types where a later step needs it.
`Snapshots` and `Recorded`: an experience has an event, the events of an experience
carry its snapshots, so that the version an adoption returns exists. `Owned` and
`Makers`: an item belongs to an agent, an experience of an adopted origin is among
those that adoptions made. `Tabled`: there is exactly one row for each item, of the
shape its decision asks for. `Sized`: every item and every experience has an event of
its own, so ids stay within the bound of events and an experience that is made is not
one that was made before. That an item is decided only once is not part of it: it
follows from the reducers, which refuse a decision of an item that is not pending
(`RequirePending`, `ImportPending`), whatever the handler and the view let through.
The assumptions: signals are finite sequences (`SignalsAssumption`), a trajectory has
an owner (`OwnersAssumption`), the foreign documents verify and the bounds are numbers
(`BoundsAssumption`), and `None` is none of the values it is told apart from
(`NoneAssumption`).

Only model-checked, by reason:

- Liveness and ENABLED: out of the prover's reach.
- `NothingRefused`, `RebuildReproduces` and `SourcesValid` of `Imports`, and
  `NothingElseRefused`, `RebuildReproduces` and `SourcesValid` of `IdeaLedger`: what reducers and validators demand of old events depends on receipts,
  versions and documents that later commands extend. Each needs an invariant like
  those of the memory (`MemoryLedger`) and of sharing (`Graph`), which is not written.
- `RebuildReproduces` of `SharingReducers` but for its first clause: three reducers
  folded over the ledger, for which the same holds. That of the memory is proved.
- `AdoptionsValid` of `SharingAudit`: a conjunction of many clauses, each with an
  invariant of its own.

## 6. Not modelled, and the plan

Not modelled because there is nothing to interleave: canonical JSON, hashing,
ranking and scoring formulas, prompts and provider protocol, file codecs, HTTP
schemas, argument parsing, migrations, agents, benchmark, release evidence.

Not modelled although it has state:

- Payload reconciliation (`experiences/reconcile.py`): one savepoint in one
  writer transaction, which inspects every payload first and writes nothing if
  one is undecodable. `AuditAccepts` of `ExperienceMemory` shows that the
  program leaves it nothing to rewrite; what it repairs was changed from outside.
- The replay lab (`experiments/`): a group of artifacts is published by one
  rename under a lock, so there is no partial group; a crash before the rename
  leaves the stage behind, which later publications of that workspace refuse
  (listed as a hazard without a property).
- The frozen evidence snapshots of a run
  (`InspirationSourceValidator._validate_snapshots`): rows that are written once
  with the freeze and compared by hash.

Planned, in this order:

1. Proofs: `NothingElseRefused` of `IdeaLedger` and `NothingRefused` of `Imports`, on
   the ground of the two invariants `IInv`, with what receipts and experiences say of
   the events under them.
2. `Projections` with a reducer added by a release, which starts from the next
   event although the ledger holds earlier ones.
3. One experience store for `ExperienceMemory` and `Sharing`, with the codec
   rewriting of an adoption into a cold experience.
4. The stage and the rename of `experiments/workspace.py`.
