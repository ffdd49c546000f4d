--------------------------- MODULE InspirationRun ---------------------------
(***************************************************************************)
(* Inspiration runs: the one command that owns its receipt across three    *)
(* transactions (inspiration/service.py), the recovery of interrupted runs *)
(* at service start (inspiration/recovery.py) and the registry that keeps  *)
(* the run tasks alive and drains them at shutdown (api/inflight.py).      *)
(*                                                                         *)
(* CommandLedger shows that a transaction takes effect at once or not at   *)
(* all, so here each transaction is one step; a task that fails, is        *)
(* cancelled or finds the database busy is abandoned between the steps.    *)
(* A key is reserved once, so the run of a key is named by the key.        *)
(***************************************************************************)
EXTENDS Integers, Sequences, SequencesExt, FiniteSetsExt, Receipts

CONSTANTS Process,     \* `serve` processes on one database file
          Task,        \* run tasks that can be in flight at the same time
          Home,        \* [Task -> Process]
          Key,         \* start receipts: agent and idempotency key
          Request,     \* canonical request hashes
          MaxIdeas,    \* bound: ideas one run retains
          MaxTime      \* bound: readings of the wall clock

ASSUME HomeAssumption == Home \in [Task -> Process]
ASSUME BoundsAssumption == MaxIdeas \in Nat /\ MaxTime \in Nat

VARIABLES proc,       \* [Process -> where the process is in its life]
          task,       \* [Task -> where it is in execute(), and its locals]
          clock,      \* the wall clock, which may step back
          receipts,   \* the start receipts
          trace,      \* [Key -> the run's events, in order]
          status,     \* [Key -> inspiration_run_state.status]
          ideas,      \* the idea ledger, each idea named by its run
          filed,      \* [Key -> created_at and completed_at of the start receipt]
          recovery,   \* [Key -> the run's recovery receipt]
          replies     \* history: every answer a caller has received

database == <<receipts, filed, trace, status, ideas, recovery>>
vars == <<proc, task, clock, database, replies>>

Terminal == {"completed", "failed", "timed_out"}
Status == {"none", "running"} \cup Terminal
EventType == {"started", "frozen"} \cup Terminal
Cause == {"start", "recover"}
Event == [type : EventType, at : 0..MaxTime, cause : Cause]
Unfiled == [created |-> 0, completed |-> 0]

\* A response names the run's final status and the ideas it added; the answer
\* given while the run is in progress (409) names nothing of the kind.
InProgress == [status |-> "running", first |-> 0, last |-> 0]
Response == [status : Terminal, first : Nat, last : Nat]
Reply == [key : Key, req : Request, response : Response]
Decision ==
  [req : Request,
   response : [status : {"ok", "rejected"}, first : Nat, last : Nat]]
ASSUME NoneAssumption == None \notin Key \cup Response \cup Decision

\* What the generator's proposals amount to after validation: how the run
\* ends and how many ideas it retains.  A failed run retains none.
Generated == [ends : {"completed", "timed_out"}, ideas : 0..MaxIdeas]
             \cup [ends : {"failed"}, ideas : {0}]

Idle == [pc |-> "idle", key |-> None, req |-> None, at |-> 0,
         generated |-> None, answer |-> None]
pc(t) == task[t].pc
key(t) == task[t].key
req(t) == task[t].req
MyTasks(p) == {t \in Task : Home[t] = p}

\* A process is stopped, starting (before recovery), up, draining its tasks
\* after the shutdown signal, or crashed.
ProcState == {"stopped", "starting", "up", "draining", "crashed"}
TaskState == {"lookup", "starting", "freezing", "generating", "finalizing",
              "replying"}
-----------------------------------------------------------------------------
Init ==
  /\ proc = [p \in Process |-> "stopped"]
  /\ task = [t \in Task |-> Idle]
  /\ clock = 0
  /\ receipts = [k \in Key |-> Absent]
  /\ trace = [k \in Key |-> << >>]
  /\ status = [k \in Key |-> "none"]
  /\ ideas = << >>
  /\ filed = [k \in Key |-> Unfiled]
  /\ recovery = [k \in Key |-> None]
  /\ replies = {}

Latest(x, y) == IF x > y THEN x ELSE y
Move(t, where) == task' = [task EXCEPT ![t].pc = where]
Answering(t, response) ==
  task' = [task EXCEPT ![t].pc = "replying", ![t].answer = response]
Drop(t) == task' = [task EXCEPT ![t] = Idle]

\* The wall clock is read again: NTP or an operator may have set it back.
SetClock(now) ==
  /\ clock' = now
  /\ UNCHANGED <<proc, task, database, replies>>

\* Mutant: the registry takes new work while it drains.
SubmitWhileDraining(t, k, q) ==
  /\ pc(t) = "idle" /\ proc[Home[t]] \in {"up", "draining"}
  /\ task' = [task EXCEPT ![t] = [Idle EXCEPT !.pc = "lookup", !.key = k,
                                              !.req = q]]
  /\ UNCHANGED <<proc, clock, database, replies>>

\* POST inspiration-runs reaches a process that accepts work.
Submit(t, k, q) ==
  /\ pc(t) = "idle" /\ proc[Home[t]] = "up"
  /\ task' = [task EXCEPT ![t] = [Idle EXCEPT !.pc = "lookup", !.key = k,
                                              !.req = q]]
  /\ UNCHANGED <<proc, clock, database, replies>>

\* What a receipt that exists answers: its response, or 409 with the run.
Existing(k) == IF receipts[k].state = "completed" THEN receipts[k].response
               ELSE InProgress

\* The route looks for the receipt in a read session of its own before it
\* hands the run to the registry.
Lookup(t) ==
  /\ pc(t) = "lookup"
  /\ \/ IsReplay(receipts, key(t), req(t)) /\ Answering(t, Existing(key(t)))
     \/ IsConflict(receipts, key(t), req(t)) /\ Drop(t)
     \/ /\ IsNew(receipts, key(t))
        /\ IF proc[Home[t]] = "up" THEN Move(t, "starting") ELSE Drop(t)
  /\ UNCHANGED <<proc, clock, database, replies>>

\* Transaction 1 finds a receipt after all.
StartExisting(t) ==
  /\ pc(t) = "starting"
  /\ \/ IsReplay(receipts, key(t), req(t)) /\ Answering(t, Existing(key(t)))
     \/ IsConflict(receipts, key(t), req(t)) /\ Drop(t)
  /\ UNCHANGED <<proc, clock, database, replies>>

\* Transaction 1, generator not configured: the receipt completes, no run.
StartUnconfigured(t) ==
  LET refusal == [status |-> "failed", first |-> Len(ideas), last |-> Len(ideas)]
      reserved == Reserve(receipts, key(t), req(t)) IN
  /\ pc(t) = "starting"
  /\ IsNew(receipts, key(t))
  /\ receipts' = Complete(reserved, key(t), refusal)
  /\ \E now \in 0..MaxTime :
       filed' = [filed EXCEPT ![key(t)] =
                   [created |-> clock, completed |-> Latest(clock, now)]]
  /\ Answering(t, refusal)
  /\ UNCHANGED <<proc, clock, trace, status, ideas, recovery, replies>>

\* Mutant: the projector does not look at the run's status.
ProjectsAlways(k) == TRUE

\* InspirationRunProjector: an event is projected only over a running run.
Projects(k) == status[k] = "running"
Record(k, type, at) ==
  trace' = [trace EXCEPT ![k] = Append(@, [type |-> type, at |-> at, cause |-> "start"])]

\* Transaction 1: receipt, run, attachment and `inspiration.started`.  The
\* clock is read again after the receipt was reserved, and the run starts at
\* the later of both readings.
Start(t) ==
  LET reserved == Reserve(receipts, key(t), req(t)) IN
  /\ pc(t) = "starting"
  /\ IsNew(receipts, key(t))
  /\ receipts' = Attach(reserved, key(t), key(t))
  /\ filed' = [filed EXCEPT ![key(t)].created = clock]
  /\ \E now \in 0..MaxTime :
       /\ Record(key(t), "started", Latest(clock, now))
       /\ task' = [task EXCEPT ![t].pc = "freezing", ![t].at = Latest(clock, now)]
  /\ status' = [status EXCEPT ![key(t)] = "running"]
  /\ UNCHANGED <<proc, clock, ideas, recovery, replies>>

\* Transaction 2: the snapshot and `inspiration.snapshot_frozen`.
Freeze(t) ==
  /\ pc(t) = "freezing"
  /\ Projects(key(t))
  /\ Record(key(t), "frozen", task[t].at)
  /\ Move(t, "generating")
  /\ UNCHANGED <<proc, clock, receipts, filed, status, ideas, recovery, replies>>

\* SnapshotBuilder.freeze raises: the transaction is rolled back and the run
\* goes on to its failure.
FreezeFails(t) ==
  /\ pc(t) = "freezing"
  /\ task' = [task EXCEPT ![t].pc = "finalizing",
                          ![t].generated = [ends |-> "failed", ideas |-> 0]]
  /\ UNCHANGED <<proc, clock, database, replies>>

\* Mutant: each idea is written as soon as it is generated.
GenerateWritesIdeas(t) ==
  /\ pc(t) = "generating"
  /\ \E g \in Generated :
       /\ task' = [task EXCEPT ![t].pc = "finalizing", ![t].generated = g]
       /\ ideas' = ideas \o [i \in 1..g.ideas |-> key(t)]
  /\ UNCHANGED <<proc, clock, receipts, filed, trace, status, recovery, replies>>

\* The generator runs outside any transaction.
Generate(t) ==
  /\ pc(t) = "generating"
  /\ \E g \in Generated :
       task' = [task EXCEPT ![t].pc = "finalizing", ![t].generated = g]
  /\ UNCHANGED <<proc, clock, database, replies>>

\* Transaction 3 ends run k: ideas, terminal event, status and response
EndRun(k, ends, n, at) ==
  LET more == ideas \o [i \in 1..n |-> k]
      response == [status |-> ends, first |-> Len(ideas), last |-> Len(more)]
  IN /\ ideas' = more
     /\ Record(k, ends, at)
     /\ status' = [status EXCEPT ![k] = ends]
     /\ CanComplete(receipts, k, response)
     /\ receipts' = Complete(receipts, k, response)
     /\ filed' = [filed EXCEPT ![k].completed = at]

Finalize(t) ==
  LET g == task[t].generated IN
  /\ pc(t) = "finalizing"
  /\ Projects(key(t))
  /\ EndRun(key(t), g.ends, g.ideas, task[t].at)
  /\ Answering(t, receipts'[key(t)].response)
  /\ UNCHANGED <<proc, clock, recovery, replies>>

\* An exception leaves execute(): the database is busy, the projector rejects
\* the event, COMMIT fails, or the drained task is cancelled.  What earlier
\* transactions committed stays.
Abandon(t) ==
  /\ pc(t) \in {"lookup", "starting", "freezing", "generating", "finalizing"}
  /\ Drop(t)
  /\ UNCHANGED <<proc, clock, database, replies>>

\* The answer arrives, or the connection is gone (the task is shielded from
\* the request that started it).
Deliver(t) ==
  /\ pc(t) = "replying"
  /\ Drop(t)
  /\ replies' = replies \cup {[key |-> key(t), req |-> req(t),
                               response |-> task[t].answer]}
  /\ UNCHANGED <<proc, clock, database>>
LoseReply(t) ==
  /\ pc(t) = "replying"
  /\ Drop(t)
  /\ UNCHANGED <<proc, clock, database, replies>>
-----------------------------------------------------------------------------
\* Mutant: only runs whose snapshot is frozen count as interrupted.
FrozenTraces == {k \in Key : Len(trace[k]) = 2
                               /\ trace[k][2].type \notin Terminal}

\* running_traces: started, no terminal event.
RunningTraces == {k \in Key : trace[k] # << >>
                                /\ \A i \in DOMAIN trace[k] :
                                     trace[k][i].type \notin Terminal}
\* A running trace is one of the two phases a run is retained in, all of it
\* caused by the receipt of the start and at the time of the start.
LegalPhase(k) ==
  /\ [i \in DOMAIN trace[k] |-> trace[k][i].type]
       \in {<<"started">>, <<"started", "frozen">>}
  /\ \A i \in DOMAIN trace[k] : /\ trace[k][i].cause = "start"
                               /\ trace[k][i].at = trace[k][1].at
\* _validate_original_receipt.
Recoverable(k) ==
  /\ receipts[k].state = "in_progress" /\ receipts[k].resource = k
  /\ recovery[k] = None

\* The failure is never earlier than the run's last event.
InterruptedAt(k) == Latest(clock, trace[k][Len(trace[k])].at)

\* ApplicationRuntime.initialize: the process starts ...
Boot(p) ==
  /\ proc[p] \in {"stopped", "crashed"}
  /\ proc' = [proc EXCEPT ![p] = "starting"]
  /\ UNCHANGED <<task, clock, database, replies>>

\* ... and ends every running trace in one transaction, live runs of other
\* processes included, before it accepts work.
Recover(p) ==
  LET interrupted == RunningTraces
      failure == [status |-> "failed", first |-> Len(ideas), last |-> Len(ideas)]
  IN
  /\ proc[p] = "starting"
  /\ \A k \in interrupted : LegalPhase(k) /\ Recoverable(k)
  /\ trace' = [k \in Key |->
       IF k \in interrupted
       THEN Append(trace[k], [type |-> "failed", at |-> InterruptedAt(k), cause |-> "recover"])
       ELSE trace[k]]
  /\ status' = [k \in Key |-> IF k \in interrupted THEN "failed" ELSE status[k]]
  /\ receipts' = [k \in Key |-> IF k \in interrupted
                                THEN Complete(receipts, k, failure)[k]
                                ELSE receipts[k]]
  /\ filed' = [k \in Key |->
       IF k \in interrupted THEN [filed[k] EXCEPT !.completed = InterruptedAt(k)] ELSE filed[k]]
  /\ recovery' = [k \in Key |->
       IF k \in interrupted
       THEN [created |-> clock, completed |-> InterruptedAt(k), response |-> failure]
       ELSE recovery[k]]
  /\ proc' = [proc EXCEPT ![p] = "up"]
  /\ UNCHANGED <<task, clock, ideas, replies>>

\* The database is busy at startup: initialize raises and nothing changed.
BootFails(p) ==
  /\ proc[p] = "starting"
  /\ proc' = [proc EXCEPT ![p] = "stopped"]
  /\ UNCHANGED <<task, clock, database, replies>>

\* Graceful shutdown: the registry takes no new work, waits for its tasks up
\* to their deadlines, then cancels what is left (Abandon).
BeginShutdown(p) ==
  /\ proc[p] = "up"
  /\ proc' = [proc EXCEPT ![p] = "draining"]
  /\ UNCHANGED <<task, clock, database, replies>>
EndShutdown(p) ==
  /\ proc[p] = "draining"
  /\ \A t \in MyTasks(p) : pc(t) = "idle"
  /\ proc' = [proc EXCEPT ![p] = "stopped"]
  /\ UNCHANGED <<task, clock, database, replies>>

Crash(p) ==
  /\ proc[p] \in {"starting", "up", "draining"}
  /\ proc' = [proc EXCEPT ![p] = "crashed"]
  /\ task' = [t \in Task |-> IF t \in MyTasks(p) THEN Idle ELSE task[t]]
  /\ UNCHANGED <<clock, database, replies>>

Progress(t) ==
  \/ Lookup(t) \/ StartExisting(t) \/ StartUnconfigured(t) \/ Start(t)
  \/ Freeze(t) \/ FreezeFails(t) \/ Generate(t) \/ Finalize(t)
  \/ Abandon(t) \/ Deliver(t) \/ LoseReply(t)

Next ==
  \/ \E now \in 0..MaxTime : SetClock(now)
  \/ \E t \in Task :
       \/ \E k \in Key, q \in Request : Submit(t, k, q)
       \/ Progress(t)
  \/ \E p \in Process :
       \/ Boot(p) \/ Recover(p) \/ BootFails(p)
       \/ BeginShutdown(p) \/ EndShutdown(p) \/ Crash(p)

Spec == Init /\ [][Next]_vars

\* Every await of a task is bounded by a timeout or a deadline, and so is the
\* drain; starting, stopping and crashing are up to the operator.
Fairness == /\ \A t \in Task : WF_vars(Progress(t))
            /\ \A p \in Process : WF_vars(EndShutdown(p))
FairSpec == Spec /\ Fairness
-----------------------------------------------------------------------------
(* InspirationSourceValidator._validate_runs: what startup, verify and     *)
(* repair require of the runs, their receipts and their events.            *)

Types(events) == [i \in DOMAIN events |-> events[i].type]
LastEvent(k) == trace[k][Len(trace[k])]
Terminals(k) == {i \in DOMAIN trace[k] : trace[k][i].type \in Terminal}
IdeasOf(k) == {i \in DOMAIN ideas : ideas[i] = k}

\* A start receipt without a run is the refusal of a generator that is not
\* configured: complete, and no event carries it.
ValidRefusal(k) ==
  /\ receipts[k].state = "completed" /\ receipts[k].response.status = "failed"
  /\ filed[k].created <= filed[k].completed
  /\ trace[k] = << >> /\ IdeasOf(k) = {}

\* _require_run_receipt: the receipt is attached to the run, was reserved no
\* later than the run was created, and is completed exactly when the run is.
ValidReceipt(k, completed) ==
  /\ receipts[k].resource = k
  /\ receipts[k].state = IF completed THEN "completed" ELSE "in_progress"
  /\ ~completed => receipts[k].response = None
  /\ filed[k].created <= trace[k][1].at

\* _validate_run_response: the stored answer renders the terminal event, and
\* the receipt was completed at its time.
ValidAnswer(k, answer, completed) ==
  /\ answer.status = LastEvent(k).type
  /\ answer.last - answer.first = Cardinality(IdeasOf(k))
  /\ completed = LastEvent(k).at

\* The phases a run retains before its end: started, then frozen.
RetainedPhases(events) == Types(events) \in {<<"started">>, <<"started", "frozen">>}

\* Events of the run's own command share its receipt and its one timestamp.
OneAnchor(k, events) ==
  \A i \in DOMAIN events : events[i].cause = "start" /\ events[i].at = trace[k][1].at

ValidRunning(k) ==
  /\ ValidReceipt(k, FALSE)
  /\ recovery[k] = None
  /\ RetainedPhases(trace[k]) /\ OneAnchor(k, trace[k]) /\ IdeasOf(k) = {}

\* A run ended by a recovery: a receipt of its own carries the failure alone,
\* at the later of that receipt and the events before, and both receipts give
\* the same answer.
ValidRecovered(k) ==
  LET before == Front(trace[k]) IN
  /\ RetainedPhases(before) /\ OneAnchor(k, before) /\ IdeasOf(k) = {}
  /\ recovery[k].response = receipts[k].response
  /\ ValidAnswer(k, recovery[k].response, recovery[k].completed)
  /\ LastEvent(k).at = Max({recovery[k].created} \cup {before[i].at : i \in DOMAIN before})

\* A run that ended by itself: without its snapshot it failed in preparation
\* and retained nothing.
ValidNormal(k) ==
  /\ recovery[k] = None /\ OneAnchor(k, trace[k])
  /\ \/ Types(trace[k]) = <<"started", "failed">> /\ IdeasOf(k) = {}
     \/ RetainedPhases(Front(trace[k])) /\ Len(trace[k]) = 3

\* Every run has one start, at most one end, and that is its last event.
ValidRun(k) ==
  IF trace[k] = << >> THEN receipts[k].state # "absent" => ValidRefusal(k)
  ELSE IF Terminals(k) = {} THEN ValidRunning(k)
  ELSE /\ Terminals(k) = {Len(trace[k])}
       /\ ValidReceipt(k, TRUE)
       /\ ValidAnswer(k, receipts[k].response, filed[k].completed)
       /\ IF LastEvent(k).cause = "recover" THEN ValidRecovered(k) ELSE ValidNormal(k)

-----------------------------------------------------------------------------
TypeOK ==
  /\ proc \in [Process -> ProcState]
  /\ task \in [Task -> {Idle} \cup
       [pc : TaskState, key : Key, req : Request, at : 0..MaxTime,
        generated : Generated \cup {None},
        answer : Response \cup {InProgress, None}]]
  /\ clock \in 0..MaxTime
  /\ receipts \in [Key -> Rows(Request, Response, Key)]
  /\ trace \in [Key -> Seq(Event)]
  /\ status \in [Key -> Status]
  /\ ideas \in Seq(Key)
  /\ filed \in [Key -> [created : 0..MaxTime, completed : 0..MaxTime]]
  /\ recovery \in [Key -> {None} \cup
       [created : 0..MaxTime, completed : 0..MaxTime, response : Response]]
  /\ replies \subseteq [key : Key, req : Request,
                        response : Response \cup {InProgress}]

\* A run ends exactly once and at one time, however a late task, a recovery by
\* its own or by another process, a retry and a clock that steps back race: its
\* projected status is that of its last event, and the source validator accepts
\* the trace, the receipts and the answers at every moment.  So a service start
\* never fails closed on what the program itself left behind, and a run in
\* progress is one that recovery may end.
RunAgreesWithReceipt ==
  \A k \in Key :
    /\ status[k] = IF trace[k] = << >> THEN "none"
                   ELSE IF Terminals(k) = {} THEN "running" ELSE LastEvent(k).type
    /\ ValidRun(k)

\* If the service is started again and again, every run in progress ends: no
\* crash, cancellation or busy database leaves one that recovery misses.
RecoveryEndsEveryRun ==
  (\E p \in Process : []<><<Recover(p)>>_vars) =>
    \A k \in Key : receipts[k].state = "in_progress"
                     ~> receipts[k].state = "completed"

\* A graceful shutdown ends: the draining process takes no new work and its
\* tasks finish or are cancelled.
ShutdownCompletes ==
  \A p \in Process : proc[p] = "draining" ~> proc[p] # "draining"

\* Refinement: the three transactions promise what one transaction does.  A
\* failed run refuses; answers given while it is in progress decide nothing.
Verdict(r) == [r EXCEPT !.status = IF @ = "failed" THEN "rejected" ELSE "ok"]
Promise == INSTANCE ExactlyOnce WITH
  Undecided <- None,
  outcome <- [k \in Key |->
    IF receipts[k].state = "completed"
    THEN [req |-> receipts[k].req, response |-> Verdict(receipts[k].response)]
    ELSE None],
  ledger <- ideas,
  answered <- {[a EXCEPT !.response = Verdict(@)] :
                 a \in {b \in replies : b.response # InProgress}}

\* Inspiration runs implement ExactlyOnce.
ImplementsExactlyOnce == Promise!Spec
=============================================================================
