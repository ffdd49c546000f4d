--------------------------- MODULE CommandLedger ----------------------------
(***************************************************************************)
(* Ordinary commands: CommandExecutor.execute (storage/idempotency.py) on  *)
(* top of Database._transaction (storage/database.py), EventStore.append   *)
(* and UnitOfWork.append_events.  Several processes share one SQLite file; *)
(* each runs several calls.  A call is one HTTP, CLI or worker command     *)
(* with an idempotency key; callers retry with the same key, race with it, *)
(* and reuse it for other requests.                                        *)
(*                                                                         *)
(* The committed database is receipts and events.  BEGIN IMMEDIATE admits  *)
(* one writer, which works on wReceipts and wEvents; they become the       *)
(* committed database at COMMIT or are thrown away by ROLLBACK or a crash. *)
(* A response carries the part of the ledger its execution saw and wrote,  *)
(* so that two executions never answer alike by accident.                  *)
(***************************************************************************)
EXTENDS Naturals, Sequences, Receipts

CONSTANTS Process,      \* OS processes that open the database file
          Call,         \* calls that can be in flight at the same time
          Home,         \* [Call -> Process]: the process a call runs in
          Key,          \* receipt scopes: caller, operation, idempotency key
          Request,      \* canonical request hashes
          MaxEvents     \* bound: events one handler appends

ASSUME HomeAssumption == Home \in [Call -> Process]
ASSUME MaxEventsAssumption == MaxEvents \in Nat

VARIABLES up,          \* [Process -> BOOLEAN]: the process is running
          call,        \* [Call -> where it is in execute(), its arguments,
                       \*          the response it is about to return]
          lock,        \* the call that holds the SQLite writer lock, or None
          receipts, events,       \* the committed database
          wReceipts, wEvents,     \* the database as the writer sees it
          savepoint,   \* what ROLLBACK TO SAVEPOINT restores
          replies      \* history: every answer a caller has received

committed == <<receipts, events>>
working == <<wReceipts, wEvents, savepoint>>
vars == <<up, call, lock, committed, working, replies>>

Response == [status : {"ok", "rejected"}, first : Nat, last : Nat]
Decision == [req : Request, response : Response]
Reply == [key : Key, req : Request, response : Response]
ReceiptTable == [Key -> Rows(Request, Response, Call)]
InTransaction == {"reserving", "handling", "committing"}

ASSUME NoneAssumption == None \notin Call \cup Decision

Idle == [pc |-> "idle", key |-> None, req |-> None, answer |-> None]
ActiveCall == [pc : {"waiting", "replying"} \cup InTransaction,
               key : Key, req : Request, answer : Response \cup {None}]
pc(c) == call[c].pc
key(c) == call[c].key
req(c) == call[c].req
-----------------------------------------------------------------------------
Init ==
  /\ up = [p \in Process |-> TRUE]
  /\ call = [c \in Call |-> Idle]
  /\ lock = None
  /\ receipts = [k \in Key |-> Absent]
  /\ events = << >>
  /\ wReceipts = receipts
  /\ wEvents = events
  /\ savepoint = [receipts |-> receipts, events |-> events]
  /\ replies = {}

\* A caller sends a command: a new one, a retry, or a reused key.
Submit(c, k, q) ==
  /\ pc(c) = "idle" /\ up[Home[c]]
  /\ call' = [call EXCEPT ![c] = [pc |-> "waiting", key |-> k, req |-> q,
                                  answer |-> None]]
  /\ UNCHANGED <<up, lock, committed, working, replies>>

\* BEGIN IMMEDIATE succeeds: the writer starts from the committed database.
BeginImmediate(c) ==
  /\ pc(c) = "waiting" /\ lock = None
  /\ lock' = c
  /\ call' = [call EXCEPT ![c].pc = "reserving"]
  /\ UNCHANGED <<up, committed, working, replies>>

\* The busy timeout expires while another call holds the lock: DatabaseBusy.
BeginBusy(c) ==
  /\ pc(c) = "waiting" /\ lock # None
  /\ call' = [call EXCEPT ![c] = Idle]
  /\ UNCHANGED <<up, lock, committed, working, replies>>

\* Mutant: ROLLBACK is not awaited and the next writer inherits the events.
RollbackKeepsEvents(c) ==
  /\ lock' = None
  /\ call' = [call EXCEPT ![c] = Idle]
  /\ wReceipts' = receipts
  /\ savepoint' = [receipts |-> receipts, events |-> events]
  /\ UNCHANGED <<up, committed, wEvents, replies>>

\* session.rollback(): the working database is the committed one again.
Rollback(c) ==
  /\ lock' = None
  /\ call' = [call EXCEPT ![c] = Idle]
  /\ wReceipts' = receipts
  /\ wEvents' = events
  /\ savepoint' = [receipts |-> receipts, events |-> events]
  /\ UNCHANGED <<up, committed, replies>>

\* IdempotencyKeyConflict leaves execute() through the rollback.
ReserveConflict(c) ==
  /\ pc(c) = "reserving"
  /\ IsConflict(wReceipts, key(c), req(c))
  /\ Rollback(c)

\* The receipt exists: its stored response is the answer, and the handler
\* does not run.  The transaction has written nothing.
ReserveReplay(c) ==
  /\ pc(c) = "reserving"
  /\ IsReplay(wReceipts, key(c), req(c))
  /\ call' = [call EXCEPT ![c].answer = wReceipts[key(c)].response,
                          ![c].pc = "replying"]
  /\ lock' = None
  /\ UNCHANGED <<up, committed, working, replies>>

\* The receipt is inserted in progress, then begin_nested opens a savepoint
\* around the handler.
ReserveNew(c) ==
  /\ pc(c) = "reserving"
  /\ IsNew(wReceipts, key(c))
  /\ wReceipts' = Reserve(wReceipts, key(c), req(c))
  /\ savepoint' = [receipts |-> wReceipts', events |-> wEvents]
  /\ call' = [call EXCEPT ![c].pc = "handling"]
  /\ UNCHANGED <<up, lock, committed, wEvents, replies>>

\* One write of the handler: attach_resource, which is idempotent for the
\* resource of this execution, and append_events with one more event.
HandlerWrites(c) ==
  /\ pc(c) = "handling"
  /\ Len(wEvents) - Len(savepoint.events) < MaxEvents
  /\ CanAttach(wReceipts, key(c), c)
  /\ wReceipts' = Attach(wReceipts, key(c), c)
  /\ wEvents' = Append(wEvents, key(c))
  /\ UNCHANGED <<up, call, lock, committed, savepoint, replies>>

\* The response of an execution that leaves the ledger es.
ResponseFor(c, status, es) ==
  [status |-> status, first |-> Len(events), last |-> Len(es)]

\* The handler returns: its writes stay and the receipt completes.
HandlerReturns(c) ==
  LET r == ResponseFor(c, "ok", wEvents) IN
  /\ pc(c) = "handling"
  /\ CanComplete(wReceipts, key(c), r)
  /\ wReceipts' = Complete(wReceipts, key(c), r)
  /\ call' = [call EXCEPT ![c].answer = r, ![c].pc = "committing"]
  /\ UNCHANGED <<up, lock, committed, wEvents, savepoint, replies>>

\* Mutant: the error is stored without rolling the savepoint back.
HandlerRejectsKeepsWrites(c) ==
  LET r == ResponseFor(c, "rejected", savepoint.events) IN
  /\ pc(c) = "handling"
  /\ wReceipts' = Complete(wReceipts, key(c), r)
  /\ call' = [call EXCEPT ![c].answer = r, ![c].pc = "committing"]
  /\ UNCHANGED <<up, lock, committed, wEvents, savepoint, replies>>

\* ReplayableCommandError: the savepoint is rolled back, the error is the
\* stored response.
HandlerRejects(c) ==
  LET r == ResponseFor(c, "rejected", savepoint.events) IN
  /\ pc(c) = "handling"
  /\ CanComplete(savepoint.receipts, key(c), r)
  /\ wReceipts' = Complete(savepoint.receipts, key(c), r)
  /\ wEvents' = savepoint.events
  /\ call' = [call EXCEPT ![c].answer = r, ![c].pc = "committing"]
  /\ UNCHANGED <<up, lock, committed, savepoint, replies>>

\* Any other exception (the reservation preflight's too), or the cancellation
\* of the task before COMMIT.
HandlerRaises(c) ==
  /\ pc(c) \in {"reserving", "handling"}
  /\ Rollback(c)

Publish(c) ==
  /\ receipts' = wReceipts
  /\ events' = wEvents
  /\ lock' = None
  /\ savepoint' = [receipts |-> wReceipts, events |-> wEvents]
  /\ UNCHANGED <<up, wReceipts, wEvents, replies>>

\* COMMIT succeeds and the caller is still there.
Commit(c) ==
  /\ pc(c) = "committing"
  /\ call' = [call EXCEPT ![c].pc = "replying"]
  /\ Publish(c)

\* COMMIT takes effect in the driver's thread although the awaiting task was
\* cancelled: the caller gets an error for a command that is durable.
CommitUnanswered(c) ==
  /\ pc(c) = "committing"
  /\ call' = [call EXCEPT ![c] = Idle]
  /\ Publish(c)

\* COMMIT fails (busy, or an I/O error): everything is rolled back.
CommitFails(c) ==
  /\ pc(c) = "committing"
  /\ Rollback(c)

\* The response reaches the caller ...
Deliver(c) ==
  /\ pc(c) = "replying"
  /\ call' = [call EXCEPT ![c] = Idle]
  /\ replies' = replies \cup {[key |-> key(c), req |-> req(c),
                               response |-> call[c].answer]}
  /\ UNCHANGED <<up, lock, committed, working>>

\* ... or the connection is gone; the caller may retry.
LoseReply(c) ==
  /\ pc(c) = "replying"
  /\ call' = [call EXCEPT ![c] = Idle]
  /\ UNCHANGED <<up, lock, committed, working, replies>>

\* The process dies: its calls vanish, and the file lock with them; the next
\* reader of the WAL sees the committed database.
Crash(p) ==
  LET mine == lock # None /\ Home[lock] = p IN
  /\ up[p]
  /\ up' = [up EXCEPT ![p] = FALSE]
  /\ call' = [c \in Call |-> IF Home[c] = p THEN Idle ELSE call[c]]
  /\ lock' = IF mine THEN None ELSE lock
  /\ wReceipts' = IF mine THEN receipts ELSE wReceipts
  /\ wEvents' = IF mine THEN events ELSE wEvents
  /\ savepoint' = IF mine THEN [receipts |-> receipts, events |-> events]
                  ELSE savepoint
  /\ UNCHANGED <<committed, replies>>

Restart(p) ==
  /\ ~up[p]
  /\ up' = [up EXCEPT ![p] = TRUE]
  /\ UNCHANGED <<call, lock, committed, working, replies>>

Progress(c) ==
  \/ BeginImmediate(c) \/ BeginBusy(c)
  \/ ReserveConflict(c) \/ ReserveReplay(c) \/ ReserveNew(c)
  \/ HandlerWrites(c) \/ HandlerReturns(c) \/ HandlerRejects(c)
  \/ HandlerRaises(c)
  \/ Commit(c) \/ CommitUnanswered(c) \/ CommitFails(c)
  \/ Deliver(c) \/ LoseReply(c)

Next ==
  \/ \E c \in Call, k \in Key, q \in Request : Submit(c, k, q)
  \/ \E c \in Call : Progress(c)
  \/ \E p \in Process : Crash(p) \/ Restart(p)

Spec == Init /\ [][Next]_vars

-----------------------------------------------------------------------------
TypeOK ==
  /\ up \in [Process -> BOOLEAN]
  /\ call \in [Call -> {Idle} \cup ActiveCall]
  /\ lock \in Call \cup {None}
  /\ receipts \in ReceiptTable
  /\ events \in Seq(Key)
  /\ wReceipts \in ReceiptTable
  /\ wEvents \in Seq(Key)
  /\ savepoint \in [receipts : ReceiptTable, events : Seq(Key)]
  /\ replies \subseteq Reply

Positions(k) == {i \in 1..Len(events) : events[i] = k}
PositionsOf(r) == r.first + 1 .. r.last

\* No crash, failure or cancellation leaves an ordinary command half done:
\* a committed receipt is always a completed one (execute reserves and
\* completes in one transaction).
NoOrphanReceipt == \A k \in Key : receipts[k].state # "in_progress"

\* The ledger holds, for every key, exactly the events of the one execution
\* whose response is stored: none without a receipt, none of a handler that
\* was rejected or rolled back, none twice after a retry.  A receipt has a
\* resource only if its execution kept its writes.
EffectsMatchReceipt ==
  \A k \in Key :
    /\ receipts[k].state = "absent" => Positions(k) = {}
    /\ receipts[k].state = "completed" =>
         /\ Positions(k) = PositionsOf(receipts[k].response)
         /\ receipts[k].resource # None => Positions(k) # {}

\* Receipts and ledger never part: both of the above.
CommittedReceiptsExact == NoOrphanReceipt /\ EffectsMatchReceipt

\* Every answer that ever reached a caller is still the stored one, for the
\* request that was executed: all retries of a key are answered alike,
\* whatever crashed in between, and a reused key is never answered with the
\* result of another request.
AnswersAreDurable ==
  \A a \in replies :
    /\ receipts[a.key].state = "completed"
    /\ receipts[a.key].req = a.req
    /\ receipts[a.key].response = a.response

\* Committed history only grows: events are never rewritten or removed, and
\* a completed receipt never changes.
HistoryGrows ==
  [][/\ Len(events) <= Len(events')
     /\ \A i \in 1..Len(events) : events'[i] = events[i]
     /\ \A k \in Key :
          receipts[k].state = "completed" => receipts'[k] = receipts[k]]_vars

\* Refinement: the abstract outcome of a key is its completed receipt.
Outcome(row) == IF row.state = "completed"
                THEN [req |-> row.req, response |-> row.response]
                ELSE None
Promise == INSTANCE ExactlyOnce WITH
  Undecided <- None,
  outcome <- [k \in Key |-> Outcome(receipts[k])],
  ledger <- events,
  answered <- replies

\* The command layer implements ExactlyOnce.
ImplementsExactlyOnce == Promise!Spec
=============================================================================
