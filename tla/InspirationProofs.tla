------------------------- MODULE InspirationProofs --------------------------
(***************************************************************************)
(* Proofs about InspirationRun, for any number of processes, run tasks,    *)
(* receipts and requests, and every MaxIdeas and MaxTime: type             *)
(* correctness, that every run ends once and agrees with its receipts, and *)
(* that the three transactions of a run implement ExactlyOnce.             *)
(***************************************************************************)
EXTENDS InspirationRun, FiniteSetTheorems, SequenceTheorems, TLAPS

StartedAt(a) == [type |-> "started", at |-> a, cause |-> "start"]
FrozenAt(a) == [type |-> "frozen", at |-> a, cause |-> "start"]

\* The trace of a run begun at a that has not ended.
Begun(a) == {<<StartedAt(a)>>, <<StartedAt(a), FrozenAt(a)>>}

\* A key that has no run: its receipt is absent, or was refused.
NoRun(k) ==
  /\ trace[k] = << >> /\ status[k] = "none"
  /\ recovery[k] = None
  /\ IdeasOf(k) = {}
  /\ receipts[k].state \in {"absent", "completed"}
  /\ receipts[k].state = "completed" =>
       /\ receipts[k].response.status = "failed"
       /\ filed[k].created <= filed[k].completed

\* A run that can still end: by its own task or by a recovery.
UnderWay(k) ==
  /\ status[k] = "running"
  /\ recovery[k] = None
  /\ IdeasOf(k) = {}
  /\ receipts[k].state = "in_progress" /\ receipts[k].resource = k
  /\ receipts[k].response = None
  /\ \E a \in 0..MaxTime : filed[k].created <= a /\ trace[k] \in Begun(a)

\* The run begun at a ended by its own task, or by a recovery.
EndedItself(k, a, begun, end) ==
  /\ end.cause = "start" /\ end.at = a
  /\ recovery[k] = None
  /\ Len(begun) = 1 => end.type = "failed" /\ IdeasOf(k) = {}
EndedByRecovery(k, a, begun, end) ==
  /\ end.cause = "recover" /\ end.type = "failed"
  /\ IdeasOf(k) = {}
  /\ recovery[k].response = receipts[k].response
  /\ recovery[k].created \in 0..MaxTime
  /\ recovery[k].completed = end.at
  /\ end.at = Latest(recovery[k].created, a)

\* The trace, the status, the receipt and the ideas of a run tell of the end.
EndsIn(k, a, begun, end) ==
  /\ trace[k] = Append(begun, end)
  /\ end.type \in Terminal /\ status[k] = end.type
  /\ filed[k].created <= a /\ filed[k].completed = end.at
  /\ receipts[k].state = "completed" /\ receipts[k].resource = k
  /\ receipts[k].response.status = end.type
  /\ receipts[k].response.last - receipts[k].response.first
       = Cardinality(IdeasOf(k))
Ended(k) ==
  \E a \in 0..MaxTime : \E begun \in Begun(a) : \E end \in Event :
    /\ EndsIn(k, a, begun, end)
    /\ \/ EndedItself(k, a, begun, end)
       \/ EndedByRecovery(k, a, begun, end)

Shape(k) == NoRun(k) \/ UnderWay(k) \/ Ended(k)

\* The tasks between their first and their last transaction.
Working(t) == pc(t) \in {"freezing", "generating", "finalizing"}

\* What a working task finds when its run is still in progress: no other task
\* has written to it.
Failure == [ends |-> "failed", ideas |-> 0]
Due(t) ==
  LET events == trace[key(t)]
      begun == StartedAt(task[t].at)
  IN
  /\ receipts[key(t)].req = req(t)
  /\ \/ pc(t) = "freezing" /\ events = <<begun>>
     \/ pc(t) = "generating" /\ events = <<begun, FrozenAt(task[t].at)>>
     \/ /\ pc(t) = "finalizing"
        /\ \/ events = <<begun>> /\ task[t].generated = Failure
           \/ /\ events = <<begun, FrozenAt(task[t].at)>>
              /\ task[t].generated \in Generated

\* What a task is about to answer.
Answers(t) ==
  \/ task[t].answer = InProgress
  \/ /\ receipts[key(t)].state = "completed"
     /\ receipts[key(t)].req = req(t)
     /\ task[t].answer = receipts[key(t)].response

Fits(t) ==
  /\ Working(t) => /\ status[key(t)] # "none"
                   /\ status[key(t)] = "running" => Due(t)
  /\ pc(t) = "replying" => Answers(t)

\* A run has one working task at most.
Alone == \A t \in Task : \A u \in Task :
           t # u /\ Working(t) /\ Working(u) => key(t) # key(u)

Shapes == \A k \in Key : Shape(k)
AllFit == \A t \in Task : Fits(t)
IInv == TypeOK /\ Shapes /\ AllFit /\ Alone
-----------------------------------------------------------------------------
Jobs == [pc : TaskState, key : Key, req : Request, at : 0..MaxTime,
         generated : Generated \cup {None},
         answer : Response \cup {InProgress, None}]

\* A receipt filed at another time has its type.
LEMMA FiledTyped ==
  ASSUME NEW f \in [Key -> [created : 0..MaxTime, completed : 0..MaxTime]],
         NEW k \in Key, NEW at \in 0..MaxTime
  PROVE  /\ [f EXCEPT ![k].created = at]
              \in [Key -> [created : 0..MaxTime, completed : 0..MaxTime]]
         /\ [f EXCEPT ![k].completed = at]
              \in [Key -> [created : 0..MaxTime, completed : 0..MaxTime]]
<1>1. PICK T : T = 0..MaxTime
  OBVIOUS
<1>2. f[k] \in [created : T, completed : T] /\ at \in T
  BY <1>1
<1>3. /\ [f[k] EXCEPT !.created = at] \in [created : T, completed : T]
      /\ [f[k] EXCEPT !.completed = at] \in [created : T, completed : T]
  BY <1>2
<1> QED BY <1>1, <1>3

\* A task that is not idle has all its locals.
LEMMA BusyTask ==
  ASSUME TypeOK, NEW t \in Task, pc(t) # "idle"
  PROVE  /\ task[t] \in Jobs
         /\ key(t) \in Key /\ req(t) \in Request
         /\ task[t].at \in 0..MaxTime
         /\ task[t].generated \in Generated \cup {None}
         /\ task[t].answer \in Response \cup {InProgress, None}
<1>1. task[t] \in {Idle} \cup Jobs
  BY DEF TypeOK, Jobs
<1>2. task[t] # Idle
  BY DEF pc, Idle
<1>3. task[t] \in Jobs
  BY <1>1, <1>2
<1> QED BY <1>3 DEF Jobs, key, req

\* What a step that moves one task leaves of the others.
OnlyMoves(t) ==
  /\ task' \in [Task -> {Idle} \cup Jobs]
  /\ \A u \in Task : u # t => task'[u] = task[u]

LEMMA DropsTask ==
  ASSUME TypeOK, NEW t \in Task, Drop(t)
  PROVE  OnlyMoves(t) /\ task'[t].pc = "idle"
<1>1. task \in [Task -> {Idle} \cup Jobs]
  BY DEF TypeOK, Jobs
<1> QED BY <1>1 DEF Drop, OnlyMoves, Idle

\* A move changes where the task is and nothing else.
LEMMA MovesTask ==
  ASSUME TypeOK, NEW t \in Task, pc(t) # "idle", NEW where \in TaskState,
         Move(t, where)
  PROVE  /\ OnlyMoves(t)
         /\ task'[t].pc = where /\ task'[t].key = key(t)
         /\ task'[t].req = req(t) /\ task'[t].at = task[t].at
         /\ task'[t].generated = task[t].generated
<1>1. task \in [Task -> {Idle} \cup Jobs]
  BY DEF TypeOK, Jobs
<1>2. task[t] \in Jobs
  BY BusyTask
<1>3. task'[t] = [task[t] EXCEPT !.pc = where]
  BY <1>1 DEF Move
<1>4. task'[t] \in Jobs
  BY <1>2, <1>3 DEF Jobs
<1>5. OnlyMoves(t)
  BY <1>1, <1>4 DEF Move, OnlyMoves
<1> QED BY <1>2, <1>3, <1>5 DEF Jobs, key, req

\* A task that has its answer keeps its key and its request.
LEMMA AnsweringTask ==
  ASSUME TypeOK, NEW t \in Task, pc(t) # "idle",
         NEW response \in Response \cup {InProgress, None},
         Answering(t, response)
  PROVE  /\ OnlyMoves(t)
         /\ task'[t].pc = "replying" /\ task'[t].key = key(t)
         /\ task'[t].req = req(t) /\ task'[t].answer = response
<1>1. task \in [Task -> {Idle} \cup Jobs]
  BY DEF TypeOK, Jobs
<1>2. task[t] \in Jobs
  BY BusyTask
<1>3. task'[t] = [task[t] EXCEPT !.pc = "replying", !.answer = response]
  BY <1>1 DEF Answering
<1>4. task'[t] \in Jobs
  BY <1>2, <1>3 DEF Jobs, TaskState
<1>5. OnlyMoves(t)
  BY <1>1, <1>4 DEF Answering, OnlyMoves
<1> QED BY <1>2, <1>3, <1>5 DEF Jobs, key, req
-----------------------------------------------------------------------------
\* What a step means for a working task of key k that it does not move.
Passes(k) ==
  /\ status'[k] = "none" => status[k] = "none"
  /\ status'[k] = "running" => /\ status[k] = "running"
                                /\ trace'[k] = trace[k]
                                /\ receipts'[k].req = receipts[k].req

\* A completed receipt is final.
Final(k) == receipts[k].state = "completed" => receipts'[k] = receipts[k]

\* A task that is not moved still fits, when what it relies on stays.
LEMMA StillFits ==
  ASSUME NEW t \in Task, Fits(t), task'[t] = task[t],
         Working(t) => Passes(key(t)),
         pc(t) = "replying" => Final(key(t))
  PROVE  Fits(t)'
BY DEF Fits, Working, Due, Answers, Passes, Final, pc, key, req

\* A step that starts no run leaves every run to one task.
LEMMA StillAlone ==
  ASSUME NEW t \in Task, Alone,
         \A u \in Task : u # t => task'[u] = task[u],
         Working(t)' => Working(t) /\ key(t)' = key(t)
  PROVE  Alone'
<1> SUFFICES ASSUME NEW u \in Task, NEW v \in Task, u # v,
                    Working(u)', Working(v)'
             PROVE  key(u)' # key(v)'
  BY DEF Alone
<1>1. Working(u) /\ key(u)' = key(u)
  BY DEF Working, pc, key
<1>2. Working(v) /\ key(v)' = key(v)
  BY DEF Working, pc, key
<1> QED BY <1>1, <1>2 DEF Alone

\* What the shape of a run depends on.
SameRun(k) ==
  /\ trace'[k] = trace[k] /\ status'[k] = status[k]
  /\ receipts'[k] = receipts[k] /\ filed'[k] = filed[k]
  /\ recovery'[k] = recovery[k]
  /\ IdeasOf(k)' = IdeasOf(k)

LEMMA ShapeKept ==
  ASSUME NEW k \in Key, Shape(k), SameRun(k)
  PROVE  Shape(k)'
<1>1. CASE NoRun(k)
  <2>1. NoRun(k)'
    BY <1>1 DEF NoRun, SameRun
  <2> QED BY <2>1 DEF Shape
<1>2. CASE UnderWay(k)
  <2>1. UnderWay(k)'
    BY <1>2 DEF UnderWay, SameRun
  <2> QED BY <2>1 DEF Shape
<1>3. CASE Ended(k)
  <2>1. PICK a \in 0..MaxTime : \E begun \in Begun(a) : \E end \in Event :
          /\ EndsIn(k, a, begun, end)
          /\ \/ EndedItself(k, a, begun, end)
             \/ EndedByRecovery(k, a, begun, end)
    BY <1>3 DEF Ended
  <2>2. PICK begun \in Begun(a) : \E end \in Event :
          /\ EndsIn(k, a, begun, end)
          /\ \/ EndedItself(k, a, begun, end)
             \/ EndedByRecovery(k, a, begun, end)
    BY <2>1
  <2>3. PICK end \in Event :
          /\ EndsIn(k, a, begun, end)
          /\ \/ EndedItself(k, a, begun, end)
             \/ EndedByRecovery(k, a, begun, end)
    BY <2>2
  <2>4. EndsIn(k, a, begun, end)'
    BY <2>3 DEF EndsIn, SameRun
  <2>5. EndedItself(k, a, begun, end) => EndedItself(k, a, begun, end)'
    BY DEF EndedItself, SameRun
  <2>6. EndedByRecovery(k, a, begun, end) => EndedByRecovery(k, a, begun, end)'
    BY DEF EndedByRecovery, SameRun
  <2>7. Ended(k)'
    BY <2>3, <2>4, <2>5, <2>6 DEF Ended
  <2> QED BY <2>7 DEF Shape
<1> QED BY <1>1, <1>2, <1>3 DEF Shape

\* A step that leaves the database alone leaves every run its shape.
LEMMA ShapesKept ==
  ASSUME Shapes, UNCHANGED database
  PROVE  Shapes'
<1>1. ASSUME NEW k \in Key
      PROVE  SameRun(k)
  BY DEF SameRun, IdeasOf, database
<1> QED BY <1>1, ShapeKept DEF Shapes
-----------------------------------------------------------------------------
\* The types of what a step leaves unchanged.
LEMMA DatabaseType ==
  ASSUME TypeOK, UNCHANGED database
  PROVE  /\ receipts' \in [Key -> Rows(Request, Response, Key)]
         /\ trace' \in [Key -> Seq(Event)]
         /\ status' \in [Key -> Status]
         /\ ideas' \in Seq(Key)
         /\ filed' \in [Key -> [created : 0..MaxTime, completed : 0..MaxTime]]
         /\ recovery' \in [Key -> {None} \cup
              [created : 0..MaxTime, completed : 0..MaxTime,
               response : Response]]
BY DEF TypeOK, database

\* A step that moves one task and leaves the database alone keeps the
\* invariant, when the task it moves fits where it is.
LEMMA QuietStep ==
  ASSUME IInv, NEW t \in Task, OnlyMoves(t), UNCHANGED database,
         UNCHANGED <<proc, clock>>,
         replies' \subseteq [key : Key, req : Request,
                             response : Response \cup {InProgress}],
         Fits(t)', Working(t)' => Working(t) /\ key(t)' = key(t)
  PROVE  IInv'
<1>1. TypeOK'
  BY DatabaseType DEF IInv, TypeOK, OnlyMoves, Jobs
<1>2. Shapes'
  BY ShapesKept DEF IInv
<1>3. AllFit'
  <2> SUFFICES ASSUME NEW u \in Task
               PROVE  Fits(u)'
    BY DEF AllFit
  <2>1. CASE u = t
    BY <2>1
  <2>2. CASE u # t
    <3>1. task'[u] = task[u] /\ Fits(u)
      BY <2>2 DEF OnlyMoves, IInv, AllFit
    <3>2. Passes(key(u)) /\ Final(key(u))
      BY DEF Passes, Final, database
    <3> QED BY <3>1, <3>2, StillFits
  <2> QED BY <2>1, <2>2
<1>4. Alone'
  BY StillAlone DEF IInv, OnlyMoves
<1> QED BY <1>1, <1>2, <1>3, <1>4 DEF IInv
-----------------------------------------------------------------------------
\* A task that is dropped relies on nothing.
LEMMA DropStep ==
  ASSUME IInv, NEW t \in Task, Drop(t), UNCHANGED <<proc, clock, database>>,
         replies' \subseteq [key : Key, req : Request,
                             response : Response \cup {InProgress}]
  PROVE  IInv'
<1>1. OnlyMoves(t) /\ task'[t].pc = "idle"
  BY DropsTask DEF IInv
<1>2. ~Working(t)' /\ Fits(t)'
  BY <1>1 DEF Working, Fits, pc
<1> QED BY <1>1, <1>2, QuietStep

LEMMA AbandonStep ==
  ASSUME IInv, NEW t \in Task, Abandon(t)
  PROVE  IInv'
BY DropStep DEF Abandon, IInv, TypeOK

\* The answer a task delivers is a response or the 409.
LEMMA AnswerType ==
  ASSUME IInv, NEW t \in Task, pc(t) = "replying"
  PROVE  /\ key(t) \in Key /\ req(t) \in Request
         /\ task[t].answer \in Response \cup {InProgress}
<1>1. /\ key(t) \in Key /\ req(t) \in Request
  BY BusyTask DEF IInv
<1>2. Answers(t)
  BY DEF IInv, AllFit, Fits
<1>3. receipts[key(t)] \in Rows(Request, Response, Key)
  BY <1>1 DEF IInv, TypeOK
<1>4. receipts[key(t)].state = "completed" => receipts[key(t)].response \in Response
  BY <1>3 DEF Rows, Absent
<1> QED BY <1>1, <1>2, <1>4 DEF Answers

LEMMA ReplyStep ==
  ASSUME IInv, NEW t \in Task, Deliver(t) \/ LoseReply(t)
  PROVE  IInv'
<1>1. pc(t) = "replying" /\ Drop(t) /\ UNCHANGED <<proc, clock, database>>
  BY DEF Deliver, LoseReply
<1>2. /\ key(t) \in Key /\ req(t) \in Request
      /\ task[t].answer \in Response \cup {InProgress}
  BY <1>1, AnswerType
<1>3. replies \subseteq [key : Key, req : Request,
                         response : Response \cup {InProgress}]
  BY DEF IInv, TypeOK
<1>4. replies' \subseteq [key : Key, req : Request,
                          response : Response \cup {InProgress}]
  BY <1>2, <1>3 DEF Deliver, LoseReply
<1> QED BY <1>1, <1>4, DropStep

LEMMA SubmitStep ==
  ASSUME IInv, NEW t \in Task, NEW k \in Key, NEW q \in Request,
         Submit(t, k, q)
  PROVE  IInv'
<1>1. task \in [Task -> {Idle} \cup Jobs]
  BY DEF IInv, TypeOK, Jobs
<1>2. PICK job : job = [Idle EXCEPT !.pc = "lookup", !.key = k, !.req = q]
  OBVIOUS
<1>3. job = [pc |-> "lookup", key |-> k, req |-> q, at |-> 0,
             generated |-> None, answer |-> None]
  BY <1>2 DEF Idle
<1>a. "lookup" \in TaskState /\ 0 \in 0..MaxTime
  BY BoundsAssumption DEF TaskState
<1>b. job \in Jobs
  BY <1>3, <1>a DEF Jobs
<1>4. task' = [task EXCEPT ![t] = job]
  BY <1>2 DEF Submit
<1>5. OnlyMoves(t) /\ pc(t)' = "lookup"
  BY <1>1, <1>3, <1>4, <1>b DEF OnlyMoves, pc
<1>6. ~Working(t)' /\ Fits(t)'
  BY <1>5 DEF Working, Fits
<1> QED BY <1>5, <1>6, QuietStep DEF Submit, IInv, TypeOK

\* A replayed receipt gives a task something to answer.
LEMMA ReplayStep ==
  ASSUME IInv, NEW t \in Task, pc(t) # "idle",
         IsReplay(receipts, key(t), req(t)),
         Answering(t, Existing(key(t))),
         UNCHANGED <<proc, clock, database, replies>>
  PROVE  IInv'
<1>1. /\ key(t) \in Key
      /\ receipts[key(t)] \in Rows(Request, Response, Key)
  BY BusyTask DEF IInv, TypeOK
<1>2. PICK answer : answer = Existing(key(t))
  OBVIOUS
<1>3. /\ answer \in Response \cup {InProgress}
      /\ receipts[key(t)].req = req(t)
  BY <1>1, <1>2 DEF Existing, Rows, Absent, IsReplay, IsNew
<1>4. /\ OnlyMoves(t)
      /\ task'[t].pc = "replying" /\ task'[t].key = key(t)
      /\ task'[t].req = req(t) /\ task'[t].answer = answer
  BY <1>2, <1>3, AnsweringTask DEF IInv
<1>5. ~Working(t)'
  BY <1>4 DEF Working, pc
<1>6. receipts' = receipts
  BY DEF database
<1>7. Answers(t)'
  BY <1>2, <1>3, <1>4, <1>6 DEF Answers, Existing, key, req
<1>8. Fits(t)'
  BY <1>5, <1>7 DEF Fits
<1> QED BY <1>4, <1>5, <1>8, QuietStep DEF IInv, TypeOK

LEMMA LookupStep ==
  ASSUME IInv, NEW t \in Task, Lookup(t)
  PROVE  IInv'
<1>1. CASE IsReplay(receipts, key(t), req(t)) /\ Answering(t, Existing(key(t)))
  BY <1>1, ReplayStep DEF Lookup
<1>2. CASE Drop(t)
  BY <1>2, DropStep DEF Lookup, IInv, TypeOK
<1>3. CASE Move(t, "starting")
  <2>1. OnlyMoves(t) /\ task'[t].pc = "starting"
    BY <1>3, MovesTask DEF Lookup, IInv, TaskState
  <2>2. ~Working(t)' /\ Fits(t)'
    BY <2>1 DEF Working, Fits, pc
  <2> QED BY <2>1, <2>2, QuietStep DEF Lookup, IInv, TypeOK
<1> QED BY <1>1, <1>2, <1>3 DEF Lookup

LEMMA StartExistingStep ==
  ASSUME IInv, NEW t \in Task, StartExisting(t)
  PROVE  IInv'
<1>1. CASE IsReplay(receipts, key(t), req(t)) /\ Answering(t, Existing(key(t)))
  BY <1>1, ReplayStep DEF StartExisting
<1>2. CASE Drop(t)
  BY <1>2, DropStep DEF StartExisting, IInv, TypeOK
<1> QED BY <1>1, <1>2 DEF StartExisting
-----------------------------------------------------------------------------
\* The task goes on to its last transaction with what was generated.
Finalizes(t, g) ==
  task' = [task EXCEPT ![t].pc = "finalizing", ![t].generated = g]

LEMMA FinalizingTask ==
  ASSUME TypeOK, NEW t \in Task, pc(t) # "idle", NEW g \in Generated,
         Finalizes(t, g)
  PROVE  /\ OnlyMoves(t)
         /\ task'[t].pc = "finalizing" /\ task'[t].key = key(t)
         /\ task'[t].req = req(t) /\ task'[t].at = task[t].at
         /\ task'[t].generated = g
<1>1. task \in [Task -> {Idle} \cup Jobs]
  BY DEF TypeOK, Jobs
<1>2. task[t] \in Jobs
  BY BusyTask
<1>3. task'[t] = [task[t] EXCEPT !.pc = "finalizing", !.generated = g]
  BY <1>1 DEF Finalizes
<1>4. task'[t] \in Jobs
  BY <1>2, <1>3 DEF Jobs, TaskState
<1>5. OnlyMoves(t)
  BY <1>1, <1>4 DEF Finalizes, OnlyMoves
<1> QED BY <1>2, <1>3, <1>5 DEF Jobs, key, req

\* Generation, and a snapshot that cannot be frozen, hand the run to its last
\* transaction with what it needs to end it.
LEMMA FinalizingStep ==
  ASSUME IInv, NEW t \in Task, FreezeFails(t) \/ Generate(t)
  PROVE  IInv'
<1>1. PICK g \in Generated :
        /\ Finalizes(t, g)
        /\ pc(t) = "freezing" => g = Failure
  <2>1. Failure \in Generated
    BY DEF Failure, Generated
  <2>2. CASE FreezeFails(t)
    BY <2>1, <2>2 DEF FreezeFails, Failure, Finalizes
  <2>3. CASE Generate(t)
    BY <2>3 DEF Generate, Finalizes
  <2> QED BY <2>2, <2>3
<1>2. pc(t) \in {"freezing", "generating"} /\ Working(t)
  BY DEF FreezeFails, Generate, Working
<1>3. UNCHANGED <<proc, clock, database, replies>>
  BY DEF FreezeFails, Generate
<1>4. /\ OnlyMoves(t)
      /\ task'[t].pc = "finalizing" /\ task'[t].key = key(t)
      /\ task'[t].req = req(t) /\ task'[t].at = task[t].at
      /\ task'[t].generated = g
  BY <1>1, <1>2, FinalizingTask DEF IInv
<1>5. status' = status /\ trace' = trace /\ receipts' = receipts
  BY <1>3 DEF database
<1>6. /\ status[key(t)] # "none"
      /\ status[key(t)] = "running" => Due(t)
  BY <1>2 DEF IInv, AllFit, Fits
<1>7. ASSUME Due(t)
      PROVE  Due(t)'
  BY <1>1, <1>2, <1>4, <1>5, <1>7 DEF Due, pc, key, req
<1>8. Fits(t)'
  BY <1>4, <1>5, <1>6, <1>7 DEF Fits, Working, pc, key
<1>9. Working(t)' => Working(t) /\ key(t)' = key(t)
  BY <1>2, <1>4 DEF key
<1> QED BY <1>3, <1>4, <1>8, <1>9, QuietStep DEF IInv, TypeOK

\* The clock and the life of the processes leave tasks and database alone.
LEMMA ProcessStep ==
  ASSUME IInv, UNCHANGED <<task, database, replies>>,
         clock' \in 0..MaxTime, proc' \in [Process -> ProcState]
  PROVE  IInv'
<1>1. TypeOK'
  BY DatabaseType DEF IInv, TypeOK
<1>2. Shapes'
  BY ShapesKept DEF IInv
<1>3. AllFit'
  BY DEF IInv, AllFit, Fits, Working, Due, Answers, pc, key, req, database
<1>4. Alone'
  BY DEF IInv, Alone, Working, pc, key
<1> QED BY <1>1, <1>2, <1>3, <1>4 DEF IInv

LEMMA OperatorStep ==
  ASSUME IInv, NEW p \in Process,
         Boot(p) \/ BootFails(p) \/ BeginShutdown(p) \/ EndShutdown(p)
  PROVE  IInv'
<1>1. UNCHANGED <<task, clock, database, replies>>
  BY DEF Boot, BootFails, BeginShutdown, EndShutdown
<1>2. proc' \in [Process -> ProcState]
  BY DEF Boot, BootFails, BeginShutdown, EndShutdown, IInv, TypeOK, ProcState
<1>3. clock' \in 0..MaxTime
  BY <1>1 DEF IInv, TypeOK
<1> QED BY <1>1, <1>2, <1>3, ProcessStep

\* A crash loses the tasks of the process.
LEMMA CrashStep ==
  ASSUME IInv, NEW p \in Process, Crash(p)
  PROVE  IInv'
<1>1. task' = [t \in Task |-> IF t \in MyTasks(p) THEN Idle ELSE task[t]]
  BY DEF Crash
<1>2. UNCHANGED <<clock, database, replies>>
  BY DEF Crash
<1>3. ASSUME NEW t \in Task
      PROVE  task'[t] = task[t] \/ task'[t].pc = "idle"
  BY <1>1 DEF Idle
<1>4. TypeOK'
  <2>1. proc' \in [Process -> ProcState]
    BY DEF Crash, IInv, TypeOK, ProcState
  <2>2. task' \in [Task -> {Idle} \cup Jobs]
    BY <1>1 DEF IInv, TypeOK, Jobs
  <2> QED BY <1>2, <2>1, <2>2, DatabaseType DEF IInv, TypeOK, Jobs
<1>5. Shapes'
  BY <1>2, ShapesKept DEF IInv
<1>6. AllFit'
  <2> SUFFICES ASSUME NEW t \in Task
               PROVE  Fits(t)'
    BY DEF AllFit
  <2>1. CASE task'[t] = task[t]
    <3>1. Passes(key(t)) /\ Final(key(t))
      BY <1>2 DEF Passes, Final, database
    <3> QED BY <2>1, <3>1, StillFits DEF IInv, AllFit
  <2>2. CASE task'[t].pc = "idle"
    BY <2>2 DEF Fits, Working, pc
  <2> QED BY <1>3, <2>1, <2>2
<1>7. Alone'
  <2> SUFFICES ASSUME NEW t \in Task, NEW u \in Task, t # u,
                      Working(t)', Working(u)'
               PROVE  key(t)' # key(u)'
    BY DEF Alone
  <2>1. task'[t] = task[t] /\ task'[u] = task[u]
    BY <1>3 DEF Working, pc
  <2> QED BY <2>1 DEF IInv, Alone, Working, pc, key
<1> QED BY <1>4, <1>5, <1>6, <1>7 DEF IInv
-----------------------------------------------------------------------------
\* No other task than t works on the run of k.
Exclusive(t, k) ==
  \A u \in Task : u # t /\ key(u) = k => ~Working(u)

\* No run but that of k changes.
OthersSame(k) == \A j \in Key : j # k => SameRun(j)

\* A transaction writes to the run of its own task.
LEMMA TransactionStep ==
  ASSUME IInv, TypeOK', NEW t \in Task, NEW k \in Key,
         k = key(t), OnlyMoves(t), task'[t].key = k,
         Exclusive(t, k), OthersSame(k), Final(k), Shape(k)', Fits(t)'
  PROVE  IInv'
<1>1. Shapes'
  BY ShapeKept DEF IInv, Shapes, OthersSame
<1>2. AllFit'
  <2> SUFFICES ASSUME NEW u \in Task
               PROVE  Fits(u)'
    BY DEF AllFit
  <2>1. CASE u = t
    BY <2>1
  <2>2. CASE u # t
    <3>1. task'[u] = task[u] /\ Fits(u)
      BY <2>2 DEF OnlyMoves, IInv, AllFit
    <3>2. CASE key(u) = k
      BY <2>2, <3>1, <3>2, StillFits DEF Exclusive
    <3>3. CASE key(u) # k
      <4>1. Working(u) \/ pc(u) = "replying" => SameRun(key(u))
        <5>1. ASSUME Working(u) \/ pc(u) = "replying"
              PROVE  key(u) \in Key
          BY <5>1, BusyTask DEF IInv, Working
        <5> QED BY <3>3, <5>1 DEF OthersSame
      <4>2. SameRun(key(u)) => Passes(key(u)) /\ Final(key(u))
        BY DEF SameRun, Passes, Final
      <4> QED BY <3>1, <4>1, <4>2, StillFits
    <3> QED BY <3>2, <3>3
  <2> QED BY <2>1, <2>2
<1>3. Alone'
  <2> SUFFICES ASSUME NEW u \in Task, NEW v \in Task, u # v,
                      Working(u)', Working(v)'
               PROVE  key(u)' # key(v)'
    BY DEF Alone
  <2>1. ASSUME NEW w \in Task, w # t
        PROVE  /\ key(w)' = key(w) /\ Working(w)' = Working(w)
               /\ Working(w) => key(w) # k
    BY <2>1 DEF OnlyMoves, Working, pc, key, Exclusive
  <2>2. CASE u # t /\ v # t
    BY <2>1, <2>2 DEF IInv, Alone
  <2>3. CASE u = t
    BY <2>1, <2>3 DEF key
  <2>4. CASE v = t
    BY <2>1, <2>4 DEF key
  <2> QED BY <2>2, <2>3, <2>4
<1> QED BY <1>1, <1>2, <1>3 DEF IInv

\* While a receipt is absent nothing else exists of its run.
LEMMA NewRun ==
  ASSUME IInv, NEW k \in Key, IsNew(receipts, k), NEW t \in Task
  PROVE  /\ NoRun(k) /\ Exclusive(t, k) /\ Final(k)
         /\ receipts[k] = Absent
<1>2. NoRun(k)
  BY DEF IInv, Shapes, Shape, UnderWay, Ended, EndsIn, IsNew
<1>3. Exclusive(t, k)
  <2> SUFFICES ASSUME NEW u \in Task, key(u) = k, Working(u)
               PROVE  FALSE
    BY DEF Exclusive
  <2>1. status[key(u)] # "none"
    BY DEF IInv, AllFit, Fits
  <2> QED BY <1>2, <2>1 DEF NoRun
<1>4. receipts[k] = Absent
  BY DEF IInv, TypeOK, Rows, IsNew
<1> QED BY <1>2, <1>3, <1>4 DEF Final, Absent

\* The later of two readings of the clock.
LEMMA LatestTime ==
  ASSUME NEW x \in 0..MaxTime, NEW y \in 0..MaxTime
  PROVE  Latest(x, y) \in 0..MaxTime /\ x <= Latest(x, y) /\ y <= Latest(x, y)
BY BoundsAssumption DEF Latest

LEMMA StartUnconfiguredStep ==
  ASSUME IInv, NEW t \in Task, StartUnconfigured(t)
  PROVE  IInv'
<1> DEFINE refusal == [status |-> "failed", first |-> Len(ideas), last |-> Len(ideas)]
           row == [state |-> "completed", req |-> req(t), response |-> refusal,
                   resource |-> None]
<1>1. pc(t) = "starting" /\ IsNew(receipts, key(t))
  BY DEF StartUnconfigured
<1> PICK k \in Key : k = key(t)
  BY <1>1, BusyTask DEF IInv
<1>2. req(t) \in Request
  BY <1>1, BusyTask DEF IInv
<1>3. /\ NoRun(k) /\ Exclusive(t, k) /\ Final(k)
      /\ receipts[k] = Absent
  BY <1>1, NewRun
<1>4. UNCHANGED <<proc, clock, trace, status, ideas, recovery, replies>>
  BY DEF StartUnconfigured
<1>5. refusal \in Response
  <2>1. Len(ideas) \in Nat
    BY DEF IInv, TypeOK
  <2> QED BY <2>1 DEF Response, Terminal
<1>6. receipts' = [receipts EXCEPT ![k] = row]
  BY <1>2 DEF StartUnconfigured, Complete, Reserve, IInv, TypeOK
<1>7. PICK now \in 0..MaxTime :
        filed' = [filed EXCEPT ![k] =
                    [created |-> clock, completed |-> Latest(clock, now)]]
  BY DEF StartUnconfigured
<1>8. clock \in 0..MaxTime
  BY DEF IInv, TypeOK
<1>9. Latest(clock, now) \in 0..MaxTime /\ clock <= Latest(clock, now)
  BY <1>8, LatestTime
<1>10. /\ OnlyMoves(t)
       /\ task'[t].pc = "replying" /\ task'[t].key = k
       /\ task'[t].req = req(t) /\ task'[t].answer = refusal
  <2>1. Answering(t, refusal)
    BY DEF StartUnconfigured
  <2> QED BY <1>1, <1>5, <2>1, AnsweringTask DEF IInv
<1> HIDE DEF refusal
<1>11. row \in Rows(Request, Response, Key)
  BY <1>2, <1>5 DEF Rows
<1>12. TypeOK'
  BY <1>2, <1>4, <1>6, <1>7, <1>8, <1>9, <1>10, <1>11
  DEF IInv, TypeOK, OnlyMoves, Jobs
<1>13. OthersSame(k)
  BY <1>2, <1>4, <1>6, <1>7 DEF OthersSame, SameRun, IdeasOf, IInv, TypeOK
<1>14. receipts'[k] = row
  BY <1>2, <1>6 DEF IInv, TypeOK
<1>15. filed'[k].created <= filed'[k].completed
  BY <1>2, <1>7, <1>9 DEF IInv, TypeOK
<1>16. Shape(k)'
  <2>1. refusal.status = "failed"
    BY DEF refusal
  <2>2. /\ trace'[k] = << >> /\ status'[k] = "none" /\ recovery'[k] = None
        /\ IdeasOf(k)' = {}
    BY <1>3, <1>4 DEF NoRun, IdeasOf
  <2> QED BY <1>14, <1>15, <2>1, <2>2 DEF Shape, NoRun
<1>17. Fits(t)'
  BY <1>10, <1>14 DEF Fits, Answers, Working, pc, key, req
<1> QED BY <1>3, <1>10, <1>12, <1>13, <1>16, <1>17, TransactionStep

\* The run takes the next phase of its task into its trace.
LEMMA RecordedTrace ==
  ASSUME TypeOK, NEW k \in Key, NEW type \in EventType, NEW at \in 0..MaxTime,
         Record(k, type, at)
  PROVE  /\ trace' \in [Key -> Seq(Event)]
         /\ trace'[k] = Append(trace[k], [type |-> type, at |-> at,
                                          cause |-> "start"])
         /\ \A j \in Key : j # k => trace'[j] = trace[j]
<1> PICK event : event = [type |-> type, at |-> at, cause |-> "start"]
  OBVIOUS
<1>1. event \in Event
  BY DEF Event, Cause
<1>2. trace \in [Key -> Seq(Event)]
  BY DEF TypeOK
<1>3. trace' = [trace EXCEPT ![k] = Append(trace[k], event)]
  BY <1>2 DEF Record
<1>4. Append(trace[k], event) \in Seq(Event)
  BY <1>1, <1>2, AppendProperties
<1> QED BY <1>2, <1>3, <1>4

\* A receipt reserved and attached to its run in one transaction.
LEMMA AttachedRow ==
  ASSUME TypeOK, NEW k \in Key, NEW q \in Request
  PROVE  Attach(Reserve(receipts, k, q), k, k)
           = [receipts EXCEPT ![k] = [state |-> "in_progress", req |-> q,
                                      response |-> None, resource |-> k]]
<1>1. PICK reserved : reserved = Reserve(receipts, k, q)
  OBVIOUS
<1>2. reserved = [receipts EXCEPT ![k] =
                    [state |-> "in_progress", req |-> q,
                     response |-> None, resource |-> None]]
  BY <1>1 DEF Reserve
<1>3. receipts \in [Key -> Rows(Request, Response, Key)]
  BY DEF TypeOK
<1>4. /\ DOMAIN reserved = Key
      /\ reserved[k] = [state |-> "in_progress", req |-> q,
                        response |-> None, resource |-> None]
      /\ \A j \in Key : j # k => reserved[j] = receipts[j]
  BY <1>2, <1>3
<1>5. [reserved[k] EXCEPT !.resource = k]
        = [state |-> "in_progress", req |-> q, response |-> None, resource |-> k]
  BY <1>4
<1>6. Attach(reserved, k, k)
        = [reserved EXCEPT ![k] = [reserved[k] EXCEPT !.resource = k]]
  BY <1>2 DEF Attach
<1> QED BY <1>1, <1>2, <1>3, <1>5, <1>6

LEMMA StartStep ==
  ASSUME IInv, NEW t \in Task, Start(t)
  PROVE  IInv'
<1>1. pc(t) = "starting" /\ IsNew(receipts, key(t))
  BY DEF Start
<1> PICK k \in Key : k = key(t)
  BY <1>1, BusyTask DEF IInv
<1> DEFINE row == [state |-> "in_progress", req |-> req(t), response |-> None,
                   resource |-> k]
<1>2. req(t) \in Request
  BY <1>1, BusyTask DEF IInv
<1>3. /\ NoRun(k) /\ Exclusive(t, k) /\ Final(k)
      /\ receipts[k] = Absent
  BY <1>1, NewRun
<1>4. UNCHANGED <<proc, clock, ideas, recovery, replies>>
  BY DEF Start
<1>5. receipts' = [receipts EXCEPT ![k] = row]
  BY <1>2, AttachedRow DEF Start, IInv
<1>6. row \in Rows(Request, Response, Key)
  BY <1>2 DEF Rows
<1>7. PICK now \in 0..MaxTime :
        /\ Record(k, "started", Latest(clock, now))
        /\ task' = [task EXCEPT ![t].pc = "freezing",
                                ![t].at = Latest(clock, now)]
  BY DEF Start
<1>8. PICK a : a = Latest(clock, now)
  OBVIOUS
<1>9. clock \in 0..MaxTime
  BY DEF IInv, TypeOK
<1>10. a \in 0..MaxTime /\ clock <= a
  BY <1>8, <1>9, LatestTime
<1>11. /\ OnlyMoves(t)
       /\ task'[t].pc = "freezing" /\ task'[t].key = k /\ task'[t].at = a
       /\ task'[t].req = req(t)
  <2>1. task \in [Task -> {Idle} \cup Jobs]
    BY DEF IInv, TypeOK, Jobs
  <2>2. task[t] \in Jobs
    BY <1>1, BusyTask DEF IInv
  <2>3. task' = [task EXCEPT ![t].pc = "freezing", ![t].at = a]
    BY <1>7, <1>8
  <2>4. task'[t] = [task[t] EXCEPT !.pc = "freezing", !.at = a]
    BY <2>1, <2>3
  <2>5. task'[t] \in Jobs
    BY <1>10, <2>2, <2>4 DEF Jobs, TaskState
  <2>6. OnlyMoves(t)
    BY <2>1, <2>3, <2>5 DEF OnlyMoves
  <2> QED BY <2>2, <2>4, <2>6 DEF Jobs, key, req
<1>12. Record(k, "started", a)
  BY <1>7, <1>8
<1>13. /\ trace' \in [Key -> Seq(Event)]
       /\ trace'[k] = Append(trace[k], StartedAt(a))
       /\ \A j \in Key : j # k => trace'[j] = trace[j]
  BY <1>10, <1>12, RecordedTrace DEF IInv, EventType, StartedAt
<1>14. trace'[k] = <<StartedAt(a)>>
  BY <1>3, <1>13 DEF NoRun
<1>15. /\ filed' = [filed EXCEPT ![k].created = clock]
       /\ status' = [status EXCEPT ![k] = "running"]
  BY DEF Start
<1>16. TypeOK'
  <2>1. filed' \in [Key -> [created : 0..MaxTime, completed : 0..MaxTime]]
    BY <1>9, <1>15, FiledTyped DEF IInv, TypeOK
  <2>2. status' \in [Key -> Status]
    BY <1>15 DEF IInv, TypeOK, Status
  <2> QED BY <1>4, <1>5, <1>6, <1>11, <1>13, <2>1, <2>2
      DEF IInv, TypeOK, OnlyMoves, Jobs
<1>17. OthersSame(k)
  BY <1>4, <1>5, <1>13, <1>15 DEF OthersSame, SameRun, IdeasOf, IInv, TypeOK
<1>18. receipts'[k] = row /\ status'[k] = "running" /\ filed'[k].created = clock
  BY <1>5, <1>15 DEF IInv, TypeOK
<1>19. Shape(k)'
  <2>1. recovery'[k] = None /\ IdeasOf(k)' = {}
    BY <1>3, <1>4 DEF NoRun, IdeasOf
  <2>2. filed'[k].created <= a /\ trace'[k] \in Begun(a)
    BY <1>10, <1>14, <1>18 DEF Begun
  <2>3. UnderWay(k)'
    BY <1>10, <1>18, <2>1, <2>2 DEF UnderWay
  <2> QED BY <2>3 DEF Shape
<1>20. Fits(t)'
  <2>1. Due(t)'
    BY <1>11, <1>14, <1>18 DEF Due, pc, key, req
  <2> QED BY <1>11, <1>18, <2>1 DEF Fits, pc, key
<1> QED BY <1>3, <1>11, <1>16, <1>17, <1>19, <1>20, TransactionStep

\* A working task whose run is in progress is the only one that writes to it.
LEMMA WorkingRun ==
  ASSUME IInv, NEW t \in Task, Working(t), NEW k \in Key, k = key(t),
         Projects(k)
  PROVE  /\ UnderWay(k) /\ Due(t) /\ Exclusive(t, k) /\ Final(k)
         /\ \E a \in 0..MaxTime : /\ a = task[t].at
                                  /\ filed[k].created <= a
                                  /\ trace[k] \in Begun(a)
<1>1. UnderWay(k)
  BY DEF IInv, Shapes, Shape, NoRun, Ended, EndsIn, Terminal, Projects
<1>2. Due(t)
  BY DEF Projects, IInv, AllFit, Fits
<1>3. Exclusive(t, k)
  BY DEF Exclusive, IInv, Alone
<1>4. Final(k)
  BY <1>1 DEF Final, UnderWay
<1>5. PICK a \in 0..MaxTime : filed[k].created <= a /\ trace[k] \in Begun(a)
  BY <1>1 DEF UnderWay
<1>6. trace[k][1] = StartedAt(a)
  BY <1>5 DEF Begun
<1>7. trace[k][1] = StartedAt(task[t].at)
  BY <1>2 DEF Due
<1>8. a = task[t].at
  BY <1>6, <1>7 DEF StartedAt
<1> QED BY <1>1, <1>2, <1>3, <1>4, <1>5, <1>8

LEMMA AppendOne ==
  ASSUME NEW x, NEW y
  PROVE  Append(<<x>>, y) = <<x, y>>
<1>1. <<x>> \in Seq({x, y}) /\ <<x, y>> \in Seq({x, y})
  OBVIOUS
<1>2. /\ Append(<<x>>, y) \in Seq({x, y})
      /\ Len(Append(<<x>>, y)) = Len(<<x>>) + 1
      /\ \A i \in 1..Len(<<x>>) : Append(<<x>>, y)[i] = <<x>>[i]
      /\ Append(<<x>>, y)[Len(<<x>>) + 1] = y
  BY <1>1, AppendProperties
<1>3. Len(<<x>>) = 1 /\ Len(<<x, y>>) = 2 /\ <<x>>[1] = x
  OBVIOUS
<1>4. Append(<<x>>, y)[1] = x /\ Append(<<x>>, y)[2] = y
  BY <1>2, <1>3
<1>5. <<x, y>>[1] = x /\ <<x, y>>[2] = y
  OBVIOUS
<1>6. PICK u : u = Append(<<x>>, y)
  OBVIOUS
<1>7. PICK v : v = <<x, y>>
  OBVIOUS
<1>8. /\ u \in Seq({x, y}) /\ v \in Seq({x, y})
      /\ Len(u) = 2 /\ Len(v) = 2
  BY <1>1, <1>2, <1>3, <1>6, <1>7
<1>9. u[1] = v[1] /\ u[2] = v[2]
  BY <1>4, <1>5, <1>6, <1>7
<1>10. \A i \in 1..Len(u) : u[i] = v[i]
  BY <1>8, <1>9
<1>11. u = v
  BY <1>8, <1>10, SeqEqual
<1> QED BY <1>6, <1>7, <1>11

LEMMA FreezeStep ==
  ASSUME IInv, NEW t \in Task, Freeze(t)
  PROVE  IInv'
<1>1. pc(t) = "freezing" /\ Working(t) /\ Projects(key(t))
  BY DEF Freeze, Working
<1> PICK k \in Key : k = key(t)
  BY <1>1, BusyTask DEF IInv
<1>2. UnderWay(k) /\ Due(t) /\ Exclusive(t, k) /\ Final(k)
  BY <1>1, WorkingRun
<1>3. PICK a \in 0..MaxTime : a = task[t].at /\ filed[k].created <= a
  BY <1>1, WorkingRun
<1>4. UNCHANGED <<proc, clock, receipts, filed, status, ideas, recovery, replies>>
  BY DEF Freeze
<1>5. /\ OnlyMoves(t)
      /\ task'[t].pc = "generating" /\ task'[t].key = k /\ task'[t].at = a
      /\ task'[t].req = req(t)
  BY <1>1, <1>3, MovesTask DEF Freeze, IInv, TaskState
<1>6. Record(k, "frozen", a)
  BY <1>3 DEF Freeze
<1>7. /\ trace' \in [Key -> Seq(Event)]
      /\ trace'[k] = Append(trace[k], FrozenAt(a))
      /\ \A j \in Key : j # k => trace'[j] = trace[j]
  BY <1>6, RecordedTrace DEF IInv, EventType, FrozenAt
<1>8. trace'[k] = <<StartedAt(a), FrozenAt(a)>>
  <2>1. trace[k] = <<StartedAt(a)>>
    BY <1>1, <1>2, <1>3 DEF Due
  <2> QED BY <1>7, <2>1, AppendOne
<1>9. TypeOK'
  BY <1>4, <1>5, <1>7 DEF IInv, TypeOK, OnlyMoves, Jobs
<1>10. OthersSame(k)
  BY <1>4, <1>7 DEF OthersSame, SameRun, IdeasOf
<1>11. Shape(k)'
  <2>1. IdeasOf(k)' = {}
    BY <1>2, <1>4 DEF UnderWay, IdeasOf
  <2>2. UnderWay(k)'
    BY <1>2, <1>3, <1>4, <1>8, <2>1 DEF UnderWay, Begun
  <2> QED BY <2>2 DEF Shape
<1>12. Fits(t)'
  <2>1. Due(t)'
    BY <1>2, <1>4, <1>5, <1>8 DEF Due, pc, key, req
  <2> QED BY <1>2, <1>4, <1>5, <2>1 DEF Fits, UnderWay, pc, key
<1> QED BY <1>2, <1>5, <1>9, <1>10, <1>11, <1>12, TransactionStep
-----------------------------------------------------------------------------
\* The ideas of the last transaction all belong to its run and go to the end
\* of the ledger.
LEMMA MoreIdeas ==
  ASSUME ideas \in Seq(Key), NEW k \in Key, NEW n \in Nat,
         ideas' = ideas \o [i \in 1..n |-> k]
  PROVE  /\ ideas' \in Seq(Key)
         /\ Len(ideas') = Len(ideas) + n
         /\ \A i \in 1..Len(ideas) : ideas'[i] = ideas[i]
         /\ \A i \in Len(ideas) + 1..Len(ideas) + n : ideas'[i] = k
         /\ \A j \in Key : j # k => IdeasOf(j)' = IdeasOf(j)
         /\ IdeasOf(k) = {} =>
              IdeasOf(k)' = Len(ideas) + 1..Len(ideas) + n
<1> PICK more : more = [i \in 1..n |-> k]
  OBVIOUS
<1>1. /\ more \in Seq(Key) /\ Len(more) = n
      /\ \A i \in 1..n : more[i] = k
  OBVIOUS
<1>2. ideas' = ideas \o more
  OBVIOUS
<1>3. /\ ideas' \in Seq(Key)
      /\ Len(ideas') = Len(ideas) + n
      /\ \A i \in 1..Len(ideas) + n :
           ideas'[i] = IF i <= Len(ideas) THEN ideas[i] ELSE more[i - Len(ideas)]
  BY <1>1, <1>2, ConcatProperties
<1>4. Len(ideas) \in Nat
  OBVIOUS
<1>5. \A i \in 1..Len(ideas) : ideas'[i] = ideas[i]
  BY <1>3, <1>4
<1>6. ASSUME NEW i \in Len(ideas) + 1..Len(ideas) + n
      PROVE  ideas'[i] = k
  <2>1. i - Len(ideas) \in 1..n /\ ~(i <= Len(ideas)) /\ i \in 1..Len(ideas) + n
    BY <1>4
  <2> QED BY <1>1, <1>3, <2>1
<1>7. DOMAIN ideas = 1..Len(ideas) /\ DOMAIN ideas' = 1..Len(ideas) + n
  BY <1>3
<1>8. \A i \in 1..Len(ideas) + n :
        i \in 1..Len(ideas) \/ i \in Len(ideas) + 1..Len(ideas) + n
  BY <1>4
<1>9. /\ 1..Len(ideas) \subseteq 1..Len(ideas) + n
      /\ Len(ideas) + 1..Len(ideas) + n \subseteq 1..Len(ideas) + n
  BY <1>4
<1>10. ASSUME NEW j \in Key, j # k
       PROVE  IdeasOf(j)' = IdeasOf(j)
  BY <1>5, <1>6, <1>7, <1>8, <1>9, <1>10 DEF IdeasOf
<1>11. ASSUME IdeasOf(k) = {}
       PROVE  IdeasOf(k)' = Len(ideas) + 1..Len(ideas) + n
  <2>1. \A i \in 1..Len(ideas) : ideas[i] # k
    BY <1>7, <1>11 DEF IdeasOf
  <2> QED BY <1>5, <1>6, <1>7, <1>8, <1>9, <2>1 DEF IdeasOf
<1> QED BY <1>3, <1>5, <1>6, <1>10, <1>11

\* The receipt that a last transaction completes.
LEMMA CompletedRow ==
  ASSUME TypeOK, NEW k \in Key, NEW response \in Response,
         receipts[k].state = "in_progress",
         receipts' = Complete(receipts, k, response)
  PROVE  /\ receipts' \in [Key -> Rows(Request, Response, Key)]
         /\ receipts'[k].state = "completed"
         /\ receipts'[k].response = response
         /\ receipts'[k].req = receipts[k].req
         /\ receipts'[k].resource = receipts[k].resource
         /\ \A j \in Key : j # k => receipts'[j] = receipts[j]
<1>1. receipts \in [Key -> Rows(Request, Response, Key)]
  BY DEF TypeOK
<1>2. PICK row : row = receipts[k]
  OBVIOUS
<1>3. row \in [state : {"in_progress"}, req : Request, response : {None},
               resource : Key \cup {None}]
  BY <1>1, <1>2 DEF Rows, Absent
<1>4. PICK done : done = [row EXCEPT !.state = "completed",
                                     !.response = response]
  OBVIOUS
<1>5. done = [state |-> "completed", req |-> row.req, response |-> response,
              resource |-> row.resource]
  BY <1>3, <1>4
<1>6. done \in Rows(Request, Response, Key)
  BY <1>3, <1>5 DEF Rows
<1>7. receipts' = [receipts EXCEPT ![k] = done]
  BY <1>2, <1>4 DEF Complete
<1> QED BY <1>1, <1>2, <1>5, <1>6, <1>7

\* What generation hands over: a known end, and no ideas for a failure.
LEMMA GeneratedParts ==
  ASSUME NEW g \in Generated
  PROVE  /\ g.ends \in Terminal /\ g.ideas \in Nat
         /\ g.ends = "failed" => g.ideas = 0
<1>1. CASE g \in [ends : {"completed", "timed_out"}, ideas : 0..MaxIdeas]
  BY <1>1 DEF Terminal
<1>2. CASE g \in [ends : {"failed"}, ideas : {0}]
  BY <1>2 DEF Terminal
<1> QED BY <1>1, <1>2 DEF Generated

\* The last transaction of a task that finds its run still in progress, from
\* the begun trace and the generated ideas it works with.
LEMMA FinalizeParts ==
  ASSUME IInv, NEW t \in Task, Finalize(t), NEW k \in Key, k = key(t)
  PROVE  \E a \in 0..MaxTime : \E g \in Generated : \E begun \in Begun(a) :
           /\ UnderWay(k) /\ Exclusive(t, k)
           /\ receipts[k].req = req(t)
           /\ filed[k].created <= a
           /\ trace[k] = begun
           /\ Len(begun) = 1 => g.ends = "failed" /\ g.ideas = 0
           /\ EndRun(k, g.ends, g.ideas, a)
<1>1. pc(t) = "finalizing" /\ Working(t) /\ Projects(k)
  BY DEF Finalize, Working
<1>2. UnderWay(k) /\ Due(t) /\ Exclusive(t, k)
  BY <1>1, WorkingRun
<1>3. PICK a \in 0..MaxTime : a = task[t].at /\ filed[k].created <= a
  BY <1>1, WorkingRun
<1>4. PICK g : g = task[t].generated
  OBVIOUS
<1>5. EndRun(k, g.ends, g.ideas, a) /\ receipts[k].req = req(t)
  BY <1>2, <1>3, <1>4 DEF Finalize, Due
<1>6. CASE trace[k] = <<StartedAt(a)>> /\ g = Failure
  <2>1. g \in Generated /\ g.ends = "failed" /\ g.ideas = 0
    BY <1>6 DEF Generated, Failure
  <2>2. <<StartedAt(a)>> \in Begun(a)
    BY DEF Begun
  <2> QED BY <1>2, <1>3, <1>5, <1>6, <2>1, <2>2
<1>7. CASE /\ trace[k] = <<StartedAt(a), FrozenAt(a)>>
           /\ g \in Generated
  <2>1. <<StartedAt(a), FrozenAt(a)>> \in Begun(a)
    BY DEF Begun
  <2>2. Len(<<StartedAt(a), FrozenAt(a)>>) = 2
    OBVIOUS
  <2> QED BY <1>2, <1>3, <1>5, <1>7, <2>1, <2>2
<1> QED BY <1>1, <1>2, <1>3, <1>4, <1>6, <1>7 DEF Due

LEMMA FinalizeStep ==
  ASSUME IInv, NEW t \in Task, Finalize(t)
  PROVE  IInv'
<1>1. pc(t) = "finalizing"
  BY DEF Finalize
<1> PICK k \in Key : k = key(t)
  BY <1>1, BusyTask DEF IInv
<1>2. PICK a \in 0..MaxTime : \E g \in Generated : \E begun \in Begun(a) :
        /\ UnderWay(k) /\ Exclusive(t, k)
        /\ receipts[k].req = req(t)
        /\ filed[k].created <= a
        /\ trace[k] = begun
        /\ Len(begun) = 1 => g.ends = "failed" /\ g.ideas = 0
        /\ EndRun(k, g.ends, g.ideas, a)
  BY FinalizeParts
<1>3. PICK g \in Generated : \E begun \in Begun(a) :
        /\ UnderWay(k) /\ Exclusive(t, k)
        /\ receipts[k].req = req(t)
        /\ filed[k].created <= a
        /\ trace[k] = begun
        /\ Len(begun) = 1 => g.ends = "failed" /\ g.ideas = 0
        /\ EndRun(k, g.ends, g.ideas, a)
  BY <1>2
<1>4. PICK begun \in Begun(a) :
        /\ UnderWay(k) /\ Exclusive(t, k)
        /\ receipts[k].req = req(t)
        /\ filed[k].created <= a
        /\ trace[k] = begun
        /\ Len(begun) = 1 => g.ends = "failed" /\ g.ideas = 0
        /\ EndRun(k, g.ends, g.ideas, a)
  BY <1>3
<1>5. PICK ends \in Terminal : ends = g.ends
  BY GeneratedParts
<1>6. PICK n \in Nat : n = g.ideas
  BY GeneratedParts
<1>7. EndRun(k, ends, n, a)
  BY <1>4, <1>5, <1>6
<1>8. Len(begun) = 1 => ends = "failed" /\ n = 0
  BY <1>4, <1>5, <1>6
<1>9. TypeOK
  BY DEF IInv
<1>10. UNCHANGED <<proc, clock, recovery, replies>>
  BY DEF Finalize
<1>11. Record(k, ends, a)
  BY <1>7 DEF EndRun
<1>12. ends \in EventType
  BY DEF EventType
<1> DEFINE end == [type |-> ends, at |-> a, cause |-> "start"]
<1>13. /\ trace' \in [Key -> Seq(Event)]
       /\ trace'[k] = Append(trace[k], end)
       /\ \A j \in Key : j # k => trace'[j] = trace[j]
  BY <1>9, <1>11, <1>12, RecordedTrace
<1>14. end \in Event
  BY <1>12 DEF Event, Cause
<1>15. ideas \in Seq(Key) /\ ideas' = ideas \o [i \in 1..n |-> k]
  BY <1>7, <1>9 DEF EndRun, TypeOK
<1>16. /\ ideas' \in Seq(Key)
       /\ Len(ideas') = Len(ideas) + n
       /\ \A j \in Key : j # k => IdeasOf(j)' = IdeasOf(j)
       /\ IdeasOf(k) = {} => IdeasOf(k)' = Len(ideas) + 1..Len(ideas) + n
  BY <1>15, MoreIdeas
<1>17. PICK response : response = [status |-> ends, first |-> Len(ideas),
                                   last |-> Len(ideas')]
  OBVIOUS
<1>18. Len(ideas) \in Nat /\ Len(ideas') \in Nat
  BY <1>15, <1>16
<1>19. response \in Response
  BY <1>17, <1>18 DEF Response
<1>20. receipts' = Complete(receipts, k, response)
  BY <1>7, <1>15, <1>17 DEF EndRun
<1>21. receipts[k].state = "in_progress" /\ receipts[k].resource = k
  BY <1>4 DEF UnderWay
<1>22. /\ receipts' \in [Key -> Rows(Request, Response, Key)]
       /\ receipts'[k].state = "completed"
       /\ receipts'[k].response = response
       /\ receipts'[k].req = receipts[k].req
       /\ receipts'[k].resource = receipts[k].resource
       /\ \A j \in Key : j # k => receipts'[j] = receipts[j]
  BY <1>9, <1>19, <1>20, <1>21, CompletedRow
<1>23. /\ OnlyMoves(t)
       /\ task'[t].pc = "replying" /\ task'[t].key = k
       /\ task'[t].req = req(t) /\ task'[t].answer = response
  <2>1. Answering(t, response)
    BY <1>22 DEF Finalize
  <2> QED BY <1>1, <1>9, <1>19, <2>1, AnsweringTask
<1>24. /\ status' = [status EXCEPT ![k] = ends]
       /\ filed' = [filed EXCEPT ![k].completed = a]
  BY <1>7 DEF EndRun
<1>25. TypeOK'
  <2>1. status' \in [Key -> Status]
    BY <1>9, <1>24 DEF TypeOK, Status
  <2>2. filed' \in [Key -> [created : 0..MaxTime, completed : 0..MaxTime]]
    BY <1>9, <1>24, FiledTyped DEF TypeOK
  <2>3. task' \in [Task -> {Idle} \cup Jobs]
    BY <1>23 DEF OnlyMoves
  <2> QED BY <1>9, <1>10, <1>13, <1>16, <1>22, <2>1, <2>2, <2>3
      DEF TypeOK, Jobs
<1>26. OthersSame(k)
  BY <1>9, <1>10, <1>13, <1>16, <1>22, <1>24
  DEF OthersSame, SameRun, TypeOK
<1>27. /\ status'[k] = ends
       /\ filed'[k].created = filed[k].created /\ filed'[k].completed = a
       /\ recovery'[k] = None
  BY <1>4, <1>9, <1>10, <1>24 DEF TypeOK, UnderWay
<1>28. Shape(k)'
  <2>1. IdeasOf(k)' = Len(ideas) + 1..Len(ideas) + n
    BY <1>4, <1>16 DEF UnderWay
  <2>2. PICK x \in Int, y \in Int : x = Len(ideas) + 1 /\ y = Len(ideas) + n
    BY <1>18
  <2>a. Cardinality(x..y) = IF x > y THEN 0 ELSE y - x + 1
    BY FS_Interval
  <2>b. Cardinality(x..y) = n
    BY <1>18, <2>2, <2>a
  <2>3. Cardinality(IdeasOf(k)') = n
    BY <2>1, <2>2, <2>b
  <2>4. response.last - response.first = n /\ response.status = ends
    BY <1>16, <1>17, <1>18
  <2>5. end.type = ends /\ end.at = a /\ end.cause = "start"
    OBVIOUS
  <2>6. n = 0 => IdeasOf(k)' = {}
    BY <1>18, <2>1
  <2> HIDE DEF end
  <2>7. EndsIn(k, a, begun, end)'
    BY <1>4, <1>13, <1>21, <1>22, <1>27, <2>3, <2>4, <2>5 DEF EndsIn
  <2>8. EndedItself(k, a, begun, end)'
    BY <1>8, <1>27, <2>5, <2>6 DEF EndedItself
  <2>9. Ended(k)'
    BY <1>14, <2>7, <2>8 DEF Ended
  <2> QED BY <2>9 DEF Shape
<1>29. Fits(t)'
  <2>1. receipts'[k].req = req(t)
    BY <1>4, <1>22
  <2> QED BY <1>22, <1>23, <2>1 DEF Fits, Answers, Working, pc, key, req
<1>30. Final(k)
  BY <1>21 DEF Final
<1> QED BY <1>4, <1>23, <1>25, <1>26, <1>28, <1>29, <1>30, TransactionStep
-----------------------------------------------------------------------------
\* A run that has begun is in one of two phases, at one time.
LEMMA BegunTrace ==
  ASSUME NEW a \in 0..MaxTime, NEW begun \in Begun(a)
  PROVE  /\ begun \in Seq(Event) /\ Len(begun) \in {1, 2}
         /\ begun[1] = StartedAt(a)
         /\ Len(begun) = 2 => begun[2] = FrozenAt(a)
<1>1. StartedAt(a) \in Event /\ FrozenAt(a) \in Event
  BY DEF StartedAt, FrozenAt, Event, EventType, Cause
<1>2. CASE begun = <<StartedAt(a)>>
  BY <1>1, <1>2
<1>3. CASE begun = <<StartedAt(a), FrozenAt(a)>>
  <2>1. begun \in Seq(Event)
    BY <1>1, <1>3
  <2>2. Len(begun) = 2 /\ begun[1] = StartedAt(a) /\ begun[2] = FrozenAt(a)
    BY <1>3
  <2> QED BY <2>1, <2>2
<1> QED BY <1>2, <1>3 DEF Begun

\* The runs a recovery finds interrupted are those that are under way, all
\* their events at the time they began.
LEMMA InterruptedRuns ==
  ASSUME NEW k \in Key, Shape(k)
  PROVE  k \in RunningTraces <=> UnderWay(k)
<1>1. CASE NoRun(k)
  BY <1>1 DEF NoRun, UnderWay, RunningTraces
<1>2. CASE UnderWay(k)
  <2>1. PICK a \in 0..MaxTime : trace[k] \in Begun(a)
    BY <1>2 DEF UnderWay
  <2>2. CASE trace[k] = <<StartedAt(a)>>
    BY <1>2, <2>2 DEF RunningTraces, StartedAt, Terminal
  <2>3. CASE trace[k] = <<StartedAt(a), FrozenAt(a)>>
    <3>1. /\ DOMAIN trace[k] = 1..2 /\ trace[k] # << >>
          /\ trace[k][1].type = "started" /\ trace[k][2].type = "frozen"
      BY <2>3 DEF StartedAt, FrozenAt
    <3>2. \A i \in 1..2 : i = 1 \/ i = 2
      OBVIOUS
    <3>3. \A i \in 1..2 : trace[k][i].type \notin Terminal
      BY <3>1, <3>2 DEF Terminal
    <3> QED BY <1>2, <3>1, <3>3 DEF RunningTraces
  <2> QED BY <2>1, <2>2, <2>3 DEF Begun
<1>3. CASE Ended(k)
  <2>1. ~UnderWay(k)
    BY <1>3 DEF Ended, EndsIn, UnderWay
  <2>2. PICK a \in 0..MaxTime : \E begun \in Begun(a) : \E end \in Event :
          trace[k] = Append(begun, end) /\ end.type \in Terminal
    BY <1>3 DEF Ended, EndsIn
  <2>3. PICK begun \in Begun(a) : \E end \in Event :
          trace[k] = Append(begun, end) /\ end.type \in Terminal
    BY <2>2
  <2>4. PICK end \in Event :
          trace[k] = Append(begun, end) /\ end.type \in Terminal
    BY <2>3
  <2>5. begun \in Seq(Event)
    BY BegunTrace
  <2>6. /\ trace[k] \in Seq(Event) /\ Len(trace[k]) = Len(begun) + 1
        /\ trace[k][Len(begun) + 1] = end
    BY <2>4, <2>5, AppendProperties
  <2>7. Len(begun) \in Nat /\ Len(begun) + 1 \in DOMAIN trace[k]
    BY <2>5, <2>6
  <2> QED BY <2>1, <2>4, <2>6, <2>7 DEF RunningTraces
<1> QED BY <1>1, <1>2, <1>3 DEF Shape

\* What a recovery does to one run.
Interrupts(k) ==
  LET failure == [status |-> "failed", first |-> Len(ideas), last |-> Len(ideas)]
      at == InterruptedAt(k)
  IN
  /\ trace'[k] = Append(trace[k], [type |-> "failed", at |-> at,
                                   cause |-> "recover"])
  /\ status'[k] = "failed"
  /\ receipts'[k] = [receipts[k] EXCEPT !.state = "completed",
                                        !.response = failure]
  /\ filed'[k] = [filed[k] EXCEPT !.completed = at]
  /\ recovery'[k] = [created |-> clock, completed |-> at, response |-> failure]

\* A recovery interrupts the runs under way and leaves the others.
LEMMA RecoverParts ==
  ASSUME IInv, NEW p \in Process, Recover(p)
  PROVE  /\ UNCHANGED <<task, clock, ideas, replies>>
         /\ proc' \in [Process -> ProcState]
         /\ DOMAIN trace' = Key /\ DOMAIN status' = Key
         /\ DOMAIN receipts' = Key /\ DOMAIN filed' = Key
         /\ DOMAIN recovery' = Key
         /\ \A k \in Key : IF UnderWay(k) THEN Interrupts(k) ELSE SameRun(k)
<1>1. UNCHANGED <<task, clock, ideas, replies>>
  BY DEF Recover
<1>2. proc' \in [Process -> ProcState]
  BY DEF Recover, IInv, TypeOK, ProcState
<1>3. /\ DOMAIN trace' = Key /\ DOMAIN status' = Key
      /\ DOMAIN receipts' = Key /\ DOMAIN filed' = Key
      /\ DOMAIN recovery' = Key
  BY DEF Recover
<1>4. ASSUME NEW k \in Key
      PROVE  IF UnderWay(k) THEN Interrupts(k) ELSE SameRun(k)
  <2>1. k \in RunningTraces <=> UnderWay(k)
    BY InterruptedRuns DEF IInv, Shapes
  <2>2. CASE UnderWay(k)
    <3> PICK failure : failure = [status |-> "failed", first |-> Len(ideas),
                                  last |-> Len(ideas)]
      OBVIOUS
    <3>1. k \in RunningTraces
      BY <2>1, <2>2
    <3>2. receipts'[k] = Complete(receipts, k, failure)[k]
      BY <3>1 DEF Recover
    <3>3. receipts \in [Key -> Rows(Request, Response, Key)]
      BY DEF IInv, TypeOK
    <3>4. receipts'[k] = [receipts[k] EXCEPT !.state = "completed",
                                             !.response = failure]
      BY <3>2, <3>3 DEF Complete
    <3>5. /\ trace'[k] = Append(trace[k], [type |-> "failed",
                                           at |-> InterruptedAt(k),
                                           cause |-> "recover"])
          /\ status'[k] = "failed"
      BY <3>1 DEF Recover
    <3>6. filed'[k] = [filed[k] EXCEPT !.completed = InterruptedAt(k)]
      BY <3>1 DEF Recover
    <3>7. recovery'[k] = [created |-> clock, completed |-> InterruptedAt(k),
                          response |-> failure]
      BY <3>1 DEF Recover
    <3> QED BY <2>2, <3>4, <3>5, <3>6, <3>7 DEF Interrupts
  <2>3. CASE ~UnderWay(k)
    <3>1. k \notin RunningTraces
      BY <2>1, <2>3
    <3>2. trace'[k] = trace[k] /\ status'[k] = status[k]
      BY <3>1 DEF Recover
    <3>3. receipts'[k] = receipts[k]
      BY <3>1 DEF Recover
    <3>4. filed'[k] = filed[k] /\ recovery'[k] = recovery[k]
      BY <3>1 DEF Recover
    <3>5. IdeasOf(k)' = IdeasOf(k)
      BY <1>1 DEF IdeasOf
    <3> QED BY <2>3, <3>2, <3>3, <3>4, <3>5 DEF SameRun
  <2> QED BY <2>2, <2>3
<1> QED BY <1>1, <1>2, <1>3, <1>4

\* An interrupted run ends as a failure at a time not before its last event.
LEMMA InterruptedRun ==
  ASSUME IInv, NEW k \in Key, UnderWay(k), Interrupts(k), UNCHANGED ideas
  PROVE  /\ Ended(k)' /\ trace'[k] \in Seq(Event) /\ status'[k] = "failed"
         /\ receipts'[k] \in Rows(Request, Response, Key)
         /\ filed'[k] \in [created : 0..MaxTime, completed : 0..MaxTime]
         /\ recovery'[k] \in [created : 0..MaxTime, completed : 0..MaxTime,
                              response : Response]
<1>1. PICK a \in 0..MaxTime : filed[k].created <= a /\ trace[k] \in Begun(a)
  BY DEF UnderWay
<1>2. PICK begun \in Begun(a) : trace[k] = begun
  BY <1>1
<1>3. /\ begun \in Seq(Event) /\ Len(begun) \in {1, 2}
      /\ begun[1] = StartedAt(a)
      /\ Len(begun) = 2 => begun[2] = FrozenAt(a)
  BY BegunTrace
<1>4. begun[Len(begun)].at = a
  BY <1>3 DEF StartedAt, FrozenAt
<1>5. PICK at : at = InterruptedAt(k)
  OBVIOUS
<1>6. clock \in 0..MaxTime
  BY DEF IInv, TypeOK
<1>7. at = Latest(clock, a) /\ at \in 0..MaxTime
  BY <1>2, <1>4, <1>5, <1>6, LatestTime DEF InterruptedAt
<1>8. PICK failure : failure = [status |-> "failed", first |-> Len(ideas),
                                last |-> Len(ideas)]
  OBVIOUS
<1>9. Len(ideas) \in Nat
  BY DEF IInv, TypeOK
<1>10. /\ failure \in Response /\ failure.status = "failed"
       /\ failure.last - failure.first = 0
  BY <1>8, <1>9 DEF Response, Terminal
<1>11. PICK end : end = [type |-> "failed", at |-> at, cause |-> "recover"]
  OBVIOUS
<1>12. end \in Event
  BY <1>7, <1>11 DEF Event, EventType, Terminal, Cause
<1>13. trace'[k] = Append(begun, end) /\ status'[k] = "failed"
  BY <1>2, <1>5, <1>11 DEF Interrupts
<1>14. /\ filed'[k] = [filed[k] EXCEPT !.completed = at]
       /\ recovery'[k] = [created |-> clock, completed |-> at,
                          response |-> failure]
       /\ receipts'[k] = [receipts[k] EXCEPT !.state = "completed",
                                             !.response = failure]
  BY <1>5, <1>8 DEF Interrupts
<1>15. /\ receipts'[k] \in Rows(Request, Response, Key)
       /\ receipts'[k].state = "completed" /\ receipts'[k].response = failure
       /\ receipts'[k].resource = k
  <2>1. PICK row : row = receipts[k]
    OBVIOUS
  <2>2. row \in Rows(Request, Response, Key)
    BY <2>1 DEF IInv, TypeOK
  <2>3. row.state = "in_progress" /\ row.resource = k
    BY <2>1 DEF UnderWay
  <2>4. row \in [state : {"in_progress"}, req : Request, response : {None},
                 resource : Key \cup {None}]
    BY <2>2, <2>3 DEF Rows, Absent
  <2>5. receipts'[k] = [row EXCEPT !.state = "completed", !.response = failure]
    BY <1>14, <2>1
  <2>6. receipts'[k] = [state |-> "completed", req |-> row.req,
                        response |-> failure, resource |-> k]
    BY <2>3, <2>4, <2>5
  <2>7. row.req \in Request
    BY <2>4
  <2> QED BY <1>10, <2>6, <2>7 DEF Rows
<1>16. /\ filed'[k] \in [created : 0..MaxTime, completed : 0..MaxTime]
       /\ filed'[k].created = filed[k].created /\ filed'[k].completed = at
  <2>1. filed[k] \in [created : 0..MaxTime, completed : 0..MaxTime]
    BY DEF IInv, TypeOK
  <2> QED BY <1>7, <1>14, <2>1
<1>17. /\ recovery'[k] \in [created : 0..MaxTime, completed : 0..MaxTime,
                            response : Response]
       /\ recovery'[k].created = clock /\ recovery'[k].completed = at
       /\ recovery'[k].response = failure
  BY <1>6, <1>7, <1>10, <1>14
<1>19. IdeasOf(k)' = {}
  BY DEF UnderWay, IdeasOf
<1>20. Cardinality(IdeasOf(k)') = 0
  BY <1>19, FS_EmptySet
<1>21. end.type = "failed" /\ end.at = at /\ end.cause = "recover"
  BY <1>11
<1>22. EndsIn(k, a, begun, end)'
  BY <1>1, <1>10, <1>13, <1>15, <1>16, <1>20, <1>21 DEF EndsIn, Terminal
<1>23. EndedByRecovery(k, a, begun, end)'
  BY <1>6, <1>7, <1>15, <1>17, <1>19, <1>21 DEF EndedByRecovery
<1>24. Ended(k)'
  BY <1>12, <1>22, <1>23 DEF Ended
<1>25. trace'[k] \in Seq(Event)
  BY <1>3, <1>12, <1>13, AppendProperties
<1> QED BY <1>13, <1>15, <1>16, <1>17, <1>24, <1>25

LEMMA RecoverStep ==
  ASSUME IInv, NEW p \in Process, Recover(p)
  PROVE  IInv'
<1>1. /\ UNCHANGED <<task, clock, ideas, replies>>
      /\ proc' \in [Process -> ProcState]
      /\ DOMAIN trace' = Key /\ DOMAIN status' = Key
      /\ DOMAIN receipts' = Key /\ DOMAIN filed' = Key
      /\ DOMAIN recovery' = Key
  BY RecoverParts
<1>2. ASSUME NEW k \in Key
      PROVE  IF UnderWay(k) THEN Interrupts(k) ELSE SameRun(k)
  BY RecoverParts
<1>3. ASSUME NEW k \in Key
      PROVE  /\ trace'[k] \in Seq(Event) /\ status'[k] \in Status
             /\ receipts'[k] \in Rows(Request, Response, Key)
             /\ filed'[k] \in [created : 0..MaxTime, completed : 0..MaxTime]
             /\ recovery'[k] \in {None} \cup
                  [created : 0..MaxTime, completed : 0..MaxTime,
                   response : Response]
             /\ Shape(k)' /\ Passes(k) /\ Final(k)
  <2>1. CASE UnderWay(k)
    <3>1. Interrupts(k)
      BY <1>2, <2>1
    <3>2. /\ Ended(k)' /\ trace'[k] \in Seq(Event) /\ status'[k] = "failed"
          /\ receipts'[k] \in Rows(Request, Response, Key)
          /\ filed'[k] \in [created : 0..MaxTime, completed : 0..MaxTime]
          /\ recovery'[k] \in [created : 0..MaxTime, completed : 0..MaxTime,
                               response : Response]
      BY <1>1, <2>1, <3>1, InterruptedRun
    <3>3. Shape(k)'
      BY <3>2 DEF Shape
    <3>4. Passes(k) /\ Final(k)
      BY <2>1, <3>2 DEF Passes, Final, UnderWay
    <3> QED BY <3>2, <3>3, <3>4 DEF Status, Terminal
  <2>2. CASE ~UnderWay(k)
    <3>1. SameRun(k)
      BY <1>2, <2>2
    <3>2. Shape(k)'
      BY <3>1, ShapeKept DEF IInv, Shapes
    <3> QED BY <3>1, <3>2 DEF SameRun, Passes, Final, IInv, TypeOK
  <2> QED BY <2>1, <2>2
<1>4. /\ trace' = [k \in Key |-> trace'[k]] /\ status' = [k \in Key |-> status'[k]]
      /\ receipts' = [k \in Key |-> receipts'[k]]
      /\ filed' = [k \in Key |-> filed'[k]]
      /\ recovery' = [k \in Key |-> recovery'[k]]
  BY DEF Recover
<1>5. TypeOK'
  <2>1. trace' \in [Key -> Seq(Event)] /\ status' \in [Key -> Status]
    BY <1>3, <1>4
  <2>2. receipts' \in [Key -> Rows(Request, Response, Key)]
    BY <1>3, <1>4
  <2>3. filed' \in [Key -> [created : 0..MaxTime, completed : 0..MaxTime]]
    BY <1>3, <1>4
  <2>4. recovery' \in [Key -> {None} \cup
                         [created : 0..MaxTime, completed : 0..MaxTime,
                          response : Response]]
    BY <1>3, <1>4
  <2> QED BY <1>1, <2>1, <2>2, <2>3, <2>4 DEF IInv, TypeOK
<1>6. Shapes'
  BY <1>3 DEF Shapes
<1>7. AllFit'
  <2> SUFFICES ASSUME NEW t \in Task
               PROVE  Fits(t)'
    BY DEF AllFit
  <2>1. Fits(t) /\ task'[t] = task[t]
    BY <1>1 DEF IInv, AllFit
  <2>2. Working(t) \/ pc(t) = "replying" => key(t) \in Key
    BY BusyTask DEF IInv, Working
  <2>3. Working(t) \/ pc(t) = "replying" => Passes(key(t)) /\ Final(key(t))
    BY <1>3, <2>2
  <2> QED BY <2>1, <2>3, StillFits
<1>8. Alone'
  BY <1>1 DEF IInv, Alone, Working, pc, key
<1> QED BY <1>5, <1>6, <1>7, <1>8 DEF IInv

\* The invariant holds at the start ...
LEMMA InitInvariant ==
  ASSUME Init
  PROVE  IInv
<1>1. TypeOK
  <2>1. 0 \in 0..MaxTime
    BY BoundsAssumption
  <2>2. Absent \in Rows(Request, Response, Key)
    BY DEF Rows
  <2>3. filed \in [Key -> [created : 0..MaxTime, completed : 0..MaxTime]]
    BY <2>1 DEF Init, Unfiled
  <2> QED BY <2>1, <2>2, <2>3 DEF Init, TypeOK, ProcState, Status
<1>2. Shapes
  BY DEF Init, Shapes, Shape, NoRun, IdeasOf, Absent
<1>3. AllFit /\ Alone
  BY DEF Init, AllFit, Fits, Alone, Working, pc, Idle
<1> QED BY <1>1, <1>2, <1>3 DEF IInv

\* ... and every step keeps it.
LEMMA StepInvariant ==
  ASSUME IInv, [Next]_vars
  PROVE  IInv'
<1>1. ASSUME NEW now \in 0..MaxTime, SetClock(now)
      PROVE  IInv'
  BY <1>1, ProcessStep DEF SetClock, IInv, TypeOK
<1>2. ASSUME NEW t \in Task, NEW k \in Key, NEW q \in Request, Submit(t, k, q)
      PROVE  IInv'
  BY <1>2, SubmitStep
<1>3. ASSUME NEW t \in Task, Progress(t)
      PROVE  IInv'
  BY <1>3, LookupStep, StartExistingStep, StartUnconfiguredStep, StartStep,
     FreezeStep, FinalizingStep, FinalizeStep, AbandonStep, ReplyStep
  DEF Progress
<1>4. ASSUME NEW p \in Process, Recover(p)
      PROVE  IInv'
  BY <1>4, RecoverStep
<1>5. ASSUME NEW p \in Process, Crash(p)
      PROVE  IInv'
  BY <1>5, CrashStep
<1>6. ASSUME NEW p \in Process,
             Boot(p) \/ BootFails(p) \/ BeginShutdown(p) \/ EndShutdown(p)
      PROVE  IInv'
  BY <1>6, OperatorStep
<1>7. CASE UNCHANGED vars
  BY <1>7, ProcessStep DEF vars, IInv, TypeOK
<1> QED BY <1>1, <1>2, <1>3, <1>4, <1>5, <1>6, <1>7 DEF Next

\* Type correctness, the shape of every run and the fit of every task hold
\* together at every moment.
THEOREM RunsInvariance == Spec => []IInv
<1>1. Init => IInv
  BY InitInvariant
<1>2. IInv /\ [Next]_vars => IInv'
  BY StepInvariant
<1> QED BY <1>1, <1>2, PTL DEF Spec

\* Every variable of the runs, their receipts and their tasks has its type.
THEOREM RunsTypeCorrect == Spec => []TypeOK
<1>1. IInv => TypeOK
  BY DEF IInv
<1> QED BY <1>1, RunsInvariance, PTL
-----------------------------------------------------------------------------
\* The types of the events of a run that has begun are one of the two phases.
LEMMA BegunPhases ==
  ASSUME NEW a \in 0..MaxTime, NEW begun \in Begun(a)
  PROVE  /\ RetainedPhases(begun)
         /\ \A i \in DOMAIN begun : /\ begun[i].cause = "start"
                                    /\ begun[i].at = a
                                    /\ begun[i].type \notin Terminal
<1>1. CASE begun = <<StartedAt(a)>>
  <2>1. Types(begun) = <<"started">>
    BY <1>1 DEF Types, StartedAt
  <2>2. DOMAIN begun = {1} /\ begun[1] = StartedAt(a)
    BY <1>1
  <2> QED BY <2>1, <2>2 DEF RetainedPhases, StartedAt, Terminal
<1>2. CASE begun = <<StartedAt(a), FrozenAt(a)>>
  <2>1. /\ begun[1] = StartedAt(a) /\ begun[2] = FrozenAt(a)
        /\ DOMAIN begun = 1..2 /\ \A i \in 1..2 : i = 1 \/ i = 2
    BY <1>2
  <2>2. Types(begun) = <<"started", "frozen">>
    BY <2>1 DEF Types, StartedAt, FrozenAt
  <2> QED BY <2>1, <2>2 DEF RetainedPhases, StartedAt, FrozenAt, Terminal
<1> QED BY <1>1, <1>2 DEF Begun

\* A trace that has ended, taken apart: its front, its last and its terminal
\* events.
TakenApart(k, a, begun, end) ==
  /\ trace[k] \in Seq(Event) /\ trace[k] # << >>
  /\ Len(trace[k]) = Len(begun) + 1
  /\ LastEvent(k) = end
  /\ Front(trace[k]) = begun
  /\ Terminals(k) = {Len(trace[k])}
  /\ trace[k][1].at = a
  /\ \A i \in DOMAIN trace[k] : i \in DOMAIN begun \/ trace[k][i] = end
  /\ \A i \in DOMAIN begun : trace[k][i] = begun[i]

LEMMA EndedTrace ==
  ASSUME NEW a \in 0..MaxTime, NEW begun \in Begun(a), NEW end \in Event,
         end.type \in Terminal, NEW k \in Key, trace[k] = Append(begun, end)
  PROVE  TakenApart(k, a, begun, end)
<1>1. /\ begun \in Seq(Event) /\ Len(begun) \in {1, 2}
      /\ begun[1] = StartedAt(a)
  BY BegunTrace
<1>2. /\ trace[k] \in Seq(Event) /\ trace[k] # << >>
      /\ Len(trace[k]) = Len(begun) + 1
      /\ \A i \in 1..Len(begun) : trace[k][i] = begun[i]
      /\ trace[k][Len(begun) + 1] = end
  BY <1>1, AppendProperties
<1>3. LastEvent(k) = end
  BY <1>2 DEF LastEvent
<1>4. Front(trace[k]) = begun
  <2>1. Front(trace[k]) = SubSeq(trace[k], 1, Len(begun))
    BY <1>1, <1>2 DEF Front
  <2> QED BY <1>1, <1>2, <2>1
<1>5. /\ DOMAIN begun = 1..Len(begun) /\ DOMAIN trace[k] = 1..Len(begun) + 1
      /\ \A i \in 1..Len(begun) + 1 : i \in 1..Len(begun) \/ i = Len(begun) + 1
  BY <1>1, <1>2
<1>6. \A i \in 1..Len(begun) : trace[k][i].type \notin Terminal
  BY <1>2, <1>5, BegunPhases
<1>7. Terminals(k) = {Len(trace[k])}
  <2>1. Len(begun) + 1 \in 1..Len(begun) + 1
    BY <1>1
  <2> QED BY <1>2, <1>5, <1>6, <2>1 DEF Terminals
<1>8. trace[k][1].at = a
  BY <1>1, <1>2 DEF StartedAt
<1> QED BY <1>2, <1>3, <1>4, <1>5, <1>7, <1>8 DEF TakenApart

\* The greatest of the times of a recovered run, without the choice.
LEMMA GreatestTime ==
  ASSUME NEW x \in 0..MaxTime, NEW a \in 0..MaxTime
  PROVE  Max({x} \cup {a}) = Latest(x, a)
<1>1. Latest(x, a) \in {x} \cup {a}
  BY DEF Latest
<1>2. \A y \in {x} \cup {a} : Latest(x, a) >= y
  BY BoundsAssumption DEF Latest
<1>3. \A z \in {x} \cup {a} : (\A y \in {x} \cup {a} : z >= y) => z = Latest(x, a)
  BY BoundsAssumption DEF Latest
<1> QED BY <1>1, <1>2, <1>3 DEF Max

\* A run that has ended satisfies what the source validator asks of it.
LEMMA EndedIsValid ==
  ASSUME TypeOK, NEW k \in Key, Ended(k)
  PROVE  ValidRun(k) /\ status[k] = LastEvent(k).type
         /\ trace[k] # << >> /\ Terminals(k) # {}
<1>1. PICK a \in 0..MaxTime : \E begun \in Begun(a) : \E end \in Event :
        /\ EndsIn(k, a, begun, end)
        /\ EndedItself(k, a, begun, end) \/ EndedByRecovery(k, a, begun, end)
  BY DEF Ended
<1>2. PICK begun \in Begun(a) : \E end \in Event :
        /\ EndsIn(k, a, begun, end)
        /\ EndedItself(k, a, begun, end) \/ EndedByRecovery(k, a, begun, end)
  BY <1>1
<1>3. PICK end \in Event :
        /\ EndsIn(k, a, begun, end)
        /\ EndedItself(k, a, begun, end) \/ EndedByRecovery(k, a, begun, end)
  BY <1>2
<1>4. trace[k] = Append(begun, end) /\ end.type \in Terminal
  BY <1>3 DEF EndsIn
<1>5. /\ trace[k] \in Seq(Event) /\ trace[k] # << >>
      /\ Len(trace[k]) = Len(begun) + 1
      /\ LastEvent(k) = end
      /\ Front(trace[k]) = begun
      /\ Terminals(k) = {Len(trace[k])}
      /\ trace[k][1].at = a
      /\ \A i \in DOMAIN trace[k] : i \in DOMAIN begun \/ trace[k][i] = end
      /\ \A i \in DOMAIN begun : trace[k][i] = begun[i]
  <2>1. TakenApart(k, a, begun, end)
    BY <1>4, EndedTrace
  <2> QED BY <2>1 DEF TakenApart
<1>6. /\ RetainedPhases(begun)
      /\ \A i \in DOMAIN begun : begun[i].cause = "start" /\ begun[i].at = a
  BY BegunPhases
<1>7. status[k] = LastEvent(k).type
  BY <1>3, <1>5 DEF EndsIn
<1>8. ValidReceipt(k, TRUE)
  BY <1>3, <1>5 DEF EndsIn, ValidReceipt
<1>9. ValidAnswer(k, receipts[k].response, filed[k].completed)
  BY <1>3, <1>5 DEF EndsIn, ValidAnswer
<1>10. ASSUME EndedItself(k, a, begun, end)
       PROVE  end.cause = "start" /\ ValidNormal(k)
  <2>1. end.cause = "start" /\ end.at = a /\ recovery[k] = None
    BY <1>10 DEF EndedItself
  <2>2. OneAnchor(k, trace[k])
    BY <1>5, <1>6, <2>1 DEF OneAnchor
  <2>3. CASE Len(begun) = 1
    <3>1. end.type = "failed" /\ IdeasOf(k) = {}
      BY <1>10, <2>3 DEF EndedItself
    <3>2. begun[1] = StartedAt(a) /\ Len(begun) \in {1, 2} /\ begun \in Seq(Event)
      BY BegunTrace
    <3>3. DOMAIN trace[k] = 1..2 /\ trace[k][1] = StartedAt(a) /\ trace[k][2] = end
      <4>1. DOMAIN trace[k] = 1..2 /\ 1 \in DOMAIN begun
        BY <1>5, <2>3, <3>2
      <4>2. trace[k][1] = StartedAt(a)
        BY <1>5, <3>2, <4>1
      <4>3. trace[k][2] = end
        BY <1>5, <2>3 DEF LastEvent
      <4> QED BY <4>1, <4>2, <4>3
    <3>4. Types(trace[k]) = <<"started", "failed">>
      BY <3>1, <3>3 DEF Types, StartedAt
    <3> QED BY <2>1, <2>2, <3>1, <3>4 DEF ValidNormal
  <2>4. CASE Len(begun) = 2
    BY <1>5, <1>6, <2>1, <2>2, <2>4 DEF ValidNormal
  <2>5. Len(begun) \in {1, 2}
    BY BegunTrace
  <2> QED BY <2>1, <2>3, <2>4, <2>5
<1>11. ASSUME EndedByRecovery(k, a, begun, end)
       PROVE  end.cause = "recover" /\ ValidRecovered(k)
  <2>1. /\ end.cause = "recover" /\ IdeasOf(k) = {}
        /\ recovery[k].response = receipts[k].response
        /\ recovery[k].completed = end.at
        /\ end.at = Latest(recovery[k].created, a)
    BY <1>11 DEF EndedByRecovery
  <2>2. OneAnchor(k, begun)
    BY <1>5, <1>6 DEF OneAnchor
  <2>3. ValidAnswer(k, recovery[k].response, recovery[k].completed)
    BY <1>3, <1>5, <2>1 DEF EndsIn, ValidAnswer
  <2>4. {begun[i].at : i \in DOMAIN begun} = {a}
    <3>1. 1 \in DOMAIN begun
      BY BegunTrace
    <3> QED BY <1>6, <3>1
  <2>5. recovery[k].created \in 0..MaxTime
    BY <1>11 DEF EndedByRecovery
  <2>6. LastEvent(k).at
          = Max({recovery[k].created} \cup {begun[i].at : i \in DOMAIN begun})
    BY <1>5, <2>1, <2>4, <2>5, GreatestTime
  <2> QED BY <1>5, <1>6, <2>1, <2>2, <2>3, <2>6 DEF ValidRecovered
<1>12. ValidRun(k)
  BY <1>3, <1>5, <1>8, <1>9, <1>10, <1>11 DEF ValidRun
<1> QED BY <1>5, <1>7, <1>12

\* A run under way satisfies what the source validator asks of it.
LEMMA UnderWayIsValid ==
  ASSUME NEW k \in Key, UnderWay(k)
  PROVE  ValidRun(k) /\ trace[k] # << >> /\ Terminals(k) = {}
<1>1. PICK a \in 0..MaxTime : filed[k].created <= a /\ trace[k] \in Begun(a)
  BY DEF UnderWay
<1>2. /\ RetainedPhases(trace[k])
      /\ \A i \in DOMAIN trace[k] : /\ trace[k][i].cause = "start"
                                    /\ trace[k][i].at = a
                                    /\ trace[k][i].type \notin Terminal
  BY <1>1, BegunPhases
<1>3. trace[k] # << >> /\ trace[k][1].at = a
  BY <1>1 DEF Begun, StartedAt
<1>4. Terminals(k) = {}
  BY <1>2 DEF Terminals
<1>5. OneAnchor(k, trace[k])
  BY <1>2, <1>3 DEF OneAnchor
<1>6. ValidReceipt(k, FALSE)
  BY <1>1, <1>3 DEF ValidReceipt, UnderWay
<1>7. ValidRunning(k)
  BY <1>2, <1>5, <1>6 DEF ValidRunning, UnderWay
<1> QED BY <1>3, <1>4, <1>7 DEF ValidRun

\* A run ends exactly once and at one time, however a late task, a recovery by
\* its own or by another process, a retry and a clock that steps back race, and
\* the source validator accepts the run, its receipts and its answers at every
\* moment.
THEOREM RunsAgreeWithReceipts == Spec => []RunAgreesWithReceipt
<1>1. ASSUME IInv
      PROVE  RunAgreesWithReceipt
  <2> SUFFICES ASSUME NEW k \in Key
               PROVE  /\ status[k] = IF trace[k] = << >> THEN "none"
                                     ELSE IF Terminals(k) = {} THEN "running"
                                     ELSE LastEvent(k).type
                      /\ ValidRun(k)
    BY DEF RunAgreesWithReceipt
  <2>1. CASE NoRun(k)
    <3>1. ValidRun(k)
      BY <2>1 DEF NoRun, ValidRun, ValidRefusal
    <3> QED BY <2>1, <3>1 DEF NoRun
  <2>2. CASE UnderWay(k)
    <3>1. status[k] = "running"
      BY <2>2 DEF UnderWay
    <3> QED BY <2>2, <3>1, UnderWayIsValid
  <2>3. CASE Ended(k)
    BY <1>1, <2>3, EndedIsValid DEF IInv
  <2> QED BY <1>1, <2>1, <2>2, <2>3 DEF IInv, Shapes, Shape
<1> QED BY <1>1, RunsInvariance, PTL
-----------------------------------------------------------------------------
(* The refinement of ExactlyOnce.                                          *)

Outcomes ==
  [k \in Key |->
    IF receipts[k].state = "completed"
    THEN [req |-> receipts[k].req, response |-> Verdict(receipts[k].response)]
    ELSE None]
Told(a) == [a EXCEPT !.response = Verdict(@)]
Given == {Told(a) : a \in {b \in replies : b.response # InProgress}}

LEMMA VerdictParts ==
  ASSUME NEW r \in Response
  PROVE  Verdict(r) = [status |-> IF r.status = "failed" THEN "rejected" ELSE "ok",
                       first |-> r.first, last |-> r.last]
BY DEF Verdict, Response

\* A key is decided exactly when its receipt is completed.
LEMMA DecidedKey ==
  ASSUME NEW k \in Key, receipts[k] \in Rows(Request, Response, Key)
  PROVE  Outcomes[k] = None <=> receipts[k].state # "completed"
<1>1. CASE receipts[k].state # "completed"
  BY <1>1 DEF Outcomes
<1>2. CASE receipts[k].state = "completed"
  <2>1. PICK row : row = receipts[k]
    OBVIOUS
  <2>2. row.req \in Request /\ row.response \in Response
    BY <1>2, <2>1 DEF Rows, Absent
  <2>3. PICK decision : decision = [req |-> row.req,
                                    response |-> Verdict(row.response)]
    OBVIOUS
  <2>4. Verdict(row.response) \in
          [status : {"ok", "rejected"}, first : Nat, last : Nat]
    BY <2>2, VerdictParts DEF Response
  <2>5. decision \in Decision
    BY <2>2, <2>3, <2>4 DEF Decision
  <2>6. decision # None
    BY <2>5, NoneAssumption
  <2> QED BY <1>2, <2>1, <2>3, <2>6 DEF Outcomes
<1> QED BY <1>1, <1>2

\* A step that completes no receipt, adds no idea and gives no answer is a
\* stutter.
LEMMA StutterStep ==
  ASSUME \A k \in Key :
           receipts[k].state = "completed" \/ receipts'[k].state = "completed"
             => receipts'[k] = receipts[k],
         UNCHANGED <<ideas, replies>>
  PROVE  UNCHANGED Promise!vars
<1>1. ASSUME NEW k \in Key
      PROVE  Outcomes[k]' = Outcomes[k]
  BY DEF Outcomes
<1>2. Outcomes' = Outcomes
  BY <1>1 DEF Outcomes
<1> QED BY <1>2 DEF Promise!vars, Outcomes

\* One transaction that completes a receipt together with its ideas decides
\* its key.
LEMMA DecideStep ==
  ASSUME TypeOK, NEW k \in Key, NEW q \in Request, NEW response \in Response,
         receipts[k].state # "completed",
         receipts'[k].state = "completed", receipts'[k].req = q,
         receipts'[k].response = response,
         \A j \in Key : j # k => receipts'[j] = receipts[j],
         response.first = Len(ideas), response.last = Len(ideas'),
         Len(ideas) <= Len(ideas'),
         response.status = "failed" => Len(ideas) = Len(ideas'),
         \A i \in 1..Len(ideas) : ideas'[i] = ideas[i],
         \A i \in Len(ideas) + 1..Len(ideas') : ideas'[i] = k,
         replies' = replies
  PROVE  Promise!Next
<1> PICK s \in {"ok", "rejected"} :
      s = IF response.status = "failed" THEN "rejected" ELSE "ok"
  OBVIOUS
<1> DEFINE decision == [req |-> q,
                        response |-> [status |-> s, first |-> Len(ideas),
                                      last |-> Len(ideas')]]
<1>1. Outcomes[k] = None
  BY DEF Outcomes
<1>2. Verdict(response) = [status |-> s, first |-> Len(ideas),
                           last |-> Len(ideas')]
  BY VerdictParts
<1>3. Outcomes'[k] = decision
  BY <1>2 DEF Outcomes
<1>4. \A j \in Key : j # k => Outcomes'[j] = Outcomes[j]
  BY DEF Outcomes
<1>5. Outcomes' = [Outcomes EXCEPT ![k] = decision]
  <2>1. PICK f, g : f = Outcomes /\ g = Outcomes'
    OBVIOUS
  <2>2. f = [j \in Key |-> f[j]] /\ g = [j \in Key |-> g[j]]
    BY <2>1 DEF Outcomes
  <2>3. g[k] = decision /\ \A j \in Key : j # k => g[j] = f[j]
    BY <1>3, <1>4, <2>1
  <2>4. g = [f EXCEPT ![k] = decision]
    <3> HIDE DEF decision
    <3> QED BY <2>2, <2>3
  <2> QED BY <2>1, <2>4
<1>6. s = "rejected" => Len(ideas) = Len(ideas')
  OBVIOUS
<1>7. Given' = Given
  BY DEF Given, Told, Verdict
<1>8. Promise!Decide(k, q, s)
  BY <1>1, <1>5, <1>6, <1>7 DEF Promise!Decide, Outcomes, Given, Told
<1> QED BY <1>8 DEF Promise!Next

LEMMA RefusalDecides ==
  ASSUME IInv, NEW t \in Task, StartUnconfigured(t)
  PROVE  Promise!Next
<1>1. pc(t) = "starting" /\ IsNew(receipts, key(t))
  BY DEF StartUnconfigured
<1> PICK k \in Key : k = key(t)
  BY <1>1, BusyTask DEF IInv
<1> PICK q \in Request : q = req(t)
  BY <1>1, BusyTask DEF IInv
<1> PICK refusal : refusal = [status |-> "failed", first |-> Len(ideas),
                              last |-> Len(ideas)]
  OBVIOUS
<1>2. Len(ideas) \in Nat /\ UNCHANGED <<ideas, replies>>
  BY DEF StartUnconfigured, IInv, TypeOK
<1>3. refusal \in Response
  BY <1>2 DEF Response, Terminal
<1>4. receipts' = [receipts EXCEPT ![k] =
        [state |-> "completed", req |-> q, response |-> refusal,
         resource |-> None]]
  BY DEF StartUnconfigured, Complete, Reserve, IInv, TypeOK
<1>5. /\ receipts'[k].state = "completed" /\ receipts'[k].req = q
      /\ receipts'[k].response = refusal
      /\ \A j \in Key : j # k => receipts'[j] = receipts[j]
  BY <1>4 DEF IInv, TypeOK
<1>6. receipts[k].state # "completed"
  BY <1>1 DEF IsNew
<1>7. refusal.first = Len(ideas) /\ refusal.last = Len(ideas)
  OBVIOUS
<1>8. \A i \in Len(ideas) + 1..Len(ideas) : ideas[i] = k
  BY <1>2
<1> QED BY <1>2, <1>3, <1>5, <1>6, <1>7, <1>8, DecideStep DEF IInv

LEMMA FinalizeDecides ==
  ASSUME IInv, NEW t \in Task, Finalize(t)
  PROVE  Promise!Next
<1>1. pc(t) = "finalizing"
  BY DEF Finalize
<1> PICK k \in Key : k = key(t)
  BY <1>1, BusyTask DEF IInv
<1> PICK q \in Request : q = req(t)
  BY <1>1, BusyTask DEF IInv
<1>2. PICK a \in 0..MaxTime, g \in Generated :
        /\ UnderWay(k) /\ receipts[k].req = q
        /\ EndRun(k, g.ends, g.ideas, a)
  BY FinalizeParts
<1> PICK n \in Nat : n = g.ideas
  BY GeneratedParts
<1> PICK ends \in Terminal : ends = g.ends
  BY GeneratedParts
<1>3. ends = "failed" => n = 0
  BY GeneratedParts
<1>4. EndRun(k, ends, n, a)
  BY <1>2
<1>5. ideas \in Seq(Key) /\ ideas' = ideas \o [i \in 1..n |-> k]
  BY <1>4 DEF EndRun, IInv, TypeOK
<1>6. /\ ideas' \in Seq(Key)
      /\ Len(ideas') = Len(ideas) + n
      /\ \A i \in 1..Len(ideas) : ideas'[i] = ideas[i]
      /\ \A i \in Len(ideas) + 1..Len(ideas) + n : ideas'[i] = k
  BY <1>5, MoreIdeas
<1>7. PICK response : response = [status |-> ends, first |-> Len(ideas),
                                  last |-> Len(ideas')]
  OBVIOUS
<1>8. Len(ideas) \in Nat /\ Len(ideas') \in Nat
  BY <1>5, <1>6
<1>9. /\ response \in Response /\ response.status = ends
      /\ response.first = Len(ideas) /\ response.last = Len(ideas')
  BY <1>7, <1>8 DEF Response
<1>10. receipts' = Complete(receipts, k, response)
  BY <1>4, <1>5, <1>7 DEF EndRun
<1>11. receipts[k].state = "in_progress"
  BY <1>2 DEF UnderWay
<1>12. /\ receipts'[k].state = "completed" /\ receipts'[k].req = q
       /\ receipts'[k].response = response
       /\ \A j \in Key : j # k => receipts'[j] = receipts[j]
  BY <1>2, <1>9, <1>10, <1>11, CompletedRow DEF IInv
<1>13. Len(ideas) <= Len(ideas') /\ (response.status = "failed" => Len(ideas) = Len(ideas'))
  BY <1>3, <1>6, <1>8, <1>9
<1>14. \A i \in Len(ideas) + 1..Len(ideas') : ideas'[i] = k
  BY <1>6
<1>15. replies' = replies
  BY DEF Finalize
<1>16. TypeOK
  BY DEF IInv
<1> QED BY <1>6, <1>9, <1>11, <1>12, <1>13, <1>14, <1>15, <1>16, DecideStep

\* A recovery refuses, together, every key whose run is under way.
LEMMA RecoveryRefuses ==
  ASSUME IInv, NEW p \in Process, Recover(p)
  PROVE  Promise!Next
<1>1. /\ UNCHANGED <<task, clock, ideas, replies>>
      /\ \A k \in Key : IF UnderWay(k) THEN Interrupts(k) ELSE SameRun(k)
  BY RecoverParts
<1> PICK ks : ks = {k \in Key : UnderWay(k)}
  OBVIOUS
<1> PICK q : q = [k \in ks |-> receipts[k].req]
  OBVIOUS
<1> PICK refusal : refusal = [status |-> "rejected", first |-> Len(ideas),
                              last |-> Len(ideas)]
  OBVIOUS
<1>2. ASSUME NEW k \in ks
      PROVE  /\ Outcomes[k] = None /\ q[k] \in Request
             /\ Outcomes'[k] = [req |-> q[k], response |-> refusal]
  <2>1. k \in Key /\ UnderWay(k) /\ Interrupts(k)
    BY <1>1
  <2>2. receipts[k].state = "in_progress" /\ q[k] = receipts[k].req
    BY <2>1 DEF UnderWay
  <2>3. PICK row : row = receipts[k]
    OBVIOUS
  <2>4. row \in [state : {"in_progress"}, req : Request, response : {None},
                 resource : Key \cup {None}]
    BY <2>1, <2>2, <2>3 DEF IInv, TypeOK, Rows, Absent
  <2>5. PICK failure : failure = [status |-> "failed", first |-> Len(ideas),
                                  last |-> Len(ideas)]
    OBVIOUS
  <2>6. receipts'[k] = [row EXCEPT !.state = "completed", !.response = failure]
    BY <2>1, <2>3, <2>5 DEF Interrupts
  <2>7. /\ receipts'[k].state = "completed" /\ receipts'[k].req = row.req
        /\ receipts'[k].response = failure
    BY <2>4, <2>6
  <2>8. Verdict(failure) = refusal
    BY <2>5 DEF Verdict
  <2> QED BY <2>1, <2>2, <2>3, <2>4, <2>7, <2>8 DEF Outcomes
<1>3. ASSUME NEW k \in Key, k \notin ks
      PROVE  Outcomes'[k] = Outcomes[k]
  <2>1. receipts'[k] = receipts[k]
    BY <1>1, <1>3 DEF SameRun
  <2> QED BY <2>1 DEF Outcomes
<1>4. q \in [ks -> Request]
  BY <1>2
<1>5. Outcomes' = [k \in Key |-> IF k \in ks
                                 THEN [req |-> q[k], response |-> refusal]
                                 ELSE Outcomes[k]]
  BY <1>2, <1>3 DEF Outcomes
<1>6. Given' = Given
  BY <1>1 DEF Given, Told, Verdict
<1>7. Promise!RefuseTogether(ks)
  <2>1. \A k \in ks : Outcomes[k] = None
    BY <1>2
  <2>2. UNCHANGED <<ideas, Given>>
    BY <1>1, <1>6
  <2>3. \E z \in [ks -> Request] :
          Outcomes' = [k \in Key |->
            IF k \in ks
            THEN [req |-> z[k],
                  response |-> [status |-> "rejected", first |-> Len(ideas),
                                last |-> Len(ideas)]]
            ELSE Outcomes[k]]
    BY <1>4, <1>5
  <2> QED BY <2>1, <2>2, <2>3, Zenon
      DEF Promise!RefuseTogether, Outcomes, Given, Told
<1>8. ks \in SUBSET Key
  OBVIOUS
<1> QED BY <1>7, <1>8 DEF Promise!Next

\* A delivered answer repeats the decision; the 409 of a run in progress
\* decides nothing.
LEMMA DeliveryAnswers ==
  ASSUME IInv, NEW t \in Task, Deliver(t)
  PROVE  Promise!Next \/ UNCHANGED Promise!vars
<1>1. pc(t) = "replying" /\ UNCHANGED database
  BY DEF Deliver
<1> PICK k \in Key : k = key(t)
  BY <1>1, AnswerType
<1> PICK q \in Request : q = req(t)
  BY <1>1, AnswerType
<1> PICK answer : answer = task[t].answer
  OBVIOUS
<1> PICK reply : reply = [key |-> k, req |-> q, response |-> answer]
  OBVIOUS
<1>2. replies' = replies \cup {reply}
  BY DEF Deliver
<1>3. Outcomes' = Outcomes /\ ideas' = ideas
  BY <1>1 DEF Outcomes, database
<1>4. reply.response = answer
  OBVIOUS
<1>5. CASE answer = InProgress
  <2>1. {b \in replies' : b.response # InProgress}
          = {b \in replies : b.response # InProgress}
    BY <1>2, <1>4, <1>5
  <2>2. Given' = Given
    BY <2>1 DEF Given, Told, Verdict
  <2> QED BY <1>3, <2>2 DEF Promise!vars, Outcomes, Given, Told
<1>6. CASE answer # InProgress
  <2>1. /\ receipts[k].state = "completed" /\ receipts[k].req = q
        /\ answer = receipts[k].response
    BY <1>1, <1>6 DEF IInv, AllFit, Fits, Answers
  <2>2. Outcomes[k] = [req |-> q, response |-> Verdict(answer)]
    BY <2>1 DEF Outcomes
  <2>3. Outcomes[k] # None
    BY <2>1, DecidedKey DEF IInv, TypeOK
  <2>4. Told(reply) = [key |-> k, req |-> q, response |-> Verdict(answer)]
    BY DEF Told
  <2>5. {b \in replies' : b.response # InProgress}
          = {b \in replies : b.response # InProgress} \cup {reply}
    BY <1>2, <1>4, <1>6
  <2>6. Given' = Given \cup {Told(reply)}
    <3>1. Given' = {Told(a) : a \in {b \in replies' : b.response # InProgress}}
      BY DEF Given, Told, Verdict
    <3> QED BY <2>5, <3>1 DEF Given
  <2>7. PICK verdict : verdict = Verdict(answer)
    OBVIOUS
  <2>8. Given' = Given \cup {[key |-> k, req |-> Outcomes[k].req,
                              response |-> Outcomes[k].response]}
    BY <2>2, <2>4, <2>6, <2>7
  <2>9. Promise!Answer(k)
    BY <1>3, <2>3, <2>8 DEF Promise!Answer, Outcomes, Given, Told
  <2> QED BY <2>9 DEF Promise!Next
<1> QED BY <1>5, <1>6

\* Every step decides a key, refuses some, repeats an answer or stutters.
LEMMA StepRefines ==
  ASSUME IInv, [Next]_vars
  PROVE  Promise!Next \/ UNCHANGED Promise!vars
<1>1. ASSUME UNCHANGED database, UNCHANGED replies
      PROVE  UNCHANGED Promise!vars
  BY <1>1, StutterStep DEF database
<1>2. ASSUME NEW t \in Task, Start(t)
      PROVE  UNCHANGED Promise!vars
  <2>1. pc(t) = "starting" /\ IsNew(receipts, key(t))
    BY <1>2 DEF Start
  <2> PICK k \in Key : k = key(t)
    BY <2>1, BusyTask DEF IInv
  <2> PICK q \in Request : q = req(t)
    BY <2>1, BusyTask DEF IInv
  <2>2. receipts' = Attach(Reserve(receipts, k, q), k, k)
    BY <1>2 DEF Start
  <2>3. receipts' = [receipts EXCEPT ![k] =
                       [state |-> "in_progress", req |-> q, response |-> None,
                        resource |-> k]]
    BY <2>2, AttachedRow DEF IInv
  <2>4. /\ receipts'[k].state = "in_progress"
        /\ \A j \in Key : j # k => receipts'[j] = receipts[j]
    BY <2>3 DEF IInv, TypeOK
  <2>5. receipts[k].state # "completed"
    BY <2>1 DEF IsNew
  <2> QED BY <1>2, <2>4, <2>5, StutterStep DEF Start
<1>3. ASSUME NEW t \in Task, Freeze(t)
      PROVE  UNCHANGED Promise!vars
  BY <1>3, StutterStep DEF Freeze
<1>4. ASSUME NEW t \in Task, Progress(t)
      PROVE  Promise!Next \/ UNCHANGED Promise!vars
  <2>1. CASE \/ Lookup(t) \/ StartExisting(t) \/ FreezeFails(t)
             \/ Generate(t) \/ Abandon(t) \/ LoseReply(t)
    BY <1>1, <2>1
    DEF Lookup, StartExisting, FreezeFails, Generate, Abandon, LoseReply
  <2>2. CASE StartUnconfigured(t)
    BY <2>2, RefusalDecides
  <2>3. CASE Finalize(t)
    BY <2>3, FinalizeDecides
  <2>4. CASE Deliver(t)
    BY <2>4, DeliveryAnswers
  <2> QED BY <1>2, <1>3, <1>4, <2>1, <2>2, <2>3, <2>4 DEF Progress
<1>5. ASSUME NEW p \in Process, Recover(p)
      PROVE  Promise!Next
  BY <1>5, RecoveryRefuses
<1>6. CASE \/ \E now \in 0..MaxTime : SetClock(now)
           \/ \E t \in Task : \E k \in Key, q \in Request : Submit(t, k, q)
           \/ \E p \in Process : \/ Boot(p) \/ BootFails(p) \/ Crash(p)
                                 \/ BeginShutdown(p) \/ EndShutdown(p)
           \/ UNCHANGED vars
  BY <1>1, <1>6 DEF SetClock, Submit, Boot, BootFails, Crash,
                    BeginShutdown, EndShutdown, vars
<1> QED BY <1>4, <1>5, <1>6 DEF Next

\* The three transactions of a run promise what one transaction does: however
\* tasks, recoveries, crashes and retries interleave, a key is decided once,
\* with all its ideas, and every answer repeats that decision.
THEOREM RunsImplementExactlyOnce == Spec => ImplementsExactlyOnce
<1>1. Init => Promise!Init
  BY DEF Init, Promise!Init, Absent
<1>2. IInv /\ [Next]_vars => [Promise!Next]_(Promise!vars)
  BY StepRefines
<1> QED BY <1>1, <1>2, RunsInvariance, PTL
    DEF Spec, ImplementsExactlyOnce, Promise!Spec
=============================================================================
