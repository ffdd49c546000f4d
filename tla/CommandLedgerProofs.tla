------------------------ MODULE CommandLedgerProofs -------------------------
(***************************************************************************)
(* Proofs about CommandLedger, for every number of processes, calls, keys  *)
(* and requests and every MaxEvents: type correctness, the inductive       *)
(* invariant that ties the working copy of the lock holder to the          *)
(* committed database, the safety properties that follow from it, and the  *)
(* refinement of ExactlyOnce.                                              *)
(***************************************************************************)
EXTENDS CommandLedger, TLAPS

\* The list es is base followed by events caused by k.
Extends(es, base, k) ==
  /\ Len(base) <= Len(es)
  /\ \A i \in 1..Len(base) : es[i] = base[i]
  /\ \A i \in Len(base) + 1..Len(es) : es[i] = k

\* A table with one row replaced; kept folded, so that rewriting is by name.
SetRow(t, k, row) == [t EXCEPT ![k] = row]
OpenRow(q, res) ==
  [state |-> "in_progress", req |-> q, response |-> None, resource |-> res]
CompletedRow(q, r, res) ==
  [state |-> "completed", req |-> q, response |-> r, resource |-> res]

\* A call is inside the transaction exactly when it holds the lock.
LockOwner == \A c \in Call : pc(c) \in InTransaction <=> lock = c

\* Nobody has written anything since the last commit or rollback.
Clean == wReceipts = receipts /\ wEvents = events

\* While its handler runs, a call has added its own receipt row and its own
\* events, and the savepoint holds the row alone.
Handling(c) ==
  /\ receipts[key(c)] = Absent
  /\ savepoint.events = events
  /\ savepoint.receipts = Reserve(receipts, key(c), req(c))
  /\ Extends(wEvents, events, key(c))
  /\ \E res \in Call \cup {None} :
       /\ wReceipts = SetRow(receipts, key(c), OpenRow(req(c), res))
       /\ res # None => Len(events) < Len(wEvents)

\* Before COMMIT, the call's receipt is complete and its answer names the
\* events it is about to add.
Committing(c) ==
  /\ receipts[key(c)] = Absent
  /\ Extends(wEvents, events, key(c))
  /\ call[c].answer \in Response
  /\ call[c].answer.first = Len(events)
  /\ call[c].answer.last = Len(wEvents)
  /\ call[c].answer.status = "rejected" => Len(wEvents) = Len(events)
  /\ \E res \in Call \cup {None} :
       /\ wReceipts = SetRow(receipts, key(c), CompletedRow(req(c), call[c].answer, res))
       /\ res # None => Len(events) < Len(wEvents)

Replying(c) ==
  /\ receipts[key(c)].state = "completed"
  /\ receipts[key(c)].req = req(c)
  /\ receipts[key(c)].response = call[c].answer

WorkingCopy ==
  /\ lock = None => Clean
  /\ \A c \in Call :
       /\ pc(c) = "reserving" => Clean
       /\ pc(c) = "handling" => Handling(c)
       /\ pc(c) = "committing" => Committing(c)
       /\ pc(c) = "replying" => Replying(c)

IInv == /\ TypeOK
        /\ LockOwner
        /\ WorkingCopy
        /\ NoOrphanReceipt
        /\ EffectsMatchReceipt
        /\ AnswersAreDurable
-----------------------------------------------------------------------------
\* reserve, attach_resource and _complete_cas keep a table of receipt rows.
LEMMA ReserveType ==
  ASSUME NEW t \in ReceiptTable, NEW k \in Key, NEW q \in Request
  PROVE  Reserve(t, k, q) \in ReceiptTable
<1>1. [state |-> "in_progress", req |-> q, response |-> None,
       resource |-> None] \in Rows(Request, Response, Call)
  BY DEF Rows
<1> QED BY <1>1 DEF Reserve, ReceiptTable

LEMMA AttachType ==
  ASSUME NEW t \in ReceiptTable, NEW k \in Key, NEW c \in Call,
         CanAttach(t, k, c)
  PROVE  Attach(t, k, c) \in ReceiptTable
<1> DEFINE R == Rows(Request, Response, Call)
<1>1. t \in [Key -> R] /\ t[k] \in R
  BY DEF ReceiptTable
<1>2. [t[k] EXCEPT !.resource = c] \in R
  BY <1>1, NoneAssumption DEF CanAttach, Rows, Absent
<1> QED BY <1>1, <1>2 DEF Attach, ReceiptTable

LEMMA CompleteType ==
  ASSUME NEW t \in ReceiptTable, NEW k \in Key, NEW r \in Response,
         CanComplete(t, k, r)
  PROVE  Complete(t, k, r) \in ReceiptTable
<1> DEFINE R == Rows(Request, Response, Call)
           row == [[t[k] EXCEPT !.state = "completed"] EXCEPT !.response = r]
<1>1. t \in [Key -> R] /\ t[k] \in R
  BY DEF ReceiptTable
<1>2. t[k] \in [state : {"in_progress", "completed"}, req : Request,
                response : Response \cup {None}, resource : Call \cup {None}]
  BY <1>1 DEF CanComplete, Rows, Absent
<1>3. row \in [state : {"completed"}, req : Request, response : Response,
               resource : Call \cup {None}]
  BY <1>2
<1>4. row \in R
  BY <1>3 DEF Rows
<1>5. Complete(t, k, r) = [t EXCEPT ![k] = row]
  BY <1>1 DEF Complete
<1> QED BY <1>1, <1>4, <1>5 DEF ReceiptTable

\* A call that is not idle has arguments; giving it another place or answer
\* leaves it one.
LEMMA ActiveCalls ==
  ASSUME TypeOK, NEW c \in Call, pc(c) # "idle"
  PROVE  /\ call[c] \in ActiveCall
         /\ key(c) \in Key /\ req(c) \in Request
         /\ \A s \in {"waiting", "replying"} \cup InTransaction :
              [call EXCEPT ![c].pc = s] \in [Call -> {Idle} \cup ActiveCall]
         /\ \A s \in {"waiting", "replying"} \cup InTransaction :
            \A r \in Response \cup {None} :
              [call EXCEPT ![c].answer = r, ![c].pc = s]
                \in [Call -> {Idle} \cup ActiveCall]
<1>1. call[c] \in ActiveCall
  BY DEF TypeOK, Idle, pc
<1>2. key(c) \in Key /\ req(c) \in Request
  BY <1>1 DEF ActiveCall, key, req
<1>3. ASSUME NEW s \in {"waiting", "replying"} \cup InTransaction
      PROVE [call EXCEPT ![c].pc = s] \in [Call -> {Idle} \cup ActiveCall]
  <2>1. [call[c] EXCEPT !.pc = s] \in ActiveCall
    BY <1>1, <1>3 DEF ActiveCall
  <2> QED BY <2>1 DEF TypeOK
<1>4. ASSUME NEW s \in {"waiting", "replying"} \cup InTransaction,
             NEW r \in Response \cup {None}
      PROVE [call EXCEPT ![c].answer = r, ![c].pc = s]
              \in [Call -> {Idle} \cup ActiveCall]
  <2>1. [[call[c] EXCEPT !.answer = r] EXCEPT !.pc = s] \in ActiveCall
    BY <1>1, <1>4 DEF ActiveCall
  <2>2. [call EXCEPT ![c].answer = r, ![c].pc = s] =
          [call EXCEPT ![c] = [[call[c] EXCEPT !.answer = r] EXCEPT !.pc = s]]
    BY DEF TypeOK
  <2> QED BY <2>1, <2>2 DEF TypeOK
<1> QED BY <1>1, <1>2, <1>3, <1>4

\* Every step keeps the variables in their types.
LEMMA TypeStep == TypeOK /\ WorkingCopy /\ [Next]_vars => TypeOK'
<1> SUFFICES ASSUME TypeOK, WorkingCopy, [Next]_vars PROVE TypeOK'
  OBVIOUS
<1> USE DEF committed, working
<1>0. \A s \in {"reserving", "handling", "committing"} : s \in InTransaction
  BY DEF InTransaction
<1>1. ASSUME NEW c \in Call, NEW k \in Key, NEW q \in Request, Submit(c, k, q)
      PROVE TypeOK'
  <2>1. [pc |-> "waiting", key |-> k, req |-> q, answer |-> None] \in ActiveCall
    BY DEF ActiveCall
  <2> QED BY <1>1, <2>1 DEF Submit, TypeOK
<1>2. ASSUME NEW c \in Call, BeginImmediate(c) PROVE TypeOK'
  <2>1. call' \in [Call -> {Idle} \cup ActiveCall]
    BY <1>0, <1>2, ActiveCalls DEF BeginImmediate
  <2> QED BY <1>2, <2>1 DEF BeginImmediate, TypeOK
<1>3. ASSUME NEW c \in Call, BeginBusy(c) PROVE TypeOK'
  BY <1>3 DEF BeginBusy, TypeOK
<1>4. ASSUME NEW c \in Call, Rollback(c) PROVE TypeOK'
  BY <1>4 DEF Rollback, TypeOK
<1>5. ASSUME NEW c \in Call, ReserveReplay(c) PROVE TypeOK'
  <2>1. key(c) \in Key /\ pc(c) # "idle"
    BY <1>5, ActiveCalls DEF ReserveReplay
  <2>2. wReceipts[key(c)].response \in Response \cup {None}
    BY <1>5, <2>1 DEF TypeOK, ReceiptTable, Rows, Absent
  <2>3. call' \in [Call -> {Idle} \cup ActiveCall]
    BY <1>5, <2>1, <2>2, ActiveCalls DEF ReserveReplay
  <2> QED BY <1>5, <2>3 DEF ReserveReplay, TypeOK
<1>6. ASSUME NEW c \in Call, ReserveNew(c) PROVE TypeOK'
  <2>1. key(c) \in Key /\ req(c) \in Request
    BY <1>6, ActiveCalls DEF ReserveNew
  <2>2. wReceipts' \in ReceiptTable
    BY <1>6, <2>1, ReserveType DEF ReserveNew, TypeOK
  <2>3. call' \in [Call -> {Idle} \cup ActiveCall]
    BY <1>0, <1>6, ActiveCalls DEF ReserveNew
  <2> QED BY <1>6, <2>2, <2>3 DEF ReserveNew, TypeOK
<1>7. ASSUME NEW c \in Call, HandlerWrites(c) PROVE TypeOK'
  <2>1. key(c) \in Key
    BY <1>7, ActiveCalls DEF HandlerWrites
  <2>2. wReceipts' \in ReceiptTable
    BY <1>7, <2>1, AttachType DEF HandlerWrites, TypeOK
  <2>3. wEvents' \in Seq(Key)
    BY <1>7, <2>1 DEF HandlerWrites, TypeOK
  <2> QED BY <1>7, <2>2, <2>3 DEF HandlerWrites, TypeOK
<1>8. ASSUME NEW c \in Call, NEW s \in {"ok", "rejected"}, NEW es \in Seq(Key)
      PROVE ResponseFor(c, s, es) \in Response
  BY DEF ResponseFor, Response, TypeOK
<1>9. ASSUME NEW c \in Call, HandlerReturns(c) PROVE TypeOK'
  <2> DEFINE r == ResponseFor(c, "ok", wEvents)
  <2>1. key(c) \in Key /\ pc(c) # "idle" /\ r \in Response
    BY <1>8, <1>9, ActiveCalls DEF HandlerReturns, TypeOK
  <2>2. wReceipts' \in ReceiptTable
    BY <1>9, <2>1, CompleteType DEF HandlerReturns, TypeOK
  <2>3. call' \in [Call -> {Idle} \cup ActiveCall]
    BY <1>0, <1>9, <2>1, ActiveCalls DEF HandlerReturns
  <2> QED BY <1>9, <2>2, <2>3 DEF HandlerReturns, TypeOK
<1>10. ASSUME NEW c \in Call, HandlerRejects(c) PROVE TypeOK'
  <2> DEFINE r == ResponseFor(c, "rejected", savepoint.events)
  <2>1. key(c) \in Key /\ pc(c) # "idle" /\ r \in Response
    BY <1>8, <1>10, ActiveCalls DEF HandlerRejects, TypeOK
  <2>2. wReceipts' \in ReceiptTable
    BY <1>10, <2>1, CompleteType DEF HandlerRejects, TypeOK
  <2>3. call' \in [Call -> {Idle} \cup ActiveCall]
    BY <1>0, <1>10, <2>1, ActiveCalls DEF HandlerRejects
  <2> QED BY <1>10, <2>2, <2>3 DEF HandlerRejects, TypeOK
<1>11. ASSUME NEW c \in Call, Commit(c) PROVE TypeOK'
  <2>1. call' \in [Call -> {Idle} \cup ActiveCall]
    BY <1>11, ActiveCalls DEF Commit
  <2> QED BY <1>11, <2>1 DEF Commit, Publish, TypeOK
<1>12. ASSUME NEW c \in Call, CommitUnanswered(c) PROVE TypeOK'
  BY <1>12 DEF CommitUnanswered, Publish, TypeOK
<1>13. ASSUME NEW c \in Call, Deliver(c) PROVE TypeOK'
  <2>1. [key |-> key(c), req |-> req(c), response |-> call[c].answer] \in Reply
    <3>1. key(c) \in Key /\ req(c) \in Request
      BY <1>13, ActiveCalls DEF Deliver
    <3>2. Replying(c)
      BY <1>13 DEF Deliver, WorkingCopy
    <3>3. receipts[key(c)] \in Rows(Request, Response, Call)
      BY <3>1 DEF TypeOK, ReceiptTable
    <3>4. call[c].answer \in Response
      BY <3>2, <3>3 DEF Replying, Rows, Absent
    <3> QED BY <3>1, <3>4 DEF Reply
  <2> QED BY <1>13, <2>1 DEF Deliver, TypeOK
<1>14. ASSUME NEW c \in Call, LoseReply(c) PROVE TypeOK'
  BY <1>14 DEF LoseReply, TypeOK
<1>15. ASSUME NEW p \in Process, Crash(p) PROVE TypeOK'
  BY <1>15 DEF Crash, TypeOK
<1>16. ASSUME NEW p \in Process, Restart(p) PROVE TypeOK'
  BY <1>16 DEF Restart, TypeOK
<1>17. CASE UNCHANGED vars
  BY <1>17 DEF vars, TypeOK
<1> QED
  BY <1>1, <1>2, <1>3, <1>4, <1>5, <1>6, <1>7, <1>9, <1>10, <1>11,
     <1>12, <1>13, <1>14, <1>15, <1>16, <1>17
     DEF Next, Progress, ReserveConflict, HandlerRaises, CommitFails
-----------------------------------------------------------------------------
\* What is known of a call depends only on its own state and the database.
LEMMA SameCall ==
  ASSUME NEW d \in Call, call'[d] = call[d], UNCHANGED <<committed, working>>
  PROVE  /\ pc(d)' = pc(d)
         /\ Handling(d) => Handling(d)'
         /\ Committing(d) => Committing(d)'
         /\ Replying(d) => Replying(d)'
         /\ Clean => Clean'
BY DEF Handling, Committing, Replying, Clean, Extends, pc, key, req,
       committed, working

\* The lock has one owner, and only the owner is inside the transaction.
LEMMA LockStep == TypeOK /\ LockOwner /\ [Next]_vars => LockOwner'
<1> SUFFICES ASSUME TypeOK, LockOwner, [Next]_vars PROVE LockOwner'
  OBVIOUS
<1> USE NoneAssumption DEF LockOwner, InTransaction, pc
<1>0. call \in [Call -> {Idle} \cup ActiveCall] /\ Idle.pc = "idle"
  BY DEF TypeOK, Idle
<1>1. ASSUME NEW c \in Call, NEW k \in Key, NEW q \in Request, Submit(c, k, q)
      PROVE LockOwner'
  BY <1>0, <1>1 DEF Submit
<1>2. ASSUME NEW c \in Call, BeginImmediate(c) PROVE LockOwner'
  BY <1>0, <1>2 DEF BeginImmediate
<1>3. ASSUME NEW c \in Call, BeginBusy(c) \/ Deliver(c) \/ LoseReply(c)
      PROVE LockOwner'
  BY <1>0, <1>3 DEF BeginBusy, Deliver, LoseReply
<1>4. ASSUME NEW c \in Call, Rollback(c), pc(c) \in InTransaction
      PROVE LockOwner'
  BY <1>0, <1>4 DEF Rollback
<1>5. ASSUME NEW c \in Call, ReserveReplay(c) PROVE LockOwner'
  BY <1>0, <1>5 DEF ReserveReplay
<1>6. ASSUME NEW c \in Call,
             ReserveNew(c) \/ HandlerWrites(c) \/ HandlerReturns(c)
               \/ HandlerRejects(c)
      PROVE LockOwner'
  <2>1. CASE ReserveNew(c) BY <1>0, <2>1 DEF ReserveNew
  <2>2. CASE HandlerWrites(c) BY <1>0, <2>2 DEF HandlerWrites
  <2>3. CASE HandlerReturns(c) BY <1>0, <2>3 DEF HandlerReturns
  <2>4. CASE HandlerRejects(c) BY <1>0, <2>4 DEF HandlerRejects
  <2> QED BY <1>6, <2>1, <2>2, <2>3, <2>4
<1>7. ASSUME NEW c \in Call, Commit(c) \/ CommitUnanswered(c) PROVE LockOwner'
  <2>1. CASE Commit(c) BY <1>0, <2>1 DEF Commit, Publish
  <2>2. CASE CommitUnanswered(c) BY <1>0, <2>2 DEF CommitUnanswered, Publish
  <2> QED BY <1>7, <2>1, <2>2
<1>8. ASSUME NEW p \in Process, Crash(p) PROVE LockOwner'
  BY <1>0, <1>8 DEF Crash
<1>9. ASSUME NEW p \in Process, Restart(p) PROVE LockOwner'
  BY <1>0, <1>9 DEF Restart
<1>10. CASE UNCHANGED vars
  BY <1>10 DEF vars
<1> QED
  BY <1>1, <1>2, <1>3, <1>4, <1>5, <1>6, <1>7, <1>8, <1>9, <1>10
     DEF Next, Progress, ReserveConflict, HandlerRaises, CommitFails

\* At COMMIT, the only row that changes is the one the call inserted.
LEMMA CommitRow ==
  ASSUME TypeOK, NEW c \in Call, pc(c) = "committing", Committing(c),
         Publish(c)
  PROVE  /\ key(c) \in Key
         /\ receipts[key(c)] = Absent
         /\ \E res \in Call \cup {None} :
              /\ receipts'[key(c)] = CompletedRow(req(c), call[c].answer, res)
              /\ res # None => Len(events) < Len(events')
         /\ \A k \in Key \ {key(c)} : receipts'[k] = receipts[k]
<1>1. key(c) \in Key
  BY ActiveCalls
<1>2. receipts \in [Key -> Rows(Request, Response, Call)]
  BY DEF TypeOK, ReceiptTable
<1> QED BY <1>1, <1>2 DEF Committing, Publish, SetRow

\* What a call's own receipt row looks like on its way to completion.
LEMMA ReserveRow ==
  ASSUME NEW t \in ReceiptTable, NEW k \in Key, NEW q \in Request
  PROVE  Reserve(t, k, q) = SetRow(t, k, OpenRow(q, None))
BY DEF Reserve, OpenRow, SetRow

LEMMA AttachRow ==
  ASSUME NEW t \in ReceiptTable, NEW k \in Key, NEW q \in Request,
         NEW x \in Call \cup {None}, NEW c \in Call,
         NEW u, u = SetRow(t, k, OpenRow(q, x))
  PROVE  Attach(u, k, c) = SetRow(t, k, OpenRow(q, c))
<1>1. u[k] = OpenRow(q, x)
  BY DEF ReceiptTable, SetRow
<1>2. [OpenRow(q, x) EXCEPT !.resource = c] = OpenRow(q, c)
  BY DEF OpenRow
<1>3. Attach(u, k, c) = [u EXCEPT ![k] = [u[k] EXCEPT !.resource = c]]
  BY DEF Attach
<1>4. [u EXCEPT ![k] = OpenRow(q, c)] = SetRow(t, k, OpenRow(q, c))
  BY DEF ReceiptTable, SetRow
<1> QED BY <1>1, <1>2, <1>3, <1>4

LEMMA CompleteRow ==
  ASSUME NEW t \in ReceiptTable, NEW k \in Key, NEW q \in Request,
         NEW x \in Call \cup {None}, NEW r \in Response,
         NEW u, u = SetRow(t, k, OpenRow(q, x))
  PROVE  Complete(u, k, r) = SetRow(t, k, CompletedRow(q, r, x))
<1>1. t = [j \in Key |-> t[j]]
  BY DEF ReceiptTable
<1> QED BY <1>1 DEF Complete, OpenRow, CompletedRow, SetRow

\* The tie between the working copy and the committed database is kept.
LEMMA WorkStep ==
  TypeOK /\ LockOwner /\ WorkingCopy /\ NoOrphanReceipt /\ [Next]_vars
    => WorkingCopy'
<1> SUFFICES ASSUME TypeOK, LockOwner, WorkingCopy, NoOrphanReceipt,
                    [Next]_vars
             PROVE  WorkingCopy'
  OBVIOUS
<1> DEFINE At(d) == /\ pc(d) = "reserving" => Clean
                    /\ pc(d) = "handling" => Handling(d)
                    /\ pc(d) = "committing" => Committing(d)
                    /\ pc(d) = "replying" => Replying(d)
<1>0. /\ call \in [Call -> {Idle} \cup ActiveCall]
      /\ Idle.pc = "idle"
      /\ WorkingCopy <=> (lock = None => Clean) /\ \A d \in Call : At(d)
      /\ WorkingCopy' <=> (lock = None => Clean)' /\ \A d \in Call : At(d)'
  BY DEF TypeOK, Idle, WorkingCopy
<1>a. ASSUME NEW d \in Call, call'[d] = call[d], UNCHANGED <<committed, working>>
      PROVE  At(d)'
  BY <1>a, <1>0, SameCall
<1>b. ASSUME NEW d \in Call, NEW c \in Call, c # d, pc(c) \in InTransaction,
             call'[d] = call[d], UNCHANGED committed
      PROVE  At(d)'
  <2>1. pc(d) \notin InTransaction /\ pc(d)' = pc(d)
    BY <1>b DEF LockOwner, pc
  <2> QED BY <1>0, <1>b, <2>1 DEF InTransaction, Replying, key, req, committed
<1>c. ASSUME NEW d \in Call, call'[d] = Idle
      PROVE  At(d)'
  BY <1>c, <1>0 DEF pc
<1>d. ASSUME NEW c \in Call, pc(c) \in InTransaction PROVE lock # None
  BY <1>d, NoneAssumption DEF LockOwner
<1> HIDE DEF At
<1>1. ASSUME NEW c \in Call, NEW k \in Key, NEW q \in Request, Submit(c, k, q)
      PROVE WorkingCopy'
  <2>1. call'[c].pc = "waiting"
    BY <1>0, <1>1 DEF Submit
  <2>2. At(c)'
    BY <2>1 DEF At, pc
  <2>3. \A d \in Call \ {c} : At(d)'
    BY <1>0, <1>1, <1>a DEF Submit
  <2> QED BY <1>0, <1>1, <2>2, <2>3 DEF Submit, Clean, committed, working
<1>2. ASSUME NEW c \in Call, BeginImmediate(c) PROVE WorkingCopy'
  <2>1. At(c)'
    BY <1>0, <1>2 DEF At, BeginImmediate, pc, Clean, committed, working
  <2>2. \A d \in Call \ {c} : At(d)'
    BY <1>0, <1>2, <1>a DEF BeginImmediate
  <2> QED BY <1>0, <1>2, <2>1, <2>2, NoneAssumption DEF BeginImmediate
<1>3. ASSUME NEW c \in Call, BeginBusy(c) \/ Deliver(c) \/ LoseReply(c)
      PROVE WorkingCopy'
  <2>1. At(c)'
    BY <1>0, <1>3, <1>c DEF BeginBusy, Deliver, LoseReply
  <2>2. \A d \in Call \ {c} : At(d)'
    BY <1>0, <1>3, <1>a DEF BeginBusy, Deliver, LoseReply
  <2> QED
    BY <1>0, <1>3, <2>1, <2>2
       DEF BeginBusy, Deliver, LoseReply, Clean, committed, working
<1>4. ASSUME NEW c \in Call, Rollback(c), pc(c) \in InTransaction
      PROVE WorkingCopy'
  <2>1. At(c)'
    BY <1>0, <1>4, <1>c DEF Rollback
  <2>2. \A d \in Call \ {c} : At(d)'
    BY <1>0, <1>4, <1>b DEF Rollback
  <2>3. Clean'
    BY <1>4 DEF Rollback, Clean, committed
  <2> QED BY <1>0, <2>1, <2>2, <2>3
<1>5. ASSUME NEW c \in Call, ReserveReplay(c) PROVE WorkingCopy'
  <2>1. pc(c) = "reserving" /\ Clean
    BY <1>0, <1>5 DEF ReserveReplay, At
  <2>2. At(c)'
    <3>1. key(c) \in Key /\ req(c) \in Request
      BY <2>1, ActiveCalls
    <3>2. receipts[key(c)] \in Rows(Request, Response, Call)
      BY <3>1 DEF TypeOK, ReceiptTable
    <3>3. /\ receipts[key(c)].state = "completed"
          /\ receipts[key(c)].req = req(c)
      BY <1>5, <2>1, <3>1, <3>2
         DEF ReserveReplay, IsReplay, IsNew, NoOrphanReceipt, Clean, Rows, Absent
    <3>4. /\ call'[c].pc = "replying"
          /\ call'[c].key = key(c) /\ call'[c].req = req(c)
          /\ call'[c].answer = receipts[key(c)].response
      BY <1>0, <1>5, <2>1 DEF ReserveReplay, Clean, key, req
    <3> QED
      BY <1>5, <3>3, <3>4 DEF ReserveReplay, At, Replying, pc, key, req, committed
  <2>3. \A d \in Call \ {c} : At(d)'
    BY <1>0, <1>5, <1>a DEF ReserveReplay
  <2> QED
    BY <1>0, <1>5, <2>1, <2>2, <2>3 DEF ReserveReplay, Clean, committed, working
<1>6. ASSUME NEW c \in Call, ReserveNew(c) PROVE WorkingCopy'
  <2>1. pc(c) = "reserving" /\ Clean
    BY <1>0, <1>6 DEF ReserveNew, At
  <2>2. At(c)'
    <3>1. key(c) \in Key /\ req(c) \in Request
      BY <2>1, ActiveCalls
    <3>2. receipts[key(c)] = Absent
      BY <1>6, <2>1, <3>1
         DEF ReserveNew, IsNew, Clean, TypeOK, ReceiptTable, Rows
    <3>3. /\ call'[c].pc = "handling"
          /\ call'[c].key = key(c) /\ call'[c].req = req(c)
      BY <1>0, <1>6 DEF ReserveNew, key, req
    <3>4. Len(events) \in Nat /\ receipts \in ReceiptTable
      BY DEF TypeOK
    <3>a. Extends(events, events, key(c))
      BY <3>4 DEF Extends
    <3>b. Reserve(receipts, key(c), req(c)) =
            SetRow(receipts, key(c), OpenRow(req(c), None))
      BY <3>1, <3>4, ReserveRow
    <3>c. /\ wReceipts' = Reserve(receipts, key(c), req(c))
          /\ savepoint' = [receipts |-> wReceipts', events |-> events]
          /\ wEvents' = events /\ UNCHANGED committed
      BY <1>6, <2>1 DEF ReserveNew, Clean
    <3>5. Handling(c)'
      BY <3>2, <3>3, <3>a, <3>b, <3>c DEF Handling, key, req, committed
    <3> QED BY <3>3, <3>5 DEF At, pc
  <2>3. \A d \in Call \ {c} : At(d)'
    BY <1>0, <1>6, <1>b, <2>1 DEF ReserveNew, InTransaction
  <2> QED
    BY <1>0, <1>6, <1>d, <2>1, <2>2, <2>3 DEF ReserveNew, InTransaction
<1>7. ASSUME NEW c \in Call, HandlerWrites(c) PROVE WorkingCopy'
  <2>1. pc(c) = "handling" /\ Handling(c) /\ key(c) \in Key /\ req(c) \in Request
    BY <1>7, <1>0, ActiveCalls DEF HandlerWrites, At
  <2>2. At(c)'
    <3>1. wReceipts' = SetRow(receipts, key(c), OpenRow(req(c), c))
      <4>1. receipts \in ReceiptTable
        BY DEF TypeOK
      <4>2. PICK x \in Call \cup {None} :
              wReceipts = SetRow(receipts, key(c), OpenRow(req(c), x))
        BY <2>1 DEF Handling
      <4>3. wReceipts' = Attach(wReceipts, key(c), c)
        BY <1>7 DEF HandlerWrites
      <4> QED BY <2>1, <4>1, <4>2, <4>3, AttachRow
    <3>2. events \in Seq(Key) /\ wEvents \in Seq(Key)
      BY DEF TypeOK
    <3>3. wEvents' = Append(wEvents, key(c)) /\ Extends(wEvents, events, key(c))
      BY <1>7, <2>1 DEF HandlerWrites, Handling
    <3>4. Extends(wEvents', events, key(c)) /\ Len(events) < Len(wEvents')
      BY <2>1, <3>2, <3>3 DEF Extends
    <3>5. call' = call /\ savepoint' = savepoint /\ UNCHANGED committed
      BY <1>7 DEF HandlerWrites
    <3>6. Handling(c)'
      BY <2>1, <3>1, <3>4, <3>5 DEF Handling, key, req, committed
    <3> QED BY <2>1, <3>5, <3>6 DEF At, pc
  <2>3. \A d \in Call \ {c} : At(d)'
    BY <1>0, <1>7, <1>b DEF HandlerWrites, InTransaction
  <2> QED
    BY <1>0, <1>7, <1>d, <2>2, <2>3 DEF HandlerWrites, InTransaction
<1>8. ASSUME NEW c \in Call, HandlerReturns(c) PROVE WorkingCopy'
  <2>1. pc(c) = "handling" /\ Handling(c) /\ key(c) \in Key /\ req(c) \in Request
    BY <1>8, <1>0, ActiveCalls DEF HandlerReturns, At
  <2>2. At(c)'
    <3> DEFINE r == ResponseFor(c, "ok", wEvents)
    <3>1. receipts \in ReceiptTable
      BY DEF TypeOK
    <3>r. r \in Response
      BY <2>1 DEF ResponseFor, Response, TypeOK
    <3>2. wReceipts' = Complete(wReceipts, key(c), r)
      BY <1>8 DEF HandlerReturns
    <3>3. \E res \in Call \cup {None} :
            /\ wReceipts' = SetRow(receipts, key(c), CompletedRow(req(c), r, res))
            /\ res # None => Len(events) < Len(wEvents)
      <4>1. PICK x \in Call \cup {None} :
              /\ wReceipts = SetRow(receipts, key(c), OpenRow(req(c), x))
              /\ x # None => Len(events) < Len(wEvents)
        BY <2>1 DEF Handling
      <4>2. wReceipts' = SetRow(receipts, key(c), CompletedRow(req(c), r, x))
        BY <2>1, <3>1, <3>r, <3>2, <4>1, CompleteRow
      <4> QED BY <4>1, <4>2
    <3>4. /\ call'[c].pc = "committing" /\ call'[c].answer = r
          /\ call'[c].key = key(c) /\ call'[c].req = req(c)
      BY <1>0, <1>8, <2>1 DEF HandlerReturns, key, req
    <3>5. /\ r \in Response /\ r.status = "ok"
          /\ r.first = Len(events) /\ r.last = Len(wEvents)
      BY DEF ResponseFor, Response, TypeOK
    <3>6. wEvents' = wEvents /\ UNCHANGED committed
      BY <1>8 DEF HandlerReturns
    <3> HIDE DEF r
    <3>7. Committing(c)'
      BY <2>1, <3>3, <3>4, <3>5, <3>6
         DEF Committing, Handling, key, req, committed
    <3> QED BY <3>4, <3>7 DEF At, pc
  <2>3. \A d \in Call \ {c} : At(d)'
    BY <1>0, <1>8, <1>b DEF HandlerReturns, InTransaction
  <2> QED
    BY <1>0, <1>8, <1>d, <2>2, <2>3 DEF HandlerReturns, InTransaction
<1>9. ASSUME NEW c \in Call, HandlerRejects(c) PROVE WorkingCopy'
  <2>1. pc(c) = "handling" /\ Handling(c) /\ key(c) \in Key /\ req(c) \in Request
    BY <1>9, <1>0, ActiveCalls DEF HandlerRejects, At
  <2>2. At(c)'
    <3> DEFINE r == ResponseFor(c, "rejected", savepoint.events)
    <3>1. receipts \in ReceiptTable
      BY DEF TypeOK
    <3>r. r \in Response
      BY <2>1 DEF ResponseFor, Response, TypeOK
    <3>2. wReceipts' = Complete(savepoint.receipts, key(c), r)
      BY <1>9 DEF HandlerRejects
    <3>3. wReceipts' = SetRow(receipts, key(c), CompletedRow(req(c), r, None))
      <4>1. savepoint.receipts = SetRow(receipts, key(c), OpenRow(req(c), None))
        <5>1. savepoint.receipts = Reserve(receipts, key(c), req(c))
          BY <2>1 DEF Handling
        <5>2. Reserve(receipts, key(c), req(c)) =
                SetRow(receipts, key(c), OpenRow(req(c), None))
          BY <2>1, <3>1, ReserveRow
        <5> QED BY <5>1, <5>2
      <4> QED BY <2>1, <3>1, <3>r, <3>2, <4>1, CompleteRow
    <3>4. /\ call'[c].pc = "committing" /\ call'[c].answer = r
          /\ call'[c].key = key(c) /\ call'[c].req = req(c)
      BY <1>0, <1>9, <2>1 DEF HandlerRejects, key, req
    <3>5. /\ r \in Response /\ Len(events) \in Nat
          /\ r.first = Len(events) /\ r.last = Len(events)
      BY <2>1 DEF ResponseFor, Response, TypeOK, Handling
    <3>6. wEvents' = events /\ UNCHANGED committed
      BY <1>9, <2>1 DEF HandlerRejects, Handling
    <3>7. Extends(events, events, key(c))
      BY <3>5 DEF Extends
    <3> HIDE DEF r
    <3>8. Committing(c)'
      BY <2>1, <3>3, <3>4, <3>5, <3>6, <3>7
         DEF Committing, Handling, key, req, committed
    <3> QED BY <3>4, <3>8 DEF At, pc
  <2>3. \A d \in Call \ {c} : At(d)'
    BY <1>0, <1>9, <1>b DEF HandlerRejects, InTransaction
  <2> QED
    BY <1>0, <1>9, <1>d, <2>2, <2>3 DEF HandlerRejects, InTransaction
<1>10. ASSUME NEW c \in Call, Commit(c) \/ CommitUnanswered(c)
       PROVE WorkingCopy'
  <2>1. /\ pc(c) = "committing" /\ Committing(c) /\ Publish(c)
        /\ receipts[key(c)] = Absent
    BY <1>10, <1>0, CommitRow DEF Commit, CommitUnanswered, At
  <2>2. At(c)'
    <3>1. CASE CommitUnanswered(c)
      BY <3>1, <1>0, <1>c DEF CommitUnanswered
    <3>2. CASE Commit(c)
      <4>1. /\ call'[c].pc = "replying" /\ call'[c].answer = call[c].answer
            /\ call'[c].key = key(c) /\ call'[c].req = req(c)
        BY <1>0, <3>2 DEF Commit, key, req
      <4>2. PICK res \in Call \cup {None} :
              receipts'[key(c)] = CompletedRow(req(c), call[c].answer, res)
        BY <2>1, CommitRow
      <4> QED BY <4>1, <4>2 DEF At, Replying, CompletedRow, pc, key, req
    <3> QED BY <1>10, <3>1, <3>2
  <2>3. ASSUME NEW d \in Call \ {c} PROVE At(d)'
    <3>1. pc(d) \notin InTransaction /\ call'[d] = call[d]
      BY <1>0, <1>10, <2>1
         DEF LockOwner, InTransaction, Commit, CommitUnanswered
    <3>2. ASSUME pc(d) = "replying" PROVE Replying(d)'
      <4>1. key(d) \in Key /\ Replying(d)
        BY <1>0, <3>2, ActiveCalls DEF At
      <4>2. key(d) # key(c)
        BY <2>1, <4>1 DEF Replying, Absent
      <4>3. receipts'[key(d)] = receipts[key(d)]
        BY <2>1, <4>1, <4>2, CommitRow
      <4> QED BY <3>1, <4>1, <4>3 DEF Replying, key, req
    <3> QED BY <3>1, <3>2 DEF At, InTransaction, pc
  <2>4. Clean'
    BY <1>10 DEF Commit, CommitUnanswered, Publish, Clean
  <2> QED BY <1>0, <2>2, <2>3, <2>4
<1>11. ASSUME NEW p \in Process, Crash(p) PROVE WorkingCopy'
  <2>1. CASE lock # None /\ Home[lock] = p
    <3>1. lock \in Call /\ pc(lock) \in InTransaction
      BY <2>1 DEF TypeOK, LockOwner
    <3>2. ASSUME NEW d \in Call PROVE At(d)'
      <4>1. CASE Home[d] = p
        BY <1>0, <1>11, <1>c, <4>1 DEF Crash
      <4>2. CASE Home[d] # p
        BY <1>0, <1>11, <1>b, <2>1, <3>1, <4>2 DEF Crash
      <4> QED BY <4>1, <4>2
    <3>3. Clean'
      BY <1>11, <2>1 DEF Crash, Clean, committed
    <3> QED BY <1>0, <3>2, <3>3
  <2>2. CASE ~(lock # None /\ Home[lock] = p)
    <3>1. UNCHANGED <<committed, working, lock>>
      BY <1>11, <2>2 DEF Crash, committed, working
    <3>2. ASSUME NEW d \in Call PROVE At(d)'
      BY <1>0, <1>11, <1>a, <1>c, <3>1 DEF Crash
    <3> QED BY <1>0, <3>1, <3>2 DEF Clean, committed, working
  <2> QED BY <2>1, <2>2
<1>12. ASSUME NEW p \in Process, Restart(p) PROVE WorkingCopy'
  BY <1>0, <1>12, <1>a DEF Restart, Clean, committed, working
<1>13. CASE UNCHANGED vars
  BY <1>0, <1>13, <1>a DEF vars, Clean, committed, working
<1> QED
  BY <1>1, <1>2, <1>3, <1>4, <1>5, <1>6, <1>7, <1>8, <1>9, <1>10, <1>11,
     <1>12, <1>13
     DEF Next, Progress, ReserveConflict, HandlerRaises, CommitFails,
         InTransaction
-----------------------------------------------------------------------------
\* Where the events of k are once a call has appended its own for k0.
LEMMA ExtendedPositions ==
  ASSUME NEW base \in Seq(Key), NEW es \in Seq(Key), NEW k0 \in Key,
         NEW k \in Key, Extends(es, base, k0)
  PROVE  {i \in 1..Len(es) : es[i] = k} =
           {i \in 1..Len(base) : base[i] = k}
             \cup (IF k = k0 THEN Len(base) + 1..Len(es) ELSE {})
<1>1. Len(base) \in Nat /\ Len(es) \in Nat /\ Len(base) <= Len(es)
  BY DEF Extends
<1>2. \A i \in 1..Len(es) :
        \/ i \in 1..Len(base) /\ es[i] = base[i]
        \/ i \in Len(base) + 1..Len(es) /\ es[i] = k0
  BY <1>1 DEF Extends
<1>3. \A i \in Len(base) + 1..Len(es) : i \in 1..Len(es) /\ es[i] = k0
  BY <1>1 DEF Extends
<1>4. \A i \in 1..Len(base) : i \in 1..Len(es) /\ es[i] = base[i]
                              /\ i \notin Len(base) + 1..Len(es)
  BY <1>1 DEF Extends
<1>5. CASE k = k0
  BY <1>2, <1>3, <1>4, <1>5
<1>6. CASE k # k0
  BY <1>2, <1>3, <1>4, <1>6
<1> QED BY <1>5, <1>6

\* Only a COMMIT changes the committed database.
LEMMA OnlyCommitWrites ==
  ASSUME [Next]_vars
  PROVE  \/ UNCHANGED committed
         \/ \E c \in Call : pc(c) = "committing" /\ Publish(c)
<1> USE DEF committed
<1>1. CASE \E c \in Call, k \in Key, q \in Request : Submit(c, k, q)
  BY <1>1 DEF Submit
<1>2. ASSUME NEW c \in Call, Progress(c)
      PROVE  UNCHANGED committed \/ (pc(c) = "committing" /\ Publish(c))
  BY <1>2 DEF Progress, BeginImmediate, BeginBusy, ReserveConflict,
              ReserveReplay, ReserveNew, HandlerWrites, HandlerReturns,
              HandlerRejects, HandlerRaises, Commit, CommitUnanswered,
              CommitFails, Deliver, LoseReply, Rollback
<1>3. ASSUME NEW p \in Process, Crash(p) \/ Restart(p)
      PROVE  UNCHANGED committed
  BY <1>3 DEF Crash, Restart
<1>4. CASE UNCHANGED vars
  BY <1>4 DEF vars
<1> QED BY <1>1, <1>2, <1>3, <1>4 DEF Next

\* Only a delivery adds an answer.
LEMMA OnlyDeliveryAnswers ==
  ASSUME [Next]_vars
  PROVE  replies' = replies \/ \E c \in Call : Deliver(c)
<1>1. CASE \E c \in Call, k \in Key, q \in Request : Submit(c, k, q)
  BY <1>1 DEF Submit
<1>2. ASSUME NEW c \in Call, Progress(c)
      PROVE  replies' = replies \/ Deliver(c)
  BY <1>2 DEF Progress, BeginImmediate, BeginBusy, ReserveConflict,
              ReserveReplay, ReserveNew, HandlerWrites, HandlerReturns,
              HandlerRejects, HandlerRaises, Commit, CommitUnanswered,
              CommitFails, LoseReply, Rollback, Publish
<1>3. ASSUME NEW p \in Process, Crash(p) \/ Restart(p)
      PROVE  replies' = replies
  BY <1>3 DEF Crash, Restart
<1>4. CASE UNCHANGED vars
  BY <1>4 DEF vars
<1> QED BY <1>1, <1>2, <1>3, <1>4 DEF Next

\* What a COMMIT does to the committed database.
LEMMA CommitStep ==
  ASSUME TypeOK, WorkingCopy, NoOrphanReceipt, EffectsMatchReceipt,
         NEW c \in Call, pc(c) = "committing", Publish(c)
  PROVE  /\ key(c) \in Key /\ req(c) \in Request
         /\ receipts[key(c)] = Absent
         /\ call[c].answer \in Response
         /\ call[c].answer.first = Len(events)
         /\ call[c].answer.last = Len(events')
         /\ call[c].answer.status = "rejected" => Len(events') = Len(events)
         /\ Extends(events', events, key(c))
         /\ receipts'[key(c)].state = "completed"
         /\ receipts'[key(c)].req = req(c)
         /\ receipts'[key(c)].response = call[c].answer
         /\ \A k \in Key \ {key(c)} : receipts'[k] = receipts[k]
         /\ NoOrphanReceipt'
         /\ EffectsMatchReceipt'
<1>1. Committing(c) /\ key(c) \in Key /\ req(c) \in Request
  BY ActiveCalls DEF WorkingCopy
<1>2. /\ receipts[key(c)] = Absent
      /\ \A k \in Key \ {key(c)} : receipts'[k] = receipts[k]
  BY <1>1, CommitRow
<1>3. PICK res \in Call \cup {None} :
        /\ receipts'[key(c)] = CompletedRow(req(c), call[c].answer, res)
        /\ res # None => Len(events) < Len(events')
  BY <1>1, CommitRow
<1>4. /\ call[c].answer \in Response
      /\ call[c].answer.first = Len(events)
      /\ call[c].answer.last = Len(events')
      /\ call[c].answer.status = "rejected" => Len(events') = Len(events)
      /\ Extends(events', events, key(c))
  BY <1>1 DEF Committing, Publish
<1>5. events \in Seq(Key) /\ events' \in Seq(Key)
  BY DEF TypeOK, Publish
<1>6. \A k \in Key :
        Positions(k)' = Positions(k) \cup
          (IF k = key(c) THEN Len(events) + 1..Len(events') ELSE {})
  BY <1>1, <1>4, <1>5, ExtendedPositions DEF Positions
<1>7. Positions(key(c)) = {}
  BY <1>1, <1>2 DEF EffectsMatchReceipt, Absent
<1>8. NoOrphanReceipt'
  BY <1>1, <1>2, <1>3 DEF NoOrphanReceipt, CompletedRow
<1>9. EffectsMatchReceipt'
  <2>1. ASSUME NEW k \in Key, k # key(c)
        PROVE  Positions(k)' = Positions(k) /\ receipts'[k] = receipts[k]
    BY <1>2, <1>6, <2>1
  <2>0. PICK k0 \in Key : k0 = key(c)
    BY <1>1
  <2>a. /\ receipts'[key(c)].state = "completed"
        /\ receipts'[key(c)].response = call[c].answer
        /\ receipts'[key(c)].resource = res
    BY <1>3 DEF CompletedRow
  <2>b. Positions(k0) = {}
    BY <2>0, <1>7
  <2>2. /\ Positions(k0)' = Len(events) + 1..Len(events')
        /\ Positions(k0)' = PositionsOf(receipts'[k0].response)
    BY <2>0, <2>a, <2>b, <1>4, <1>6 DEF PositionsOf
  <2>3. res # None => Positions(k0)' # {}
    <3>1. Len(events) \in Nat /\ Len(events') \in Nat
      BY <1>5
    <3>2. res # None => Len(events) + 1 \in Len(events) + 1..Len(events')
      BY <1>3, <3>1
    <3> QED BY <2>2, <3>2
  <2>4. ASSUME NEW k \in Key
        PROVE  /\ receipts'[k].state = "absent" => Positions(k)' = {}
               /\ receipts'[k].state = "completed" =>
                    /\ Positions(k)' = PositionsOf(receipts'[k].response)
                    /\ receipts'[k].resource # None => Positions(k)' # {}
    <3>1. CASE k = k0
      BY <2>0, <2>a, <2>2, <2>3, <3>1
    <3>2. CASE k # k0
      BY <2>0, <2>1, <3>2 DEF EffectsMatchReceipt
    <3> QED BY <3>1, <3>2
  <2> QED BY <2>4 DEF EffectsMatchReceipt, PositionsOf
<1> QED BY <1>1, <1>2, <1>3, <1>4, <1>8, <1>9 DEF CompletedRow

\* The inductive invariant holds initially and is kept by every step.
LEMMA InvInit == Init => IInv
<1> SUFFICES ASSUME Init PROVE IInv
  OBVIOUS
<1>1. Absent \in Rows(Request, Response, Call)
  BY DEF Rows
<1>2. TypeOK
  BY <1>1 DEF Init, TypeOK, ReceiptTable
<1>3. LockOwner /\ WorkingCopy
  BY NoneAssumption
     DEF Init, LockOwner, WorkingCopy, Clean, pc, Idle, InTransaction
<1>4. NoOrphanReceipt /\ AnswersAreDurable
  BY DEF Init, NoOrphanReceipt, AnswersAreDurable, Absent
<1>5. EffectsMatchReceipt
  BY DEF Init, EffectsMatchReceipt, Positions, Absent
<1> QED BY <1>2, <1>3, <1>4, <1>5 DEF IInv

LEMMA InvStep == IInv /\ [Next]_vars => IInv'
<1> SUFFICES ASSUME IInv, [Next]_vars PROVE IInv'
  OBVIOUS
<1> USE DEF IInv
<1>1. TypeOK' /\ LockOwner' /\ WorkingCopy'
  BY TypeStep, LockStep, WorkStep
<1>2. NoOrphanReceipt' /\ EffectsMatchReceipt'
  <2>1. CASE UNCHANGED committed
    BY <2>1 DEF NoOrphanReceipt, EffectsMatchReceipt, Positions, committed
  <2>2. CASE \E c \in Call : pc(c) = "committing" /\ Publish(c)
    BY <2>2, CommitStep
  <2> QED BY <2>1, <2>2, OnlyCommitWrites
<1>3. \A k \in Key : receipts[k].state = "completed" => receipts'[k] = receipts[k]
  <2>1. CASE UNCHANGED committed
    BY <2>1 DEF committed
  <2>2. ASSUME NEW c \in Call, pc(c) = "committing", Publish(c)
        PROVE  \A k \in Key :
                 receipts[k].state = "completed" => receipts'[k] = receipts[k]
    BY <2>2, CommitStep DEF Absent
  <2> QED BY <2>1, <2>2, OnlyCommitWrites
<1>4. AnswersAreDurable'
  <2>1. \A a \in replies : a.key \in Key
    BY DEF TypeOK, Reply
  <2>2. CASE replies' = replies
    BY <1>3, <2>1, <2>2 DEF AnswersAreDurable
  <2>3. ASSUME NEW c \in Call, Deliver(c) PROVE AnswersAreDurable'
    <3>1. Replying(c) /\ receipts' = receipts
      BY <2>3 DEF Deliver, WorkingCopy, committed
    <3> QED BY <2>3, <3>1 DEF Deliver, Replying, AnswersAreDurable
  <2> QED BY <2>2, <2>3, OnlyDeliveryAnswers
<1> QED BY <1>1, <1>2, <1>4

\* The inductive invariant holds in every reachable state.
THEOREM Invariance == Spec => []IInv
<1>1. Init => IInv
  BY InvInit
<1>2. IInv /\ [Next]_vars => IInv'
  BY InvStep
<1> QED BY <1>1, <1>2, PTL DEF Spec

\* Every variable keeps its type (one of the conjuncts of IInv; it is not
\* inductive alone, since a call may only answer with a stored response).
THEOREM TypeCorrect == Spec => []TypeOK
BY Invariance, PTL DEF IInv

\* No committed receipt is ever in progress, whatever crashes or fails, and
\* the ledger holds exactly the effects of the execution that each receipt
\* answers for.
THEOREM ReceiptsExact == Spec => []CommittedReceiptsExact
<1>1. IInv => CommittedReceiptsExact
  BY DEF IInv, CommittedReceiptsExact
<1> QED BY <1>1, Invariance, PTL

\* Every delivered answer is and stays the stored one.
THEOREM DurableAnswers == Spec => []AnswersAreDurable
BY Invariance, PTL DEF IInv

\* Committed events and completed receipts never change.
THEOREM CommittedHistoryGrows == Spec => HistoryGrows
<1> DEFINE Grows ==
  /\ Len(events) <= Len(events')
  /\ \A i \in 1..Len(events) : events'[i] = events[i]
  /\ \A k \in Key :
       receipts[k].state = "completed" => receipts'[k] = receipts[k]
<1>1. IInv /\ [Next]_vars => Grows
  <2> SUFFICES ASSUME IInv, [Next]_vars PROVE Grows
    OBVIOUS
  <2>1. CASE UNCHANGED committed
    BY <2>1 DEF committed, IInv, TypeOK
  <2>2. ASSUME NEW c \in Call, pc(c) = "committing", Publish(c) PROVE Grows
    <3>1. /\ Extends(events', events, key(c))
          /\ receipts[key(c)] = Absent
          /\ \A k \in Key \ {key(c)} : receipts'[k] = receipts[k]
      BY <2>2, CommitStep DEF IInv
    <3> QED BY <3>1 DEF Extends, Absent
  <2> QED BY <2>1, <2>2, OnlyCommitWrites
<1> QED BY <1>1, Invariance, PTL DEF Spec, HistoryGrows
-----------------------------------------------------------------------------
\* Every step is a Decide, an Answer or a stutter of ExactlyOnce: COMMIT of a
\* new receipt is the instant at which a command takes effect, and a delivery
\* repeats the decision.
LEMMA StepRefines ==
  IInv /\ [Next]_vars => [Promise!Next]_(Promise!vars)
<1> SUFFICES ASSUME IInv, [Next]_vars
             PROVE  Promise!Next \/ UNCHANGED Promise!vars
  OBVIOUS
<1> DEFINE outcome == [k \in Key |-> Outcome(receipts[k])]
<1>1. CASE UNCHANGED committed /\ replies' = replies
  BY <1>1 DEF Promise!vars, committed
<1>2. ASSUME NEW c \in Call, Deliver(c) PROVE Promise!Next
  <2>1. key(c) \in Key /\ Replying(c) /\ UNCHANGED committed
    BY <1>2, ActiveCalls DEF IInv, Deliver, WorkingCopy
  <2>2. outcome[key(c)] = [req |-> req(c), response |-> call[c].answer]
    BY <2>1 DEF Replying, Outcome
  <2>a. outcome[key(c)] # None
    <3>1. call[c].answer \in Response /\ req(c) \in Request
      <4>1. receipts[key(c)] \in Rows(Request, Response, Call)
        BY <2>1 DEF IInv, TypeOK, ReceiptTable
      <4> QED BY <2>1, <4>1, <1>2, ActiveCalls
              DEF Replying, Rows, Absent, IInv, Deliver
    <3> QED BY <2>2, <3>1, NoneAssumption DEF Decision
  <2>b. UNCHANGED <<outcome, events>>
    BY <2>1 DEF committed
  <2>c. replies' = replies \cup {[key |-> key(c), req |-> req(c),
                                  response |-> call[c].answer]}
    BY <1>2 DEF Deliver
  <2> HIDE DEF outcome
  <2>3. Promise!Answer(key(c))
    BY <2>2, <2>a, <2>b, <2>c DEF Promise!Answer, outcome
  <2> QED BY <2>1, <2>3 DEF Promise!Next
<1>3. ASSUME NEW c \in Call, pc(c) = "committing", Publish(c)
      PROVE  Promise!Next
  <2> DEFINE s == call[c].answer.status
  <2>1. /\ key(c) \in Key /\ req(c) \in Request
        /\ receipts[key(c)] = Absent
        /\ call[c].answer \in Response
        /\ call[c].answer.first = Len(events)
        /\ call[c].answer.last = Len(events')
        /\ s = "rejected" => Len(events') = Len(events)
        /\ Extends(events', events, key(c))
        /\ receipts'[key(c)].state = "completed"
        /\ receipts'[key(c)].req = req(c)
        /\ receipts'[key(c)].response = call[c].answer
        /\ \A k \in Key \ {key(c)} : receipts'[k] = receipts[k]
    BY <1>3, CommitStep DEF IInv
  <2>2. s \in {"ok", "rejected"}
    BY <2>1 DEF Response
  <2>3. call[c].answer = [status |-> s, first |-> Len(events),
                          last |-> Len(events')]
    BY <2>1 DEF Response
  <2>4. outcome[key(c)] = None
    BY <2>1 DEF Outcome, Absent
  <2>5. outcome' = [outcome EXCEPT ![key(c)] =
                      [req |-> req(c), response |-> call[c].answer]]
    BY <2>1 DEF Outcome
  <2>6. replies' = replies
    BY <1>3 DEF Publish
  <2> HIDE DEF outcome
  <2>7. Promise!Decide(key(c), req(c), s)
    BY <2>1, <2>3, <2>4, <2>5, <2>6 DEF Promise!Decide, Extends, outcome
  <2> QED BY <2>1, <2>2, <2>7 DEF Promise!Next
<1> QED BY <1>1, <1>2, <1>3, OnlyCommitWrites, OnlyDeliveryAnswers

\* The command layer implements ExactlyOnce: whatever the interleaving, the
\* crashes and the retries, it behaves like a service that decides each key
\* in one step.
THEOREM Refinement == Spec => ImplementsExactlyOnce
<1>1. Init => Promise!Init
  BY DEF Init, Promise!Init, Outcome, Absent
<1>2. IInv /\ [Next]_vars => [Promise!Next]_(Promise!vars)
  BY StepRefines
<1> QED BY <1>1, <1>2, Invariance, PTL DEF Spec, ImplementsExactlyOnce, Promise!Spec
=============================================================================
