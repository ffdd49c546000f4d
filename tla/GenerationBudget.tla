-------------------------- MODULE GenerationBudget --------------------------
(***************************************************************************)
(* The provider phase of one inspiration run and what it leaves in the     *)
(* ledger: BoundedGenerationRunner.run (inspiration/deadlines.py) spends   *)
(* one token pool and one monotonic deadline over the operators in their   *)
(* fixed order, InspirationRunExecutor._finalize turns the results into    *)
(* events, the inspiration projector accepts or refuses those events, and  *)
(* the source validator (storage/validation.py) audits them whenever       *)
(* projections are verified or repaired.                                   *)
(*                                                                         *)
(* Time is counted in ticks of the monotonic clock, Milli ticks to the     *)
(* millisecond: the ledger keeps whole milliseconds, rounded down, so two  *)
(* readings less than a millisecond apart may or may not differ there.     *)
(***************************************************************************)
EXTENDS Integers, Sequences, FiniteSets

CONSTANTS
  Configurations,   \* the run configurations considered (StartInspirationRun)
  MaxPerOperator,   \* MAX_OUTPUT_TOKENS_PER_OPERATOR
  MaxPerRun,        \* MAX_OUTPUT_TOKENS_PER_RUN
  Milli,            \* ticks in a millisecond
  MaxTime           \* bound: the last tick the clock shows

\* operators: how many of the canonical operators the run selects.
\* reserves: the generator reserves output tokens (openai_compatible) or not
\* (deterministic).  evidence: the frozen snapshot has items.  The timeouts
\* are in milliseconds.
Configuration ==
  [operators : Nat \ {0}, reserves : BOOLEAN, evidence : BOOLEAN,
   per : Nat \ {0}, total : Nat \ {0},
   operatorTimeout : Nat \ {0}, globalTimeout : Nat \ {0}]

ASSUME ConstantsAssumption ==
  /\ MaxPerOperator \in Nat /\ MaxPerRun \in Nat
  /\ Milli \in Nat \ {0} /\ MaxTime \in Nat

ASSUME ConfigurationsAssumption ==
  \A c \in Configurations :
    /\ c \in Configuration
    /\ c.per <= MaxPerOperator
    /\ c.total <= MaxPerRun
    /\ c.operators * MaxPerOperator <= MaxPerRun
    /\ c.operatorTimeout <= c.globalTimeout
    /\ c.globalTimeout * Milli <= MaxTime

VARIABLES
  run,        \* the configuration of this run
  phase,      \* "choosing", "calling", "generated", then "recorded" or "rejected"
  elapsed,    \* the latest elapsed time the runner holds (elapsed_floor), in ticks
  call,       \* the attempt under way: [before, timeout, global]
  results,    \* one OperatorGeneration for each operator dealt with
  reserved,   \* reserved_total
  consumed,   \* consumed_total
  timedOut,   \* timed_out
  history,    \* the operator events of the ledger, once recorded
  status      \* the status of the terminal event

vars == <<run, phase, elapsed, call, results, reserved, consumed, timedOut, history, status>>

Codes == {"ok", "insufficient_evidence", "insufficient_token_reservation",
          "global_deadline_exhausted", "provider_timeout", "provider_error",
          "provider_budget_violation", "generator_error", "no_valid_branches"}
Statuses == {"running", "timed_out", "completed", "completed_with_errors", "failed"}

Lesser(a, b) == IF a <= b THEN a ELSE b
Greater(a, b) == IF a <= b THEN b ELSE a

\* _milliseconds: whole milliseconds, the rest is cut off.
Milliseconds(t) == t \div Milli

\* _timeout_milliseconds: rounded up, and never none.
TimeoutMilliseconds(t) == Greater(1, (t + Milli - 1) \div Milli)

\* The tokens an attempt sets aside: none for a generator without a token bill.
Reservation == IF run.reserves THEN run.per ELSE 0
GlobalDeadline == run.globalTimeout * Milli
OperatorAllowance == run.operatorTimeout * Milli

NoCall == [before |-> 0, timeout |-> 0, global |-> FALSE]

\* An operator that was never attempted: zero accounting, no elapsed time of its own.
Skipped(code, at) ==
  [code |-> code, reserved |-> 0, consumed |-> 0,
   before |-> Milliseconds(at), after |-> Milliseconds(at), attempted |-> FALSE,
   timeout |-> 0, limit |-> IF code = "global_deadline_exhausted" THEN "global" ELSE "none"]

\* The operators not dealt with in done, all skipped with one code.
SkippedAfter(done, code, at) ==
  done \o [i \in 1..(run.operators - Len(done)) |-> Skipped(code, at)]

Attempted(code, used, after) ==
  [code |-> code, reserved |-> Reservation, consumed |-> used,
   before |-> Milliseconds(call.before), after |-> Milliseconds(after), attempted |-> TRUE,
   timeout |-> TimeoutMilliseconds(call.timeout),
   limit |-> IF call.global THEN "global" ELSE "operator"]

-----------------------------------------------------------------------------
Init ==
  /\ run \in Configurations
  /\ phase = "choosing" /\ elapsed = 0 /\ call = NoCall
  /\ results = <<>> /\ reserved = 0 /\ consumed = 0 /\ timedOut = FALSE
  /\ history = <<>> /\ status = "running"

\* Mutant: the loop does not notice that the last operator was dealt with.
PhaseAfterMissesEnd(done) == IF Len(done) > run.operators THEN "generated" ELSE "choosing"

\* After an operator was dealt with: on to the next one, or to the end.
PhaseAfter(done) == IF Len(done) = run.operators THEN "generated" ELSE "choosing"

\* A snapshot without items calls no generator.
EmptySnapshot ==
  /\ phase = "choosing" /\ ~run.evidence
  /\ results' = SkippedAfter(<<>>, "insufficient_evidence", 0)
  /\ phase' = "generated"
  /\ UNCHANGED <<run, elapsed, call, reserved, consumed, timedOut, history, status>>

\* The clock reading that opens an iteration of the loop.
Reading == elapsed..MaxTime

\* The global deadline is already past: this operator and the rest are skipped.
ExhaustedBefore ==
  /\ phase = "choosing" /\ run.evidence
  /\ \E t \in Reading :
       /\ t >= GlobalDeadline
       /\ results' = SkippedAfter(results, "global_deadline_exhausted", t)
       /\ elapsed' = t
  /\ timedOut' = TRUE /\ phase' = "generated"
  /\ UNCHANGED <<run, call, reserved, consumed, history, status>>

\* What was consumed and one more reservation do not fit: the loop goes on
\* with the next operator.
SkipReservation ==
  /\ phase = "choosing" /\ run.evidence
  /\ consumed + Reservation > run.total
  /\ \E t \in Reading :
       /\ t < GlobalDeadline
       /\ results' = Append(results, Skipped("insufficient_token_reservation", t))
       /\ elapsed' = t
  /\ phase' = PhaseAfter(results')
  /\ UNCHANGED <<run, call, reserved, consumed, timedOut, history, status>>

\* Mutant: the pool is compared before the reservation is added.
StartCallOverdraws ==
  /\ phase = "choosing" /\ run.evidence
  /\ consumed < run.total
  /\ \E t \in Reading :
       /\ t < GlobalDeadline
       /\ call' = [before |-> t,
                   timeout |-> Lesser(OperatorAllowance, GlobalDeadline - t),
                   global |-> GlobalDeadline - t <= OperatorAllowance]
       /\ elapsed' = t
  /\ reserved' = reserved + Reservation
  /\ phase' = "calling"
  /\ UNCHANGED <<run, results, consumed, timedOut, history, status>>

\* The generator is called, under the smaller of the two remaining allowances.
StartCall ==
  /\ phase = "choosing" /\ run.evidence
  /\ consumed + Reservation <= run.total
  /\ \E t \in Reading :
       /\ t < GlobalDeadline
       /\ call' = [before |-> t,
                   timeout |-> Lesser(OperatorAllowance, GlobalDeadline - t),
                   global |-> GlobalDeadline - t <= OperatorAllowance]
       /\ elapsed' = t
  /\ reserved' = reserved + Reservation
  /\ phase' = "calling"
  /\ UNCHANGED <<run, results, consumed, timedOut, history, status>>

\* An attempt ended by itself at time t, charged with used tokens.
Settle(code, used, t) ==
  /\ results' = Append(results, Attempted(code, used, t))
  /\ consumed' = consumed + used
  /\ elapsed' = t
  /\ call' = NoCall
  /\ phase' = PhaseAfter(results')
  /\ UNCHANGED <<run, reserved, timedOut, history, status>>

\* What a generator answers: ideas, or one of its own failures.  The
\* deterministic one finds no pair of items fit for an operator; the provider
\* fails over HTTP or answers nonsense, never with a timeout of its own (its
\* client is built with none).
Answers == IF run.reserves THEN {"ok", "provider_error"} ELSE {"ok", "insufficient_evidence"}

CallReturns ==
  /\ phase = "calling"
  /\ \E t \in Reading, code \in Answers, used \in 0..Reservation : Settle(code, used, t)

\* Mutant: an answer over the limit is charged with what it reports.
CallRefusedChargesReport ==
  /\ phase = "calling"
  /\ \E t \in Reading, code \in {"provider_budget_violation", "generator_error"} :
       /\ run.reserves \/ code = "generator_error"
       /\ Settle(code, Reservation + 1, t)

\* A provider that reports more tokens than it was given is charged its
\* reservation and its answer is dropped; so is one whose answer is malformed
\* or that raises.
CallRefused ==
  /\ phase = "calling"
  /\ \E t \in Reading, code \in {"provider_budget_violation", "generator_error"} :
       /\ run.reserves \/ code = "generator_error"
       /\ Settle(code, Reservation, t)

\* Mutant: the elapsed time is what the clock shows, though a coarse clock may
\* show less than the allowance.
ExpiredAtReading(t) == Greater(t, call.before)

\* The elapsed time of an expired call counts the allowance at least.
ExpiredAt(t) == Greater(t, call.before + call.timeout)

\* Mutant: only the global deadline cancels a call.
CallExpiresGloballyOnly ==
  /\ phase = "calling" /\ call.global
  /\ \E t \in Reading : Settle("provider_timeout", Reservation, ExpiredAt(t))

\* The deadline cancels the call.  The whole reservation is charged; the
\* global deadline ends the loop as well.
CallExpires ==
  /\ phase = "calling"
  /\ \E t \in Reading :
       \/ /\ ~call.global
          /\ Settle("provider_timeout", Reservation, ExpiredAt(t))
       \/ /\ call.global
          /\ results' = SkippedAfter(
               Append(results, Attempted("global_deadline_exhausted", Reservation, ExpiredAt(t))),
               "global_deadline_exhausted", ExpiredAt(t))
          /\ consumed' = consumed + Reservation
          /\ elapsed' = ExpiredAt(t)
          /\ call' = NoCall
          /\ timedOut' = TRUE /\ phase' = "generated"
          /\ UNCHANGED <<run, reserved, history, status>>

-----------------------------------------------------------------------------
(* The third transaction: results become events.                           *)

\* Validation and deduplication may leave nothing of an operator's ideas.
Outcome(i, emptied) == IF i \in emptied THEN "no_valid_branches" ELSE results[i].code

\* The running totals after the first k results.
ReservedUpTo[k \in 0..Len(results)] ==
  IF k = 0 THEN 0 ELSE ReservedUpTo[k - 1] + results[k].reserved
ConsumedUpTo[k \in 0..Len(results)] ==
  IF k = 0 THEN 0 ELSE ConsumedUpTo[k - 1] + results[k].consumed
ElapsedUpTo == [k \in 0..Len(results) |-> IF k = 0 THEN 0 ELSE results[k].after]

\* Each event continues the counters where the event before it left them.
Event(i, emptied) ==
  [code |-> Outcome(i, emptied),
   reservedBefore |-> ReservedUpTo[i - 1], reservedAfter |-> ReservedUpTo[i],
   consumedBefore |-> ConsumedUpTo[i - 1], consumedAfter |-> ConsumedUpTo[i],
   before |-> ElapsedUpTo[i - 1], after |-> ElapsedUpTo[i]]

\* What one operator reserved, consumed and lasted, read off its event.
ReservedBy(e) == e.reservedAfter - e.reservedBefore
ConsumedBy(e) == e.consumedAfter - e.consumedBefore
Lasted(e) == e.after - e.before

\* _status.
StatusOf(events) ==
  LET succeeded == Cardinality({i \in DOMAIN events : events[i].code = "ok"})
  IN IF timedOut THEN "timed_out"
     ELSE IF succeeded = Len(events) THEN "completed"
     ELSE IF succeeded > 0 THEN "completed_with_errors"
     ELSE "failed"

\* What OperatorGeneration requires of itself: an attempt has a limit and a
\* timeout, and an operator that was skipped carries its fixed failure.
WellFormedResult(g) ==
  /\ g.reserved \in 0..MaxPerOperator
  /\ g.consumed \in 0..g.reserved
  /\ g.before <= g.after
  /\ IF g.attempted
     THEN g.limit # "none" /\ g.timeout > 0
     ELSE /\ g.timeout = 0 /\ g.limit # "operator" /\ g.reserved = 0
          /\ g.code \in IF g.limit = "global" THEN {"global_deadline_exhausted"}
                       ELSE {"insufficient_evidence", "insufficient_token_reservation"}

\* What OperatorGenerationRun requires of itself; a run that fails it dies with
\* an exception, its receipt still in progress.
WellFormed ==
  /\ \A i \in DOMAIN results : WellFormedResult(results[i])
  /\ \A i \in DOMAIN results \ {1} : results[i - 1].after <= results[i].before
  /\ reserved = ReservedUpTo[Len(results)] /\ consumed = ConsumedUpTo[Len(results)]
  /\ reserved <= MaxPerRun /\ consumed <= reserved
  /\ timedOut <=> \E i \in DOMAIN results : results[i].code = "global_deadline_exhausted"

\* What the event payloads and the projector require of the operator events
\* and of the terminal event.
ProjectorAccepts(events, terminal) ==
  /\ \A i \in DOMAIN events :
       /\ ReservedBy(events[i]) \in 0..MaxPerOperator
       /\ ConsumedBy(events[i]) \in 0..ReservedBy(events[i])
       /\ events[i].reservedAfter <= MaxPerRun
       /\ events[i].before <= events[i].after
  /\ CASE terminal = "completed" -> \A i \in DOMAIN events : events[i].code = "ok"
       [] terminal = "completed_with_errors" ->
            {events[i].code = "ok" : i \in DOMAIN events} = BOOLEAN
       [] terminal = "failed" -> \A i \in DOMAIN events : events[i].code # "ok"
       [] terminal = "timed_out" ->
            \E i \in DOMAIN events : events[i].code = "global_deadline_exhausted"

\* The third transaction records every event or, on a refusal, none.
Finalize ==
  /\ phase = "generated"
  /\ \E emptied \in SUBSET {i \in DOMAIN results : results[i].code = "ok"} :
       LET events == [i \in DOMAIN results |-> Event(i, emptied)]
           terminal == StatusOf(events)
       IN IF WellFormed /\ ProjectorAccepts(events, terminal)
          THEN phase' = "recorded" /\ history' = events /\ status' = terminal
          ELSE phase' = "rejected" /\ UNCHANGED <<history, status>>
  /\ UNCHANGED <<run, elapsed, call, results, reserved, consumed, timedOut>>

Choose == EmptySnapshot \/ ExhaustedBefore \/ SkipReservation \/ StartCall
Next == Choose \/ CallReturns \/ CallRefused \/ CallExpires \/ Finalize

Spec == Init /\ [][Next]_vars

\* The runner's own steps and the deadline's cancellation are taken; a
\* generator owes no answer.
FairSpec == Spec /\ WF_vars(Choose) /\ WF_vars(CallExpires) /\ WF_vars(Finalize)

-----------------------------------------------------------------------------
(* InspirationSourceValidator._validate_normal_run_history: what startup,  *)
(* verify and repair require of the operator events of a run that ended by *)
(* itself.                                                                 *)

Exhausted(e) == e.code = "global_deadline_exhausted"

\* An attempt sets aside the configured amount; a generator without a token
\* bill and an operator that was never attempted set nothing aside.
ReservationValid(e) ==
  IF ~run.reserves \/ e.code \in {"insufficient_evidence", "insufficient_token_reservation"}
  THEN ReservedBy(e) = 0
  ELSE ReservedBy(e) \in {run.per} \cup {n \in {0} : Exhausted(e)}

\* An attempt is recorded only if its reservation fitted what was left of the
\* pool, and a skip for want of tokens only if it did not.
TokenDecisionValid(e) ==
  LET fits == e.consumedBefore + run.per <= run.total
      skipped == e.code = "insufficient_token_reservation"
  IN IF run.reserves THEN (ReservedBy(e) # 0 => fits) /\ (skipped => ~fits) ELSE ~skipped

\* The global deadline is exhausted only once it had passed; from then on every
\* operator is, without tokens or time of its own.
DeadlineValid(e, past) ==
  IF past THEN Exhausted(e) /\ ReservedBy(e) = 0 /\ ConsumedBy(e) = 0 /\ Lasted(e) = 0
  ELSE Exhausted(e) => e.after >= run.globalTimeout

\* A call that timed out lasted its allowance.
TimeoutValid(e) == e.code = "provider_timeout" => Lasted(e) >= run.operatorTimeout

\* A snapshot with items never lacks evidence, and an empty one lacks nothing
\* else and costs nothing.
EvidenceValid(e) ==
  IF run.evidence THEN e.code # "insufficient_evidence"
  ELSE /\ e.code = "insufficient_evidence"
       /\ e.reservedAfter = 0 /\ e.consumedAfter = 0 /\ e.after = 0

\* Each event starts from the counters the one before it left.
Continues(events, i) ==
  LET left == IF i = 1 THEN [reservedAfter |-> 0, consumedAfter |-> 0, after |-> 0]
              ELSE events[i - 1]
  IN /\ events[i].reservedBefore = left.reservedAfter
     /\ events[i].consumedBefore = left.consumedAfter
     /\ events[i].before = left.after

\* An operator that reserved nothing consumed nothing and took no time.
Costless(e) == run.reserves /\ ReservedBy(e) = 0 => ConsumedBy(e) = 0 /\ Lasted(e) = 0

\* The run is recorded as timed out exactly when its deadline was exhausted.
TerminalValid(events, terminal) ==
  terminal = "timed_out" <=> \E i \in DOMAIN events : Exhausted(events[i])

-----------------------------------------------------------------------------
(* Properties.                                                             *)

Result == [code : Codes, reserved : Nat, consumed : Nat,
           before : Nat, after : Nat, attempted : BOOLEAN,
           timeout : Nat, limit : {"none", "operator", "global"}]

\* Every variable has its type (BoundedGenerationRunner.run's locals).
TypeOK ==
  /\ run \in Configurations
  /\ phase \in {"choosing", "calling", "generated", "recorded", "rejected"}
  /\ elapsed \in Nat
  /\ call \in [before : Nat, timeout : Nat, global : BOOLEAN]
  /\ results \in Seq(Result) /\ Len(results) <= run.operators
  /\ reserved \in Nat /\ consumed \in Nat /\ timedOut \in BOOLEAN
  /\ Len(history) \in {0, run.operators} /\ status \in Statuses

\* The token pool holds at every moment: what was consumed, and what the
\* attempt under way may still consume, never exceed the run's total, although
\* unused reservations are handed on to later operators.
PoolHolds ==
  IF phase = "calling" THEN consumed + Reservation <= run.total ELSE consumed <= run.total

\* No attempt is given time past the global deadline, and each is given some.
AttemptsEndInTime ==
  phase = "calling" => call.timeout > 0 /\ call.before + call.timeout <= GlobalDeadline

\* Whatever the generator answers and the clock shows, the results the runner
\* hands over pass their own validation, the payloads' and the projector's: no
\* run dies in its third transaction with its receipt left in progress.
NeverRejected == phase # "rejected"

\* An operator skipped when a whole millisecond had begun since the one before
\* it ended: its event lasts from that end to the skip, which Costless refuses.
SkippedLater(e) ==
  /\ e.code \in {"global_deadline_exhausted", "insufficient_token_reservation"}
  /\ ReservedBy(e) = 0 /\ ConsumedBy(e) = 0 /\ Lasted(e) > 0

\* Every run the service records passes the audit of its tokens, deadlines and
\* counters, although the runner decides in ticks of the monotonic clock, the
\* ledger keeps whole milliseconds and unused reservations are handed on: the
\* next start of the service finds nothing to refuse but a SkippedLater.  The
\* evidence decision is AuditEvidence.
AuditAccepts ==
  phase = "recorded" =>
    /\ \A i \in DOMAIN history :
         LET e == history[i] IN
         /\ ReservationValid(e) /\ TokenDecisionValid(e) /\ TimeoutValid(e)
         /\ DeadlineValid(e, \E k \in 1..(i - 1) : Exhausted(history[k]))
         /\ Continues(history, i)
         /\ Costless(e) \/ SkippedLater(e)
    /\ TerminalValid(history, status)

\* The audit accepts the evidence decision of every recorded operator.
AuditEvidence == \A i \in DOMAIN history : EvidenceValid(history[i])

\* The run is recorded whatever the provider does, even if it never answers:
\* the deadline ends every call.
RunEnds == <>(phase = "recorded")
=============================================================================
