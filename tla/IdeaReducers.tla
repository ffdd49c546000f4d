---------------------------- MODULE IdeaReducers ----------------------------
(***************************************************************************)
(* The reducers of idea events (inspiration/projector.py): the table of    *)
(* mechanism clusters and the table of idea states, applied to each event  *)
(* as it is appended and rebuilt from the ledger.                          *)
(*                                                                         *)
(* source : the authoritative rows                                         *)
(*   ledger    : events [id, type, subject, actor, at, cause, data]        *)
(*   ideas     : idea with its occurrence                                  *)
(*               [owner, run, mechanism, snapshot, duplicate, at]          *)
(*   runs      : [owner, snapshot, at, receipt]                            *)
(*   adoptions : [idea, owner, run, snapshot, experience, version, at]     *)
(*   receipts  : [scope, owner, request, created, completed, resource,     *)
(*               response]                                                 *)
(* A reducer that refuses an event returns None: online the command that   *)
(* appended the event is rolled back, in a rebuild the ledger is rejected. *)
(***************************************************************************)
EXTENDS IdeaIncubation

CONSTANTS NoncandidateRetention, CandidateRetention

ASSUME RetentionAssumption ==
  NoncandidateRetention \in Nat /\ CandidateRetention \in Nat

IdeaEvent == {"generated", "evaluated", "rejected", "archived", "adopted"}
Decision == {"active", "rejected", "archived", "adopted"}

\* The events of one aggregate before event k.
EventsBefore(source, k, Test(_)) ==
  SelectSeq(SubSeq(source.ledger, 1, k - 1), Test)
IdeaHistory(source, k) ==
  EventsBefore(source, k, LAMBDA e : /\ e.type \in IdeaEvent
                                     /\ e.subject = source.ledger[k].subject)
ExperienceBefore(source, x, k) ==
  LET history == EventsBefore(source, k, LAMBDA e : /\ e.type = "experience"
                                                    /\ e.subject = x)
  IN IF history = << >> THEN None ELSE Last(history)
\* The events of the command that appended event k which create experiences.
CreatedFor(source, k) ==
  EventsBefore(source, k, LAMBDA e : /\ e.type = "experience"
                                     /\ e.cause = source.ledger[k].cause
                                     /\ e.data.version = 1)

DueAt(state, cluster) ==
  IF cluster.maturity = "candidate"
  THEN Max({state.signal, cluster.since}) + CandidateRetention
  ELSE state.signal + NoncandidateRetention
-----------------------------------------------------------------------------
\* A generated event, its idea, its occurrence and its run agree; it happens
\* at the time its run started and under the receipt of the run.
GeneratedSourceAgrees(source, e) ==
  LET idea == source.ideas[e.subject]
      run == source.runs[e.data.run]
  IN /\ e.subject \in DOMAIN source.ideas
     /\ e.actor = run.owner /\ idea.owner = run.owner
     /\ idea.run = e.data.run
     /\ idea.mechanism = e.data.mechanism
     /\ idea.duplicate = e.data.duplicate
     /\ idea.snapshot = e.data.snapshot /\ run.snapshot = e.data.snapshot
     /\ idea.at = e.at /\ e.at = run.at /\ e.cause = run.receipt

NoEvaluation == [revision |-> 0, verdict |-> None]

\* What an idea's history says of it: its decision, the reason for that, the
\* effective evaluation; ok while every event continues the one before.
DecisionAfter(e) ==
  CASE e.type = "generated" -> "active"
    [] e.type = "evaluated" -> e.data.decision
    [] OTHER -> e.type
Reasoned(reason, e) ==
  IF e.type \in {"rejected", "archived"} THEN e.data.reason ELSE reason
ContinuesHistory(h, e, run) ==
  /\ e.at >= h.at
  /\ e.data.decision = h.decision
  /\ e.actor = IF e.type = "archived" /\ e.data.cycle # None
               THEN None ELSE run.owner
  /\ e.type = "evaluated" => /\ e.data.revision = h.latest.revision + 1
                             /\ e.data.previous = h.latest.verdict
                             /\ e.at = e.data.after.signal
  /\ e.type = "adopted" => e.data.run = h.run
HistoryStep(h, e, run) ==
  [ok |-> h.ok /\ ContinuesHistory(h, e, run),
   run |-> h.run, at |-> e.at, last |-> e.id,
   decision |-> DecisionAfter(e),
   reason |-> Reasoned(h.reason, e),
   latest |-> IF e.type = "evaluated"
              THEN [revision |-> e.data.revision, verdict |-> e.data.current]
              ELSE h.latest]
HistoryBefore(source, k) ==
  LET history == IdeaHistory(source, k)
      g == history[1]
      start == [ok |-> g.type = "generated" /\ GeneratedSourceAgrees(source, g),
                run |-> g.data.run, at |-> g.at, last |-> g.id,
                decision |-> "active", reason |-> None, latest |-> NoEvaluation]
      h == FoldLeft(LAMBDA acc, e : HistoryStep(acc, e, source.runs[g.data.run]),
                    start, Tail(history))
  IN [h EXCEPT !.ok = @ /\ source.ledger[k].at >= h.at]

\* Evidence of an evaluation is part of the run's snapshot (None) or a
\* version of an experience of the owner that existed at the time.
EvaluationEvidenceExists(source, e, owner) ==
  e.data.evidence # None =>
    \E c \in ToSet(source.ledger) :
      /\ c.type = "experience" /\ c.subject = e.data.evidence
      /\ c.data.version = 1 /\ c.data.owner = owner /\ c.at <= e.at

\* Online the state row must be the history's; a rebuild relies on the
\* history alone.
EvaluationSourceAgrees(source, states, k, rebuild) ==
  LET e == source.ledger[k]
      owner == source.ideas[e.subject].owner
      Continues(h) ==
        /\ h.ok
        /\ e.data.revision = h.latest.revision + 1
        /\ e.data.previous = h.latest.verdict
        /\ IF rebuild THEN h.decision = e.data.decision
           ELSE LET s == states[e.subject]
                IN /\ s.owner = owner /\ s.cluster = e.data.cluster
                   /\ s.latest = h.latest /\ s.reason = h.reason
                   /\ s.event = h.last /\ s.decision = e.data.decision
  IN /\ Given(HistoryBefore(source, k), Continues)
     /\ e.actor = owner /\ e.at = e.data.after.signal
     /\ EvaluationEvidenceExists(source, e, owner)

\* The adoption record, the idea and the experience it became, as that was
\* just before the event; an experience made for the adoption is made by the
\* same command at the same time, and no command makes one for nothing.
AdoptionSourceAgrees(source, k) ==
  LET e == source.ledger[k]
      p == e.data
      idea == source.ideas[e.subject]
      generated == IdeaHistory(source, k)[1].data
      Result(result) ==
        /\ result # None
        /\ result.data.owner = idea.owner /\ result.data.version = p.version
        /\ result.data.content = idea.mechanism
        /\ result.data.temperature # "archived" /\ result.at <= e.at
      Created(created) ==
        IF p.created
        THEN /\ Len(created) = 1 /\ created[1].subject = p.experience
             /\ created[1].actor = idea.owner /\ created[1].at = e.at
        ELSE created = << >>
  IN /\ Given(HistoryBefore(source, k),
              LAMBDA h : h.ok /\ h.decision = p.decision)
     /\ p.adoption \in DOMAIN source.adoptions
     /\ source.adoptions[p.adoption] =
          [idea |-> e.subject, owner |-> e.actor, run |-> p.run,
           snapshot |-> p.snapshot, experience |-> p.experience,
           version |-> p.version, at |-> e.at]
     /\ p.run = idea.run /\ e.actor = idea.owner
     /\ p.cluster = generated.cluster /\ p.snapshot = generated.snapshot
     /\ e.at = p.after.signal
     /\ Given(ExperienceBefore(source, p.experience, k), Result)
     /\ Given(CreatedFor(source, k), Created)

\* Mutant: a rebuild, too, checks that a policy archive was due.
PolicyArchiveCheckedAlways(source, clusters, state, e, rebuild) ==
  LET r == source.receipts[e.cause]
  IN /\ r.scope = "cycle" /\ r.resource = e.data.cycle
     /\ e.at >= DueAt(state, clusters[state.cluster].state)

\* Only the run that appends a policy archive checks that it is due: in a
\* rebuild the table of clusters already is in its final state.
PolicyArchiveAgrees(source, clusters, state, e, rebuild) ==
  LET r == source.receipts[e.cause]
  IN /\ r.scope = "cycle" /\ r.resource = e.data.cycle
     /\ ~rebuild => e.at >= DueAt(state, clusters[state.cluster].state)

AdopterOwnersBefore(source, cluster, k) ==
  {e.actor : e \in {f \in ToSet(SubSeq(source.ledger, 1, k - 1)) :
                      f.type = "adopted" /\ f.data.cluster = cluster}}
-----------------------------------------------------------------------------
\* The clusters as a rebuild sees them before event k: the rows built so far
\* and the ideas generated so far, grouped by mechanism.
ClustersBefore(source, clusters, k) ==
  LET prior == SelectSeq(SubSeq(source.ledger, 1, k - 1),
                         LAMBDA e : e.type = "generated")
      Of(c) == SelectSeq(prior, LAMBDA e : source.ideas[e.subject].mechanism
                                             \in ToSet(clusters[c].state.members))
  IN [c \in DOMAIN clusters |->
       [state |-> clusters[c].state,
        members |-> [i \in DOMAIN Of(c) |->
                      LET e == Of(c)[i]
                      IN [idea |-> e.subject,
                          owner |-> source.ideas[e.subject].owner,
                          mechanism |-> source.ideas[e.subject].mechanism]],
        snapshots |-> {e.data.snapshot : e \in ToSet(Of(c))}]]

Row(state, k) == [state |-> state, event |-> k]
With(rows, id, row) == [x \in DOMAIN rows \cup {id} |->
                          IF x = id THEN row ELSE rows[x]]

\* A rebuild plans the assignment again from the ideas before; the run that
\* appends the event only finds the row as the event says it was.
IncubationGenerated(source, clusters, k, rebuild) ==
  LET e == source.ledger[k]
      p == e.data
      idea == source.ideas[e.subject]
      Replanned(loaded) ==
        /\ \A c \in DOMAIN loaded : ClusterWellFormed(loaded[c])
        /\ PlanOccurrence(idea.owner, idea.mechanism, idea.snapshot, e.at, loaded)
             = [cluster |-> p.cluster, duplicate |-> p.duplicate,
                before |-> p.before, after |-> p.after]
  IN IF /\ GeneratedSourceAgrees(source, e)
        /\ rebuild => Given(ClustersBefore(source, clusters, k), Replanned)
        /\ IF p.cluster \in DOMAIN clusters
           THEN p.before = clusters[p.cluster].state
           ELSE p.before = None
     THEN With(clusters, p.cluster, Row(p.after, k))
     ELSE None

\* The row as the event found it and as the planner leaves it.
ReplannedRow(clusters, k, p, fields, planned) ==
  IF /\ planned # None
     /\ p.before = Fields(clusters[p.cluster].state, fields)
     /\ p.after = Fields(planned, fields)
  THEN With(clusters, p.cluster, Row(planned, k))
  ELSE None

\* The event concerns a member of a cluster whose row is older.
ConcernsCluster(source, clusters, k) ==
  LET e == source.ledger[k]
      row == clusters[e.data.cluster]
  IN /\ e.data.cluster \in DOMAIN clusters /\ row.event < k
     /\ source.ideas[e.subject].mechanism \in ToSet(row.state.members)

IncubationEvaluated(source, clusters, states, k, rebuild) ==
  LET e == source.ledger[k]
      p == e.data
  IN IF /\ EvaluationSourceAgrees(source, states, k, rebuild)
        /\ ConcernsCluster(source, clusters, k)
     THEN Given(PlanEvaluation(clusters[p.cluster].state, p.previous, p.current, e.at),
                LAMBDA after : ReplannedRow(clusters, k, p, EvaluationFields, after))
     ELSE None

IncubationAdopted(source, clusters, k) ==
  LET e == source.ledger[k]
      p == e.data
      owners == AdopterOwnersBefore(source, p.cluster, k)
  IN IF /\ AdoptionSourceAgrees(source, k)
        /\ ConcernsCluster(source, clusters, k)
        /\ clusters[p.cluster].state.adopters = Cardinality(owners)
     THEN Given(PlanAdoption(clusters[p.cluster].state, e.actor \in owners, e.at),
                LAMBDA after : ReplannedRow(clusters, k, p, AdoptionFields, after))
     ELSE None

ApplyToIncubation(source, clusters, states, k, rebuild) ==
  LET type == source.ledger[k].type
  IN CASE type = "generated" ->
            IncubationGenerated(source, clusters, k, rebuild)
       [] type = "evaluated" ->
            IncubationEvaluated(source, clusters, states, k, rebuild)
       [] type = "adopted" -> IncubationAdopted(source, clusters, k)
       [] OTHER -> clusters
-----------------------------------------------------------------------------
\* An idea's row and its history name the same decision, reason and
\* evaluation, and the event does not precede the last signal.
StateContinues(source, states, k) ==
  LET e == source.ledger[k]
      s == states[e.subject]
  IN /\ e.subject \in DOMAIN states
     /\ s.decision = e.data.decision
     /\ s.owner = source.ideas[e.subject].owner /\ e.at >= s.signal
     /\ Given(HistoryBefore(source, k), LAMBDA h :
          /\ h.ok /\ s.decision = h.decision /\ s.latest = h.latest
          /\ s.reason = h.reason /\ s.event = h.last)
Undecided(s) == s.experience = None /\ s.version = None

StateGenerated(source, clusters, states, k) ==
  LET e == source.ledger[k]
  IN IF /\ GeneratedSourceAgrees(source, e)
        /\ e.subject \notin DOMAIN states /\ e.data.cluster \in DOMAIN clusters
     THEN With(states, e.subject,
               [owner |-> e.actor, cluster |-> e.data.cluster,
                decision |-> "active", latest |-> NoEvaluation, reason |-> None,
                experience |-> None, version |-> None,
                signal |-> e.data.after.signal, event |-> k])
     ELSE None

StateEvaluated(source, clusters, states, k, rebuild) ==
  LET e == source.ledger[k]
  IN IF /\ EvaluationSourceAgrees(source, states, k, rebuild)
        /\ StateContinues(source, states, k)
        /\ states[e.subject].cluster = e.data.cluster
        /\ source.ideas[e.subject].mechanism
             \in ToSet(clusters[e.data.cluster].state.members)
     THEN [states EXCEPT ![e.subject].latest =
             [revision |-> e.data.revision, verdict |-> e.data.current],
           ![e.subject].signal = e.at, ![e.subject].event = k]
     ELSE None

StateArchived(source, clusters, states, k, rebuild) ==
  LET e == source.ledger[k]
      s == states[e.subject]
  IN IF /\ StateContinues(source, states, k)
        /\ e.data.cycle # None =>
             PolicyArchiveAgrees(source, clusters, s, e, rebuild)
        /\ e.actor = (IF e.data.cycle # None THEN None ELSE s.owner)
        /\ s.reason = None /\ Undecided(s)
     THEN [states EXCEPT ![e.subject].decision = "archived",
             ![e.subject].reason = e.data.reason, ![e.subject].event = k]
     ELSE None

StateRejected(source, states, k) ==
  LET e == source.ledger[k]
      s == states[e.subject]
  IN IF /\ StateContinues(source, states, k)
        /\ e.actor = s.owner /\ Undecided(s)
     THEN [states EXCEPT ![e.subject].decision = "rejected",
             ![e.subject].reason = e.data.reason, ![e.subject].event = k]
     ELSE None

StateAdopted(source, states, k) ==
  LET e == source.ledger[k]
      s == states[e.subject]
  IN IF /\ AdoptionSourceAgrees(source, k)
        /\ StateContinues(source, states, k)
        /\ s.cluster = e.data.cluster /\ Undecided(s)
     THEN [states EXCEPT ![e.subject].decision = "adopted",
             ![e.subject].reason = None,
             ![e.subject].experience = e.data.experience,
             ![e.subject].version = e.data.version,
             ![e.subject].signal = e.at, ![e.subject].event = k]
     ELSE None

ApplyToIdeaState(source, clusters, states, k, rebuild) ==
  LET type == source.ledger[k].type
  IN CASE type = "generated" -> StateGenerated(source, clusters, states, k)
       [] type = "evaluated" ->
            StateEvaluated(source, clusters, states, k, rebuild)
       [] type = "archived" ->
            StateArchived(source, clusters, states, k, rebuild)
       [] type = "rejected" -> StateRejected(source, states, k)
       [] type = "adopted" -> StateAdopted(source, states, k)
       [] OTHER -> states
-----------------------------------------------------------------------------
NoRows == [x \in {} |-> None]

\* Each appended event goes to one reducer and then to the next.
Online(source, tables, k) ==
  Given(ApplyToIncubation(source, tables.clusters, tables.states, k, FALSE),
    LAMBDA clusters :
      IF clusters = None THEN None
      ELSE Given(ApplyToIdeaState(source, clusters, tables.states, k, FALSE),
        LAMBDA states : IF states = None THEN None
                        ELSE [clusters |-> clusters, states |-> states]))

\* A rebuild gives the whole ledger to one reducer and then to the next.
Rebuild(source) ==
  LET ids == [k \in DOMAIN source.ledger |-> k]
      Clusters(rows, k) == IF rows = None THEN None
                           ELSE ApplyToIncubation(source, rows, NoRows, k, TRUE)
      States(clusters, rows, k) ==
        IF rows = None THEN None
        ELSE ApplyToIdeaState(source, clusters, rows, k, TRUE)
  IN Given(FoldLeft(LAMBDA acc, k : Given(acc, LAMBDA rows : Clusters(rows, k)),
                    NoRows, ids),
       LAMBDA clusters :
         IF clusters = None THEN None
         ELSE Given(FoldLeft(LAMBDA acc, k :
                               Given(acc, LAMBDA rows : States(clusters, rows, k)),
                             NoRows, ids),
           LAMBDA states : IF states = None THEN None
                           ELSE [clusters |-> clusters, states |-> states]))
=============================================================================
