----------------------------- MODULE IdeaLedger -----------------------------
(***************************************************************************)
(* Ideas after they were generated: runs that finish and put their ideas   *)
(* into mechanism clusters (inspiration/service.py, repository.py), the    *)
(* owner's evaluations and decisions and the policy archive                *)
(* (inspiration/lifecycle.py), the reducers behind them (IdeaReducers) and *)
(* the validator of the sources (IdeaAudit).                               *)
(*                                                                         *)
(* Every command is one transaction (CommandLedger), so it is one action;  *)
(* it reads the clock when its receipt is reserved (clock) and again in    *)
(* its handler (now), and the clock may have moved on in between (a        *)
(* command whose time is the client's is not affected by that: it has one  *)
(* reading).  Between commands the wall clock is any: it may also step     *)
(* back.  Commands                                                         *)
(* refused with an error of the protocol change nothing and have no        *)
(* action; a command that dies of an integrity error is recorded in        *)
(* refused.                                                                *)
(***************************************************************************)
EXTENDS IdeaAudit

CONSTANTS Agent,
          Snapshot,       \* hashes of frozen evidence snapshots
          Evidenced,      \* verdicts are tried with these kinds of evidence
          MaxRuns, MaxRetained, MaxIdeas, MaxEvents, MaxReceipts,  \* bounds
          MaxTime,        \* bound: readings of the clock
          Explored(_)     \* bound: the sources that are explored

ASSUME BoundsAssumption ==
  {MaxRuns, MaxRetained, MaxIdeas, MaxEvents, MaxReceipts, MaxTime} \subseteq Nat

VARIABLES source,    \* the authoritative rows, as IdeaReducers names them
          tables,    \* the projections [clusters, states]
          refused    \* components that refused a command on integrity grounds

vars == <<source, tables, refused>>

Time == 1..MaxTime
Importance == {"low", "high"}      \* at least 0.85 or not
\* The clock as a handler reads it, after its receipt was reserved.
Later(clock) == {clock, clock + 1} \cap Time

Init ==
  /\ source = [ledger |-> << >>, ideas |-> << >>, runs |-> << >>,
               adoptions |-> << >>, receipts |-> << >>]
  /\ tables = [clusters |-> NoRows, states |-> NoRows]
  /\ refused = {}

\* The elements of S, from the least to the greatest.
Ascending(S) ==
  [n \in 1..Cardinality(S) |-> CHOOSE i \in S : Cardinality({j \in S : j <= i}) = n]

-----------------------------------------------------------------------------
Event(s, type, subject, actor, at, data) ==
  [id |-> Len(s.ledger) + 1, type |-> type, subject |-> subject,
   actor |-> actor, at |-> at, cause |-> Len(s.receipts), data |-> data]
Receipt(scope, owner, request, created, completed, resource, response) ==
  [scope |-> scope, owner |-> owner, request |-> request,
   created |-> created, completed |-> completed,
   resource |-> resource, response |-> response]
Reserved(s, receipt) == [s EXCEPT !.receipts = Append(@, receipt)]
Appended(s, event) == [s EXCEPT !.ledger = Append(@, event)]

\* The events after position k go through the reducers, in order.
Projected(s, t, k) ==
  LET rows[n \in 0..Len(s.ledger) - k] ==
        IF n = 0 THEN t
        ELSE LET before == rows[n - 1]
             IN IF before = None THEN None ELSE Online(s, before, k + n)
  IN rows[Len(s.ledger) - k]

\* A command commits its rows, its events and what the reducers make of them.
Commit(rows) ==
  \E s \in {rows} :
    /\ Len(s.ledger) <= MaxEvents /\ Explored(s)
    /\ \E t \in {Projected(s, tables, Len(source.ledger))} :
         IF t = None
         THEN /\ refused' = refused \cup {"reducers"}
              /\ UNCHANGED <<source, tables>>
         ELSE /\ source' = s /\ tables' = t /\ UNCHANGED refused
Dies(component) ==
  /\ refused' = refused \cup {component}
  /\ UNCHANGED <<source, tables>>

Room == Len(source.receipts) < MaxReceipts /\ Len(source.ledger) < MaxEvents

IdeaIds == DOMAIN source.ideas
State(i) == tables.states[i]
ClusterRow(i) == tables.clusters[State(i).cluster]
Owner(i) == source.ideas[i].owner
-----------------------------------------------------------------------------
\* A run starts, freezes its snapshot, and keeps the time of its start.
StartRun(owner, snapshot, clock) ==
  /\ Len(source.runs) < MaxRuns
  /\ LET r == Reserved(source, Receipt("run", owner, snapshot, clock, None,
                                       Len(source.runs) + 1, None))
         s == [r EXCEPT !.runs = Append(@,
                 [owner |-> owner, snapshot |-> snapshot, at |-> clock,
                  receipt |-> Len(r.receipts), ended |-> None])]
     IN Explored(s) /\ source' = s
  /\ UNCHANGED <<tables, refused>>

\* load_clusters: every cluster with the ideas assigned to it, in the order of
\* their generated events, each checked against its rows.
GeneratedEvent(s, i) ==
  CHOOSE e \in ToSet(s.ledger) : e.type = "generated" /\ e.subject = i
MembersOf(s, t, c) == Ascending({i \in DOMAIN s.ideas : /\ i \in DOMAIN t.states
                                                     /\ t.states[i].cluster = c})
MemberSourceAgrees(s, t, i) ==
  LET e == GeneratedEvent(s, i)
      idea == s.ideas[i]
  IN /\ e.actor = idea.owner /\ e.at = e.data.after.signal
     /\ e.data.cluster = t.states[i].cluster /\ e.data.run = idea.run
     /\ e.data.mechanism = idea.mechanism /\ e.data.snapshot = idea.snapshot
     /\ e.data.duplicate = idea.duplicate /\ e.at = idea.at
LoadedClusters(s, t) ==
  [c \in DOMAIN t.clusters |->
    [state |-> t.clusters[c].state,
     members |-> [n \in DOMAIN MembersOf(s, t, c) |->
                   LET i == MembersOf(s, t, c)[n]
                   IN [idea |-> i, owner |-> s.ideas[i].owner,
                       mechanism |-> s.ideas[i].mechanism]],
     snapshots |-> {s.ideas[i].snapshot : i \in ToSet(MembersOf(s, t, c))}]]
ClustersLoad(s, t) ==
  /\ \A i \in DOMAIN t.states : MemberSourceAgrees(s, t, i)
  /\ \A c \in DOMAIN t.clusters : ClusterWellFormed(LoadedClusters(s, t)[c])

\* One idea that a run retained: its rows and its event.
Retained(s, t, r, mechanism) ==
  LET run == s.runs[r]
      plan == PlanOccurrence(run.owner, mechanism, run.snapshot, run.at,
                             LoadedClusters(s, t))
      i == Len(s.ideas) + 1
      added == [s EXCEPT !.ideas = Append(@,
                 [owner |-> run.owner, run |-> r, mechanism |-> mechanism,
                  snapshot |-> run.snapshot, duplicate |-> plan.duplicate,
                  at |-> run.at])]
  IN Appended(added,
       [Event(s, "generated", i, run.owner, run.at,
              [run |-> r, mechanism |-> mechanism, snapshot |-> run.snapshot,
               cluster |-> plan.cluster, duplicate |-> plan.duplicate,
               before |-> plan.before, after |-> plan.after])
          EXCEPT !.cause = run.receipt])

\* An idea is planned into the clusters as the ideas before it left them.
RetainNext(acc, r, mechanism) ==
  IF acc.failure # None THEN acc
  ELSE IF ~ClustersLoad(acc.source, acc.tables)
       THEN [acc EXCEPT !.failure = "clusters"]
  ELSE Given(Retained(acc.source, acc.tables, r, mechanism), LAMBDA s :
         Given(Online(s, acc.tables, Len(s.ledger)), LAMBDA t :
           IF t = None THEN [acc EXCEPT !.failure = "reducers"]
           ELSE [source |-> s, tables |-> t, failure |-> None]))

AllRetained(r, mechanisms) ==
  LET acc[n \in 0..Len(mechanisms)] ==
        IF n = 0 THEN [source |-> source, tables |-> tables, failure |-> None]
        ELSE LET before == acc[n - 1] IN RetainNext(before, r, mechanisms[n])
  IN acc[Len(mechanisms)]

\* The final transaction of a run: its ideas join their clusters one by one.
Finalize(r, mechanisms) ==
  /\ source.runs[r].ended = None
  /\ Len(source.ideas) + Len(mechanisms) <= MaxIdeas
  /\ Len(source.ledger) + Len(mechanisms) <= MaxEvents
  /\ \E done \in {AllRetained(r, mechanisms)} :
      IF done.failure # None THEN Dies(done.failure)
      ELSE \E s \in {[done.source EXCEPT
               !.runs[r].ended = Len(done.source.ledger),
               !.receipts[source.runs[r].receipt].completed = source.runs[r].at]} :
             /\ Explored(s) /\ source' = s /\ tables' = done.tables
             /\ UNCHANGED refused
-----------------------------------------------------------------------------
\* The latest of the times that a decision on the idea must not precede.
LatestIdeaCausalAt(i) ==
  Max({State(i).signal, source.ledger[State(i).event].at})
\* For an evaluation or an adoption, those of its cluster too.
LatestCausalAt(i) ==
  Max({LatestIdeaCausalAt(i), ClusterRow(i).state.signal,
       source.ledger[ClusterRow(i).event].at})

\* The owner evaluates; the time is the client's, not in the future.
LatestEvaluation(i) ==
  LET mine == {k \in DOMAIN source.ledger : /\ source.ledger[k].type = "evaluated"
                                            /\ source.ledger[k].subject = i}
      latest == source.ledger[Max(mine)].data
  IN IF mine = {} THEN NoEvaluation
     ELSE [revision |-> latest.revision, verdict |-> latest.current]

\* Mutant: an evaluation older than the latest signal is accepted.
EvaluableAnyTime(i, at, evidence) ==
  /\ State(i).decision \in {"active", "archived"}
  /\ evidence # None => \E e \in ToSet(source.ledger) :
       /\ e.type = "experience" /\ e.subject = evidence
       /\ e.data.owner = Owner(i)

Evaluable(i, at, evidence) ==
  /\ State(i).decision \in {"active", "archived"}
  /\ at >= LatestCausalAt(i)
  /\ evidence # None => \E e \in ToSet(source.ledger) :
       /\ e.type = "experience" /\ e.subject = evidence
       /\ e.data.version = 1 /\ e.data.owner = Owner(i) /\ e.at <= at

Evaluate(i, verdict, at, evidence, clock) ==
  LET previous == LatestEvaluation(i)
      before == ClusterRow(i).state
      after == PlanEvaluation(before, previous.verdict, verdict, at)
      revision == previous.revision + 1
      s == Reserved(source, Receipt("evaluate", Owner(i),
             [idea |-> i, verdict |-> verdict, evidence |-> evidence, at |-> at],
             clock, clock, i,
             [idea |-> i, maturity |-> after.maturity,
              decision |-> State(i).decision, revision |-> revision]))
  IN /\ at <= clock /\ Evaluable(i, at, evidence)
     /\ IF after = None THEN Dies("plan")
        ELSE Commit(Appended(s, Event(s, "evaluated", i, Owner(i), at,
               [cluster |-> State(i).cluster, revision |-> revision,
                previous |-> previous.verdict, current |-> verdict,
                evidence |-> evidence, decision |-> State(i).decision,
                before |-> Fields(before, EvaluationFields),
                after |-> Fields(after, EvaluationFields)])))

Decidable(i, decision) ==
  State(i).decision \in IF decision = "rejected"
                        THEN {"active", "archived"} ELSE {"active"}

\* The owner rejects or archives, at the server's time.
Decide(i, decision, clock, now) ==
  LET at == Max({clock, now})
      s == Reserved(source, Receipt(decision, Owner(i),
             [idea |-> i, reason |-> "owner"], clock, now, i,
             [idea |-> i, decision |-> decision]))
  IN /\ Decidable(i, decision) /\ at >= LatestIdeaCausalAt(i)
     /\ Commit(Appended(s, Event(s, decision, i, Owner(i), at,
          IF decision = "archived"
          THEN [reason |-> "owner", decision |-> State(i).decision, cycle |-> None]
          ELSE [reason |-> "owner", decision |-> State(i).decision])))
-----------------------------------------------------------------------------
\* Experiences, as far as adoption looks at them: the last event of each.
Experiences == {e.subject : e \in {f \in ToSet(source.ledger) :
                                     f.type = "experience"}}
Current(x) == ExperienceBefore(source, x, Len(source.ledger) + 1)
NextExperience == Cardinality(Experiences) + 1
CurrentEquivalent(owner, content) ==
  {x \in Experiences : /\ Current(x).data.owner = owner
                       /\ Current(x).data.content = content}

ExperienceEvent(s, x, owner, at, content, version, temperature) ==
  Event(s, "experience", x, owner, at,
        [owner |-> owner, content |-> content, version |-> version,
         temperature |-> temperature])

AlreadyAdopted(i) ==
  \E a \in ToSet(source.adoptions) :
    a.owner = Owner(i) /\ State(a.idea).cluster = State(i).cluster

AdoptionResponse(experience, created) ==
  [experience |-> experience.id, version |-> experience.version,
   content |-> experience.content, owner |-> experience.owner,
   temperature |-> experience.temperature, created |-> created]

\* The equivalent experience of the owner if it has one, or the new one.
AdoptedExperience(owner, content, importance) ==
  LET equivalent == CurrentEquivalent(owner, content)
  IN IF equivalent = {}
     THEN [id |-> NextExperience, owner |-> owner, content |-> content, version |-> 1,
           temperature |-> IF importance = "high" THEN "hot" ELSE "warm"]
     ELSE LET x == CHOOSE y \in equivalent : TRUE
          IN [id |-> x] @@ Current(x).data

\* The idea becomes an experience of its owner: an equivalent one that is not
\* archived, or a new one made by the same command.
AdoptAs(i, importance, x, created, clock, now) ==
  LET at == Max({clock, now})
      owner == Owner(i)
      before == ClusterRow(i).state
      adoption == Len(source.adoptions) + 1
      r == Reserved(source, Receipt("adopt", owner,
             [idea |-> i, importance |-> importance], clock, now, adoption,
             AdoptionResponse(x, created)))
      m == IF created
           THEN Appended(r, ExperienceEvent(r, x.id, owner, at, x.content,
                                            x.version, x.temperature))
           ELSE r
      s == [m EXCEPT !.adoptions = Append(@,
             [idea |-> i, owner |-> owner, run |-> source.ideas[i].run,
              snapshot |-> source.ideas[i].snapshot, experience |-> x.id,
              version |-> x.version, at |-> at])]
  IN /\ ~created => /\ x.temperature # "archived"   \* restore_required
                    /\ at >= Current(x.id).at
     /\ \E after \in {PlanAdoption(before, AlreadyAdopted(i), at)} :
          IF after = None THEN Dies("plan")
          ELSE Commit(Appended(s, Event(s, "adopted", i, owner, at,
                 [adoption |-> adoption, run |-> source.ideas[i].run,
                  snapshot |-> source.ideas[i].snapshot,
                  cluster |-> State(i).cluster, experience |-> x.id,
                  version |-> x.version, created |-> created,
                  importance |-> importance, decision |-> State(i).decision,
                  before |-> Fields(before, AdoptionFields),
                  after |-> Fields(after, AdoptionFields)])))
Adopt(i, importance, clock, now) ==
  /\ State(i).decision \in {"active", "archived"}
  /\ Max({clock, now}) >= LatestCausalAt(i)
  /\ \E x \in {AdoptedExperience(Owner(i), source.ideas[i].mechanism, importance)} :
       AdoptAs(i, importance, x, x.id \notin Experiences, clock, now)

\* The answer to an adoption, from the experience as it was at the time.
CanonicalResponse(e, k) ==
  AdoptionResponse([id |-> e.data.experience]
                     @@ ExperienceBefore(source, e.data.experience, k).data,
                   e.data.created)

\* Mutant: an adoption is repeated whatever its parameters.
AnyAdoption(e, importance) == TRUE

SameAdoption(e, importance) == importance = e.data.importance

\* An adopted idea is adopted again, with another key: the parameters must be
\* those of the first time, and so is the answer.
AdoptAgain(i, importance, clock, now) ==
  LET k == CHOOSE j \in DOMAIN source.ledger :
             source.ledger[j].type = "adopted" /\ source.ledger[j].subject = i
      e == source.ledger[k]
      first == source.receipts[e.cause]
      answer == CanonicalResponse(e, k)
      result == ExperienceBefore(source, e.data.experience, k)
  IN /\ State(i).decision = "adopted" /\ clock >= e.at
     /\ SameAdoption(e, importance)
     /\ IF /\ State(i).experience = e.data.experience
           /\ State(i).version = e.data.version
           /\ result.data.temperature # "archived"
           /\ result.data.version = e.data.version /\ result.at <= e.at
           /\ first.scope = "adopt" /\ first.resource = e.data.adoption
           /\ first.created <= e.at /\ e.at <= first.completed
           /\ first.response = answer
        THEN Commit(Reserved(source, Receipt("adopt", Owner(i),
               [idea |-> i, importance |-> importance], clock, now,
               e.data.adoption, first.response)))
        ELSE Dies("adoption")
-----------------------------------------------------------------------------
\* Active ideas without a signal for as long as their cluster is worth.
Due(at) == {i \in IdeaIds : /\ State(i).decision = "active"
                            /\ at >= DueAt(State(i), ClusterRow(i).state)}

\* The end of a lifecycle cycle archives every idea that is due, or fails.
\* A cycle without a time of its own takes that of its receipt.
ArchiveCycle(given, clock) ==
  LET at == IF given = None THEN clock ELSE given
      due == Ascending(Due(at))
      cycle == Len(source.receipts) + 1
      r == Reserved(source, Receipt("cycle", None, [at |-> given], clock, clock,
                                    cycle, [at |-> at, archived |-> Len(due)]))
      s == [r EXCEPT !.ledger = @ \o [n \in DOMAIN due |->
              [Event(r, "archived", due[n], None, at,
                     [reason |-> "policy", decision |-> "active", cycle |-> cycle])
                 EXCEPT !.id = Len(r.ledger) + n]]]
  IN /\ at <= clock /\ due # << >>
     /\ \A i \in Due(at) : at >= LatestIdeaCausalAt(i)
     /\ Commit(s)

\* The rest of the memory (ExperienceMemory), as far as it matters here: an
\* experience is written, archived, restored, or gets another version.
WriteExperience(owner, content, clock) ==
  LET s == Reserved(source, Receipt("create", owner, content, clock, clock, None, None))
  IN /\ CurrentEquivalent(owner, content) = {}
     /\ Commit(Appended(s, ExperienceEvent(s, NextExperience, owner, clock,
                                           content, 1, "warm")))
ChangeExperience(x, content, temperature, clock) ==
  LET before == Current(x).data
      revised == content # before.content
      s == Reserved(source, Receipt("change", before.owner, x, clock, clock, None, None))
  IN /\ clock >= Current(x).at
     /\ revised # (temperature # before.temperature)
     /\ before.temperature = "archived" => ~revised
     /\ revised => CurrentEquivalent(before.owner, content) = {}
     /\ Commit(Appended(s, ExperienceEvent(s, x, before.owner, clock, content,
          IF revised THEN before.version + 1 ELSE before.version, temperature)))
-----------------------------------------------------------------------------
Retainable == UNION {[1..n -> Mechanism] : n \in 1..MaxRetained}

Next ==
  \/ \E r \in DOMAIN source.runs, ms \in Retainable : Finalize(r, ms)
  \/ Room /\ \E a \in Agent, h \in Snapshot, clock \in Time : StartRun(a, h, clock)
  \/ Room /\ \E i \in IdeaIds, v \in Verdict, x \in {None} \cup Evidenced :
       \E at \in Time, clock \in Time : Evaluate(i, v, at, x, clock)
  \/ Room /\ \E i \in IdeaIds, d \in {"rejected", "archived"}, clock \in Time :
       \E now \in Later(clock) : Decide(i, d, clock, now)
  \/ Room /\ \E i \in IdeaIds, p \in Importance, clock \in Time :
       \E now \in Later(clock) : Adopt(i, p, clock, now)
  \/ Room /\ \E i \in IdeaIds, p \in Importance, clock \in Time :
       \E now \in Later(clock) : AdoptAgain(i, p, clock, now)
  \/ Room /\ \E given \in Time \cup {None}, clock \in Time : ArchiveCycle(given, clock)
  \/ Room /\ \E a \in Agent, c \in Mechanism, clock \in Time :
       WriteExperience(a, c, clock)
  \/ Room /\ \E x \in Experiences, c \in Mechanism, t \in {"warm", "archived"} :
       \E clock \in Time : ChangeExperience(x, c, t, clock)

Spec == Init /\ [][Next]_vars
-----------------------------------------------------------------------------
(* Properties *)

\* Every payload in the ledger has the shape its type demands.
PayloadsWellFormed ==
  \A e \in ToSet(source.ledger) :
    /\ e.type = "generated" => OccurrenceWellFormed(e.data.mechanism, e.data)
    /\ e.type = "evaluated" => EvaluationWellFormed(e.data)
    /\ e.type = "adopted" => AdoptionWellFormed(e.data)
    /\ e.type = "rejected" => RejectionWellFormed(e.data)
    /\ e.type = "archived" => ArchiveWellFormed(e.data)

\* The types of the variables, with the payloads of all events.
TypeOK ==
  /\ \A i \in IdeaIds : /\ source.ideas[i].owner \in Agent
                        /\ source.ideas[i].mechanism \in Mechanism
                        /\ State(i).decision \in Decision
                        /\ State(i).signal \in Time
  /\ DOMAIN tables.states = IdeaIds
  /\ PayloadsWellFormed
  /\ refused \subseteq {"clusters", "reducers", "plan", "adoption"}

\* No command dies of what an earlier one left behind, except a run that can
\* not load the clusters (see ClustersAlwaysLoad): whatever the order of runs,
\* verdicts, decisions, archives and changes to the experiences, the planner
\* finds the counters it expects, the reducers accept what the commands append,
\* and a repeated adoption finds its first answer.
NothingElseRefused == refused \subseteq {"clusters"}

\* A rebuild from the ledger, which plans every assignment again and sees the
\* final clusters when it replays the ideas, refuses nothing and gives the
\* tables that the commands kept.
RebuildReproduces == Rebuild(source) = tables

\* The validator accepts the sources of every reachable state, so a repair is
\* never turned away: each idea agrees with its event, its run and its time,
\* and the histories replay.  The exception is an idea of a run that finished
\* after a later signal (ClustersAlwaysLoad): its event lies before its signal.
FoundLate(i) ==
  \E e \in ToSet(source.ledger) :
    e.type = "generated" /\ e.subject = i /\ e.data.after.signal > e.at
SourcesValid ==
  /\ IdeaHistoriesValid(source)
  /\ \A i \in IdeaIds : FoundLate(i) \/ IdeaSourceAgrees(source, i)

\* The counters of a cluster are what its ideas amount to, counted afresh:
\* ideas, snapshots, owners who adopted, ideas whose last verdict supports or
\* refutes; its last signal is the latest of its ideas' events.
CountersRecounted ==
  \A c \in DOMAIN tables.clusters :
    LET row == tables.clusters[c].state
        mine == {i \in IdeaIds : State(i).cluster = c}
        Judged(v) == {i \in mine : LatestEvaluation(i).verdict = v}
    IN /\ row.occurrences = Cardinality(mine)
       /\ row.snapshots = Cardinality({source.ideas[i].snapshot : i \in mine})
       /\ row.adopters = Cardinality({Owner(i) : i \in
                           {j \in mine : State(j).decision = "adopted"}})
       /\ row.supported = Cardinality(Judged("supported"))
       /\ row.refuted = Cardinality(Judged("refuted"))
       /\ row.signal = Max({e.at : e \in {f \in ToSet(source.ledger) :
             f.type \in {"generated", "evaluated", "adopted"} /\ f.subject \in mine}})
       /\ ToSet(row.members) = {source.ideas[i].mechanism : i \in mine}

\* tests/unit/test_mechanism_incubation.py:327 expects a run that finishes out
\* of order to be an ordinary recurrence; here the next run must still be able
\* to load the clusters, even if the clock is never set back.
ClustersAlwaysLoad ==
  (\A m, n \in DOMAIN source.receipts :
     m < n => source.receipts[m].created <= source.receipts[n].created)
    => "clusters" \notin refused
=============================================================================
