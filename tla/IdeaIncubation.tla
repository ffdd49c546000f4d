--------------------------- MODULE IdeaIncubation ---------------------------
(***************************************************************************)
(* The pure planner of mechanism clusters (inspiration/incubation.py) and  *)
(* the shape its transitions must have in the payloads of idea events      *)
(* (inspiration/events.py).                                                *)
(*                                                                         *)
(* A mechanism stands for its normalised text and for the hash of that     *)
(* text; a cluster is named by its canonical mechanism, the first one that *)
(* entered it.  Trigram similarity is a table over mechanisms.             *)
(***************************************************************************)
EXTENDS Integers, Sequences, FiniteSets, FiniteSetsExt, SequencesExt

CONSTANTS Mechanism,      \* mechanism hashes, which are ordered
          Similarity,     \* [Mechanism \X Mechanism -> mechanism_similarity]
          NearDuplicate,  \* NEAR_DUPLICATE_THRESHOLD
          None            \* Python's None

ASSUME MechanismAssumption == Mechanism \subseteq Nat /\ None \notin Mechanism
\* Similarity is symmetric, and mechanisms that are fully similar (equal ones,
\* or texts with the same trigrams) resemble every other mechanism alike.
ASSUME SimilarityAssumption ==
  /\ Similarity \in [Mechanism \X Mechanism -> Nat] /\ NearDuplicate \in Nat
  /\ \A m, n \in Mechanism :
       /\ Similarity[m, n] = Similarity[n, m]
       /\ Similarity[m, m] >= Similarity[m, n]
       /\ Similarity[m, m] >= NearDuplicate
       /\ Similarity[m, n] = Similarity[m, m] =>
            \A o \in Mechanism : Similarity[m, o] = Similarity[n, o]

\* F(v), where v is computed once.
Given(v, F(_)) == CHOOSE y \in {F(x) : x \in {v}} : TRUE

Never == 0     \* no time: the clock of the models starts at 1

Grade == {"speculative", "incubating", "candidate"}
Verdict == {"supported", "refuted", "inconclusive"}
\* The state of a cluster, with the mechanisms in the order they entered it.
ClusterState ==
  [members : Seq(Mechanism), occurrences : Nat, snapshots : Nat, adopters : Nat,
   supported : Nat, refuted : Nat, maturity : Grade, since : Nat, signal : Nat]

ASSUME NoneAssumption == None \notin Verdict \cup ClusterState

Maturity(snapshots, adopters, supported, refuted) ==
  IF (supported >= 1 /\ refuted = 0) \/ adopters >= 2 THEN "candidate"
  ELSE IF snapshots >= 2 THEN "incubating" ELSE "speculative"

MaturityOf(c) == Maturity(c.snapshots, c.adopters, c.supported, c.refuted)

\* What MechanismIncubation and IncubationCluster demand of a cluster and of
\* the members it was loaded with, in the order they were generated.
ClusterWellFormed(loaded) ==
  LET c == loaded.state
      hashes == [i \in DOMAIN loaded.members |-> loaded.members[i].mechanism]
      first == {i \in DOMAIN hashes : \A j \in 1..i-1 : hashes[j] # hashes[i]}
  IN /\ hashes # << >>
     /\ c.members = [i \in 1..Cardinality(first) |->
                       hashes[CHOOSE k \in first :
                                Cardinality({l \in first : l <= k}) = i]]
     /\ c.occurrences = Len(hashes)
     /\ c.snapshots = Cardinality(loaded.snapshots)
     /\ c.snapshots <= c.occurrences /\ c.adopters <= c.occurrences
     /\ Cardinality({m.idea : m \in ToSet(loaded.members)}) = Len(hashes)
     /\ c.maturity = MaturityOf(c)
     /\ (c.maturity = "candidate") = (c.since # Never)
     /\ c.since <= c.signal
-----------------------------------------------------------------------------
\* Mutant: every signal restarts the time a mechanism became a candidate.
RegradedAnew(c, at) ==
  LET grade == MaturityOf(c)
  IN [c EXCEPT !.maturity = grade, !.signal = at,
               !.since = IF grade = "candidate" THEN at ELSE Never]

\* A cluster whose counters have changed, graded again at the time of the
\* signal: a candidate remains one since it became one.
Regraded(c, at) ==
  LET grade == MaturityOf(c)
  IN [c EXCEPT !.maturity = grade, !.signal = at,
               !.since = CASE grade # "candidate" -> Never
                           [] grade = "candidate" /\ c.maturity = grade -> @
                           [] OTHER -> at]

NewCluster(mechanism, at) ==
  [members |-> <<mechanism>>, occurrences |-> 1, snapshots |-> 1,
   adopters |-> 0, supported |-> 0, refuted |-> 0,
   maturity |-> "speculative", since |-> Never, signal |-> at]

\* Mutant: every occurrence counts as a new snapshot.
RecurrenceOfAnySnapshot(loaded, mechanism, snapshot, at) ==
  LET c == loaded.state
  IN Regraded([c EXCEPT
       !.members = IF mechanism \in ToSet(@) THEN @ ELSE Append(@, mechanism),
       !.occurrences = @ + 1, !.snapshots = @ + 1],
       Max({c.signal, at}))

\* A mechanism found again: a run that ends out of order does not move the
\* signal back.
Recurrence(loaded, mechanism, snapshot, at) ==
  LET c == loaded.state
  IN Regraded([c EXCEPT
       !.members = IF mechanism \in ToSet(@) THEN @ ELSE Append(@, mechanism),
       !.occurrences = @ + 1,
       !.snapshots = IF snapshot \in loaded.snapshots THEN @ ELSE @ + 1],
       Max({c.signal, at}))

Likeness(mechanism, loaded) ==
  Max({Similarity[mechanism, m.mechanism] : m \in ToSet(loaded.members)})

\* The clusters that qualify, and the one that takes the idea: the most
\* similar one, and of several the one with the smallest name.
Eligible(mechanism, clusters) ==
  {c \in DOMAIN clusters : Likeness(mechanism, clusters[c]) >= NearDuplicate}
Assigned(mechanism, clusters) ==
  LET eligible == Eligible(mechanism, clusters)
      best == Max({Likeness(mechanism, clusters[c]) : c \in eligible})
  IN Min({c \in eligible : Likeness(mechanism, clusters[c]) = best})

\* The owner's earliest idea in the cluster.
DuplicateRelation(owner, loaded) ==
  LET mine == SelectSeq(loaded.members, LAMBDA m : m.owner = owner)
  IN IF mine = << >> THEN None ELSE mine[1].idea

PlannableClusters(clusters) ==
  \A c, d \in DOMAIN clusters : c # d =>
    ToSet(clusters[c].state.members) \cap ToSet(clusters[d].state.members) = {}

PlanOccurrence(owner, mechanism, snapshot, at, clusters) ==
  IF ~PlannableClusters(clusters) THEN None
  ELSE IF Eligible(mechanism, clusters) = {}
  THEN [cluster |-> mechanism, duplicate |-> None,
        before |-> None, after |-> NewCluster(mechanism, at)]
  ELSE LET chosen == Assigned(mechanism, clusters)
       IN [cluster |-> chosen,
           duplicate |-> DuplicateRelation(owner, clusters[chosen]),
           before |-> clusters[chosen].state,
           after |-> Recurrence(clusters[chosen], mechanism, snapshot, at)]

Contribution(verdict, counted) == IF verdict = counted THEN 1 ELSE 0

\* One evaluator's revised verdict replaces the one before it.
PlanEvaluation(c, previous, current, at) ==
  LET supported == c.supported - Contribution(previous, "supported")
                     + Contribution(current, "supported")
      refuted == c.refuted - Contribution(previous, "refuted")
                     + Contribution(current, "refuted")
  IN IF at < c.signal \/ c.maturity # MaturityOf(c)
          \/ supported < 0 \/ refuted < 0
     THEN None
     ELSE Regraded([c EXCEPT !.supported = supported, !.refuted = refuted], at)

PlanAdoption(c, ownerAlreadyAdopted, at) ==
  LET adopters == c.adopters + (IF ownerAlreadyAdopted THEN 0 ELSE 1)
  IN IF at < c.signal \/ c.maturity # MaturityOf(c)
          \/ adopters > c.occurrences
     THEN None
     ELSE Regraded([c EXCEPT !.adopters = adopters], at)
-----------------------------------------------------------------------------
\* The fields of a cluster that the payloads of evaluations and adoptions
\* carry before and after.
Fields(c, names) == [f \in names |-> c[f]]
EvaluationFields == {"supported", "refuted", "maturity", "since", "signal"}
AdoptionFields == {"adopters", "maturity", "since", "signal"}

\* A candidate has a time it became one, no later than the last signal.
GradeWellFormed(s) ==
  /\ (s.maturity = "candidate") = (s.since # Never)
  /\ s.since <= s.signal

\* _validate_maturity_transition, and the same text in the transitions.
MaturityTransitionWellFormed(before, after) ==
  /\ GradeWellFormed(before) /\ GradeWellFormed(after)
  /\ after.signal >= before.signal
  /\ after.maturity = "candidate" =>
       after.since = IF before.maturity = "candidate"
                     THEN before.since ELSE after.signal

OccurrenceWellFormed(mechanism, payload) ==
  LET after == payload.after
      before == payload.before
  IN /\ mechanism \in ToSet(after.members)
     /\ after.members[1] = payload.cluster
     /\ 1 <= after.snapshots /\ after.snapshots <= after.occurrences
     /\ after.adopters <= after.occurrences
     /\ Len(after.members) <= after.occurrences
     /\ after.maturity = MaturityOf(after) /\ GradeWellFormed(after)
     /\ IF before = None
        THEN after = NewCluster(mechanism, after.signal)
        ELSE /\ after.occurrences = before.occurrences + 1
             /\ after.snapshots - before.snapshots \in {0, 1}
             /\ Fields(before, {"adopters", "supported", "refuted"})
                  = Fields(after, {"adopters", "supported", "refuted"})
             /\ IsPrefix(before.members, after.members)
             /\ Len(after.members) - Len(before.members) \in {0, 1}
             /\ before.maturity = MaturityOf(before) /\ GradeWellFormed(before)
             /\ after.signal >= before.signal
             /\ before.maturity = "candidate" => after.since = before.since

\* A revised verdict moves one count down and one up, and a candidate stays
\* one since it became one.
EvaluationTransitionWellFormed(before, after, previous, current) ==
  LET Counted(kind) ==
        /\ after[kind] = before[kind] - Contribution(previous, kind)
                          + Contribution(current, kind)
        /\ after[kind] >= 0
  IN Counted("supported") /\ Counted("refuted") /\ MaturityTransitionWellFormed(before, after)

AdoptionTransitionWellFormed(before, after) ==
  /\ after.adopters - before.adopters \in {0, 1}
  /\ MaturityTransitionWellFormed(before, after)

EvaluationWellFormed(payload) ==
  /\ (payload.revision = 1) = (payload.previous = None)
  /\ payload.decision \in {"active", "archived"}
  /\ EvaluationTransitionWellFormed(payload.before, payload.after,
                                    payload.previous, payload.current)

AdoptionWellFormed(payload) ==
  /\ payload.decision \in {"active", "archived"}
  /\ AdoptionTransitionWellFormed(payload.before, payload.after)

RejectionWellFormed(payload) == payload.decision \in {"active", "archived"}

ArchiveWellFormed(payload) ==
  /\ payload.decision = "active"
  /\ payload.cycle # None => payload.reason = "policy"
=============================================================================
