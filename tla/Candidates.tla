----------------------------- MODULE Candidates -----------------------------
(***************************************************************************)
(* Candidates for experiences, extracted from captured trajectories: what  *)
(* a capture writes (capture/extraction.py, capture/service.py), the view  *)
(* that authenticates a candidate before it is decided                     *)
(* (experiences/candidate_service.py), the reducer of their decisions      *)
(* (experiences/candidate_projector.py) and the validator of the rows and  *)
(* events behind them (capture/validation.py).                             *)
(*                                                                         *)
(* A trajectory stands for its manifest and the hash of it; a signal is    *)
(* [content, evidence], its evidence the pointers into the steps, ordered  *)
(* as the steps and their fields are.  Rows of a source:                   *)
(*   bundles     [owner, trajectory, at]                                   *)
(*   evidence    [bundle, owner, pointer]                                  *)
(*   candidates  [bundle, owner, ordinal, content, evidence, at]           *)
(*   adoptions   [candidate, owner, result, content, created, at], where   *)
(*               result is [experience, version]                           *)
(***************************************************************************)
EXTENDS ImportSources

CONSTANTS Trajectory,
          OwnerOf,       \* the owner that a trajectory names
          Signals,       \* the candidate signals in the steps of a trajectory
          MaxEvidence    \* MAX_CAPTURE_EVIDENCE_ITEMS

Kept(signal) ==
  LET pointers == SetToSortSeq(signal.evidence, <)
  IN SubSeq(pointers, 1, Min({MaxEvidence, Len(pointers)}))

\* A content holds its evidence, as references into the manifest.
ASSUME SignalsAssumption ==
  /\ MaxEvidence \in Nat
  /\ \A m \in Trajectory : Len(Signals[m]) \in Nat
  /\ \A m, n \in Trajectory : \A g \in ToSet(Signals[m]), h \in ToSet(Signals[n]) :
       g.content = h.content => /\ Kept(g) = Kept(h)
                                /\ g.evidence # {} => m = n

-----------------------------------------------------------------------------
(* Capture *)

\* One draft per content, in the order of the steps.
Extracted(trajectory) ==
  LET signals == Signals[trajectory]
      drafts[n \in 0..Len(signals)] ==
        IF n = 0 THEN << >>
        ELSE LET found == drafts[n - 1]
             IN IF \E d \in ToSet(found) : d.content = signals[n].content THEN found
                ELSE Append(found, [content |-> signals[n].content,
                                    evidence |-> Kept(signals[n])])
  IN drafts[Len(signals)]

\* A pointer that several drafts share is stored once, where it comes first.
UniqueEvidence(drafts) ==
  FoldLeft(LAMBDA kept, p : IF p \in ToSet(kept) THEN kept ELSE Append(kept, p),
           << >>, FlattenSeq([n \in DOMAIN drafts |-> drafts[n].evidence]))

\* The rows and events of a capture.
Captured(s, trajectory, at) ==
  LET owner == OwnerOf[trajectory]
      bundle == Len(s.bundles) + 1
      drafts == Extracted(trajectory)
      pointers == UniqueEvidence(drafts)
      id == [p \in ToSet(pointers) |->
               Len(s.evidence) + CHOOSE n \in DOMAIN pointers : pointers[n] = p]
      refs(n) == [k \in DOMAIN drafts[n].evidence |-> id[drafts[n].evidence[k]]]
      first == Len(s.candidates)
      rows == [s EXCEPT
        !.bundles = Append(@, [owner |-> owner, trajectory |-> trajectory, at |-> at]),
        !.evidence = @ \o [n \in DOMAIN pointers |->
          [bundle |-> bundle, owner |-> owner, pointer |-> pointers[n]]],
        !.candidates = @ \o [n \in DOMAIN drafts |->
          [bundle |-> bundle, owner |-> owner, ordinal |-> n,
           content |-> drafts[n].content, evidence |-> refs(n), at |-> at]]]
      captured == Appended(rows, "trajectory_captured", "bundle", bundle, owner, at,
        [owner |-> owner, trajectory |-> trajectory,
         evidence |-> [n \in DOMAIN pointers |-> Len(s.evidence) + n],
         candidates |-> [n \in DOMAIN drafts |-> first + n]])
  IN [captured EXCEPT !.ledger = @ \o [n \in DOMAIN drafts |->
        NextEvent(captured, n, "candidate_created", "candidate", first + n, owner, at,
          [candidate |-> first + n, bundle |-> bundle, owner |-> owner,
           content |-> drafts[n].content, evidence |-> refs(n)])]]

CandidatesOf(s, bundle) ==
  SelectSeq([c \in DOMAIN s.candidates |-> c], LAMBDA c : s.candidates[c].bundle = bundle)

CaptureAnswer(s, bundle) ==
  [bundle |-> bundle, owner |-> s.bundles[bundle].owner,
   trajectory |-> s.bundles[bundle].trajectory,
   candidates |-> CandidatesOf(s, bundle), at |-> s.bundles[bundle].at]

-----------------------------------------------------------------------------
(* Reading a candidate *)

\* The pointers behind rows of evidence, each of them the owner's, of this
\* bundle, and a step of its manifest.
EvidenceAuthentic(s, bundle, ids) ==
  /\ Cardinality(ToSet(ids)) = Len(ids) /\ ToSet(ids) \subseteq DOMAIN s.evidence
  /\ \A n \in ToSet(ids) :
       /\ s.evidence[n].bundle = bundle /\ s.evidence[n].owner = s.bundles[bundle].owner
       /\ \E g \in ToSet(Signals[s.bundles[bundle].trajectory]) :
            s.evidence[n].pointer \in g.evidence
Reconstructed(s, ids) == [n \in DOMAIN ids |-> s.evidence[ids[n]].pointer]

\* The evidence that a content of a trajectory holds.
EvidenceIn(trajectory, content) ==
  Kept(CHOOSE g \in ToSet(Signals[trajectory]) : g.content = content)

\* The content is canonical, and the stored evidence is the one it holds.
LineageSound(s, c) ==
  LET row == s.candidates[c]
      bundle == s.bundles[row.bundle]
  IN /\ bundle.owner = row.owner /\ EvidenceAuthentic(s, row.bundle, row.evidence)
     /\ \E g \in ToSet(Signals[bundle.trajectory]) : g.content = row.content
     /\ Reconstructed(s, row.evidence) = EvidenceIn(bundle.trajectory, row.content)

\* The fields of a decision that its kind demands, and no other.
DecisionShaped(row) ==
  /\ (row.adoption # None) = (row.decision = "adopted")
  /\ (row.result # None) = (row.decision = "adopted")
  /\ (row.reason # None) = (row.decision = "rejected")
  /\ (row.decided = None) = (row.decision = "pending")

CandidateView(s, c, decision, result, reason, decided) ==
  LET row == s.candidates[c]
  IN [candidate |-> c, bundle |-> row.bundle, owner |-> row.owner,
      content |-> row.content, evidence |-> Reconstructed(s, row.evidence),
      created |-> row.at, decision |-> decision, result |-> result,
      reason |-> reason, decided |-> decided]

\* The answer to a decision: the view of the projected row, or None.
Viewed(s, row, c) ==
  IF LineageSound(s, c) /\ DecisionShaped(row)
  THEN CandidateView(s, c, row.decision, row.result, row.reason, row.decided)
  ELSE None
-----------------------------------------------------------------------------
(* The reducer.  It keeps [owner, decision, adoption, result, reason,      *)
(* decided, event] of a candidate; None for the rows stands for a refusal. *)

\* A receipt in progress has no answer yet.
AnswerMatches(receipt, status, answer) ==
  InProgress(receipt) \/ (receipt.status = status /\ receipt.answer = answer)

\* Mutant: the answer to an adoption is rebuilt from the experience as it is now.
ExpectedDecisionNow(s, e) ==
  IF e.type = "candidate_adopted"
  THEN CandidateView(s, e.subject, "adopted",
         [e.data.result EXCEPT !.version = Current(s, e.data.result.experience).version],
         None, e.at)
  ELSE CandidateView(s, e.subject, "rejected", None, e.data.reason, e.at)

ExpectedDecision(s, e) ==
  IF e.type = "candidate_adopted"
  THEN CandidateView(s, e.subject, "adopted", e.data.result, None, e.at)
  ELSE CandidateView(s, e.subject, "rejected", None, e.data.reason, e.at)

CreatedAgrees(s, rows, e) ==
  /\ e.subject = e.data.candidate /\ e.sequence = 1 /\ e.actor = e.data.owner
  /\ e.subject \in DOMAIN s.candidates
  /\ LET row == s.candidates[e.subject]
     IN /\ row.bundle = e.data.bundle /\ row.owner = e.data.owner
        /\ row.content = e.data.content /\ row.at = e.at
        /\ row.evidence = e.data.evidence
        /\ ReceiptAnchors(s, e, row.owner, "capture", Resource("bundle", row.bundle))
        /\ row.ordinal = 1 =>
             AnswerMatches(s.receipts[e.cause], 201, CaptureAnswer(s, row.bundle))
  /\ e.subject \notin DOMAIN rows

\* Mutant: a candidate is dated as decided when it is created.
CreatedRowDated(e) ==
  [owner |-> e.data.owner, decision |-> "pending", adoption |-> None,
   result |-> None, reason |-> None, decided |-> e.at, event |-> e.id]

CreatedRow(e) ==
  [owner |-> e.data.owner, decision |-> "pending", adoption |-> None,
   result |-> None, reason |-> None, decided |-> None, event |-> e.id]

\* A decision follows the creation of its candidate, which is still pending.
RequirePending(s, rows, e) ==
  /\ e.subject = e.data.candidate /\ e.sequence = 2 /\ e.actor = e.data.owner
  /\ e.subject \in DOMAIN rows
  /\ LET creations == {f \in ToSet(s.ledger) : /\ f.type = "candidate_created"
                                               /\ f.subject = e.subject
                                               /\ f.sequence = 1}
         row == rows[e.subject]
     IN /\ Cardinality(creations) = 1 /\ \A f \in creations : f.data.owner = e.data.owner
        /\ row.owner = e.data.owner /\ row.decision = "pending"
        /\ \A f \in creations : row.event = f.id

AdoptionAgrees(s, rows, e) ==
  /\ RequirePending(s, rows, e)
  /\ e.data.adoption \in DOMAIN s.adoptions
  /\ LET adoption == s.adoptions[e.data.adoption]
     IN /\ adoption.candidate = e.subject /\ adoption.owner = e.data.owner
        /\ adoption.result = e.data.result /\ adoption.content = e.data.content
        /\ adoption.created = e.data.created /\ adoption.at = e.at
  /\ ReceiptAnchors(s, e, e.data.owner, "candidate.adopt",
                    Resource("candidate_adoption", e.data.adoption))
  /\ AnswerMatches(s.receipts[e.cause], 200, ExpectedDecision(s, e))

RejectionAgrees(s, rows, e) ==
  /\ RequirePending(s, rows, e)
  /\ ReceiptAnchors(s, e, e.data.owner, "candidate.reject",
                    Resource("candidate", e.subject))
  /\ AnswerMatches(s.receipts[e.cause], 200, ExpectedDecision(s, e))

\* Mutant: a decision is written to whatever its owner has pending.
AllPending(rows, e) ==
  {c \in DOMAIN rows : rows[c].owner = e.data.owner /\ rows[c].decision = "pending"}

\* The rows that the update of a decision matches.
Matching(rows, e) ==
  {c \in DOMAIN rows : /\ c = e.subject /\ rows[c].owner = e.data.owner
                       /\ rows[c].decision = "pending"}
DecidedRows(rows, e, row) ==
  [c \in DOMAIN rows |-> IF c \in Matching(rows, e)
                         THEN [row EXCEPT !.decided = e.at, !.event = e.id] ELSE rows[c]]

ApplyToCandidates(s, rows, e) ==
  CASE e.type = "candidate_created" ->
         IF CreatedAgrees(s, rows, e) THEN WithRow(rows, e.subject, CreatedRow(e)) ELSE None
    [] e.type = "candidate_adopted" ->
         IF AdoptionAgrees(s, rows, e)
         THEN DecidedRows(rows, e, [rows[e.subject] EXCEPT !.decision = "adopted",
                !.adoption = e.data.adoption, !.result = e.data.result])
         ELSE None
    [] e.type = "candidate_rejected" ->
         IF RejectionAgrees(s, rows, e)
         THEN DecidedRows(rows, e, [rows[e.subject] EXCEPT !.decision = "rejected",
                !.reason = e.data.reason])
         ELSE None
    [] OTHER -> rows
-----------------------------------------------------------------------------
(* The validator of the source *)

\* The completed receipt that an event names, with exactly this answer.
CaptureReceipt(s, e, owner, scope, resource, status, answer) ==
  LET receipt == s.receipts[e.cause]
  IN /\ receipt.owner = owner /\ receipt.scope = scope /\ receipt.resource = resource
     /\ receipt.completed # None /\ receipt.created = e.at /\ receipt.completed >= e.at
     /\ receipt.status = status /\ receipt.answer = answer

EventsOf(s, kind, subject) ==
  SelectSeq(s.ledger, LAMBDA e : e.kind = kind /\ e.subject = subject)

\* The one event of a bundle: with all its evidence and candidates, in the
\* order in which the candidates refer to them, followed by their creations
\* and by nothing else of the same command.
BundleSound(s, b) ==
  LET bundle == s.bundles[b]
      candidates == CandidatesOf(s, b)
      stored == {n \in DOMAIN s.evidence : s.evidence[n].bundle = b}
      ordered == UniqueEvidence([n \in DOMAIN candidates |-> s.candidates[candidates[n]]])
      events == EventsOf(s, "bundle", b)
  IN /\ Len(events) = 1 /\ ToSet(ordered) = stored
     /\ EvidenceAuthentic(s, b, SetToSortSeq(stored, <))
     /\ LET e == events[1]
        IN /\ e.sequence = 1 /\ e.actor = bundle.owner /\ e.at = bundle.at
           /\ e.data.owner = bundle.owner /\ e.data.trajectory = bundle.trajectory
           /\ e.data.evidence = ordered /\ e.data.candidates = candidates
           /\ CaptureReceipt(s, e, bundle.owner, "capture", Resource("bundle", b), 201,
                             CaptureAnswer(s, b))
           /\ CausedBy(s, e.cause) =
                <<e>> \o [n \in DOMAIN candidates |->
                            EventsOf(s, "candidate", candidates[n])[1]]
           /\ \A n \in DOMAIN candidates :
                EventsOf(s, "candidate", candidates[n])[1].type = "candidate_created"

CandidateCreationSound(s, c) ==
  LET row == s.candidates[c]
      e == EventsOf(s, "candidate", c)[1]
  IN /\ LineageSound(s, c) /\ row.at = s.bundles[row.bundle].at
     /\ CandidatesOf(s, row.bundle)[row.ordinal] = c
     /\ e.sequence = 1 /\ e.actor = row.owner /\ e.at = row.at
     /\ e.cause = EventsOf(s, "bundle", row.bundle)[1].cause
     /\ e.data = [candidate |-> c, bundle |-> row.bundle, owner |-> row.owner,
                  content |-> row.content, evidence |-> row.evidence]

\* What an adoption row says of the experience it names: a new one was made
\* at that moment, with that origin; another one is not younger.
AdoptedTargetSound(s, adoption, content) ==
  LET x == s.experiences[adoption.result.experience]
      version == x.versions[adoption.result.version]
  IN /\ x.owner = adoption.owner /\ version.content = content
     /\ IF adoption.created
        THEN /\ x.origin = "adopted_candidate" /\ x.at = adoption.at
             /\ version.at = adoption.at /\ adoption.result.version = 1
        ELSE x.at <= adoption.at /\ version.at <= adoption.at

\* The events of the command that adopted: the two of the new experience and
\* the adoption, or the adoption alone.
AdoptionCausation(s, adoption, e) ==
  LET causal == CausedBy(s, e.cause)
      experience == adoption.result.experience
  IN /\ Last(causal) = e
     /\ IF ~adoption.created THEN TypesOf(causal) = <<e.type>>
        ELSE /\ TypesOf(causal) = <<"experience_created", "version_created", e.type>>
             /\ \A n \in 1..2 :
                  /\ causal[n].kind = "experience" /\ causal[n].subject = experience
                  /\ causal[n].sequence = n /\ causal[n].actor = adoption.owner
                  /\ causal[n].at = e.at
             /\ causal[1].data.after.owner = adoption.owner
             /\ causal[1].data.after.content = adoption.content
             /\ causal[1].data.after.version = adoption.result.version
             /\ causal[2].data = [number |-> 1, before |-> causal[1].data.after,
                                  after |-> causal[1].data.after]

CandidateAdoptionSound(s, c, e, adoptions) ==
  \E n \in adoptions :
    LET adoption == s.adoptions[n]
    IN /\ adoptions = {n} /\ adoption.owner = s.candidates[c].owner
       /\ adoption.content = s.candidates[c].content /\ adoption.at = e.at
       /\ e.data = [candidate |-> c, owner |-> adoption.owner, adoption |-> n,
                    result |-> adoption.result, content |-> adoption.content,
                    created |-> adoption.created]
       /\ AdoptedTargetSound(s, adoption, s.candidates[c].content)
       /\ AdoptionCausation(s, adoption, e)
       /\ CaptureReceipt(s, e, adoption.owner, "candidate.adopt",
            Resource("candidate_adoption", n), 200, ExpectedDecision(s, e))

\* At most one decision, after the creation, with the rows it needs.
CandidateDecisionSound(s, c) ==
  LET events == EventsOf(s, "candidate", c)
      adoptions == {n \in DOMAIN s.adoptions : s.adoptions[n].candidate = c}
  IN IF Len(events) = 1 THEN adoptions = {}
     ELSE /\ Len(events) = 2
          /\ LET e == events[2]
             IN /\ e.sequence = 2 /\ e.actor = s.candidates[c].owner
                /\ e.data.owner = s.candidates[c].owner
                /\ \/ /\ e.type = "candidate_adopted"
                      /\ CandidateAdoptionSound(s, c, e, adoptions)
                   \/ /\ e.type = "candidate_rejected" /\ adoptions = {}
                      /\ CausedBy(s, e.cause) = <<e>>
                      /\ CaptureReceipt(s, e, s.candidates[c].owner, "candidate.reject",
                           Resource("candidate", c), 200, ExpectedDecision(s, e))

CaptureGraphSound(s) ==
  /\ \A b \in DOMAIN s.bundles : BundleSound(s, b)
  /\ \A c \in DOMAIN s.candidates : CandidateCreationSound(s, c)
                                    /\ CandidateDecisionSound(s, c)
  /\ \A e \in ToSet(s.ledger) :
       /\ e.kind = "bundle" => e.subject \in DOMAIN s.bundles
       /\ e.kind = "candidate" => e.subject \in DOMAIN s.candidates
  /\ \A n \in DOMAIN s.evidence : s.evidence[n].bundle \in DOMAIN s.bundles
=============================================================================
