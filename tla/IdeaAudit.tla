----------------------------- MODULE IdeaAudit ------------------------------
(***************************************************************************)
(* The validator of the idea sources (storage/validation.py), which a      *)
(* repair or a verification of the ledger runs before it trusts it.  It    *)
(* follows the histories of all ideas with a state of its own, plans every *)
(* transition again and compares events, rows and receipts; it knows       *)
(* nothing of the reducers or their tables.  The operand source is as in   *)
(* IdeaReducers.                                                           *)
(***************************************************************************)
EXTENDS IdeaReducers

\* What the validator keeps: clusters with their members, ideas, the owners
\* who adopted of a cluster, the adoptions and policy archives seen.
AuditStart ==
  [ok |-> TRUE, clusters |-> NoRows, ideas |-> NoRows, owners |-> NoRows,
   adoptions |-> {}, archived |-> NoRows]

\* _require_idea_receipt: the completed receipt of the command, which encloses
\* the event unless the time was the client's.
RequireIdeaReceipt(source, e, scope, request, resource, response, clientTime) ==
  LET r == source.receipts[e.cause]
  IN /\ r.scope = scope /\ r.owner = source.ideas[e.subject].owner
     /\ r.request = request /\ r.resource = resource /\ r.response = response
     /\ r.completed # None
     /\ r.created <= r.completed /\ e.at <= r.completed
     /\ clientTime \/ r.created <= e.at

LifecycleReceiptAgrees(source, e) ==
  LET r == source.receipts[e.cause]
  IN /\ r.scope = "cycle" /\ r.resource = e.data.cycle
     /\ r.request \in {[at |-> None], [at |-> e.at]}
     /\ r.request.at = None => r.created = e.at
     /\ r.created <= r.completed /\ e.at <= r.completed
     /\ r.response.at = e.at

OwnedEvidence(source, e, owner) ==
  e.data.evidence = None \/
    \E c \in ToSet(source.ledger) :
      /\ c.type = "experience" /\ c.subject = e.data.evidence
      /\ c.data.version = 1 /\ c.data.owner = owner /\ c.at <= e.at
-----------------------------------------------------------------------------
\* _validate_idea_sources: an idea and its one generated event tell the same
\* story, at the time its run started and with that signal.
IdeaSourceAgrees(source, i) ==
  LET idea == source.ideas[i]
      run == source.runs[idea.run]
      generated == SelectSeq(source.ledger, LAMBDA c : c.type = "generated"
                                                       /\ c.subject = i)
      e == generated[1]
      p == e.data
  IN /\ Len(generated) = 1
     /\ p.run = idea.run /\ p.mechanism = idea.mechanism
     /\ p.duplicate = idea.duplicate
     /\ p.snapshot = run.snapshot /\ idea.snapshot = run.snapshot
     /\ idea.owner = run.owner /\ e.actor = run.owner
     /\ idea.at = e.at /\ e.at = run.at
     /\ p.after.signal = e.at
-----------------------------------------------------------------------------
AuditGenerated(source, s, e) ==
  LET p == e.data
      idea == source.ideas[e.subject]
      plan == PlanOccurrence(idea.owner, idea.mechanism, idea.snapshot, e.at,
                             s.clusters)
      prior == s.clusters[p.cluster]
      member == [idea |-> e.subject, owner |-> idea.owner,
                 mechanism |-> idea.mechanism]
      known == p.cluster \in DOMAIN s.clusters
      joined == [state |-> p.after,
                 members |-> Append(IF known THEN prior.members ELSE << >>, member),
                 snapshots |-> (IF known THEN prior.snapshots ELSE {})
                                 \cup {idea.snapshot}]
  IN [s EXCEPT
       !.ok = /\ e.subject \notin DOMAIN s.ideas
              /\ plan = [cluster |-> p.cluster, duplicate |-> p.duplicate,
                         before |-> p.before, after |-> p.after]
              /\ idea.duplicate = p.duplicate /\ idea.run = p.run
              /\ ClusterWellFormed(joined),
       !.clusters = With(@, p.cluster, joined),
       !.ideas = With(@, e.subject,
         [cluster |-> p.cluster, decision |-> "active", signal |-> p.after.signal,
          at |-> e.at, run |-> p.run, latest |-> NoEvaluation])]

AuditEvaluated(source, s, e) ==
  LET p == e.data
      i == s.ideas[e.subject]
      owner == source.ideas[e.subject].owner
      c == s.clusters[i.cluster].state
      after == PlanEvaluation(c, i.latest.verdict, p.current, e.at)
  IN [s EXCEPT
       !.ok = /\ p.cluster = i.cluster /\ e.actor = owner
              /\ p.revision = i.latest.revision + 1
              /\ p.previous = i.latest.verdict
              /\ e.at = p.after.signal
              /\ OwnedEvidence(source, e, owner)
              /\ after # None
              /\ p.before = Fields(c, EvaluationFields)
              /\ p.after = Fields(after, EvaluationFields)
              /\ RequireIdeaReceipt(source, e, "evaluate",
                   [idea |-> e.subject, verdict |-> p.current,
                    evidence |-> p.evidence, at |-> e.at], e.subject,
                   [idea |-> e.subject, maturity |-> p.after.maturity,
                    decision |-> i.decision, revision |-> p.revision], TRUE),
       !.clusters[i.cluster].state = p.after @@ @,
       !.ideas[e.subject].latest = [revision |-> p.revision, verdict |-> p.current],
       !.ideas[e.subject].signal = p.after.signal]

\* A policy archive was due in the history before it.
AuditArchived(source, s, e) ==
  LET i == s.ideas[e.subject]
      owner == source.ideas[e.subject].owner
      c == s.clusters[i.cluster].state
      policy == e.data.cycle # None
      seen == IF e.cause \in DOMAIN s.archived THEN s.archived[e.cause] ELSE 0
  IN [s EXCEPT
       !.ok = IF policy
              THEN /\ LifecycleReceiptAgrees(source, e)
                   /\ e.actor = None /\ e.at >= DueAt(i, c)
              ELSE /\ e.actor = owner
                   /\ RequireIdeaReceipt(source, e, "archived",
                        [idea |-> e.subject, reason |-> e.data.reason], e.subject,
                        [idea |-> e.subject, decision |-> "archived"], FALSE),
       !.archived = IF policy THEN With(@, e.cause, seen + 1) ELSE @,
       !.ideas[e.subject].decision = "archived"]

AuditRejected(source, s, e) ==
  [s EXCEPT
    !.ok = /\ e.actor = source.ideas[e.subject].owner
           /\ RequireIdeaReceipt(source, e, "rejected",
                [idea |-> e.subject, reason |-> e.data.reason], e.subject,
                [idea |-> e.subject, decision |-> "rejected"], FALSE),
    !.ideas[e.subject].decision = "rejected"]

\* The experience an adoption names is the idea's hypothesis, current and not
\* archived just before; if the adoption made it, nothing else happened to
\* experiences under its receipt, and if not, nothing at all.
AdoptionResultAgrees(source, e) ==
  LET p == e.data
      owner == source.ideas[e.subject].owner
      result == ExperienceBefore(source, p.experience, e.id)
      effects == SelectSeq(source.ledger, LAMBDA c : /\ c.type = "experience"
                                                     /\ c.cause = e.cause)
  IN /\ result # None
     /\ result.data.owner = owner /\ result.data.version = p.version
     /\ result.data.content = source.ideas[e.subject].mechanism
     /\ result.data.temperature # "archived" /\ result.at <= e.at
     /\ IF p.created
        THEN /\ Len(effects) = 1 /\ effects[1].subject = p.experience
             /\ effects[1].data.version = 1 /\ effects[1].actor = owner
             /\ effects[1].at = e.at /\ effects[1].id < e.id
             /\ result.data.temperature =
                  IF p.importance = "high" THEN "hot" ELSE "warm"
        ELSE effects = << >>

\* Every receipt attached to an adoption has its parameters and one answer.
AdoptionReceiptsAgree(source, e) ==
  LET p == e.data
      owner == source.ideas[e.subject].owner
      result == ExperienceBefore(source, p.experience, e.id)
      attached == {n \in DOMAIN source.receipts :
                     /\ source.receipts[n].scope = "adopt"
                     /\ source.receipts[n].resource = p.adoption}
      answer == [experience |-> p.experience, version |-> p.version,
                 content |-> source.ideas[e.subject].mechanism, owner |-> owner,
                 temperature |-> result.data.temperature, created |-> p.created]
  IN /\ e.cause \in attached
     /\ source.receipts[e.cause].created <= e.at
     /\ e.at <= source.receipts[e.cause].completed
     /\ \A n \in attached :
          LET r == source.receipts[n]
          IN /\ r.owner = owner /\ r.response = answer
             /\ r.request = [idea |-> e.subject, importance |-> p.importance]
             /\ r.created <= r.completed
             /\ n # e.cause => r.created >= e.at

AuditAdopted(source, s, e) ==
  LET p == e.data
      i == s.ideas[e.subject]
      owner == source.ideas[e.subject].owner
      c == s.clusters[i.cluster].state
      owners == IF i.cluster \in DOMAIN s.owners THEN s.owners[i.cluster] ELSE {}
      after == PlanAdoption(c, owner \in owners, e.at)
  IN [s EXCEPT
       !.ok = /\ p.adoption \in DOMAIN source.adoptions \ s.adoptions
              /\ source.adoptions[p.adoption] =
                   [idea |-> e.subject, owner |-> owner, run |-> i.run,
                    snapshot |-> source.ideas[e.subject].snapshot,
                    experience |-> p.experience, version |-> p.version,
                    at |-> e.at]
              /\ p.cluster = i.cluster /\ p.run = i.run /\ e.actor = owner
              /\ e.at = p.after.signal
              /\ Cardinality(owners) = c.adopters
              /\ after # None
              /\ p.before = Fields(c, AdoptionFields)
              /\ p.after = Fields(after, AdoptionFields)
              /\ AdoptionResultAgrees(source, e)
              /\ AdoptionReceiptsAgree(source, e),
       !.clusters[i.cluster].state = p.after @@ @,
       !.owners = With(@, i.cluster, owners \cup {owner}),
       !.adoptions = @ \cup {p.adoption},
       !.ideas[e.subject].decision = "adopted",
       !.ideas[e.subject].signal = p.after.signal]
-----------------------------------------------------------------------------
\* An event after the first one: after the end of the run, not before the
\* event before it, and from the decision that one left.
IdeaContinues(source, s, e) ==
  /\ e.subject \in DOMAIN s.ideas
  /\ source.runs[s.ideas[e.subject].run].ended # None
  /\ e.id > source.runs[s.ideas[e.subject].run].ended
  /\ e.at >= s.ideas[e.subject].at
  /\ e.data.decision = s.ideas[e.subject].decision

AuditStep(source, s, e) ==
  IF ~s.ok \/ e.type = "experience" THEN s
  ELSE IF e.type = "generated" THEN AuditGenerated(source, s, e)
  ELSE IF ~IdeaContinues(source, s, e) THEN [s EXCEPT !.ok = FALSE]
  ELSE LET t == CASE e.type = "evaluated" -> AuditEvaluated(source, s, e)
                  [] e.type = "archived" -> AuditArchived(source, s, e)
                  [] e.type = "rejected" -> AuditRejected(source, s, e)
                  [] e.type = "adopted" -> AuditAdopted(source, s, e)
       IN [t EXCEPT !.ideas[e.subject].at = e.at]

\* _validate_idea_histories: every idea has a history, every adoption record
\* an event, and every cycle reports as many archives as it made.
IdeaHistoriesValid(source) ==
  LET s == FoldLeft(LAMBDA acc, e : AuditStep(source, acc, e),
                    AuditStart, source.ledger)
  IN /\ s.ok
     /\ DOMAIN s.ideas = DOMAIN source.ideas
     /\ s.adoptions = DOMAIN source.adoptions
     /\ \A n \in DOMAIN s.archived :
          source.receipts[n].response.archived = s.archived[n]
=============================================================================
