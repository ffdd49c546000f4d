----------------------------- MODULE Passports -----------------------------
(***************************************************************************)
(* Passports: documents that carry one version of an experience from hub   *)
(* to hub.  How one is built and verified (passports/export.py, codec.py), *)
(* the view that authenticates an imported one before it is acted on       *)
(* (queries.py, receipts.py), the reducer of the decisions (projector.py)  *)
(* and the validator of the rows and events behind them (validation.py).   *)
(*                                                                         *)
(* A document is [agent, experience, version, origin, content, hops,       *)
(* fingerprint]; its position in a source stands for its hash and bytes.   *)
(* Rows of a source:                                                       *)
(*   imports    [owner, document, at]                                      *)
(*   transfers  [import, owner, result, content, created, at], the rows of *)
(*              passport_adoptions                                         *)
(***************************************************************************)
EXTENDS ImportSources

CONSTANTS MaxHops      \* MAX_PASSPORT_HOPS

ASSUME HopsAssumption == MaxHops \in Nat \ {0}

-----------------------------------------------------------------------------
(* Documents *)

Identity(hop) == <<hop.agent, hop.experience, hop.version>>
Fingerprint(hop) == <<hop.agent, hop.content>>

\* Every document that enters or leaves passes this.
Verifies(document) ==
  LET hops == document.hops
  IN /\ Len(hops) \in 1..MaxHops
     /\ Cardinality({Identity(h) : h \in ToSet(hops)}) = Len(hops)
     /\ \A n \in DOMAIN hops : /\ hops[n].content = document.content
                               /\ (hops[n].parent = None) = (n = 1)
     /\ Identity(Last(hops)) = Identity(document) /\ Last(hops).origin = document.origin
     /\ document.fingerprint = Fingerprint(hops[1])

\* Mutant: a document travels on in a circle.
DerivableInCircles(s, x, version, parent) ==
  LET content == s.experiences[x].versions[version].content
  IN IF parent = None THEN s.experiences[x].origin # "adopted_passport"
     ELSE LET transfer == s.transfers[parent]
          IN /\ transfer.owner = s.experiences[x].owner
             /\ transfer.result.experience = x /\ transfer.content = content

\* An experience that came with a passport travels on under that passport.
Derivable(s, x, version, parent) ==
  LET content == s.experiences[x].versions[version].content
  IN IF parent = None THEN s.experiences[x].origin # "adopted_passport"
     ELSE LET transfer == s.transfers[parent]
              hops == s.documents[s.imports[transfer.import].document].hops
          IN /\ transfer.owner = s.experiences[x].owner
             /\ transfer.result.experience = x
             /\ transfer.content = content /\ hops[1].content = content
             /\ Len(hops) < MaxHops
             /\ \A h \in ToSet(hops) :
                  Identity(h) # <<s.experiences[x].owner, x, version>>

\* The document of one version, on its own or after the hops of its parent.
Exported(s, x, version, parent) ==
  LET content == s.experiences[x].versions[version].content
      subject == [agent |-> s.experiences[x].owner, experience |-> x,
                  version |-> version, origin |-> s.experiences[x].origin,
                  content |-> content]
      from == IF parent = None THEN None
              ELSE s.imports[s.transfers[parent].import].document
      hops == (IF from = None THEN << >> ELSE s.documents[from].hops)
                \o <<[parent |-> from] @@ subject>>
  IN [hops |-> hops, fingerprint |-> Fingerprint(hops[1])] @@ subject

-----------------------------------------------------------------------------
(* Answers and receipts *)

ImportAnswer(s, p, state) ==
  [import |-> p, owner |-> s.imports[p].owner, document |-> s.imports[p].document,
   state |-> state]

\* The experience of the answer is as the owner saw it when it decided.
TransferAnswer(transfer, n, temperature) ==
  [adoption |-> n, created |-> transfer.created, owner |-> transfer.owner,
   result |-> transfer.result, content |-> transfer.content,
   temperature |-> temperature]

ImportRequest(s, p) == [owner |-> s.imports[p].owner, document |-> s.imports[p].document]
DecisionRequest(s, p) == [owner |-> s.imports[p].owner, import |-> p]

\* The receipt of an event is completed and of the time of the event.
ReceiptCompleted(receipt, e, owner) ==
  /\ receipt.completed # None /\ receipt.owner = owner
  /\ receipt.created = e.at /\ receipt.completed >= e.at
ReceiptResult(receipt, scope, owner, request, resource, status, answer) ==
  /\ receipt.completed # None /\ receipt.owner = owner /\ receipt.scope = scope
  /\ receipt.request = request /\ receipt.resource = resource
  /\ receipt.status = status /\ receipt.answer = answer
Receipted(s, e, scope, owner, request, resource, status, answer) ==
  LET receipt == s.receipts[e.cause]
  IN /\ ReceiptCompleted(receipt, e, owner)
     /\ ReceiptResult(receipt, scope, owner, request, resource, status, answer)

PassportEvents(s, p) == SelectSeq(s.ledger, LAMBDA e : e.kind = "passport" /\ e.subject = p)

\* The temperature in the answer of an adoption: from the history before it.
TransferTemperature(s, transfer, e) ==
  IF transfer.created THEN "warm"
  ELSE LET before == SnapshotBefore(s, transfer.result.experience, e.id)
       IN IF /\ before # None /\ before.owner = transfer.owner
             /\ before.version = transfer.result.version
             /\ before.content = transfer.content /\ before.temperature # "archived"
          THEN before.temperature ELSE None

-----------------------------------------------------------------------------
(* The view of an import, which authenticates everything it rests on.      *)

ImportReceipted(s, p, e) ==
  Receipted(s, e, "passport.import", s.imports[p].owner, ImportRequest(s, p),
            Resource("passport", p), 201, ImportAnswer(s, p, "pending"))
RejectionReceipted(s, p, e) ==
  Receipted(s, e, "passport.reject", s.imports[p].owner, DecisionRequest(s, p),
            Resource("passport", p), 200, ImportAnswer(s, p, "rejected"))
TransferReceipted(s, p, n, e) ==
  LET temperature == TransferTemperature(s, s.transfers[n], e)
  IN /\ temperature # None
     /\ Receipted(s, e, "passport.adopt", s.imports[p].owner, DecisionRequest(s, p),
          Resource("passport_adoption", n), 200,
          TransferAnswer(s.transfers[n], n, temperature))

TransfersOf(s, p) == {n \in DOMAIN s.transfers : s.transfers[n].import = p}

ViewSound(s, row, p) ==
  LET source == s.imports[p]
      events == PassportEvents(s, p)
      transfers == TransfersOf(s, p)
  IN /\ Verifies(s.documents[source.document])
     /\ Len(events) = IF row.state = "pending" THEN 1 ELSE 2
     /\ events[1].type = "passport_imported" /\ events[1].sequence = 1
     /\ events[1].actor = source.owner /\ events[1].at = source.at
     /\ events[1].data.document = source.document
     /\ row.event = Last(events).id /\ ImportReceipted(s, p, events[1])
     /\ IF row.state = "pending" THEN transfers = {} /\ row.decided = None
        ELSE /\ events[2].sequence = 2 /\ events[2].at = row.decided
             /\ row.decided >= source.at /\ events[2].actor = source.owner
             /\ \/ /\ row.state = "rejected" /\ events[2].type = "passport_rejected"
                   /\ row.reason = events[2].data.reason /\ transfers = {}
                   /\ RejectionReceipted(s, p, events[2])
                \/ /\ row.state = "adopted" /\ events[2].type = "passport_adopted"
                   /\ transfers = {row.adoption}
                   /\ LET transfer == s.transfers[row.adoption]
                      IN /\ transfer.result = row.result /\ transfer.at = row.decided
                         /\ events[2].data.result = transfer.result
                         /\ events[2].data.created = transfer.created
                         /\ transfer.content = s.documents[source.document].content
                   /\ TransferReceipted(s, p, row.adoption, events[2])
-----------------------------------------------------------------------------
(* The reducer.  It keeps [owner, state, adoption, result, reason, decided, *)
(* event] of an import; None for the rows stands for a refusal.             *)

PassportReceipt(s, e, scope, resource) ==
  ReceiptAnchors(s, e, e.data.owner, scope, resource)

\* The import that the event names, of its owner, with sound bytes.
OwnedSource(s, e) ==
  /\ e.subject = e.data.import /\ e.actor = e.data.owner
  /\ e.subject \in DOMAIN s.imports
  /\ s.imports[e.subject].owner = e.data.owner
  /\ Verifies(s.documents[s.imports[e.subject].document])

ImportedAgrees(s, rows, e) ==
  /\ OwnedSource(s, e) /\ e.sequence = 1
  /\ s.imports[e.subject].document = e.data.document
  /\ s.imports[e.subject].at = e.at
  /\ PassportReceipt(s, e, "passport.import", Resource("passport", e.subject))
  /\ e.subject \notin DOMAIN rows

\* A decision follows its import, which must be pending since then.
ImportPending(s, rows, e) ==
  /\ OwnedSource(s, e) /\ e.sequence = 2 /\ e.subject \in DOMAIN rows
  /\ LET imported == {f \in ToSet(s.ledger) : /\ f.type = "passport_imported"
                                              /\ f.subject = e.subject /\ f.sequence = 1}
         source == s.imports[e.subject]
     IN /\ Cardinality(imported) = 1
        /\ \A f \in imported :
             /\ f.data.owner = e.data.owner /\ f.data.document = source.document
             /\ f.actor = e.data.owner /\ f.at = source.at
             /\ f.at <= e.at /\ f.id < e.id
             /\ PassportReceipt(s, f, "passport.import", Resource("passport", e.subject))
             /\ rows[e.subject].owner = e.data.owner
             /\ rows[e.subject].state = "pending" /\ rows[e.subject].event = f.id

TransferAgrees(s, rows, e) ==
  /\ ImportPending(s, rows, e)
  /\ e.data.adoption \in DOMAIN s.transfers
  /\ LET transfer == s.transfers[e.data.adoption]
     IN /\ transfer.import = e.subject /\ transfer.owner = e.data.owner
        /\ transfer.result = e.data.result /\ transfer.content = e.data.content
        /\ transfer.created = e.data.created /\ transfer.at = e.at
  /\ PassportReceipt(s, e, "passport.adopt",
                     Resource("passport_adoption", e.data.adoption))

ApplyToPassports(s, rows, e) ==
  CASE e.type = "passport_imported" ->
         IF ImportedAgrees(s, rows, e)
         THEN WithRow(rows, e.subject,
                [owner |-> e.data.owner, state |-> "pending", adoption |-> None,
                 result |-> None, reason |-> None, decided |-> None, event |-> e.id])
         ELSE None
    [] e.type = "passport_adopted" ->
         IF TransferAgrees(s, rows, e)
         THEN [rows EXCEPT ![e.subject].state = "adopted",
                           ![e.subject].adoption = e.data.adoption,
                           ![e.subject].result = e.data.result,
                           ![e.subject].decided = e.at, ![e.subject].event = e.id]
         ELSE None
    [] e.type = "passport_rejected" ->
         IF /\ ImportPending(s, rows, e)
            /\ PassportReceipt(s, e, "passport.reject", Resource("passport", e.subject))
         THEN [rows EXCEPT ![e.subject].state = "rejected",
                           ![e.subject].reason = e.data.reason,
                           ![e.subject].decided = e.at, ![e.subject].event = e.id]
         ELSE None
    [] OTHER -> rows
-----------------------------------------------------------------------------
(* The validator of the source *)

\* What an adoption says of the experience it names, and of the events of
\* the command that adopted.
TransferSound(s, p, e, transfers) ==
  \E n \in transfers :
    LET transfer == s.transfers[n]
        x == s.experiences[transfer.result.experience]
        version == x.versions[transfer.result.version]
        causal == CausedBy(s, e.cause)
    IN /\ transfers = {n} /\ transfer.owner = s.imports[p].owner
       /\ transfer.content = s.documents[s.imports[p].document].content
       /\ transfer.at = e.at
       /\ e.data = [import |-> p, owner |-> transfer.owner, adoption |-> n,
                    result |-> transfer.result, content |-> transfer.content,
                    created |-> transfer.created]
       /\ x.owner = transfer.owner /\ version.content = transfer.content
       /\ x.at <= e.at /\ version.at <= e.at
       /\ IF ~transfer.created THEN causal = <<e>>
          ELSE /\ TypesOf(causal) = <<"experience_created", "version_created", e.type>>
               /\ x.origin = "adopted_passport" /\ x.at = e.at
               /\ version.at = e.at /\ transfer.result.version = 1
               /\ \A k \in 1..2 :
                    /\ causal[k].kind = "experience" /\ causal[k].at = e.at
                    /\ causal[k].subject = transfer.result.experience
                    /\ causal[k].actor = transfer.owner /\ causal[k].sequence = k
                    /\ causal[k].data.after =
                         [owner |-> transfer.owner, version |-> 1,
                          content |-> transfer.content, temperature |-> "warm"]
       /\ TransferReceipted(s, p, n, e)

ImportSound(s, p) ==
  LET source == s.imports[p]
      events == PassportEvents(s, p)
      transfers == TransfersOf(s, p)
  IN /\ Verifies(s.documents[source.document]) /\ Len(events) \in 1..2
     /\ \A k \in DOMAIN events : /\ events[k].sequence = k /\ events[k].at >= source.at
                                 /\ events[k].actor = source.owner
                                 /\ events[k].data.owner = source.owner
     /\ events[1].type = "passport_imported" /\ events[1].at = source.at
     /\ events[1].data.document = source.document
     /\ CausedBy(s, events[1].cause) = <<events[1]>> /\ ImportReceipted(s, p, events[1])
     /\ IF Len(events) = 1 THEN transfers = {}
        ELSE \/ /\ events[2].type = "passport_adopted"
                /\ TransferSound(s, p, events[2], transfers)
             \/ /\ events[2].type = "passport_rejected" /\ transfers = {}
                /\ CausedBy(s, events[2].cause) = <<events[2]>>
                /\ RejectionReceipted(s, p, events[2])

\* The states that an import may have had for a command of that time: clocks
\* that agree do not order a decision and a repeated import.
StatesAt(s, p, at) ==
  LET events == PassportEvents(s, p)
  IN IF Len(events) = 1 THEN {"pending"}
     ELSE LET terminal == IF events[2].type = "passport_adopted" THEN "adopted"
                          ELSE "rejected"
          IN (IF events[2].at <= at THEN {terminal} ELSE {})
               \cup (IF events[2].at < at THEN {} ELSE {"pending"})

\* Every completed receipt of a passport command was refused, or caused an
\* event, or repeated an import and says what that import was.
ReceiptCovered(s, n) ==
  LET receipt == s.receipts[n]
      adopting == receipt.scope = "passport.adopt"
  IN IF receipt.resource = None THEN receipt.status >= 400
     ELSE LET p == IF adopting THEN s.transfers[receipt.resource.id].import
                   ELSE receipt.resource.id
          IN /\ p \in DOMAIN s.imports /\ receipt.owner = s.imports[p].owner
             /\ \/ \E e \in ToSet(PassportEvents(s, p)) : e.cause = n
                \/ /\ receipt.scope = "passport.import"
                   /\ receipt.created >= s.imports[p].at
                   /\ receipt.completed >= receipt.created
                   /\ \E state \in StatesAt(s, p, receipt.created) :
                        ReceiptResult(receipt, "passport.import", s.imports[p].owner,
                          ImportRequest(s, p), Resource("passport", p), 200,
                          ImportAnswer(s, p, state))

PassportGraphSound(s) ==
  /\ \A p, q \in DOMAIN s.imports :
       s.imports[p].owner = s.imports[q].owner /\ s.imports[p].document = s.imports[q].document
         => p = q
  /\ \A e \in ToSet(s.ledger) : e.kind = "passport" => e.subject \in DOMAIN s.imports
  /\ \A p \in DOMAIN s.imports : ImportSound(s, p)
  /\ \A n \in DOMAIN s.receipts :
       /\ s.receipts[n].scope \in {"passport.import", "passport.adopt", "passport.reject"}
       /\ s.receipts[n].completed # None
       => ReceiptCovered(s, n)
  /\ LET made == {n \in DOMAIN s.transfers : s.transfers[n].created}
         targets == {s.transfers[n].result.experience : n \in made}
     IN /\ Cardinality(targets) = Cardinality(made)
        /\ targets = {x \in DOMAIN s.experiences :
                        s.experiences[x].origin = "adopted_passport"}
=============================================================================
