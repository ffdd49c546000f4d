------------------------------ MODULE Imports ------------------------------
(***************************************************************************)
(* What enters a hub from outside: trajectories captured into candidates   *)
(* (capture/service.py, experiences/candidate_service.py) and passports    *)
(* (passports/service.py, passports/export.py).  Both wait for a decision  *)
(* of their owner, and both become experiences of one store, where either  *)
(* may find what the other made.                                           *)
(*                                                                         *)
(* Every command is one transaction (CommandLedger), so it is one action.  *)
(* It takes its time from its receipt (clock) and is completed when the    *)
(* clock reads now.  Between commands the wall clock is any: it may also   *)
(* step back.  Refusals that a receipt keeps are actions; other refusals   *)
(* roll everything back and have no action.  A command that dies of an     *)
(* integrity error is recorded in refused.                                 *)
(***************************************************************************)
EXTENDS Candidates, Passports

CONSTANTS Agent,
          Content,
          Foreign,          \* documents that come from other hubs
          MaxEvents, MaxReceipts, MaxDocuments, MaxTime,    \* bounds
          Explored(_)       \* bound: the sources that are explored

ASSUME BoundsAssumption ==
  /\ {MaxEvents, MaxReceipts, MaxDocuments, MaxTime} \subseteq Nat
  /\ \A n \in DOMAIN Foreign : Verifies(Foreign[n])

ASSUME OwnersAssumption == OwnerOf \in [Trajectory -> Agent]

\* None is no number, no text and no record.
ASSUME NoneAssumption ==
  /\ None \notin Nat \cup {"owner"}
  /\ \A x, v \in 1..MaxEvents : [experience |-> x, version |-> v] # None

VARIABLES source,    \* the authoritative rows, as ImportSources names them
          tables,    \* the projections [candidates, passports]
          refused    \* components that refused a command on integrity grounds

vars == <<source, tables, refused>>

Time == 1..MaxTime
Later(clock) == {clock, clock + 1} \cap Time

Init ==
  /\ source = [NoSources EXCEPT !.documents = Foreign]
  /\ tables = [candidates |-> NoRows, passports |-> NoRows]
  /\ refused = {}

-----------------------------------------------------------------------------
(* Commands *)

\* One event goes through both reducers; None once one of them refused.
Applied(s, t, e) ==
  IF None \in {t.candidates, t.passports} THEN t
  ELSE [candidates |-> ApplyToCandidates(s, t.candidates, e),
        passports |-> ApplyToPassports(s, t.passports, e)]
Projected(s, t, k) ==
  LET rows[n \in k..Len(s.ledger)] ==
        IF n = k THEN t
        ELSE LET before == rows[n - 1] IN Applied(s, before, s.ledger[n])
  IN rows[Len(s.ledger)]
NoTables == [candidates |-> NoRows, passports |-> NoRows]
Rebuild(s) == Projected(s, NoTables, 0)

Dies(component) ==
  /\ refused' = refused \cup {component}
  /\ UNCHANGED <<source, tables>>

\* What a command answers, by the kind of thing it is about.
AnswerOn(s, t, about) ==
  LET n == about.id
  IN CASE about.kind = "capture" -> CaptureAnswer(s, n)
       [] about.kind = "decision" -> Viewed(s, t.candidates[n], n)
       [] about.kind = "import" -> ImportAnswer(s, n, "pending")
       [] about.kind = "repetition" -> ImportAnswer(s, n, t.passports[n].state)
       [] about.kind = "rejection" -> ImportAnswer(s, n, "rejected")
       [] about.kind = "transfer" -> TransferAnswer(s.transfers[n], n,
                               Current(s, s.transfers[n].result.experience).temperature)
       [] about.kind = "experience" -> n

\* A command commits its rows, its events, what the reducers make of them,
\* and its answer, which may be read from the projections.
Commit(rows, status, about, now) ==
  \E s \in {rows} :
    /\ Len(s.ledger) <= MaxEvents
    /\ \E t \in {Projected(s, tables, Len(source.ledger))} :
         IF None \in {t.candidates, t.passports} THEN Dies("reducers")
         ELSE \E answer \in {AnswerOn(s, t, about)} :
                IF answer = None THEN Dies("answer")
                ELSE \E done \in {Answered(s, status, answer, now)} :
                       /\ Explored(done) /\ source' = done /\ tables' = t
                       /\ UNCHANGED refused

\* A refusal that is kept, and repeated to a command with the same key.
Refuse(s, status, code, now) ==
  /\ Explored(Answered(s, status, code, now))
  /\ source' = Answered(s, status, code, now)
  /\ UNCHANGED <<tables, refused>>

Room == Len(source.receipts) < MaxReceipts
-----------------------------------------------------------------------------
(* Candidates *)

\* A trajectory is captured by its owner, once.
Capture(m, clock, now) ==
  LET r == Reserved(source, "capture", OwnerOf[m], m, clock)
      bundle == Len(source.bundles) + 1
  IN IF \E b \in ToSet(source.bundles) : b.owner = OwnerOf[m] /\ b.trajectory = m
     THEN Refuse(r, 409, "trajectory_already_captured", now)
     ELSE Commit(Attached(Captured(r, m, clock), Resource("bundle", bundle)),
                 201, Resource("capture", bundle), now)

Undecided(c) == tables.candidates[c].decision = "pending"

\* The candidate becomes an experience: the equivalent one that the owner has,
\* in whatever state that is, or a new one.
CandidateAdopted(r, c, at) ==
  LET owner == source.candidates[c].owner
      content == source.candidates[c].content
      equivalent == Equivalents(source, owner, content)
      created == equivalent = {}
      x == IF created THEN Len(source.experiences) + 1
           ELSE CHOOSE y \in equivalent : TRUE
      written == IF created THEN Created(r, owner, "adopted_candidate", content, at) ELSE r
      result == [experience |-> x, version |-> Current(written, x).version]
      adoption == Len(source.adoptions) + 1
      row == [candidate |-> c, owner |-> owner, result |-> result, content |-> content,
              created |-> created, at |-> at]
      attached == Attached(written, Resource("candidate_adoption", adoption))
  IN Appended([attached EXCEPT !.adoptions = Append(@, row)],
              "candidate_adopted", "candidate", c, owner, at,
              [candidate |-> c, owner |-> owner, adoption |-> adoption,
               result |-> result, content |-> content, created |-> created])

AdoptCandidate(c, clock, now) ==
  \E r \in {Reserved(source, "candidate.adopt", source.candidates[c].owner, c, clock)} :
    IF ~Undecided(c) THEN Refuse(r, 409, "candidate_already_decided", now)
    ELSE IF ~LineageSound(source, c) THEN Dies("lineage")
    ELSE Commit(CandidateAdopted(r, c, clock), 200,
                Resource("decision", c), now)

RejectCandidate(c, clock, now) ==
  LET owner == source.candidates[c].owner
  IN \E r \in {Reserved(source, "candidate.reject", owner, c, clock)} :
       IF ~Undecided(c) THEN Refuse(r, 409, "candidate_already_decided", now)
       ELSE IF ~LineageSound(source, c) THEN Dies("lineage")
       ELSE Commit(Appended(Attached(r, Resource("candidate", c)),
                            "candidate_rejected", "candidate", c, owner, clock,
                            [candidate |-> c, owner |-> owner, reason |-> "owner"]),
                   200, Resource("decision", c), now)
-----------------------------------------------------------------------------
(* Passports *)

\* The latest time that an import has seen.
SettledAt(p) == IF tables.passports[p].decided = None THEN source.imports[p].at
                ELSE Max({source.imports[p].at, tables.passports[p].decided})

\* Mutant: an import is repeated whatever the clock reads.
RepeatableAnyTime(p, clock) == ViewSound(source, tables.passports[p], p)

\* A repeated import is answered unless the clock reads an earlier time.
Repeatable(p, clock) ==
  ViewSound(source, tables.passports[p], p) /\ clock >= SettledAt(p)

ImportPassport(owner, d, clock, now) ==
  LET r == Reserved(source, "passport.import", owner,
                    [owner |-> owner, document |-> d], clock)
      existing == {p \in DOMAIN source.imports :
                     source.imports[p].owner = owner /\ source.imports[p].document = d}
      new == Len(source.imports) + 1
  IN IF existing = {}
     THEN Commit(Appended(Attached([r EXCEPT !.imports = Append(@,
                              [owner |-> owner, document |-> d, at |-> clock])],
                            Resource("passport", new)),
                          "passport_imported", "passport", new, owner, clock,
                          [import |-> new, owner |-> owner, document |-> d]),
                 201, Resource("import", new), now)
     ELSE \E p \in existing :
            /\ Repeatable(p, clock)
            /\ Commit(Attached(r, Resource("passport", p)), 200,
                      Resource("repetition", p), now)

\* An import is decided once, whatever the clock reads, and not before it
\* came.  One whose view is refused would be refused for good: that is
\* recorded.
ActOn(p, r, clock, now, Act) ==
  IF ~ViewSound(source, tables.passports[p], p) THEN Dies("view")
  ELSE IF tables.passports[p].state # "pending"
  THEN Refuse(r, 409, "passport_decision_conflict", now)
  ELSE clock >= source.imports[p].at /\ Act

PassportAdopted(r, p, equivalent, at) ==
  LET owner == source.imports[p].owner
      content == source.documents[source.imports[p].document].content
      created == equivalent = {}
      x == IF created THEN Len(source.experiences) + 1
           ELSE CHOOSE y \in equivalent : TRUE
      adoption == Len(source.transfers) + 1
      attached == Attached(r, Resource("passport_adoption", adoption))
      written == IF created
                 THEN Created(attached, owner, "adopted_passport", content, at)
                 ELSE attached
      result == [experience |-> x, version |-> Current(written, x).version]
      row == [import |-> p, owner |-> owner, result |-> result, content |-> content,
              created |-> created, at |-> at]
  IN Appended([written EXCEPT !.transfers = Append(@, row)],
              "passport_adopted", "passport", p, owner, at,
              [import |-> p, owner |-> owner, adoption |-> adoption,
               result |-> result, content |-> content, created |-> created])

RestoreRequired(x) == Current(source, x).temperature = "archived"

\* The passport becomes an experience: the equivalent one, unless that is
\* archived or has seen a later time, or a new one.
AdoptPassport(p, clock, now) ==
  LET owner == source.imports[p].owner
      equivalent == Equivalents(source, owner,
                      source.documents[source.imports[p].document].content)
  IN \E r \in {Reserved(source, "passport.adopt", owner, DecisionRequest(source, p), clock)} :
       ActOn(p, r, clock, now,
         IF \E x \in equivalent : RestoreRequired(x)
         THEN Refuse(r, 409, "passport_restore_required", now)
         ELSE /\ \A x \in equivalent : LatestCausalAt(source, x) <= clock
              /\ Commit(PassportAdopted(r, p, equivalent, clock), 200,
                        Resource("transfer", Len(source.transfers) + 1), now))

RejectPassport(p, clock, now) ==
  LET owner == source.imports[p].owner
  IN \E r \in {Reserved(source, "passport.reject", owner, DecisionRequest(source, p), clock)} :
       ActOn(p, r, clock, now,
         Commit(Appended(Attached(r, Resource("passport", p)),
                         "passport_rejected", "passport", p, owner, clock,
                         [import |-> p, owner |-> owner, reason |-> "owner"]),
                200, Resource("rejection", p), now))

\* A version of an experience that is not archived leaves the hub, on its own
\* or under the passport that it was adopted from.  Nothing in the hub changes.
ExportPassport(x, version, parent) ==
  /\ Current(source, x).temperature # "archived"
  /\ parent # None =>
       ViewSound(source, tables.passports[source.transfers[parent].import],
                 source.transfers[parent].import)
  /\ Derivable(source, x, version, parent)
  /\ \E d \in {Exported(source, x, version, parent)} :
       IF ~Verifies(d) THEN Dies("export")
       ELSE /\ d \notin ToSet(source.documents)
            /\ \E s \in {[source EXCEPT !.documents = Append(@, d)]} :
                 Explored(s) /\ source' = s
            /\ UNCHANGED <<tables, refused>>
-----------------------------------------------------------------------------
(* The rest of the memory (ExperienceMemory), as far as it matters here *)

WriteExperience(owner, content, clock) ==
  /\ Equivalents(source, owner, content) = {}
  /\ Commit(Created(Reserved(source, "experience.create", owner, content, clock),
                    owner, "authored", content, clock),
            201, Resource("experience", Len(source.experiences) + 1), clock)

\* Archived experiences must be restored first; time does not go back.
ChangeExperience(x, content, temperature, clock) ==
  LET before == Current(source, x)
      revised == content # before.content
  IN /\ clock >= LatestCausalAt(source, x)
     /\ revised # (temperature # before.temperature)
     /\ revised => /\ before.temperature # "archived"
                   /\ Equivalents(source, before.owner, content) = {}
     /\ Commit(Changed(Reserved(source, "experience.change", before.owner, x, clock),
                       x, content, temperature, clock),
               200, Resource("experience", x), clock)

Next ==
  \/ Room /\ \E m \in Trajectory, clock \in Time : \E now \in Later(clock) :
       Capture(m, clock, now)
  \/ Room /\ \E c \in DOMAIN source.candidates, clock \in Time : \E now \in Later(clock) :
       AdoptCandidate(c, clock, now)
  \/ Room /\ \E c \in DOMAIN source.candidates, clock \in Time : \E now \in Later(clock) :
       RejectCandidate(c, clock, now)
  \/ Room /\ \E a \in Agent, d \in DOMAIN source.documents, clock \in Time :
       \E now \in Later(clock) : ImportPassport(a, d, clock, now)
  \/ Room /\ \E p \in DOMAIN source.imports, clock \in Time : \E now \in Later(clock) :
       AdoptPassport(p, clock, now)
  \/ Room /\ \E p \in DOMAIN source.imports, clock \in Time : \E now \in Later(clock) :
       RejectPassport(p, clock, now)
  \/ /\ Len(source.documents) < MaxDocuments
     /\ \E x \in DOMAIN source.experiences : \E v \in DOMAIN source.experiences[x].versions :
          \E parent \in {None} \cup DOMAIN source.transfers : ExportPassport(x, v, parent)
  \/ Room /\ \E a \in Agent, c \in Content, clock \in Time : WriteExperience(a, c, clock)
  \/ Room /\ \E x \in DOMAIN source.experiences, c \in Content, t \in {"warm", "archived"} :
       \E clock \in Time : ChangeExperience(x, c, t, clock)

Spec == Init /\ [][Next]_vars
-----------------------------------------------------------------------------
(* Properties *)

Decisions == {"pending", "adopted", "rejected"}
Origins == {"authored", "adopted_candidate", "adopted_passport"}

\* The types of the variables: every candidate and every import has its row.
TypeOK ==
  /\ DOMAIN tables.candidates = DOMAIN source.candidates
  /\ DOMAIN tables.passports = DOMAIN source.imports
  /\ \A c \in DOMAIN tables.candidates : /\ tables.candidates[c].decision \in Decisions
                                         /\ DecisionShaped(tables.candidates[c])
  /\ \A p \in DOMAIN tables.passports : tables.passports[p].state \in Decisions
  /\ \A x \in ToSet(source.experiences) : x.owner \in Agent /\ x.origin \in Origins
  /\ \A r \in ToSet(source.receipts) : r.completed \in Time
  /\ refused \subseteq {"reducers", "answer", "lineage", "view", "export"}

\* Whatever came before it, no command dies of what it finds: the lineage of a
\* candidate can be reconstructed, an import can be viewed (with the historical
\* answer to its adoption), the reducers accept every event that the handlers
\* append, and a document that is exported passes its own verification, also
\* when it has been around several agents.
NothingRefused == refused = {}

\* A rebuild from the ledger, which sees the completed receipts and compares
\* their answers, gives the tables that the commands kept.
RebuildReproduces == Rebuild(source) = tables

\* A candidate was adopted into an experience that has seen a later time: the
\* clock stepped back, and adoption of a candidate does not look.
AdoptedBeforeWritten(s) ==
  \E a \in ToSet(s.adoptions) :
    LET x == s.experiences[a.result.experience]
    IN x.at > a.at \/ x.versions[a.result.version].at > a.at

\* An import was repeated, at a later time than its decision has: the clock
\* stepped back in between, and a decision looks at the first import alone.
DecidedBeforeRepeated(s) ==
  \E n \in DOMAIN s.receipts :
    /\ s.receipts[n].scope = "passport.import" /\ s.receipts[n].status = 200
    /\ \E e \in ToSet(PassportEvents(s, s.receipts[n].resource.id)) :
         e.cause > n /\ e.at < s.receipts[n].created

\* The validators accept what the commands leave behind, whatever the order of
\* decisions, repeated imports, changes of experiences and readings of the
\* clock, except for what the two definitions above say.
SourcesValid ==
  /\ CaptureGraphSound(source) \/ AdoptedBeforeWritten(source)
  /\ PassportGraphSound(source) \/ DecidedBeforeRepeated(source)

\* Startup and verification accept the state of passports that commands leave
\* behind, also when an import was repeated before its decision.
PassportsAlwaysVerify == PassportGraphSound(source)

Items == {"candidate", "passport"} \X (1..MaxEvents)
RowOf(i) == IF i[1] = "candidate" THEN tables.candidates[i[2]] ELSE tables.passports[i[2]]
Known == {i \in Items : i[2] \in IF i[1] = "candidate" THEN DOMAIN tables.candidates
                                 ELSE DOMAIN tables.passports}
StateOf(i) == IF i \notin Known THEN "absent"
              ELSE IF i[1] = "candidate" THEN RowOf(i).decision ELSE RowOf(i).state

ResultOf(i) == IF i \notin Known THEN None
               ELSE Given(RowOf(i).result, LAMBDA r : IF r = None THEN None ELSE r.experience)

Quarantined == INSTANCE Quarantine WITH
  Item <- Items,
  Nothing <- None,
  state <- [i \in Items |-> StateOf(i)],
  result <- [i \in Items |-> ResultOf(i)],
  made <- {x \in DOMAIN source.experiences : source.experiences[x].origin # "authored"}

\* Candidates and passports are quarantined: decided once, by nobody but their
\* owner's command, and an experience of adopted origin appears only in the
\* step that adopts one of them.
ImplementsQuarantine == Quarantined!Spec
=============================================================================
