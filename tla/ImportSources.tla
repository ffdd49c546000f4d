--------------------------- MODULE ImportSources ---------------------------
(***************************************************************************)
(* The authoritative rows that quarantine is built on: the ledger of       *)
(* events, the receipts of commands, and the experiences as far as an      *)
(* adoption reads and writes them (experiences/repository.py; their life   *)
(* is ExperienceMemory's).                                                 *)
(*                                                                         *)
(* A source s is a record of sequences; the position of a row is its id.   *)
(*   ledger       [id, type, kind, subject, sequence, actor, at, cause,    *)
(*                 data], where kind and subject name the aggregate        *)
(*   receipts     [scope, owner, request, created, completed, status,      *)
(*                 resource, answer]                                       *)
(*   experiences  [owner, origin, at, versions]                            *)
(* and the rows of Candidates and Passports.  A content is a value: it     *)
(* stands for the text and for its hash.                                   *)
(***************************************************************************)
EXTENDS Integers, Sequences, FiniteSets, FiniteSetsExt, SequencesExt

CONSTANTS None      \* Python's None

\* F(v), where v is computed once.
Given(v, F(_)) == CHOOSE y \in {F(x) : x \in {v}} : TRUE

NoRows == << >>
NoSources == [ledger |-> NoRows, receipts |-> NoRows, experiences |-> NoRows,
              bundles |-> NoRows, evidence |-> NoRows, candidates |-> NoRows,
              adoptions |-> NoRows, documents |-> NoRows, imports |-> NoRows,
              transfers |-> NoRows]

-----------------------------------------------------------------------------
(* Events and receipts *)

Count(seq, Test(_)) == Len(SelectSeq(seq, Test))

\* The n-th of the next events, which are of different aggregates.
NextEvent(s, n, type, kind, subject, actor, at, data) ==
  [id |-> Len(s.ledger) + n, type |-> type, kind |-> kind, subject |-> subject,
   sequence |-> 1 + Count(s.ledger, LAMBDA e : e.kind = kind /\ e.subject = subject),
   actor |-> actor, at |-> at, cause |-> Len(s.receipts), data |-> data]

Appended(s, type, kind, subject, actor, at, data) ==
  [s EXCEPT !.ledger = Append(@, NextEvent(s, 1, type, kind, subject, actor, at, data))]

\* The rows with a row of id.
WithRow(rows, id, row) ==
  [n \in DOMAIN rows \cup {id} |-> IF n = id THEN row ELSE rows[n]]

Resource(kind, id) == [kind |-> kind, id |-> id]

\* A command begins with its receipt, and ends by completing it.
Reserved(s, scope, owner, request, clock) ==
  [s EXCEPT !.receipts = Append(@,
     [scope |-> scope, owner |-> owner, request |-> request, created |-> clock,
      completed |-> None, status |-> None, resource |-> None, answer |-> None])]
Attached(s, resource) == [s EXCEPT !.receipts[Len(s.receipts)].resource = resource]
Answered(s, status, answer, now) ==
  [s EXCEPT !.receipts[Len(s.receipts)] =
     [@ EXCEPT !.completed = now, !.status = status, !.answer = answer]]

InProgress(receipt) ==
  receipt.completed = None /\ receipt.status = None /\ receipt.answer = None

\* The events that one command appended.
CausedBy(s, cause) == SelectSeq(s.ledger, LAMBDA e : e.cause = cause)
TypesOf(events) == [n \in DOMAIN events |-> events[n].type]

\* The receipt that caused an event, at the time of the event, for its owner
\* and with the resource it wrote; in progress while the command runs.
ReceiptAnchors(s, e, owner, scope, resource) ==
  LET receipt == s.receipts[e.cause]
  IN /\ receipt.owner = owner /\ receipt.scope = scope
     /\ receipt.resource = resource /\ receipt.created = e.at
     /\ InProgress(receipt) \/ receipt.completed >= e.at

-----------------------------------------------------------------------------
(* Experiences *)

\* What the latest event of experience x before event k left.
SnapshotBefore(s, x, k) ==
  LET own == {j \in 1..k-1 : s.ledger[j].kind = "experience" /\ s.ledger[j].subject = x}
  IN IF own = {} THEN None ELSE s.ledger[Max(own)].data.after
Current(s, x) == SnapshotBefore(s, x, Len(s.ledger) + 1)

\* No event of x is later than this; nor is any time of its rows.
LatestCausalAt(s, x) ==
  Max({e.at : e \in {f \in ToSet(s.ledger) : f.kind = "experience" /\ f.subject = x}})

\* At most one experience of an owner has a content as its current one.
Equivalents(s, owner, content) ==
  {x \in DOMAIN s.experiences : /\ s.experiences[x].owner = owner
                                /\ Current(s, x).content = content}

\* A new experience: its rows, then its two events.
Created(s, owner, origin, content, at) ==
  LET x == Len(s.experiences) + 1
      after == [owner |-> owner, version |-> 1, content |-> content,
                temperature |-> "warm"]
      rows == [s EXCEPT !.experiences = Append(@,
                 [owner |-> owner, origin |-> origin, at |-> at,
                  versions |-> <<[content |-> content, at |-> at]>>])]
      first == Appended(rows, "experience_created", "experience", x, owner, at,
                        [after |-> after])
  IN Appended(first, "version_created", "experience", x, owner, at,
              [number |-> 1, before |-> after, after |-> after])

\* The owner archives or restores x, or gives it another version.
Changed(s, x, content, temperature, at) ==
  LET before == Current(s, x)
      revised == content # before.content
      after == [owner |-> before.owner, content |-> content, temperature |-> temperature,
                version |-> IF revised THEN before.version + 1 ELSE before.version]
      rows == IF revised
              THEN [s EXCEPT !.experiences[x].versions =
                      Append(@, [content |-> content, at |-> at])]
              ELSE s
  IN IF revised
     THEN Appended(rows, "version_created", "experience", x, before.owner, at,
                   [number |-> after.version, before |-> before, after |-> after])
     ELSE Appended(rows, "temperature_changed", "experience", x, before.owner, at,
                   [after |-> after])
=============================================================================
