--------------------------- MODULE ImportsProofs ---------------------------
(***************************************************************************)
(* Proofs about Imports, for every set of agents, trajectories, contents   *)
(* and foreign documents and every bound: types, and that candidates and   *)
(* passports are quarantined.  A command builds its rows one after the     *)
(* other, so the first part says what each of those operators leaves; the  *)
(* second, what the reducers make of the events it appended, a fold that   *)
(* is taken at the least place where it would go wrong.  Then each action  *)
(* is followed from its receipt to its commit: it keeps the invariant and  *)
(* is a step of Quarantine (Step), which gives both theorems (EveryStep).  *)
(***************************************************************************)
EXTENDS Imports, SequenceTheorems, WellFoundedInduction, TLAPS

-----------------------------------------------------------------------------
(* Sequences whose elements have no common type.                           *)

IsLog(s) == s \in Seq({s[n] : n \in DOMAIN s})

LEMMA LogOf ==
  ASSUME NEW S, NEW s \in Seq(S)
  PROVE  IsLog(s) /\ Len(s) \in Nat /\ DOMAIN s = 1..Len(s)
<1>1. Len(s) \in Nat /\ DOMAIN s = 1..Len(s)
  OBVIOUS
<1> PICK n \in Nat : n = Len(s)
  BY <1>1
<1>2. s \in [1..n -> {s[i] : i \in DOMAIN s}]
  BY <1>1
<1>3. [1..n -> {s[i] : i \in DOMAIN s}] \subseteq Seq({s[i] : i \in DOMAIN s})
  BY SeqDef
<1> QED BY <1>1, <1>2, <1>3 DEF IsLog

LEMMA LogLength ==
  ASSUME NEW s, IsLog(s)
  PROVE  Len(s) \in Nat /\ DOMAIN s = 1..Len(s)
BY LogOf DEF IsLog

\* The log t is the log s and the elements that f has.
Extends(t, s, d, f) ==
  /\ IsLog(t) /\ Len(t) = Len(s) + d
  /\ \A n \in 1..Len(s) : t[n] = s[n]
  /\ \A i \in 1..d : t[Len(s) + i] = f[i]

LEMMA LogAppend ==
  ASSUME NEW s, IsLog(s), NEW x
  PROVE  Extends(Append(s, x), s, 1, <<x>>)
<1> PICK S : S = {s[n] : n \in DOMAIN s} \cup {x}
  OBVIOUS
<1>1. s \in Seq(S) /\ x \in S
  BY SeqMonotonic DEF IsLog
<1> PICK t : t = Append(s, x)
  OBVIOUS
<1>2. t \in Seq(S) /\ Len(t) = Len(s) + 1
  BY <1>1
<1>3. \A n \in 1..Len(s) : t[n] = s[n]
  BY <1>1
<1>4. t[Len(s) + 1] = x
  BY <1>1
<1>5. IsLog(t)
  BY <1>2, LogOf
<1>6. \A i \in 1..1 : t[Len(s) + i] = <<x>>[i]
  BY <1>4
<1> QED BY <1>2, <1>3, <1>5, <1>6 DEF Extends

LEMMA LogConcat ==
  ASSUME NEW s, IsLog(s), NEW d \in Nat, NEW f, DOMAIN f = 1..d, f = [i \in 1..d |-> f[i]]
  PROVE  Extends(s \o f, s, d, f)
<1>1. f \in Seq({f[i] : i \in 1..d})
  <2>1. f \in [1..d -> {f[i] : i \in 1..d}]
    OBVIOUS
  <2> QED BY <2>1, SeqDef
<1> PICK S : S = {s[n] : n \in DOMAIN s} \cup {f[n] : n \in 1..d}
  OBVIOUS
<1>2. s \in Seq(S) /\ f \in Seq(S) /\ Len(f) = d
  BY <1>1, SeqMonotonic DEF IsLog
<1> PICK m \in Nat : m = Len(s)
  BY LogLength
<1> PICK t : t = s \o f
  OBVIOUS
<1>3. /\ t \in Seq(S) /\ Len(t) = m + d
      /\ \A i \in 1..m + d : t[i] = IF i <= m THEN s[i] ELSE f[i - m]
  BY <1>2, ConcatProperties
<1>4. IsLog(t)
  BY <1>3, LogOf
<1>5. ASSUME NEW i \in 1..d
      PROVE  t[m + i] = f[i]
  <2>1. m + i \in 1..m + d /\ ~(m + i <= m) /\ (m + i) - m = i
    OBVIOUS
  <2> QED BY <1>3, <2>1
<1>6. \A n \in 1..m : t[n] = s[n]
  BY <1>3
<1> QED BY <1>3, <1>4, <1>5, <1>6 DEF Extends

\* The last element of a log is replaced.
EndsWith(t, s, x) == t = [s EXCEPT ![Len(s)] = x]

LEMMA LogReplaced ==
  ASSUME NEW s, IsLog(s), Len(s) # 0, NEW x, NEW t, EndsWith(t, s, x)
  PROVE  /\ IsLog(t) /\ Len(t) = Len(s) /\ t[Len(s)] = x
         /\ \A i \in 1..(Len(s) - 1) : t[i] = s[i]
<1> PICK n \in Nat : Len(s) = n + 1
  <2>1. Len(s) \in Nat /\ Len(s) = (Len(s) - 1) + 1
    BY LogLength
  <2>2. Len(s) - 1 \in Nat
    BY <2>1
  <2> QED BY <2>1, <2>2
<1> PICK S : S = {s[i] : i \in DOMAIN s} \cup {x}
  OBVIOUS
<1>1. s \in Seq(S) /\ x \in S /\ DOMAIN s = 1..n + 1
  BY SeqMonotonic, LogLength DEF IsLog
<1>2. t = [s EXCEPT ![n + 1] = x]
  BY DEF EndsWith
<1>3. t \in Seq(S) /\ Len(t) = n + 1
  BY <1>1, <1>2
<1>4. t[n + 1] = x /\ \A i \in 1..n : t[i] = s[i]
  BY <1>1, <1>2
<1>5. IsLog(t)
  BY <1>3, LogOf
<1> QED BY <1>3, <1>4, <1>5
-----------------------------------------------------------------------------
(* The rows of a source, and what each operator leaves of them.            *)

IsSource(s) ==
  s = [ledger |-> s.ledger, receipts |-> s.receipts, experiences |-> s.experiences,
       bundles |-> s.bundles, evidence |-> s.evidence, candidates |-> s.candidates,
       adoptions |-> s.adoptions, documents |-> s.documents, imports |-> s.imports,
       transfers |-> s.transfers]

IsExperience(x) ==
  x = [owner |-> x.owner, origin |-> x.origin, at |-> x.at, versions |-> x.versions]

Sourced(s) ==
  /\ IsSource(s) /\ IsLog(s.ledger) /\ IsLog(s.receipts) /\ IsLog(s.experiences)
  /\ IsLog(s.candidates) /\ IsLog(s.adoptions) /\ IsLog(s.imports)
  /\ \A x \in 1..Len(s.experiences) : IsExperience(s.experiences[x])

IsReceipt(r) ==
  r = [scope |-> r.scope, owner |-> r.owner, request |-> r.request, created |-> r.created,
       completed |-> r.completed, status |-> r.status, resource |-> r.resource,
       answer |-> r.answer]

\* The rows that decisions are made on.
SameRows(s, r) ==
  /\ r.experiences = s.experiences /\ r.candidates = s.candidates
  /\ r.adoptions = s.adoptions /\ r.imports = s.imports

\* The command that started at s has its receipt in r.
Began(s, r) ==
  /\ Len(s.receipts) \in Nat /\ Len(r.receipts) = Len(s.receipts) + 1
  /\ IsReceipt(r.receipts[Len(s.receipts) + 1])
  /\ \A n \in 1..Len(s.receipts) : r.receipts[n] = s.receipts[n]

LEMMA Reserves ==
  ASSUME NEW s, Sourced(s), NEW scope, NEW owner, NEW request, NEW clock,
         NEW r, r = Reserved(s, scope, owner, request, clock)
  PROVE  Sourced(r) /\ Began(s, r) /\ SameRows(s, r) /\ r.ledger = s.ledger
<1> PICK x : x = [scope |-> scope, owner |-> owner, request |-> request, created |-> clock,
                  completed |-> None, status |-> None, resource |-> None, answer |-> None]
  OBVIOUS
<1> PICK log : log = Append(s.receipts, x)
  OBVIOUS
<1>1. r = [s EXCEPT !.receipts = log]
  BY DEF Reserved
<1>2. IsSource(r) /\ SameRows(s, r) /\ r.ledger = s.ledger /\ r.receipts = log
  BY <1>1 DEF Sourced, IsSource, SameRows
<1>3. Extends(log, s.receipts, 1, <<x>>)
  BY LogAppend DEF Sourced
<1>4. IsReceipt(x)
  BY DEF IsReceipt
<1>5. log[Len(s.receipts) + 1] = x
  BY <1>3 DEF Extends
<1>6. Len(s.receipts) \in Nat
  BY LogLength DEF Sourced
<1> QED BY <1>2, <1>3, <1>4, <1>5, <1>6 DEF Sourced, SameRows, Began, Extends

\* Whatever is written into the receipt of the command, it is a receipt.
Fills(r, s, x) == \E log : r = [s EXCEPT !.receipts = log] /\ EndsWith(log, s.receipts, x)

LEMMA ReceiptWritten ==
  ASSUME NEW s, NEW s0, Sourced(s), Began(s0, s), NEW x, IsReceipt(x), NEW r, Fills(r, s, x)
  PROVE  /\ Sourced(r) /\ Began(s0, r) /\ SameRows(s, r) /\ r.ledger = s.ledger
         /\ r.receipts[Len(s0.receipts) + 1] = x
<1> PICK n \in Nat : n = Len(s0.receipts)
  BY DEF Began
<1> PICK old : old = s.receipts
  OBVIOUS
<1>1. IsLog(old) /\ Len(old) = n + 1
  BY DEF Sourced, Began
<1>2. PICK log : r = [s EXCEPT !.receipts = log] /\ EndsWith(log, old, x)
  BY DEF Fills
<1>3. IsSource(r) /\ SameRows(s, r) /\ r.ledger = s.ledger /\ r.receipts = log
  BY <1>2 DEF Sourced, IsSource, SameRows
<1>4. IsLog(log) /\ Len(log) = n + 1 /\ log[n + 1] = x /\ \A i \in 1..n : log[i] = old[i]
  <2>1. Len(old) # 0 /\ Len(old) - 1 = n
    BY <1>1
  <2>2. /\ IsLog(log) /\ Len(log) = Len(old) /\ log[Len(old)] = x
        /\ \A i \in 1..(Len(old) - 1) : log[i] = old[i]
    BY <1>1, <1>2, <2>1, LogReplaced
  <2> QED BY <1>1, <2>1, <2>2
<1> QED BY <1>3, <1>4 DEF Sourced, SameRows, Began

LEMMA Attaches ==
  ASSUME NEW s, NEW s0, Sourced(s), Began(s0, s), NEW resource,
         NEW r, r = Attached(s, resource)
  PROVE  Sourced(r) /\ Began(s0, r) /\ SameRows(s, r) /\ r.ledger = s.ledger
<1> PICK n \in Nat : n = Len(s0.receipts)
  BY DEF Began
<1> PICK y : y = s.receipts[n + 1]
  OBVIOUS
<1> PICK x : x = [y EXCEPT !.resource = resource]
  OBVIOUS
<1>1. IsReceipt(x)
  <2>1. IsReceipt(y)
    BY DEF Began
  <2> QED BY <2>1 DEF IsReceipt
<1>2. Len(s.receipts) = n + 1
  BY DEF Began
<1>3. Fills(r, s, x)
  BY <1>2 DEF Attached, Fills, EndsWith
<1> QED BY <1>1, <1>3, ReceiptWritten

LEMMA Answers ==
  ASSUME NEW s, NEW s0, Sourced(s), Began(s0, s), NEW status, NEW answer, NEW now,
         NEW r, r = Answered(s, status, answer, now)
  PROVE  /\ Sourced(r) /\ Began(s0, r) /\ SameRows(s, r) /\ r.ledger = s.ledger
         /\ r.receipts[Len(s0.receipts) + 1].completed = now
<1> PICK n \in Nat : n = Len(s0.receipts)
  BY DEF Began
<1> PICK y : y = s.receipts[n + 1]
  OBVIOUS
<1> PICK x : x = [y EXCEPT !.completed = now, !.status = status, !.answer = answer]
  OBVIOUS
<1>1. IsReceipt(x) /\ x.completed = now
  <2>1. IsReceipt(y)
    BY DEF Began
  <2> QED BY <2>1 DEF IsReceipt
<1>2. Len(s.receipts) = n + 1
  BY DEF Began
<1>3. Fills(r, s, x)
  BY <1>2 DEF Answered, Fills, EndsWith
<1>4. /\ Sourced(r) /\ Began(s0, r) /\ SameRows(s, r) /\ r.ledger = s.ledger
      /\ r.receipts[Len(s0.receipts) + 1] = x
  BY <1>1, <1>3, ReceiptWritten
<1> QED BY <1>1, <1>4

\* What an event says, whatever its place.
Says(e, type, kind, subject, at, data) ==
  e.type = type /\ e.kind = kind /\ e.subject = subject /\ e.at = at /\ e.data = data

LEMMA NextSays ==
  ASSUME NEW s, NEW n, NEW type, NEW kind, NEW subject, NEW actor, NEW at, NEW data,
         NEW e, e = NextEvent(s, n, type, kind, subject, actor, at, data)
  PROVE  Says(e, type, kind, subject, at, data)
<1> PICK sequence :
      e = [id |-> Len(s.ledger) + n, type |-> type, kind |-> kind, subject |-> subject,
           sequence |-> sequence, actor |-> actor, at |-> at, cause |-> Len(s.receipts),
           data |-> data]
  BY DEF NextEvent
<1> QED BY DEF Says

\* The source r is s with one event more.
Told(s, r, type, kind, subject, at, data) ==
  /\ Sourced(r) /\ SameRows(s, r) /\ r.receipts = s.receipts
  /\ Len(r.ledger) = Len(s.ledger) + 1
  /\ \A n \in 1..Len(s.ledger) : r.ledger[n] = s.ledger[n]
  /\ Says(r.ledger[Len(s.ledger) + 1], type, kind, subject, at, data)

LEMMA Appends ==
  ASSUME NEW s, Sourced(s), NEW type, NEW kind, NEW subject, NEW actor, NEW at, NEW data
  PROVE  Told(s, Appended(s, type, kind, subject, actor, at, data), type, kind, subject, at, data)
<1> PICK r : r = Appended(s, type, kind, subject, actor, at, data)
  OBVIOUS
<1> PICK e : e = NextEvent(s, 1, type, kind, subject, actor, at, data)
  OBVIOUS
<1> PICK log : log = Append(s.ledger, e)
  OBVIOUS
<1>1. r = [s EXCEPT !.ledger = log]
  BY DEF Appended
<1>2. IsSource(r) /\ SameRows(s, r) /\ r.receipts = s.receipts /\ r.ledger = log
  BY <1>1 DEF Sourced, IsSource, SameRows
<1>3. Extends(log, s.ledger, 1, <<e>>)
  BY LogAppend DEF Sourced
<1>4. Says(e, type, kind, subject, at, data)
  BY NextSays
<1>5. log[Len(s.ledger) + 1] = e
  BY <1>3 DEF Extends
<1> QED BY <1>2, <1>3, <1>4, <1>5 DEF Sourced, SameRows, Extends, Told
-----------------------------------------------------------------------------
(* Experiences and their ledger.                                           *)

\* A set of numbers up to n has a greatest one.
LEMMA Greatest ==
  ASSUME NEW n \in Nat, NEW S, S \subseteq 1..n, S # {}
  PROVE  Max(S) \in S
<1> PICK T : T = {n - j : j \in S}
  OBVIOUS
<1>1. T \subseteq Nat /\ T # {}
  <2>1. \A j \in S : n - j \in Nat
    OBVIOUS
  <2> QED BY <2>1
<1>3. PICK a \in T : \A b \in T : ~(<<b, a>> \in OpToRel(<, Nat))
  BY <1>1, WFMin, NatLessThanWellFounded
<1>4. \A b \in T : ~(b < a)
  BY <1>1, <1>3 DEF OpToRel
<1>5. PICK j \in S : a = n - j
  OBVIOUS
<1>6. \A i \in S : j >= i
  <2> SUFFICES ASSUME NEW i \in S PROVE j >= i
    OBVIOUS
  <2>1. n - i \in T
    OBVIOUS
  <2>2. ~(n - i < n - j)
    BY <1>4, <1>5, <2>1
  <2>3. i \in 1..n /\ j \in 1..n
    OBVIOUS
  <2> QED BY <2>2, <2>3
<1> QED BY <1>6 DEF Max

\* The ledger of r is that of s with d events more.
Longer(s, r, d) ==
  /\ Len(r.ledger) = Len(s.ledger) + d
  /\ \A n \in 1..Len(s.ledger) : r.ledger[n] = s.ledger[n]

OfExperience(e, x) == e.kind = "experience" /\ e.subject = x

\* An experience has a version for each event at most, and an event at least.
IsSnapshot(a, j) ==
  /\ a = [owner |-> a.owner, version |-> a.version, content |-> a.content,
          temperature |-> a.temperature]
  /\ a.version \in 1..j

Snapshots(s) ==
  \A j \in 1..Len(s.ledger) :
    s.ledger[j].kind = "experience" => IsSnapshot(s.ledger[j].data.after, j)
Recorded(s) ==
  \A x \in 1..Len(s.experiences) : \E j \in 1..Len(s.ledger) : OfExperience(s.ledger[j], x)

LEMMA CurrentVersion ==
  ASSUME NEW s, Sourced(s), Snapshots(s), NEW x,
         \E j \in 1..Len(s.ledger) : OfExperience(s.ledger[j], x)
  PROVE  IsSnapshot(Current(s, x), Len(s.ledger))
<1> PICK n \in Nat : n = Len(s.ledger)
  BY LogLength DEF Sourced
<1> PICK own : own = {j \in 1..n : OfExperience(s.ledger[j], x)}
  OBVIOUS
<1>1. own \subseteq 1..n /\ own # {}
  OBVIOUS
<1>2. Max(own) \in own
  BY <1>1, Greatest
<1> PICK j : j = Max(own)
  OBVIOUS
<1>3. Current(s, x) = s.ledger[j].data.after
  <2>1. (n + 1) - 1 = n
    OBVIOUS
  <2>2. own = {i \in 1..(n + 1) - 1 : s.ledger[i].kind = "experience" /\ s.ledger[i].subject = x}
    BY <2>1 DEF OfExperience
  <2> QED BY <1>1, <2>2 DEF Current, SnapshotBefore
<1>4. j \in 1..n /\ IsSnapshot(s.ledger[j].data.after, j)
  BY <1>2 DEF Snapshots, OfExperience
<1>5. ASSUME NEW i \in 1..j
      PROVE  i \in 1..n
  BY <1>4
<1> QED BY <1>3, <1>4, <1>5 DEF IsSnapshot

LEMMA SnapshotsGrow ==
  ASSUME NEW s, NEW r, Sourced(s), Sourced(r), Snapshots(s), Longer(s, r, 1),
         LET e == r.ledger[Len(s.ledger) + 1]
         IN e.kind = "experience" => IsSnapshot(e.data.after, Len(s.ledger) + 1)
  PROVE  Snapshots(r)
<1> PICK n \in Nat : n = Len(s.ledger)
  BY LogLength DEF Sourced
<1> SUFFICES ASSUME NEW j \in 1..n + 1, r.ledger[j].kind = "experience"
             PROVE  IsSnapshot(r.ledger[j].data.after, j)
  BY DEF Longer, Snapshots
<1>1. CASE j \in 1..n
  BY <1>1 DEF Longer, Snapshots
<1>2. CASE j = n + 1
  BY <1>2
<1> QED BY <1>1, <1>2

\* The reducers pass over an event.
Telling == {"candidate_created", "candidate_adopted", "candidate_rejected",
            "passport_imported", "passport_adopted", "passport_rejected"}

QuietUpTo(s, r, d) == \A i \in 1..d : r.ledger[Len(s.ledger) + i].type \notin Telling

\* A new experience x, of that owner and origin, in its rows.
NewExperience(s, r, owner, origin) ==
  LET x == Len(s.experiences) + 1
  IN /\ Len(r.experiences) = x
     /\ \A y \in 1..Len(s.experiences) : r.experiences[y] = s.experiences[y]
     /\ r.experiences[x].owner = owner /\ r.experiences[x].origin = origin

OtherRows(s, r) ==
  r.candidates = s.candidates /\ r.adoptions = s.adoptions /\ r.imports = s.imports

LEMMA Creates ==
  ASSUME NEW s, Sourced(s), NEW owner, NEW origin, NEW content, NEW at,
         NEW r, r = Created(s, owner, origin, content, at)
  PROVE  /\ Sourced(r) /\ OtherRows(s, r) /\ r.receipts = s.receipts
         /\ NewExperience(s, r, owner, origin) /\ Longer(s, r, 2) /\ QuietUpTo(s, r, 2)
         /\ Snapshots(s) /\ Recorded(s) => Snapshots(r) /\ Recorded(r)
<1> PICK k \in Nat, m \in Nat : k = Len(s.experiences) /\ m = Len(s.ledger)
  BY LogLength DEF Sourced
<1> PICK after : after = [owner |-> owner, version |-> 1, content |-> content,
                          temperature |-> "warm"]
  OBVIOUS
<1>0. PICK v : v = <<[content |-> content, at |-> at]>>
  OBVIOUS
<1> PICK y : y = [owner |-> owner, origin |-> origin, at |-> at, versions |-> v]
  OBVIOUS
<1> PICK log : log = Append(s.experiences, y)
  OBVIOUS
<1> PICK rows : rows = [s EXCEPT !.experiences = log]
  OBVIOUS
<1> PICK one, two : one = [after |-> after]
                    /\ two = [number |-> 1, before |-> after, after |-> after]
  OBVIOUS
<1> PICK first : first = Appended(rows, "experience_created", "experience", k + 1, owner, at, one)
  OBVIOUS
<1>1. r = Appended(first, "version_created", "experience", k + 1, owner, at, two)
  BY <1>0 DEF Created
<1>2. /\ IsSource(rows) /\ OtherRows(s, rows) /\ rows.receipts = s.receipts
      /\ rows.ledger = s.ledger /\ rows.experiences = log
  BY DEF Sourced, IsSource, OtherRows
<1>3. Extends(log, s.experiences, 1, <<y>>)
  BY LogAppend DEF Sourced
<1>4. Sourced(rows)
  <2>1. ASSUME NEW x \in 1..k + 1
        PROVE  IsExperience(log[x])
    <3>1. x \in 1..k \/ x = k + 1
      OBVIOUS
    <3>2. IsExperience(y)
      BY DEF IsExperience
    <3> QED BY <1>3, <3>1, <3>2 DEF Extends, Sourced
  <2> QED BY <1>2, <1>3, <2>1 DEF Sourced, OtherRows, Extends
<1>5. /\ Sourced(first) /\ SameRows(rows, first) /\ first.receipts = rows.receipts
      /\ Len(first.ledger) = m + 1 /\ \A n \in 1..m : first.ledger[n] = s.ledger[n]
      /\ Says(first.ledger[m + 1], "experience_created", "experience", k + 1, at, one)
  <2>1. Told(rows, first, "experience_created", "experience", k + 1, at, one)
    BY <1>4, Appends
  <2>2. Len(rows.ledger) = m /\ \A n \in 1..m : rows.ledger[n] = s.ledger[n]
    BY <1>2
  <2> QED BY <2>1, <2>2 DEF Told
<1>6. /\ Sourced(r) /\ SameRows(first, r) /\ r.receipts = first.receipts
      /\ Len(r.ledger) = (m + 1) + 1 /\ \A n \in 1..m + 1 : r.ledger[n] = first.ledger[n]
      /\ Says(r.ledger[(m + 1) + 1], "version_created", "experience", k + 1, at, two)
  <2>1. Told(first, r, "version_created", "experience", k + 1, at, two)
    BY <1>1, <1>5, Appends
  <2> QED BY <1>5, <2>1 DEF Told
<1>7. /\ Len(r.ledger) = m + 2 /\ \A n \in 1..m : r.ledger[n] = s.ledger[n]
      /\ r.ledger[m + 1] = first.ledger[m + 1]
      /\ Says(r.ledger[m + 2], "version_created", "experience", k + 1, at, two)
  <2>1. (m + 1) + 1 = m + 2 /\ m + 1 \in 1..m + 1 /\ \A n \in 1..m : n \in 1..m + 1
    OBVIOUS
  <2>2. ASSUME NEW n \in 1..m
        PROVE  r.ledger[n] = s.ledger[n]
    <3>1. first.ledger[n] = s.ledger[n]
      BY <1>5
    <3>2. r.ledger[n] = first.ledger[n]
      BY <1>6, <2>1
    <3> QED BY <3>1, <3>2
  <2>3. Len(r.ledger) = m + 2 /\ r.ledger[m + 1] = first.ledger[m + 1]
    BY <1>6, <2>1
  <2>4. Says(r.ledger[m + 2], "version_created", "experience", k + 1, at, two)
    BY <1>6, <2>1
  <2> QED BY <2>2, <2>3, <2>4
<1>8. OtherRows(s, r) /\ r.receipts = s.receipts /\ r.experiences = log
  BY <1>2, <1>5, <1>6 DEF OtherRows, SameRows
<1>9. NewExperience(s, r, owner, origin)
  BY <1>3, <1>8 DEF NewExperience, Extends
<1>10. Longer(s, r, 2) /\ QuietUpTo(s, r, 2)
  <2>1. \A i \in 1..2 : i = 1 \/ i = 2
    OBVIOUS
  <2>2. r.ledger[m + 1].type \notin Telling /\ r.ledger[m + 2].type \notin Telling
    BY <1>5, <1>7 DEF Says, Telling
  <2> QED BY <1>7, <2>1, <2>2 DEF Longer, QuietUpTo
<1>11. ASSUME Snapshots(s), Recorded(s)
       PROVE  Snapshots(r) /\ Recorded(r)
  <2>1. Snapshots(rows)
    BY <1>2, <1>11 DEF Snapshots
  <2>2. Longer(rows, first, 1) /\ Longer(first, r, 1)
    <3>1. Len(rows.ledger) = m /\ \A n \in 1..m : rows.ledger[n] = s.ledger[n]
      BY <1>2
    <3>2. Longer(rows, first, 1)
      <4>1. \A n \in 1..m : first.ledger[n] = rows.ledger[n]
        BY <1>5, <3>1
      <4> QED BY <1>5, <3>1, <4>1 DEF Longer
    <3>3. Longer(first, r, 1)
      BY <1>5, <1>6 DEF Longer
    <3> QED BY <3>2, <3>3
  <2>3. Snapshots(first)
    <3>1. IsSnapshot(first.ledger[m + 1].data.after, m + 1)
      <4>1. first.ledger[m + 1].data = one
        BY <1>5 DEF Says
      <4>2. IsSnapshot(one.after, m + 1)
        BY DEF IsSnapshot
      <4> QED BY <4>1, <4>2
    <3> QED BY <1>2, <1>4, <1>5, <2>1, <2>2, <3>1, SnapshotsGrow
  <2>4. Snapshots(r)
    <3>1. IsSnapshot(r.ledger[(m + 1) + 1].data.after, (m + 1) + 1)
      <4>1. r.ledger[(m + 1) + 1].data = two
        BY <1>6 DEF Says
      <4>2. IsSnapshot(two.after, (m + 1) + 1)
        BY DEF IsSnapshot
      <4> QED BY <4>1, <4>2
    <3> QED BY <1>5, <1>6, <2>2, <2>3, <3>1, SnapshotsGrow
  <2>5. Recorded(r)
    <3> SUFFICES ASSUME NEW x \in 1..k + 1
                 PROVE  \E j \in 1..m + 2 : OfExperience(r.ledger[j], x)
      BY <1>7, <1>9 DEF Recorded, NewExperience
    <3>1. CASE x \in 1..k
      <4>1. PICK j \in 1..m : OfExperience(s.ledger[j], x)
        BY <1>11, <3>1 DEF Recorded
      <4> QED BY <1>7, <4>1
    <3>2. CASE x = k + 1
      <4>1. m + 2 \in 1..m + 2
        OBVIOUS
      <4> QED BY <1>7, <3>2, <4>1 DEF Says, OfExperience
    <3> QED BY <3>1, <3>2
  <2> QED BY <2>4, <2>5
<1> QED BY <1>6, <1>8, <1>9, <1>10, <1>11

\* The same experiences, of the same owners and origins.
SameMakers(s, r) ==
  /\ Len(r.experiences) = Len(s.experiences)
  /\ \A x \in 1..Len(s.experiences) : /\ r.experiences[x].owner = s.experiences[x].owner
                                      /\ r.experiences[x].origin = s.experiences[x].origin

LEMMA Changes ==
  ASSUME NEW s, Sourced(s), Snapshots(s), Recorded(s), NEW x \in 1..Len(s.experiences),
         NEW content, NEW temperature, NEW at,
         NEW r, r = Changed(s, x, content, temperature, at)
  PROVE  /\ Sourced(r) /\ OtherRows(s, r) /\ r.receipts = s.receipts /\ SameMakers(s, r)
         /\ Longer(s, r, 1) /\ QuietUpTo(s, r, 1) /\ Snapshots(r) /\ Recorded(r)
<1> PICK k \in Nat, m \in Nat : k = Len(s.experiences) /\ m = Len(s.ledger)
  BY LogLength DEF Sourced
<1> PICK before : before = Current(s, x)
  OBVIOUS
<1>1. IsSnapshot(before, m)
  BY CurrentVersion DEF Recorded
<1> PICK number : number \in 1..m + 1
                  /\ number = IF content # before.content THEN before.version + 1
                                                          ELSE before.version
  BY <1>1 DEF IsSnapshot
<1> PICK after : after = [owner |-> before.owner, version |-> number, content |-> content,
                          temperature |-> temperature]
  OBVIOUS
<1>2. IsSnapshot(after, m + 1)
  BY DEF IsSnapshot
<1>3. after = [owner |-> before.owner, content |-> content, temperature |-> temperature,
               version |-> IF content # before.content THEN before.version + 1
                                                       ELSE before.version]
  OBVIOUS
<1>4. PICK rows, type, data :
        /\ \/ rows = s
           \/ \E versions : rows = [s EXCEPT !.experiences[x].versions = versions]
        /\ type \in {"version_created", "temperature_changed"} /\ data.after = after
        /\ r = Appended(rows, type, "experience", x, before.owner, at, data)
  <2>1. CASE content # before.content
    <3> PICK versions : versions = Append(s.experiences[x].versions, [content |-> content, at |-> at])
      OBVIOUS
    <3> PICK data : data = [number |-> number, before |-> before, after |-> after]
      OBVIOUS
    <3>1. r = Appended([s EXCEPT !.experiences[x].versions = versions],
                       "version_created", "experience", x, before.owner, at, data)
      BY <1>3, <2>1 DEF Changed
    <3>2. data.after = after
      OBVIOUS
    <3> QED BY <3>1, <3>2
  <2>2. CASE content = before.content
    <3> PICK data : data = [after |-> after]
      OBVIOUS
    <3>1. r = Appended(s, "temperature_changed", "experience", x, before.owner, at, data)
      BY <1>3, <2>2 DEF Changed
    <3>2. data.after = after
      OBVIOUS
    <3> QED BY <3>1, <3>2
  <2> QED BY <2>1, <2>2
<1>5. /\ Sourced(rows) /\ OtherRows(s, rows) /\ rows.receipts = s.receipts
      /\ SameMakers(s, rows) /\ rows.ledger = s.ledger
  <2>1. CASE rows = s
    BY <2>1 DEF OtherRows, SameMakers
  <2>2. ASSUME NEW versions, rows = [s EXCEPT !.experiences[x].versions = versions]
        PROVE  /\ Sourced(rows) /\ OtherRows(s, rows) /\ rows.receipts = s.receipts
               /\ SameMakers(s, rows) /\ rows.ledger = s.ledger
    <3> PICK old, y : old = s.experiences /\ y = old[x]
      OBVIOUS
    <3> PICK z : z = [y EXCEPT !.versions = versions]
      OBVIOUS
    <3> PICK log : log = [old EXCEPT ![x] = z]
      OBVIOUS
    <3>1. rows = [s EXCEPT !.experiences = log]
      BY <2>2
    <3>2. IsExperience(y) /\ IsExperience(z) /\ z.owner = y.owner /\ z.origin = y.origin
      BY DEF Sourced, IsExperience
    <3>3. IsLog(log) /\ Len(log) = k /\ \A i \in 1..k : log[i] = IF i = x THEN z ELSE old[i]
      <4> PICK S : S = {old[i] : i \in DOMAIN old} \cup {z}
        OBVIOUS
      <4>1. old \in Seq(S) /\ z \in S /\ DOMAIN old = 1..k
        BY SeqMonotonic, LogLength DEF IsLog, Sourced
      <4>2. log \in Seq(S) /\ Len(log) = k
        BY <4>1
      <4>3. \A i \in 1..k : log[i] = IF i = x THEN z ELSE old[i]
        BY <4>1
      <4>4. IsLog(log)
        BY <4>2, LogOf
      <4> QED BY <4>2, <4>3, <4>4
    <3>4. /\ IsSource(rows) /\ OtherRows(s, rows) /\ rows.receipts = s.receipts
          /\ rows.ledger = s.ledger /\ rows.experiences = log
      BY <3>1 DEF Sourced, IsSource, OtherRows
    <3>5. Sourced(rows)
      BY <3>2, <3>3, <3>4 DEF Sourced, OtherRows
    <3>6. SameMakers(s, rows)
      BY <3>2, <3>3, <3>4 DEF SameMakers
    <3> QED BY <3>4, <3>5, <3>6
  <2> QED BY <1>4, <2>1, <2>2
<1>6. Told(rows, r, type, "experience", x, at, data)
  BY <1>4, <1>5, Appends
<1>7. /\ Sourced(r) /\ SameRows(rows, r) /\ r.receipts = rows.receipts
      /\ Len(r.ledger) = m + 1 /\ \A n \in 1..m : r.ledger[n] = s.ledger[n]
      /\ Says(r.ledger[m + 1], type, "experience", x, at, data)
  BY <1>5, <1>6 DEF Told
<1>8. OtherRows(s, r) /\ r.receipts = s.receipts /\ SameMakers(s, r)
  BY <1>5, <1>7 DEF OtherRows, SameRows, SameMakers
<1>9. Longer(s, r, 1)
  BY <1>7 DEF Longer
<1>10. QuietUpTo(s, r, 1)
  <2>1. \A i \in 1..1 : i = 1
    OBVIOUS
  <2>2. r.ledger[m + 1].type \notin Telling
    BY <1>4, <1>7 DEF Says, Telling
  <2> QED BY <2>1, <2>2 DEF QuietUpTo
<1>11. Snapshots(r)
  <2>1. IsSnapshot(r.ledger[m + 1].data.after, m + 1)
    BY <1>2, <1>4, <1>7 DEF Says
  <2> QED BY <1>7, <1>9, <2>1, SnapshotsGrow
<1>12. Recorded(r)
  <2> SUFFICES ASSUME NEW y \in 1..k
               PROVE  \E j \in 1..m + 1 : OfExperience(r.ledger[j], y)
    BY <1>7, <1>8 DEF Recorded, SameMakers
  <2>1. PICK j \in 1..m : OfExperience(s.ledger[j], y)
    BY DEF Recorded
  <2> QED BY <1>7, <2>1
<1> QED BY <1>7, <1>8, <1>9, <1>10, <1>11, <1>12
-----------------------------------------------------------------------------
(* What the reducers make of the events of a command.                      *)

IsTables(t) == t = [candidates |-> t.candidates, passports |-> t.passports]
Refused(t) == None \in {t.candidates, t.passports}

\* The tables before and after each event of r from place k on.
IsFold(rows, r, t, k) ==
  /\ rows[k] = t
  /\ \A n \in k + 1..Len(r.ledger) : rows[n] = Applied(r, rows[n - 1], r.ledger[n])

IsFoldTo(g, r, t, k, m) ==
  g = [n \in k..m |-> IF n = k THEN t
                      ELSE LET before == g[n - 1] IN Applied(r, before, r.ledger[n])]

LEMMA FoldExists ==
  ASSUME NEW r, NEW t, NEW k \in Nat, NEW d \in Nat
  PROVE  \E g : IsFoldTo(g, r, t, k, k + d)
<1> PICK bad : bad = {e \in Nat : ~ \E g : IsFoldTo(g, r, t, k, k + e)}
  OBVIOUS
<1>1. SUFFICES bad = {}
  BY <1>1
<1>2. SUFFICES ASSUME bad # {} PROVE FALSE
  OBVIOUS
<1>3. PICK e \in bad : \A b \in bad : ~(<<b, e>> \in OpToRel(<, Nat))
  BY <1>2, WFMin, NatLessThanWellFounded
<1>4. e \in Nat /\ \A b \in bad : ~(b < e)
  BY <1>3 DEF OpToRel
<1>5. CASE e = 0
  <2> PICK g : g = [n \in k..k |-> t]
    OBVIOUS
  <2>1. IsFoldTo(g, r, t, k, k + 0)
    <3>1. k + 0 = k /\ \A n \in k..k : n = k
      OBVIOUS
    <3>2. g = [n \in k..k + 0 |-> IF n = k THEN t
                 ELSE LET before == g[n - 1] IN Applied(r, before, r.ledger[n])]
      BY <3>1
    <3> QED BY <3>2 DEF IsFoldTo
  <2> QED BY <1>5, <2>1
<1>6. CASE e # 0
  <2>1. e - 1 \in Nat /\ e - 1 < e
    BY <1>4, <1>6
  <2>2. PICK g : IsFoldTo(g, r, t, k, k + (e - 1))
    BY <1>4, <2>1
  <2> PICK h : h = [n \in k..k + e |->
                      IF n = k + e THEN Applied(r, g[n - 1], r.ledger[n]) ELSE g[n]]
    OBVIOUS
  <2>3. ASSUME NEW n \in k..k + e
        PROVE  h[n] = IF n = k THEN t
                      ELSE LET before == h[n - 1] IN Applied(r, before, r.ledger[n])
    <3>1. CASE n = k
      <4>1. n # k + e /\ n \in k..k + (e - 1)
        BY <1>4, <1>6, <3>1
      <4>2. g[n] = t
        BY <2>2, <3>1, <4>1 DEF IsFoldTo
      <4> QED BY <3>1, <4>1, <4>2
    <3>2. CASE n # k /\ n # k + e
      <4>1. n \in k..k + (e - 1) /\ n - 1 \in k..k + e /\ n - 1 # k + e
        BY <1>4, <3>2
      <4>2. g[n] = Applied(r, g[n - 1], r.ledger[n])
        BY <2>2, <3>2, <4>1 DEF IsFoldTo
      <4>3. h[n - 1] = g[n - 1] /\ h[n] = g[n]
        BY <3>2, <4>1
      <4> QED BY <3>2, <4>2, <4>3
    <3>3. CASE n # k /\ n = k + e
      <4>1. n - 1 \in k..k + e /\ n - 1 # k + e
        BY <1>4, <3>3
      <4>2. h[n - 1] = g[n - 1] /\ h[n] = Applied(r, g[n - 1], r.ledger[n])
        BY <3>3, <4>1
      <4> QED BY <3>3, <4>2
    <3> QED BY <3>1, <3>2, <3>3
  <2>4. h = [n \in k..k + e |-> h[n]]
    OBVIOUS
  <2>5. IsFoldTo(h, r, t, k, k + e)
    BY <2>3, <2>4 DEF IsFoldTo
  <2> QED BY <1>3, <2>5
<1> QED BY <1>5, <1>6

Folds(rows, r, t, k, d) == IsFold(rows, r, t, k) /\ Projected(r, t, k) = rows[k + d]

LEMMA FoldOf ==
  ASSUME NEW r, NEW t, NEW k, NEW d, k \in Nat, d \in Nat, Len(r.ledger) = k + d
  PROVE  \E rows : Folds(rows, r, t, k, d)
<1> PICK rows : rows = CHOOSE g : IsFoldTo(g, r, t, k, k + d)
  OBVIOUS
<1>1. IsFoldTo(rows, r, t, k, k + d)
  BY FoldExists
<1>2. Projected(r, t, k) = rows[k + d]
  BY DEF Projected, IsFoldTo
<1>3. rows[k] = t
  <2>1. k \in k..k + d
    OBVIOUS
  <2> QED BY <1>1, <2>1 DEF IsFoldTo
<1>4. ASSUME NEW n \in k + 1..k + d
      PROVE  rows[n] = Applied(r, rows[n - 1], r.ledger[n])
  <2>1. n \in k..k + d /\ n # k
    OBVIOUS
  <2> QED BY <1>1, <2>1 DEF IsFoldTo
<1> QED BY <1>2, <1>3, <1>4 DEF IsFold, Folds

\* Both reducers pass over what is not for them.
LEMMA PassedOver ==
  ASSUME NEW r, NEW t, IsTables(t), NEW e, e.type \notin Telling
  PROVE  Applied(r, t, e) = t
<1>1. ApplyToCandidates(r, t.candidates, e) = t.candidates
  BY DEF Telling, ApplyToCandidates
<1>2. ApplyToPassports(r, t.passports, e) = t.passports
  BY DEF Telling, ApplyToPassports
<1> QED BY <1>1, <1>2 DEF Applied, IsTables

\* Only the last event of a command changes the tables.
LEMMA LastTells ==
  ASSUME NEW s, NEW r, NEW t, IsTables(t), Len(s.ledger) \in Nat,
         NEW d \in 1..3, Len(r.ledger) = Len(s.ledger) + d, QuietUpTo(s, r, d - 1)
  PROVE  Projected(r, t, Len(s.ledger)) = Applied(r, t, r.ledger[Len(s.ledger) + d])
<1> PICK k \in Nat : k = Len(s.ledger)
  OBVIOUS
<1>1. d \in Nat /\ Len(r.ledger) = k + d
  OBVIOUS
<1>2. PICK rows : Folds(rows, r, t, k, d)
  BY <1>1, FoldOf
<1>3. ASSUME NEW i \in 1..d
      PROVE  rows[k + i] = Applied(r, rows[k + (i - 1)], r.ledger[k + i])
  <2>1. k + i \in k + 1..k + d /\ (k + i) - 1 = k + (i - 1)
    OBVIOUS
  <2>2. Len(r.ledger) = k + d
    OBVIOUS
  <2> QED BY <1>2, <2>1, <2>2 DEF IsFold, Folds
<1>4. rows[k + 0] = t
  BY <1>2 DEF IsFold, Folds
<1>5. ASSUME NEW i \in 1..(d - 1), rows[k + (i - 1)] = t
      PROVE  rows[k + i] = t
  <2>1. i \in 1..d
    OBVIOUS
  <2>2. r.ledger[k + i].type \notin Telling
    BY DEF QuietUpTo
  <2>3. rows[k + i] = Applied(r, t, r.ledger[k + i])
    BY <1>3, <1>5, <2>1
  <2> QED BY <2>2, <2>3, PassedOver
<1>6. rows[k + (d - 1)] = t
  <2>1. CASE d = 1
    BY <1>4, <2>1
  <2>2. CASE d = 2
    <3>1. 1 \in 1..(d - 1) /\ k + (1 - 1) = k + 0 /\ k + (d - 1) = k + 1
      BY <2>2
    <3> QED BY <1>4, <1>5, <3>1
  <2>3. CASE d = 3
    <3>1. 1 \in 1..(d - 1) /\ k + (1 - 1) = k + 0
      BY <2>3
    <3>2. rows[k + 1] = t
      BY <1>4, <1>5, <3>1
    <3>3. 2 \in 1..(d - 1) /\ k + (2 - 1) = k + 1 /\ k + (d - 1) = k + 2
      BY <2>3
    <3> QED BY <1>5, <3>2, <3>3
  <2> QED BY <2>1, <2>2, <2>3
<1>7. d \in 1..d
  OBVIOUS
<1>8. rows[k + d] = Applied(r, t, r.ledger[k + d])
  BY <1>3, <1>6, <1>7
<1> QED BY <1>2, <1>8 DEF Folds

LEMMA NothingTold ==
  ASSUME NEW s, NEW r, NEW t, IsTables(t), Len(s.ledger) \in Nat,
         NEW d \in 0..3, Len(r.ledger) = Len(s.ledger) + d, QuietUpTo(s, r, d)
  PROVE  Projected(r, t, Len(s.ledger)) = t
<1> PICK k \in Nat : k = Len(s.ledger)
  OBVIOUS
<1>1. CASE d = 0
  <2>1. 0 \in Nat /\ Len(r.ledger) = k + 0
    BY <1>1
  <2>2. PICK rows : Folds(rows, r, t, k, 0)
    BY <2>1, FoldOf
  <2>3. rows[k + 0] = t
    BY <2>2 DEF IsFold, Folds
  <2> QED BY <2>2, <2>3 DEF Folds
<1>2. CASE d # 0
  <2>1. d \in 1..3 /\ QuietUpTo(s, r, d - 1)
    BY <1>2 DEF QuietUpTo
  <2>2. Projected(r, t, Len(s.ledger)) = Applied(r, t, r.ledger[Len(s.ledger) + d])
    BY <2>1, LastTells
  <2>3. r.ledger[Len(s.ledger) + d].type \notin Telling
    BY <2>1 DEF QuietUpTo
  <2> QED BY <2>2, <2>3, PassedOver
<1> QED BY <1>1, <1>2
-----------------------------------------------------------------------------
(* Refinement of Quarantine.                                               *)

\* The state and the result of an item, and the adopted experiences.
StateIn(t, i) ==
  IF i[1] = "candidate"
  THEN IF i[2] \in DOMAIN t.candidates THEN t.candidates[i[2]].decision ELSE "absent"
  ELSE IF i[2] \in DOMAIN t.passports THEN t.passports[i[2]].state ELSE "absent"
ResultIn(t, i) ==
  LET result == IF i[1] = "candidate"
                THEN IF i[2] \in DOMAIN t.candidates THEN t.candidates[i[2]].result ELSE None
                ELSE IF i[2] \in DOMAIN t.passports THEN t.passports[i[2]].result ELSE None
  IN IF result = None THEN None ELSE result.experience
MadeIn(s) == {x \in DOMAIN s.experiences : s.experiences[x].origin # "authored"}

\* A step of each kind, from the rows s and the tables t to r and u.
Entered(s, t, r, u) ==
  /\ MadeIn(r) = MadeIn(s)
  /\ \A i \in Items : /\ ResultIn(u, i) = ResultIn(t, i)
                      /\ \/ StateIn(u, i) = StateIn(t, i)
                         \/ StateIn(t, i) = "absent" /\ StateIn(u, i) = "pending"
Decided(s, t, r, u, i, state) ==
  /\ i \in Items /\ StateIn(t, i) = "pending" /\ StateIn(u, i) = state
  /\ \A j \in Items \ {i} : StateIn(u, j) = StateIn(t, j) /\ ResultIn(u, j) = ResultIn(t, j)
Rejected(s, t, r, u, i) ==
  /\ Decided(s, t, r, u, i, "rejected")
  /\ ResultIn(u, i) = ResultIn(t, i) /\ MadeIn(r) = MadeIn(s)
Adopted(s, t, r, u, i) ==
  /\ Decided(s, t, r, u, i, "adopted") /\ ResultIn(u, i) # None
  /\ \/ MadeIn(r) = MadeIn(s)
     \/ ResultIn(u, i) \notin MadeIn(s) /\ MadeIn(r) = MadeIn(s) \cup {ResultIn(u, i)}
StepOfQuarantine(s, t, r, u) ==
  \/ Entered(s, t, r, u)
  \/ \E i \in Items : Rejected(s, t, r, u, i) \/ Adopted(s, t, r, u, i)

LEMMA StateIs == \A i \in Items : StateOf(i) = StateIn(tables, i)
BY DEF StateOf, Known, RowOf, StateIn, Items

LEMMA ResultIs == \A i \in Items : ResultOf(i) = ResultIn(tables, i)
BY DEF ResultOf, Given, Known, RowOf, ResultIn, Items

LEMMA StepRefines ==
  ASSUME NEW r, NEW u, r = source', u = tables', StepOfQuarantine(source, tables, r, u)
  PROVE  [Quarantined!Next]_(Quarantined!vars)
<1> DEFINE state == [i \in Items |-> StateOf(i)]
           result == [i \in Items |-> ResultOf(i)]
           made == {x \in DOMAIN source.experiences : source.experiences[x].origin # "authored"}
<1>1. /\ state = [i \in Items |-> StateIn(tables, i)]
      /\ result = [i \in Items |-> ResultIn(tables, i)] /\ made = MadeIn(source)
  BY StateIs, ResultIs DEF MadeIn
<1>2. /\ state' = [i \in Items |-> StateIn(u, i)]
      /\ result' = [i \in Items |-> ResultIn(u, i)] /\ made' = MadeIn(r)
  <2>1. (\A i \in Items : StateOf(i) = StateIn(tables, i))'
    BY StateIs, PTL
  <2>2. (\A i \in Items : ResultOf(i) = ResultIn(tables, i))'
    BY ResultIs, PTL
  <2>3. made' = MadeIn(r)
    BY DEF MadeIn
  <2>4. \A i \in Items : StateOf(i)' = StateIn(u, i)
    BY <2>1
  <2>5. \A i \in Items : ResultOf(i)' = ResultIn(u, i)
    BY <2>2
  <2> QED BY <2>3, <2>4, <2>5 
<1> HIDE DEF state, result, made
<1>3. CASE Entered(source, tables, r, u)
  <2>1. Quarantined!Enter
    BY <1>1, <1>2, <1>3 DEF Quarantined!Enter, Entered, state, result, made
  <2> QED BY <2>1 DEF Quarantined!Next
<1>4. ASSUME NEW i \in Items, Rejected(source, tables, r, u, i)
      PROVE  Quarantined!Reject(i)
  <2>1. state[i] = "pending" /\ state' = [state EXCEPT ![i] = "rejected"]
    BY <1>1, <1>2, <1>4 DEF Rejected, Decided
  <2>2. result' = result /\ made' = made
    BY <1>1, <1>2, <1>4 DEF Rejected, Decided
  <2> QED BY <2>1, <2>2 DEF Quarantined!Reject, state, result, made
<1>5. ASSUME NEW i \in Items, Adopted(source, tables, r, u, i)
      PROVE  Quarantined!Adopt(i)
  <2>1. state[i] = "pending" /\ state' = [state EXCEPT ![i] = "adopted"]
    BY <1>1, <1>2, <1>5 DEF Adopted, Decided
  <2>2. result'[i] # None /\ result' = [result EXCEPT ![i] = result'[i]]
    BY <1>1, <1>2, <1>5 DEF Adopted, Decided
  <2>3. \/ made' = made
        \/ result'[i] \notin made /\ made' = made \cup {result'[i]}
    BY <1>1, <1>2, <1>5 DEF Adopted
  <2> QED BY <2>1, <2>2, <2>3 DEF Quarantined!Adopt, state, result, made
<1> QED BY <1>3, <1>4, <1>5 DEF StepOfQuarantine, Quarantined!Next
-----------------------------------------------------------------------------
(* What a command writes before it commits.                                *)

Ready(s) == Sourced(s) /\ Snapshots(s) /\ Recorded(s)

\* The command that started at s has written r, with d events.
Wrote(s, r, d) ==
  Ready(r) /\ Began(s, r) /\ Longer(s, r, d) /\ Len(s.ledger) \in Nat /\ d \in Nat
\* None of its events is for a reducer; or the last one is, and says this.
Quietly(s, r, d) == Wrote(s, r, d) /\ QuietUpTo(s, r, d)
Tells(s, r, d, type, kind, subject, at, data) ==
  /\ Wrote(s, r, d) /\ QuietUpTo(s, r, d - 1)
  /\ Says(r.ledger[Len(s.ledger) + d], type, kind, subject, at, data)

LEMMA Starts ==
  ASSUME NEW s, Ready(s), NEW scope, NEW owner, NEW request, NEW clock,
         NEW r, r = Reserved(s, scope, owner, request, clock)
  PROVE  Quietly(s, r, 0) /\ SameRows(s, r)
<1>1. Sourced(r) /\ Began(s, r) /\ SameRows(s, r) /\ r.ledger = s.ledger
  BY Reserves DEF Ready
<1>2. Len(s.ledger) \in Nat
  BY LogLength DEF Ready, Sourced
<1>3. Longer(s, r, 0) /\ QuietUpTo(s, r, 0)
  BY <1>1, <1>2 DEF Longer, QuietUpTo
<1>4. Snapshots(r) /\ Recorded(r)
  BY <1>1 DEF Ready, Snapshots, Recorded, SameRows
<1> QED BY <1>1, <1>2, <1>3, <1>4 DEF Quietly, Wrote, Ready

\* Other rows are written, or the receipt.
LEMMA GoesOn ==
  ASSUME NEW s, NEW q, NEW r, NEW d, Quietly(s, q, d), Sourced(r), Began(s, r),
         r.ledger = q.ledger, r.experiences = q.experiences
  PROVE  Quietly(s, r, d)
BY DEF Quietly, Wrote, Ready, Longer, QuietUpTo, Snapshots, Recorded

LEMMA AttachesOn ==
  ASSUME NEW s, NEW q, NEW d, Quietly(s, q, d), NEW resource,
         NEW r, r = Attached(q, resource)
  PROVE  Quietly(s, r, d) /\ SameRows(q, r)
<1>1. Sourced(r) /\ Began(s, r) /\ SameRows(q, r) /\ r.ledger = q.ledger
  BY Attaches DEF Quietly, Wrote, Ready
<1> QED BY <1>1, GoesOn DEF SameRows

LEMMA OneMore ==
  \A k, d \in Nat : (d + 1) - 1 = d /\ k + d + 1 = k + (d + 1) /\ d + 1 \in Nat
OBVIOUS

\* An event that is not of an experience.
LEMMA Ends ==
  ASSUME NEW s, NEW q, NEW d \in Nat, Quietly(s, q, d), NEW type, NEW kind, kind # "experience",
         NEW subject, NEW actor, NEW at, NEW data,
         NEW r, r = Appended(q, type, kind, subject, actor, at, data)
  PROVE  /\ Tells(s, r, d + 1, type, kind, subject, at, data) /\ SameRows(q, r)
         /\ QuietUpTo(s, r, d)
<1>1. Told(q, r, type, kind, subject, at, data)
  BY Appends DEF Quietly, Wrote, Ready
<1> PICK k \in Nat : k = Len(s.ledger)
  BY DEF Quietly, Wrote
<1>2. d \in Nat /\ Len(q.ledger) = k + d /\ \A n \in 1..k : q.ledger[n] = s.ledger[n]
  BY DEF Quietly, Wrote, Longer
<1>3. /\ Len(r.ledger) = k + d + 1 /\ \A n \in 1..k + d : r.ledger[n] = q.ledger[n]
      /\ Says(r.ledger[k + d + 1], type, kind, subject, at, data)
      /\ Sourced(r) /\ SameRows(q, r) /\ r.receipts = q.receipts
  BY <1>1, <1>2 DEF Told
<1>4. Snapshots(r)
  <2>1. Longer(q, r, 1)
    BY <1>2, <1>3 DEF Longer
  <2>2. r.ledger[Len(q.ledger) + 1].kind # "experience"
    BY <1>2, <1>3 DEF Says
  <2> QED BY <1>3, <2>1, <2>2, SnapshotsGrow DEF Quietly, Wrote, Ready
<1>5. Recorded(r)
  <2> SUFFICES ASSUME NEW x \in 1..Len(q.experiences)
               PROVE  \E j \in 1..k + d + 1 : OfExperience(r.ledger[j], x)
    BY <1>3 DEF Recorded, SameRows
  <2>1. PICK j \in 1..k + d : OfExperience(q.ledger[j], x)
    BY <1>2 DEF Quietly, Wrote, Ready, Recorded
  <2> QED BY <1>2, <1>3, <2>1
<1>6. Longer(s, r, d + 1)
  <2>1. ASSUME NEW n \in 1..k
        PROVE  r.ledger[n] = s.ledger[n]
    BY <1>2, <1>3
  <2>2. k + d + 1 = k + (d + 1)
    BY OneMore
  <2> QED BY <1>3, <2>1, <2>2 DEF Longer
<1>7. QuietUpTo(s, r, d)
  <2> SUFFICES ASSUME NEW i \in 1..d
               PROVE  r.ledger[k + i].type \notin Telling
    BY DEF QuietUpTo
  <2>1. k + i \in 1..k + d
    BY <1>2
  <2>2. q.ledger[k + i].type \notin Telling
    BY DEF Quietly, QuietUpTo
  <2> QED BY <1>3, <2>1, <2>2
<1>8. Began(s, r)
  BY <1>3 DEF Began, Quietly, Wrote
<1>9. (d + 1) - 1 = d /\ k + d + 1 = k + (d + 1) /\ d + 1 \in Nat
  BY OneMore
<1>10. Says(r.ledger[k + (d + 1)], type, kind, subject, at, data)
  BY <1>3, <1>9
<1>11. Wrote(s, r, d + 1)
  BY <1>3, <1>4, <1>5, <1>6, <1>8, <1>9 DEF Wrote, Ready
<1> QED BY <1>3, <1>7, <1>9, <1>10, <1>11 DEF Tells

LEMMA CreatesOn ==
  ASSUME NEW s, NEW q, Quietly(s, q, 0), NEW owner, NEW origin, NEW content, NEW at,
         NEW r, r = Created(q, owner, origin, content, at)
  PROVE  Quietly(s, r, 2) /\ NewExperience(q, r, owner, origin) /\ OtherRows(q, r)
<1>1. /\ Sourced(r) /\ OtherRows(q, r) /\ r.receipts = q.receipts
      /\ NewExperience(q, r, owner, origin) /\ Longer(q, r, 2) /\ QuietUpTo(q, r, 2)
      /\ Snapshots(r) /\ Recorded(r)
  BY Creates DEF Quietly, Wrote, Ready
<1>2. Len(s.ledger) \in Nat /\ Len(q.ledger) = Len(s.ledger)
      /\ \A n \in 1..Len(s.ledger) : q.ledger[n] = s.ledger[n]
  BY DEF Quietly, Wrote, Longer
<1>3. Longer(s, r, 2) /\ QuietUpTo(s, r, 2)
  BY <1>1, <1>2 DEF Longer, QuietUpTo
<1>4. Began(s, r)
  BY <1>1 DEF Began, Quietly, Wrote
<1> QED BY <1>1, <1>2, <1>3, <1>4 DEF Quietly, Wrote, Ready

LEMMA ChangesOn ==
  ASSUME NEW s, NEW q, Quietly(s, q, 0), NEW x \in 1..Len(q.experiences),
         NEW content, NEW temperature, NEW at,
         NEW r, r = Changed(q, x, content, temperature, at)
  PROVE  Quietly(s, r, 1) /\ SameMakers(q, r) /\ OtherRows(q, r)
<1>1. /\ Sourced(r) /\ OtherRows(q, r) /\ r.receipts = q.receipts /\ SameMakers(q, r)
      /\ Longer(q, r, 1) /\ QuietUpTo(q, r, 1) /\ Snapshots(r) /\ Recorded(r)
  BY Changes DEF Quietly, Wrote, Ready
<1>2. Len(s.ledger) \in Nat /\ Len(q.ledger) = Len(s.ledger)
      /\ \A n \in 1..Len(s.ledger) : q.ledger[n] = s.ledger[n]
  BY DEF Quietly, Wrote, Longer
<1>3. Longer(s, r, 1) /\ QuietUpTo(s, r, 1)
  BY <1>1, <1>2 DEF Longer, QuietUpTo
<1>4. Began(s, r)
  BY <1>1 DEF Began, Quietly, Wrote
<1> QED BY <1>1, <1>2, <1>3, <1>4 DEF Quietly, Wrote, Ready
-----------------------------------------------------------------------------
(* What one event does to the rows of the tables.                          *)

IsCandidateRow(row) ==
  /\ row = [owner |-> row.owner, decision |-> row.decision, adoption |-> row.adoption,
            result |-> row.result, reason |-> row.reason, decided |-> row.decided,
            event |-> row.event]
  /\ row.decision \in Decisions /\ DecisionShaped(row)
IsPassportRow(row) ==
  /\ row = [owner |-> row.owner, state |-> row.state, adoption |-> row.adoption,
            result |-> row.result, reason |-> row.reason, decided |-> row.decided,
            event |-> row.event]
  /\ row.state \in Decisions

\* Of the rows, the one of n became row.
Overwritten(rows, new, n, row) ==
  /\ DOMAIN new = DOMAIN rows /\ new[n] = row
  /\ \A m \in DOMAIN rows : m # n => new[m] = rows[m]
\* The rows have a row of n more.
Added(rows, new, n, row) ==
  /\ n \notin DOMAIN rows /\ DOMAIN new = DOMAIN rows \cup {n} /\ new[n] = row
  /\ \A m \in DOMAIN rows : new[m] = rows[m]

LEMMA AddedIs ==
  ASSUME NEW rows, NEW n, n \notin DOMAIN rows, NEW row, NEW new, new = WithRow(rows, n, row)
  PROVE  Added(rows, new, n, row)
BY DEF Added, WithRow

LEMMA CandidateAdded ==
  ASSUME NEW r, NEW rows, NEW e, e.type = "candidate_created",
         NEW new, new = ApplyToCandidates(r, rows, e), new # None
  PROVE  \E row : /\ Added(rows, new, e.subject, row)
                  /\ IsCandidateRow(row) /\ row.decision = "pending" /\ row.result = None
<1> PICK row : row = CreatedRow(e)
  OBVIOUS
<1>1. new = WithRow(rows, e.subject, row) /\ e.subject \notin DOMAIN rows
  BY DEF ApplyToCandidates, CreatedAgrees
<1>2. Added(rows, new, e.subject, row)
  BY <1>1, AddedIs
<1>3. IsCandidateRow(row) /\ row.decision = "pending" /\ row.result = None
  BY DEF IsCandidateRow, CreatedRow, DecisionShaped, Decisions
<1> QED BY <1>2, <1>3

LEMMA DecisionMatches ==
  ASSUME NEW r, NEW rows, NEW e, RequirePending(r, rows, e), NEW row,
         NEW new, new = DecidedRows(rows, e, row)
  PROVE  Overwritten(rows, new, e.subject, [row EXCEPT !.decided = e.at, !.event = e.id])
<1>1. /\ e.subject \in DOMAIN rows /\ rows[e.subject].owner = e.data.owner
      /\ rows[e.subject].decision = "pending"
  BY DEF RequirePending
<1>2. Matching(rows, e) = {e.subject}
  BY <1>1 DEF Matching
<1> QED BY <1>1, <1>2 DEF DecidedRows, Overwritten

LEMMA CandidateRejected ==
  ASSUME NEW r, NEW rows, NEW e, e.type = "candidate_rejected",
         IsCandidateRow(rows[e.subject]), rows[e.subject].decision = "pending",
         e.at # None, e.data.reason # None,
         NEW new, new = ApplyToCandidates(r, rows, e), new # None
  PROVE  \E row : /\ Overwritten(rows, new, e.subject, row) /\ IsCandidateRow(row)
                  /\ row.decision = "rejected" /\ row.result = rows[e.subject].result
<1> PICK old, mid : /\ old = rows[e.subject]
                    /\ mid = [old EXCEPT !.decision = "rejected", !.reason = e.data.reason]
  OBVIOUS
<1> PICK row : row = [mid EXCEPT !.decided = e.at, !.event = e.id]
  OBVIOUS
<1>1. RejectionAgrees(r, rows, e) /\ new = DecidedRows(rows, e, mid)
  BY DEF ApplyToCandidates
<1>2. Overwritten(rows, new, e.subject, row)
  BY <1>1, DecisionMatches DEF RejectionAgrees
<1>3. row = [owner |-> old.owner, decision |-> "rejected", adoption |-> old.adoption,
             result |-> old.result, reason |-> e.data.reason, decided |-> e.at,
             event |-> e.id]
  <2>1. mid = [owner |-> old.owner, decision |-> "rejected", adoption |-> old.adoption,
               result |-> old.result, reason |-> e.data.reason, decided |-> old.decided,
               event |-> old.event]
    BY DEF IsCandidateRow
  <2> QED BY <2>1
<1>4. old.adoption = None /\ old.result = None
  BY DEF IsCandidateRow, DecisionShaped
<1>5. IsCandidateRow(row)
  BY <1>3, <1>4 DEF IsCandidateRow, DecisionShaped, Decisions
<1> QED BY <1>2, <1>3, <1>5

LEMMA CandidateAdopts ==
  ASSUME NEW r, NEW rows, NEW e, e.type = "candidate_adopted",
         IsCandidateRow(rows[e.subject]), rows[e.subject].decision = "pending",
         e.at # None, e.data.adoption # None, e.data.result # None,
         NEW new, new = ApplyToCandidates(r, rows, e), new # None
  PROVE  \E row : /\ Overwritten(rows, new, e.subject, row) /\ IsCandidateRow(row)
                  /\ row.decision = "adopted" /\ row.result = e.data.result
<1> PICK old, mid : /\ old = rows[e.subject]
                    /\ mid = [old EXCEPT !.decision = "adopted", !.adoption = e.data.adoption,
                                         !.result = e.data.result]
  OBVIOUS
<1> PICK row : row = [mid EXCEPT !.decided = e.at, !.event = e.id]
  OBVIOUS
<1>1. AdoptionAgrees(r, rows, e) /\ new = DecidedRows(rows, e, mid)
  BY DEF ApplyToCandidates
<1>2. Overwritten(rows, new, e.subject, row)
  BY <1>1, DecisionMatches DEF AdoptionAgrees
<1>3. row = [owner |-> old.owner, decision |-> "adopted", adoption |-> e.data.adoption,
             result |-> e.data.result, reason |-> old.reason, decided |-> e.at,
             event |-> e.id]
  <2>1. mid = [owner |-> old.owner, decision |-> "adopted", adoption |-> e.data.adoption,
               result |-> e.data.result, reason |-> old.reason, decided |-> old.decided,
               event |-> old.event]
    BY DEF IsCandidateRow
  <2> QED BY <2>1
<1>4. old.reason = None
  BY DEF IsCandidateRow, DecisionShaped
<1>5. IsCandidateRow(row)
  BY <1>3, <1>4 DEF IsCandidateRow, DecisionShaped, Decisions
<1> QED BY <1>2, <1>3, <1>5

LEMMA PassportAdded ==
  ASSUME NEW r, NEW rows, NEW e, e.type = "passport_imported",
         NEW new, new = ApplyToPassports(r, rows, e), new # None
  PROVE  \E row : /\ Added(rows, new, e.subject, row)
                  /\ IsPassportRow(row) /\ row.state = "pending" /\ row.result = None
<1> PICK row : row = [owner |-> e.data.owner, state |-> "pending", adoption |-> None,
                      result |-> None, reason |-> None, decided |-> None, event |-> e.id]
  OBVIOUS
<1>1. new = WithRow(rows, e.subject, row) /\ e.subject \notin DOMAIN rows
  BY DEF ApplyToPassports, ImportedAgrees
<1>2. Added(rows, new, e.subject, row)
  BY <1>1, AddedIs
<1>3. IsPassportRow(row) /\ row.state = "pending" /\ row.result = None
  BY DEF IsPassportRow, Decisions
<1> QED BY <1>2, <1>3

LEMMA PassportRejected ==
  ASSUME NEW r, NEW rows, NEW e, e.type = "passport_rejected",
         IsPassportRow(rows[e.subject]),
         NEW new, new = ApplyToPassports(r, rows, e), new # None
  PROVE  \E row : /\ Overwritten(rows, new, e.subject, row) /\ IsPassportRow(row)
                  /\ row.state = "rejected" /\ row.result = rows[e.subject].result
<1> PICK old : old = rows[e.subject]
  OBVIOUS
<1> PICK row : row = [old EXCEPT !.state = "rejected", !.reason = e.data.reason,
                                 !.decided = e.at, !.event = e.id]
  OBVIOUS
<1>1. /\ e.subject \in DOMAIN rows
      /\ new = [rows EXCEPT ![e.subject].state = "rejected",
                            ![e.subject].reason = e.data.reason,
                            ![e.subject].decided = e.at, ![e.subject].event = e.id]
  BY DEF ApplyToPassports, ImportPending
<1>2. row = [owner |-> old.owner, state |-> "rejected", adoption |-> old.adoption,
             result |-> old.result, reason |-> e.data.reason, decided |-> e.at,
             event |-> e.id]
  BY DEF IsPassportRow
<1>3. Overwritten(rows, new, e.subject, row)
  BY <1>1 DEF Overwritten
<1>4. IsPassportRow(row)
  BY <1>2 DEF IsPassportRow, Decisions
<1> QED BY <1>2, <1>3, <1>4

LEMMA PassportAdopts ==
  ASSUME NEW r, NEW rows, NEW e, e.type = "passport_adopted",
         IsPassportRow(rows[e.subject]),
         NEW new, new = ApplyToPassports(r, rows, e), new # None
  PROVE  \E row : /\ Overwritten(rows, new, e.subject, row) /\ IsPassportRow(row)
                  /\ row.state = "adopted" /\ row.result = e.data.result
<1> PICK old : old = rows[e.subject]
  OBVIOUS
<1> PICK row : row = [old EXCEPT !.state = "adopted", !.adoption = e.data.adoption,
                                 !.result = e.data.result, !.decided = e.at, !.event = e.id]
  OBVIOUS
<1>1. /\ e.subject \in DOMAIN rows
      /\ new = [rows EXCEPT ![e.subject].state = "adopted",
                            ![e.subject].adoption = e.data.adoption,
                            ![e.subject].result = e.data.result,
                            ![e.subject].decided = e.at, ![e.subject].event = e.id]
  BY DEF ApplyToPassports, TransferAgrees, ImportPending
<1>2. row = [owner |-> old.owner, state |-> "adopted", adoption |-> e.data.adoption,
             result |-> e.data.result, reason |-> old.reason, decided |-> e.at,
             event |-> e.id]
  BY DEF IsPassportRow
<1>3. Overwritten(rows, new, e.subject, row)
  BY <1>1 DEF Overwritten
<1>4. IsPassportRow(row)
  BY <1>2 DEF IsPassportRow, Decisions
<1> QED BY <1>2, <1>3, <1>4
-----------------------------------------------------------------------------
(* The invariant, and the step of each kind.                               *)

IsMaker(x) == x.owner \in Agent /\ x.origin \in Origins
Makers(s) == \A x \in 1..Len(s.experiences) : IsMaker(s.experiences[x])
Owned(s) ==
  /\ \A c \in 1..Len(s.candidates) : s.candidates[c].owner \in Agent
  /\ \A p \in 1..Len(s.imports) : s.imports[p].owner \in Agent
Tabled(s, t) ==
  /\ IsTables(t)
  /\ DOMAIN t.candidates = 1..Len(s.candidates) /\ DOMAIN t.passports = 1..Len(s.imports)
  /\ \A c \in 1..Len(s.candidates) : IsCandidateRow(t.candidates[c])
  /\ \A p \in 1..Len(s.imports) : IsPassportRow(t.passports[p])
\* Every row that can be an item or its result has an event of its own.
Sized(s) ==
  /\ Len(s.experiences) <= Len(s.ledger) /\ Len(s.candidates) <= Len(s.ledger)
  /\ Len(s.imports) <= Len(s.ledger) /\ Len(s.ledger) <= MaxEvents
Good(s, t) == Ready(s) /\ Makers(s) /\ Owned(s) /\ Tabled(s, t) /\ Sized(s)

\* The rows r and the tables u are as good, and a step of Quarantine away.
Step(s, t, r, u) == Good(r, u) /\ StepOfQuarantine(s, t, r, u)

\* The adopted experiences of r are those of s; or there is a new one, x.
KeepsMakers(s, r) == Makers(r) /\ Len(r.experiences) <= Len(r.ledger) /\ MadeIn(r) = MadeIn(s)
Makes(s, r, x) ==
  /\ Makers(r) /\ Len(r.experiences) <= Len(r.ledger)
  /\ x \notin MadeIn(s) /\ MadeIn(r) = MadeIn(s) \cup {x}

LEMMA Lengths ==
  ASSUME NEW s, Ready(s)
  PROVE  /\ Len(s.ledger) \in Nat /\ Len(s.experiences) \in Nat
         /\ Len(s.candidates) \in Nat /\ Len(s.imports) \in Nat /\ Len(s.adoptions) \in Nat
         /\ Len(s.receipts) \in Nat
         /\ DOMAIN s.experiences = 1..Len(s.experiences)
         /\ DOMAIN s.candidates = 1..Len(s.candidates)
         /\ DOMAIN s.imports = 1..Len(s.imports) /\ DOMAIN s.receipts = 1..Len(s.receipts)
BY LogLength DEF Ready, Sourced

LEMMA SameKept ==
  ASSUME NEW s, NEW t, Good(s, t), NEW r, Ready(r), NEW d \in Nat, Longer(s, r, d),
         SameMakers(s, r)
  PROVE  KeepsMakers(s, r)
<1> PICK k \in Nat, m \in Nat : k = Len(s.ledger) /\ m = Len(s.experiences)
  BY Lengths DEF Good
<1>1. Len(r.experiences) = m /\ Len(r.ledger) = k + d
  BY DEF SameMakers, Longer
<1>2. m <= k + d
  BY DEF Good, Sized
<1>3. Makers(r)
  BY <1>1 DEF Makers, IsMaker, SameMakers, Good
<1>4. DOMAIN r.experiences = 1..m /\ DOMAIN s.experiences = 1..m
  BY <1>1, Lengths DEF Good
<1>5. MadeIn(r) = MadeIn(s)
  BY <1>4 DEF MadeIn, SameMakers
<1> QED BY <1>1, <1>2, <1>3, <1>5 DEF KeepsMakers

LEMMA NewKept ==
  ASSUME NEW s, NEW t, Good(s, t), NEW r, Ready(r), NEW d \in Nat, d # 0, Longer(s, r, d),
         NEW owner \in Agent, NEW origin \in Origins, NewExperience(s, r, owner, origin)
  PROVE  /\ origin = "authored" => KeepsMakers(s, r)
         /\ origin # "authored" => Makes(s, r, Len(s.experiences) + 1)
<1> PICK k \in Nat, m \in Nat : k = Len(s.ledger) /\ m = Len(s.experiences)
  BY Lengths DEF Good
<1>1. /\ Len(r.experiences) = m + 1 /\ Len(r.ledger) = k + d
      /\ \A y \in 1..m : r.experiences[y] = s.experiences[y]
      /\ r.experiences[m + 1].owner = owner /\ r.experiences[m + 1].origin = origin
  BY DEF NewExperience, Longer
<1>2. m + 1 <= k + d
  BY DEF Good, Sized
<1>3. Makers(r)
  <2> SUFFICES ASSUME NEW x \in 1..m + 1 PROVE IsMaker(r.experiences[x])
    BY <1>1 DEF Makers
  <2>1. CASE x \in 1..m
    BY <1>1, <2>1 DEF Good, Makers
  <2>2. CASE x = m + 1
    BY <1>1, <2>2 DEF IsMaker
  <2> QED BY <2>1, <2>2
<1>4. DOMAIN r.experiences = 1..m + 1 /\ DOMAIN s.experiences = 1..m
  BY <1>1, Lengths DEF Good
<1>5. m + 1 \notin MadeIn(s)
  BY <1>4 DEF MadeIn
<1>6. 1..m + 1 = 1..m \cup {m + 1}
  OBVIOUS
<1>7. MadeIn(r) = MadeIn(s) \cup (IF origin = "authored" THEN {} ELSE {m + 1})
  BY <1>1, <1>4, <1>6 DEF MadeIn
<1> QED BY <1>1, <1>2, <1>3, <1>5, <1>7 DEF KeepsMakers, Makes

\* The same candidates and imports.
SameItems(s, r) == r.candidates = s.candidates /\ r.imports = s.imports

\* The other rows stay, and a bound on the ledger is kept.
LEMMA OthersKept ==
  ASSUME NEW s, NEW t, Good(s, t), NEW r, Ready(r), NEW d \in Nat, Longer(s, r, d),
         SameItems(s, r), Len(r.ledger) <= MaxEvents,
         Makers(r), Len(r.experiences) <= Len(r.ledger)
  PROVE  Makers(r) /\ Owned(r) /\ Sized(r)
<1>1. Owned(r)
  BY DEF Owned, SameItems, Good
<1> PICK k \in Nat, m \in Nat, p \in Nat :
      k = Len(s.ledger) /\ m = Len(s.candidates) /\ p = Len(s.imports)
  BY Lengths DEF Good
<1>2. Len(r.ledger) = k + d /\ Len(r.candidates) = m /\ Len(r.imports) = p
  BY DEF SameItems, Longer
<1>3. m <= k + d /\ p <= k + d
  BY DEF Good, Sized
<1>4. Sized(r)
  BY <1>2, <1>3 DEF Sized
<1> QED BY <1>1, <1>4

LEMMA StepQuiet ==
  ASSUME NEW s, NEW t, Good(s, t), NEW r, Ready(r), NEW d \in Nat, Longer(s, r, d),
         SameItems(s, r), Len(r.ledger) <= MaxEvents, KeepsMakers(s, r)
  PROVE  Step(s, t, r, t)
<1>1. Makers(r) /\ Owned(r) /\ Sized(r)
  BY OthersKept DEF KeepsMakers
<1>2. Tabled(r, t)
  BY DEF Tabled, SameItems, Good
<1>3. Entered(s, t, r, t)
  BY DEF Entered, KeepsMakers
<1> QED BY <1>1, <1>2, <1>3 DEF Step, Good, StepOfQuarantine

\* An item is an id of at most MaxEvents.
LEMMA IsItem ==
  ASSUME NEW s, NEW t, Good(s, t)
  PROVE  /\ \A c \in 1..Len(s.candidates) : <<"candidate", c>> \in Items
         /\ \A p \in 1..Len(s.imports) : <<"passport", p>> \in Items
<1> PICK k \in Nat, m \in Nat, p \in Nat :
      k = Len(s.ledger) /\ m = Len(s.candidates) /\ p = Len(s.imports)
  BY Lengths DEF Good
<1>1. k <= MaxEvents /\ m <= k /\ p <= k /\ MaxEvents \in Nat
  BY BoundsAssumption DEF Good, Sized
<1>2. \A i \in 1..m : i \in 1..MaxEvents
  BY <1>1
<1>3. \A i \in 1..p : i \in 1..MaxEvents
  BY <1>1
<1> QED BY <1>2, <1>3 DEF Items

LEMMA ItemParts ==
  ASSUME NEW i \in Items
  PROVE  i[1] \in {"candidate", "passport"} /\ i = <<i[1], i[2]>>
BY DEF Items

\* What a decision leaves: the state of the item, its result, the experiences.
ValueOf(result) == IF result = None THEN None ELSE result.experience
Outcome(s, r, state, was, now) ==
  \/ state = "rejected" /\ now = was /\ KeepsMakers(s, r)
  \/ /\ state = "adopted"
     /\ \E x, v \in 1..MaxEvents : /\ now = [experience |-> x, version |-> v]
                                   /\ KeepsMakers(s, r) \/ Makes(s, r, x)

LEMMA OutcomeMakers ==
  ASSUME NEW s, NEW r, NEW state, NEW was, NEW now, Outcome(s, r, state, was, now)
  PROVE  Makers(r) /\ Len(r.experiences) <= Len(r.ledger)
BY DEF Outcome, KeepsMakers, Makes

LEMMA OutcomeIsStep ==
  ASSUME NEW s, NEW t, NEW r, NEW u, NEW i, NEW state, NEW was, NEW now,
         Decided(s, t, r, u, i, state), Outcome(s, r, state, was, now),
         ResultIn(t, i) = ValueOf(was), ResultIn(u, i) = ValueOf(now)
  PROVE  StepOfQuarantine(s, t, r, u)
<1>1. i \in Items
  BY DEF Decided
<1>2. CASE state = "rejected"
  <2>1. now = was /\ MadeIn(r) = MadeIn(s)
    BY <1>2 DEF Outcome, KeepsMakers
  <2>2. Rejected(s, t, r, u, i)
    BY <1>2, <2>1 DEF Rejected
  <2> QED BY <1>1, <2>2 DEF StepOfQuarantine
<1>3. CASE state = "adopted"
  <2>1. PICK x, v \in 1..MaxEvents : /\ now = [experience |-> x, version |-> v]
                                     /\ KeepsMakers(s, r) \/ Makes(s, r, x)
    BY <1>3 DEF Outcome
  <2>2. ValueOf(now) = x /\ x # None
    <3>1. now # None
      BY <2>1, NoneAssumption
    <3>2. x \in Nat
      BY BoundsAssumption
    <3> QED BY <2>1, <3>1, <3>2, NoneAssumption DEF ValueOf
  <2>3. \/ MadeIn(r) = MadeIn(s)
        \/ x \notin MadeIn(s) /\ MadeIn(r) = MadeIn(s) \cup {x}
    BY <2>1 DEF KeepsMakers, Makes
  <2>4. Adopted(s, t, r, u, i)
    BY <1>3, <2>2, <2>3 DEF Adopted
  <2> QED BY <1>1, <2>4 DEF StepOfQuarantine
<1> QED BY <1>2, <1>3 DEF Outcome

LEMMA StepOfCandidate ==
  ASSUME NEW s, NEW t, Good(s, t), NEW r, Ready(r), NEW d \in Nat, Longer(s, r, d),
         SameItems(s, r), Len(r.ledger) <= MaxEvents,
         NEW c \in 1..Len(s.candidates), t.candidates[c].decision = "pending",
         NEW row, IsCandidateRow(row),
         Outcome(s, r, row.decision, t.candidates[c].result, row.result),
         NEW u, IsTables(u), u.passports = t.passports,
         Overwritten(t.candidates, u.candidates, c, row)
  PROVE  Step(s, t, r, u)
<1>1. Makers(r) /\ Owned(r) /\ Sized(r)
  BY OutcomeMakers, OthersKept
<1>2. DOMAIN t.candidates = 1..Len(s.candidates)
  BY DEF Good, Tabled
<1>3. Tabled(r, u)
  BY <1>2 DEF Tabled, Good, SameItems, Overwritten
<1> PICK i : i = <<"candidate", c>>
  OBVIOUS
<1>4. i \in Items /\ i[1] = "candidate" /\ i[2] = c
  BY IsItem
<1>5. \A j \in Items \ {i} : StateIn(u, j) = StateIn(t, j) /\ ResultIn(u, j) = ResultIn(t, j)
  <2> SUFFICES ASSUME NEW j \in Items \ {i}
               PROVE  StateIn(u, j) = StateIn(t, j) /\ ResultIn(u, j) = ResultIn(t, j)
    OBVIOUS
  <2>1. CASE j[1] = "candidate"
    <3>1. j[2] # c
      BY <1>4, <2>1, ItemParts
    <3> QED BY <2>1, <3>1 DEF StateIn, ResultIn, Overwritten
  <2>2. CASE j[1] # "candidate"
    BY <2>2 DEF StateIn, ResultIn
  <2> QED BY <2>1, <2>2
<1>6. /\ StateIn(t, i) = "pending" /\ StateIn(u, i) = row.decision
      /\ ResultIn(t, i) = ValueOf(t.candidates[c].result) /\ ResultIn(u, i) = ValueOf(row.result)
  BY <1>2, <1>4 DEF StateIn, ResultIn, ValueOf, Overwritten
<1>7. Decided(s, t, r, u, i, row.decision)
  BY <1>4, <1>5, <1>6 DEF Decided
<1>8. StepOfQuarantine(s, t, r, u)
  BY <1>6, <1>7, OutcomeIsStep
<1> QED BY <1>1, <1>3, <1>8 DEF Step, Good

LEMMA StepOfPassport ==
  ASSUME NEW s, NEW t, Good(s, t), NEW r, Ready(r), NEW d \in Nat, Longer(s, r, d),
         SameItems(s, r), Len(r.ledger) <= MaxEvents,
         NEW p \in 1..Len(s.imports), t.passports[p].state = "pending",
         NEW row, IsPassportRow(row),
         Outcome(s, r, row.state, t.passports[p].result, row.result),
         NEW u, IsTables(u), u.candidates = t.candidates,
         Overwritten(t.passports, u.passports, p, row)
  PROVE  Step(s, t, r, u)
<1>1. Makers(r) /\ Owned(r) /\ Sized(r)
  BY OutcomeMakers, OthersKept
<1>2. DOMAIN t.passports = 1..Len(s.imports)
  BY DEF Good, Tabled
<1>3. Tabled(r, u)
  BY <1>2 DEF Tabled, Good, SameItems, Overwritten
<1> PICK i : i = <<"passport", p>>
  OBVIOUS
<1>4. i \in Items /\ i[1] = "passport" /\ i[2] = p
  BY IsItem
<1>5. \A j \in Items \ {i} : StateIn(u, j) = StateIn(t, j) /\ ResultIn(u, j) = ResultIn(t, j)
  <2> SUFFICES ASSUME NEW j \in Items \ {i}
               PROVE  StateIn(u, j) = StateIn(t, j) /\ ResultIn(u, j) = ResultIn(t, j)
    OBVIOUS
  <2>1. CASE j[1] # "candidate"
    <3>1. j[2] # p
      BY <1>4, <2>1, ItemParts
    <3> QED BY <2>1, <3>1 DEF StateIn, ResultIn, Overwritten
  <2>2. CASE j[1] = "candidate"
    BY <2>2 DEF StateIn, ResultIn
  <2> QED BY <2>1, <2>2
<1>6. /\ StateIn(t, i) = "pending" /\ StateIn(u, i) = row.state
      /\ ResultIn(t, i) = ValueOf(t.passports[p].result) /\ ResultIn(u, i) = ValueOf(row.result)
  BY <1>2, <1>4 DEF StateIn, ResultIn, ValueOf, Overwritten
<1>7. Decided(s, t, r, u, i, row.state)
  BY <1>4, <1>5, <1>6 DEF Decided
<1>8. StepOfQuarantine(s, t, r, u)
  BY <1>6, <1>7, OutcomeIsStep
<1> QED BY <1>1, <1>3, <1>8 DEF Step, Good

\* A passport enters.
LEMMA StepOfImport ==
  ASSUME NEW s, NEW t, Good(s, t), NEW r, Ready(r), Longer(s, r, 1), KeepsMakers(s, r),
         r.candidates = s.candidates, Len(r.ledger) <= MaxEvents,
         Len(r.imports) = Len(s.imports) + 1,
         \A p \in 1..Len(r.imports) : r.imports[p].owner \in Agent,
         NEW row, IsPassportRow(row), row.state = "pending", row.result = None,
         NEW u, IsTables(u), u.candidates = t.candidates,
         Added(t.passports, u.passports, Len(s.imports) + 1, row)
  PROVE  Step(s, t, r, u)
<1> PICK k \in Nat, m \in Nat, q \in Nat :
      k = Len(s.ledger) /\ m = Len(s.candidates) /\ q = Len(s.imports)
  BY Lengths DEF Good
<1>1. Makers(r) /\ Owned(r)
  BY DEF KeepsMakers, Owned, Good
<1>2. Sized(r)
  <2>1. Len(r.ledger) = k + 1 /\ m <= k + 1 /\ q + 1 <= k + 1
    BY DEF Longer, Good, Sized
  <2> QED BY <2>1 DEF Sized, KeepsMakers
<1>3. DOMAIN t.passports = 1..q /\ 1..q + 1 = 1..q \cup {q + 1}
  BY DEF Good, Tabled
<1>4. Tabled(r, u)
  BY <1>3 DEF Tabled, Good, Added
<1>5. Entered(s, t, r, u)
  <2> SUFFICES ASSUME NEW i \in Items
               PROVE  /\ ResultIn(u, i) = ResultIn(t, i)
                      /\ \/ StateIn(u, i) = StateIn(t, i)
                         \/ StateIn(t, i) = "absent" /\ StateIn(u, i) = "pending"
    BY DEF Entered, KeepsMakers
  <2>1. CASE i[1] = "candidate"
    BY <2>1 DEF StateIn, ResultIn
  <2>2. CASE i[1] # "candidate" /\ i[2] = q + 1
    BY <1>3, <2>2 DEF StateIn, ResultIn, Added
  <2>3. CASE i[1] # "candidate" /\ i[2] # q + 1
    BY <1>3, <2>3 DEF StateIn, ResultIn, Added
  <2> QED BY <2>1, <2>2, <2>3
<1> QED BY <1>1, <1>2, <1>4, <1>5 DEF Step, Good, StepOfQuarantine
-----------------------------------------------------------------------------
(* Commands, from the receipt to the step.                                 *)

\* If r can be committed, then that is a step.
Commits(s, t, r) ==
  /\ Began(s, r)
  /\ LET u == Projected(r, t, Len(s.ledger))
     IN Len(r.ledger) <= MaxEvents /\ ~Refused(u) => Step(s, t, r, u)

LEMMA Starting ==
  ASSUME NEW s, NEW t, Good(s, t), NEW scope, NEW owner, NEW request, NEW clock,
         NEW q, q = Reserved(s, scope, owner, request, clock)
  PROVE  Quietly(s, q, 0) /\ SameRows(s, q)
BY Starts DEF Good

\* No event of the command is for a reducer.
LEMMA CommitsQuietly ==
  ASSUME NEW s, NEW t, Good(s, t), NEW r, NEW d \in 0..3, Quietly(s, r, d),
         SameItems(s, r), KeepsMakers(s, r)
  PROVE  Commits(s, t, r)
<1>1. Began(s, r) /\ Ready(r) /\ Longer(s, r, d) /\ QuietUpTo(s, r, d)
  BY DEF Quietly, Wrote
<1>2. IsTables(t) /\ Len(s.ledger) \in Nat /\ d \in Nat
  BY Lengths DEF Good, Tabled
<1>3. Projected(r, t, Len(s.ledger)) = t
  BY <1>1, <1>2, NothingTold DEF Longer
<1>4. Len(r.ledger) <= MaxEvents => Step(s, t, r, t)
  BY <1>1, <1>2, StepQuiet
<1> QED BY <1>1, <1>3, <1>4 DEF Commits

\* The last event e of the command goes through the reducers.
Reduces(r, t, u, e) ==
  /\ IsTables(u) /\ u.candidates # None /\ u.passports # None
  /\ u.candidates = ApplyToCandidates(r, t.candidates, e)
  /\ u.passports = ApplyToPassports(r, t.passports, e)

LEMMA CommitsTelling ==
  ASSUME NEW s, NEW t, Good(s, t), NEW r, NEW d \in 1..3, NEW type, NEW kind, NEW subject,
         NEW at, NEW data, Tells(s, r, d, type, kind, subject, at, data),
         NEW u, u = Projected(r, t, Len(s.ledger)), ~Refused(u)
  PROVE  \E e : Says(e, type, kind, subject, at, data) /\ Reduces(r, t, u, e)
<1>1. IsTables(t) /\ Len(s.ledger) \in Nat
  BY Lengths DEF Good, Tabled
<1>2. Longer(s, r, d) /\ QuietUpTo(s, r, d - 1)
  BY DEF Tells, Wrote
<1> PICK e : e = r.ledger[Len(s.ledger) + d]
  OBVIOUS
<1>3. u = Applied(r, t, e)
  BY <1>1, <1>2, LastTells DEF Longer
<1>4. u = [candidates |-> ApplyToCandidates(r, t.candidates, e),
           passports |-> ApplyToPassports(r, t.passports, e)]
  BY <1>3 DEF Applied, Refused
<1>5. Reduces(r, t, u, e)
  BY <1>4 DEF Reduces, Refused, IsTables
<1> QED BY <1>5 DEF Tells

LEMMA ClockIsNumber ==
  ASSUME NEW clock \in Time PROVE clock \in Nat /\ clock # None
BY BoundsAssumption, NoneAssumption DEF Time

LEMMA RejectsCandidate ==
  ASSUME NEW s, NEW t, Good(s, t), NEW c \in 1..Len(s.candidates), NEW clock \in Time,
         t.candidates[c].decision = "pending", NEW scope, NEW owner, NEW request,
         NEW q, q = Reserved(s, scope, owner, request, clock), NEW resource,
         NEW r, r = Appended(Attached(q, resource), "candidate_rejected", "candidate", c,
                             owner, clock,
                             [candidate |-> c, owner |-> owner, reason |-> "owner"])
  PROVE  Commits(s, t, r)
<1>1. Quietly(s, q, 0) /\ SameRows(s, q)
  BY Starting
<1> PICK b : b = Attached(q, resource)
  OBVIOUS
<1>2. Quietly(s, b, 0) /\ SameRows(q, b)
  BY <1>1, AttachesOn
<1> PICK data : data = [candidate |-> c, owner |-> owner, reason |-> "owner"]
  OBVIOUS
<1>3. Tells(s, r, 1, "candidate_rejected", "candidate", c, clock, data) /\ SameRows(b, r)
  <2>1. 0 \in Nat /\ 0 + 1 = 1 /\ "candidate" # "experience"
    OBVIOUS
  <2> QED BY <1>2, <2>1, Ends
<1>4. SameItems(s, r) /\ SameMakers(s, r)
  BY <1>1, <1>2, <1>3 DEF SameRows, SameItems, SameMakers
<1>5. Ready(r) /\ Longer(s, r, 1) /\ Began(s, r)
  BY <1>3 DEF Tells, Wrote
<1>6. KeepsMakers(s, r)
  BY <1>4, <1>5, SameKept
<1> PICK u : u = Projected(r, t, Len(s.ledger))
  OBVIOUS
<1>7. ASSUME Len(r.ledger) <= MaxEvents, ~Refused(u)
      PROVE  Step(s, t, r, u)
  <2>1. PICK e : /\ Says(e, "candidate_rejected", "candidate", c, clock, data)
                 /\ Reduces(r, t, u, e)
    BY <1>3, <1>7, CommitsTelling
  <2>2. e.subject = c /\ e.type = "candidate_rejected" /\ e.at # None /\ e.data.reason # None
    BY <2>1, ClockIsNumber, NoneAssumption DEF Says
  <2>3. u.passports = t.passports /\ IsTables(u)
    BY <2>1, <2>2 DEF Reduces, ApplyToPassports
  <2>4. IsCandidateRow(t.candidates[c])
    BY DEF Good, Tabled
  <2>5. PICK row : /\ Overwritten(t.candidates, u.candidates, c, row) /\ IsCandidateRow(row)
                   /\ row.decision = "rejected" /\ row.result = t.candidates[c].result
    BY <2>1, <2>2, <2>4, CandidateRejected DEF Reduces
  <2>6. Outcome(s, r, row.decision, t.candidates[c].result, row.result)
    BY <1>6, <2>5 DEF Outcome
  <2> QED BY <1>4, <1>5, <1>7, <2>3, <2>5, <2>6, StepOfCandidate
<1> QED BY <1>5, <1>7 DEF Commits

LEMMA RejectsPassport ==
  ASSUME NEW s, NEW t, Good(s, t), NEW p \in 1..Len(s.imports), NEW clock \in Time,
         t.passports[p].state = "pending", NEW scope, NEW owner, NEW request,
         NEW q, q = Reserved(s, scope, owner, request, clock), NEW resource,
         NEW r, r = Appended(Attached(q, resource), "passport_rejected", "passport", p,
                             owner, clock,
                             [import |-> p, owner |-> owner, reason |-> "owner"])
  PROVE  Commits(s, t, r)
<1>1. Quietly(s, q, 0) /\ SameRows(s, q)
  BY Starting
<1> PICK b : b = Attached(q, resource)
  OBVIOUS
<1>2. Quietly(s, b, 0) /\ SameRows(q, b)
  BY <1>1, AttachesOn
<1> PICK data : data = [import |-> p, owner |-> owner, reason |-> "owner"]
  OBVIOUS
<1>3. Tells(s, r, 1, "passport_rejected", "passport", p, clock, data) /\ SameRows(b, r)
  <2>1. 0 \in Nat /\ 0 + 1 = 1 /\ "passport" # "experience"
    OBVIOUS
  <2> QED BY <1>2, <2>1, Ends
<1>4. SameItems(s, r) /\ SameMakers(s, r)
  BY <1>1, <1>2, <1>3 DEF SameRows, SameItems, SameMakers
<1>5. Ready(r) /\ Longer(s, r, 1) /\ Began(s, r)
  BY <1>3 DEF Tells, Wrote
<1>6. KeepsMakers(s, r)
  BY <1>4, <1>5, SameKept
<1> PICK u : u = Projected(r, t, Len(s.ledger))
  OBVIOUS
<1>7. ASSUME Len(r.ledger) <= MaxEvents, ~Refused(u)
      PROVE  Step(s, t, r, u)
  <2>1. PICK e : /\ Says(e, "passport_rejected", "passport", p, clock, data)
                 /\ Reduces(r, t, u, e)
    BY <1>3, <1>7, CommitsTelling
  <2>2. e.subject = p /\ e.type = "passport_rejected"
    BY <2>1 DEF Says
  <2>3. u.candidates = t.candidates /\ IsTables(u)
    BY <2>1, <2>2 DEF Reduces, ApplyToCandidates
  <2>4. IsPassportRow(t.passports[p])
    BY DEF Good, Tabled
  <2>5. PICK row : /\ Overwritten(t.passports, u.passports, p, row) /\ IsPassportRow(row)
                   /\ row.state = "rejected" /\ row.result = t.passports[p].result
    BY <2>1, <2>2, <2>4, PassportRejected DEF Reduces
  <2>6. Outcome(s, r, row.state, t.passports[p].result, row.result)
    BY <1>6, <2>5 DEF Outcome
  <2> QED BY <1>4, <1>5, <1>7, <2>3, <2>5, <2>6, StepOfPassport
<1> QED BY <1>5, <1>7 DEF Commits

\* One import more.
Inserts(q, r, row) == r = [q EXCEPT !.imports = Append(@, row)]
Inserted(s, q, r, d, row) ==
  /\ Quietly(s, r, d) /\ r.experiences = q.experiences /\ r.candidates = q.candidates
  /\ Extends(r.imports, q.imports, 1, <<row>>)

LEMMA ImportWritten ==
  ASSUME NEW s, NEW q, NEW d, Quietly(s, q, d), NEW row, NEW r, Inserts(q, r, row)
  PROVE  Inserted(s, q, r, d, row)
<1>1. Sourced(q) /\ Began(s, q)
  BY DEF Quietly, Wrote, Ready
<1> PICK log : log = Append(q.imports, row)
  OBVIOUS
<1>2. /\ IsSource(r) /\ r.ledger = q.ledger /\ r.experiences = q.experiences
      /\ r.candidates = q.candidates /\ r.adoptions = q.adoptions
      /\ r.receipts = q.receipts /\ r.imports = log
  BY <1>1 DEF Sourced, IsSource, Inserts
<1>3. Extends(log, q.imports, 1, <<row>>)
  BY <1>1, LogAppend DEF Sourced
<1>4. Sourced(r) /\ Began(s, r)
  BY <1>1, <1>2, <1>3 DEF Sourced, Extends, Began
<1>5. Quietly(s, r, d)
  BY <1>2, <1>4, GoesOn
<1> QED BY <1>2, <1>3, <1>5 DEF Inserted

LEMMA ImportsDocument ==
  ASSUME NEW s, NEW t, Good(s, t), NEW clock \in Time, NEW scope, NEW owner \in Agent,
         NEW request, NEW q, q = Reserved(s, scope, owner, request, clock),
         NEW document, NEW resource, NEW data,
         NEW r, r = Appended(Attached([q EXCEPT !.imports = Append(@,
                                          [owner |-> owner, document |-> document, at |-> clock])],
                                      resource),
                             "passport_imported", "passport", Len(s.imports) + 1, owner, clock,
                             data)
  PROVE  Commits(s, t, r)
<1>1. Quietly(s, q, 0) /\ SameRows(s, q)
  BY Starting
<1> PICK row : row = [owner |-> owner, document |-> document, at |-> clock]
  OBVIOUS
<1> PICK w : w = [q EXCEPT !.imports = Append(@, row)]
  OBVIOUS
<1>2. /\ Quietly(s, w, 0) /\ w.experiences = q.experiences /\ w.candidates = q.candidates
      /\ Extends(w.imports, q.imports, 1, <<row>>)
  <2>1. Inserts(q, w, row)
    BY DEF Inserts
  <2>2. Inserted(s, q, w, 0, row)
    BY <1>1, <2>1, ImportWritten
  <2> QED BY <2>2 DEF Inserted
<1> PICK b : b = Attached(w, resource)
  OBVIOUS
<1>3. Quietly(s, b, 0) /\ SameRows(w, b)
  BY <1>2, AttachesOn
<1> PICK n \in Nat : n = Len(s.imports)
  BY Lengths DEF Good
<1> PICK new : new = n + 1
  OBVIOUS
<1>4. Tells(s, r, 1, "passport_imported", "passport", new, clock, data) /\ SameRows(b, r)
  <2>1. 0 \in Nat /\ 0 + 1 = 1 /\ "passport" # "experience"
    OBVIOUS
  <2> QED BY <1>3, <2>1, Ends
<1>5. /\ r.candidates = s.candidates /\ r.experiences = s.experiences
      /\ Len(r.imports) = n + 1 /\ \A p \in 1..n : r.imports[p] = s.imports[p]
      /\ r.imports[n + 1] = row
  <2>1. /\ r.candidates = s.candidates /\ r.experiences = s.experiences
        /\ r.imports = w.imports /\ q.imports = s.imports
    BY <1>1, <1>2, <1>3, <1>4 DEF SameRows
  <2>2. Extends(r.imports, s.imports, 1, <<row>>)
    BY <1>2, <2>1
  <2>3. 1 \in 1..1 /\ <<row>>[1] = row
    OBVIOUS
  <2> QED BY <2>1, <2>2, <2>3 DEF Extends
<1>6. Ready(r) /\ Longer(s, r, 1) /\ Began(s, r)
  BY <1>4 DEF Tells, Wrote
<1>7. KeepsMakers(s, r)
  BY <1>5, <1>6, SameKept DEF SameMakers
<1>8. \A p \in 1..Len(r.imports) : r.imports[p].owner \in Agent
  <2> SUFFICES ASSUME NEW p \in 1..n + 1 PROVE r.imports[p].owner \in Agent
    BY <1>5
  <2>1. CASE p \in 1..n
    BY <1>5, <2>1 DEF Good, Owned
  <2>2. CASE p = n + 1
    BY <1>5, <2>2
  <2> QED BY <2>1, <2>2
<1> PICK u : u = Projected(r, t, Len(s.ledger))
  OBVIOUS
<1>9. ASSUME Len(r.ledger) <= MaxEvents, ~Refused(u)
      PROVE  Step(s, t, r, u)
  <2>1. PICK e : /\ Says(e, "passport_imported", "passport", new, clock, data)
                 /\ Reduces(r, t, u, e)
    <3>1. 1 \in 1..3 /\ Tells(s, r, 1, "passport_imported", "passport", new, clock, data)
      BY <1>4
    <3> QED BY <1>9, <3>1, CommitsTelling
  <2>2. e.subject = n + 1 /\ e.type = "passport_imported"
    BY <2>1 DEF Says
  <2>3. u.candidates = t.candidates /\ IsTables(u)
    BY <2>1, <2>2 DEF Reduces, ApplyToCandidates
  <2>4. PICK y : /\ Added(t.passports, u.passports, n + 1, y)
                 /\ IsPassportRow(y) /\ y.state = "pending" /\ y.result = None
    BY <2>1, <2>2, PassportAdded DEF Reduces
  <2> QED BY <1>5, <1>6, <1>7, <1>8, <1>9, <2>3, <2>4, StepOfImport
<1> QED BY <1>6, <1>9 DEF Commits

\* A repeated import writes its receipt alone.
LEMMA Repeats ==
  ASSUME NEW s, NEW t, Good(s, t), NEW clock, NEW scope, NEW owner,
         NEW request, NEW q, q = Reserved(s, scope, owner, request, clock),
         NEW resource, NEW r, r = Attached(q, resource)
  PROVE  Commits(s, t, r)
<1>1. Quietly(s, q, 0) /\ SameRows(s, q)
  BY Starting
<1>2. Quietly(s, r, 0) /\ SameRows(q, r)
  BY <1>1, AttachesOn
<1>3. SameItems(s, r) /\ SameMakers(s, r)
  BY <1>1, <1>2 DEF SameRows, SameItems, SameMakers
<1>4. KeepsMakers(s, r)
  <2>1. Ready(r) /\ Longer(s, r, 0) /\ 0 \in Nat
    BY <1>2 DEF Quietly, Wrote
  <2> QED BY <1>3, <2>1, SameKept
<1>5. 0 \in 0..3
  OBVIOUS
<1> QED BY <1>2, <1>3, <1>4, <1>5, CommitsQuietly

LEMMA WritesExperience ==
  ASSUME NEW s, NEW t, Good(s, t), NEW clock, NEW scope, NEW owner \in Agent, NEW content,
         NEW request, NEW q, q = Reserved(s, scope, owner, request, clock),
         NEW r, r = Created(q, owner, "authored", content, clock)
  PROVE  Commits(s, t, r)
<1>1. Quietly(s, q, 0) /\ SameRows(s, q)
  BY Starting
<1>2. Quietly(s, r, 2) /\ NewExperience(q, r, owner, "authored") /\ OtherRows(q, r)
  BY <1>1, CreatesOn
<1>3. SameItems(s, r) /\ NewExperience(s, r, owner, "authored")
  BY <1>1, <1>2 DEF SameRows, SameItems, OtherRows, NewExperience
<1>4. KeepsMakers(s, r)
  <2>1. Ready(r) /\ Longer(s, r, 2) /\ 2 \in Nat /\ 2 # 0 /\ "authored" \in Origins
    BY <1>2 DEF Quietly, Wrote, Origins
  <2> QED BY <1>3, <2>1, NewKept
<1>5. 2 \in 0..3
  OBVIOUS
<1> QED BY <1>2, <1>3, <1>4, <1>5, CommitsQuietly

LEMMA ChangesExperience ==
  ASSUME NEW s, NEW t, Good(s, t), NEW clock, NEW scope, NEW owner, NEW content,
         NEW temperature, NEW x \in 1..Len(s.experiences),
         NEW request, NEW q, q = Reserved(s, scope, owner, request, clock),
         NEW r, r = Changed(q, x, content, temperature, clock)
  PROVE  Commits(s, t, r)
<1>1. Quietly(s, q, 0) /\ SameRows(s, q)
  BY Starting
<1>2. Quietly(s, r, 1) /\ SameMakers(q, r) /\ OtherRows(q, r)
  <2>1. x \in 1..Len(q.experiences)
    BY <1>1 DEF SameRows
  <2> QED BY <1>1, <2>1, ChangesOn
<1>3. SameItems(s, r) /\ SameMakers(s, r)
  BY <1>1, <1>2 DEF SameRows, SameItems, OtherRows, SameMakers
<1>4. KeepsMakers(s, r)
  <2>1. Ready(r) /\ Longer(s, r, 1) /\ 1 \in Nat
    BY <1>2 DEF Quietly, Wrote
  <2> QED BY <1>3, <2>1, SameKept
<1>5. 1 \in 0..3
  OBVIOUS
<1> QED BY <1>2, <1>3, <1>4, <1>5, CommitsQuietly
-----------------------------------------------------------------------------
(* Adoption: into an experience of the owner, or into a new one.           *)

AdoptedOrigins == {"adopted_candidate", "adopted_passport"}

\* The command that started at s adopts into x; w has the experience.
Target(s, w, d, x) ==
  /\ Quietly(s, w, d) /\ OtherRows(s, w) /\ d \in {0, 2}
  /\ x \in 1..Len(w.experiences) /\ Current(w, x).version \in 1..Len(w.ledger)
  /\ \/ SameMakers(s, w)
     \/ /\ x = Len(s.experiences) + 1
        /\ \E owner \in Agent, origin \in AdoptedOrigins : NewExperience(s, w, owner, origin)

LEMMA HasVersion ==
  ASSUME NEW w, Ready(w), NEW x \in 1..Len(w.experiences)
  PROVE  Current(w, x).version \in 1..Len(w.ledger)
<1>1. IsSnapshot(Current(w, x), Len(w.ledger))
  BY CurrentVersion DEF Ready, Recorded
<1> QED BY <1>1 DEF IsSnapshot

LEMMA TargetFound ==
  ASSUME NEW s, NEW q, Quietly(s, q, 0), SameRows(s, q), NEW x \in 1..Len(s.experiences)
  PROVE  Target(s, q, 0, x)
<1>1. x \in 1..Len(q.experiences) /\ Ready(q) /\ OtherRows(s, q) /\ SameMakers(s, q)
  BY DEF Quietly, Wrote, SameRows, OtherRows, SameMakers
<1>2. Current(q, x).version \in 1..Len(q.ledger)
  BY <1>1, HasVersion
<1> QED BY <1>1, <1>2 DEF Target

LEMMA TargetCreated ==
  ASSUME NEW s, NEW q, Quietly(s, q, 0), SameRows(s, q), Len(s.experiences) \in Nat,
         NEW owner \in Agent, NEW origin \in AdoptedOrigins, NEW content, NEW at,
         NEW w, w = Created(q, owner, origin, content, at)
  PROVE  Target(s, w, 2, Len(s.experiences) + 1)
<1> PICK m \in Nat : m = Len(s.experiences)
  OBVIOUS
<1>1. Quietly(s, w, 2) /\ NewExperience(q, w, owner, origin) /\ OtherRows(q, w)
  BY CreatesOn
<1>2. OtherRows(s, w) /\ NewExperience(s, w, owner, origin)
  BY <1>1 DEF SameRows, OtherRows, NewExperience
<1>3. m + 1 \in 1..Len(w.experiences) /\ Ready(w)
  BY <1>1, <1>2 DEF NewExperience, Quietly, Wrote
<1>4. Current(w, m + 1).version \in 1..Len(w.ledger)
  BY <1>3, HasVersion
<1> QED BY <1>1, <1>2, <1>3, <1>4 DEF Target

\* Whatever is written after the experience, and then the event.
LEMMA TargetOutcome ==
  ASSUME NEW s, NEW t, Good(s, t), NEW w, NEW d, NEW x, Target(s, w, d, x),
         NEW r, Ready(r), NEW n \in Nat, n # 0, Longer(s, r, n),
         r.experiences = w.experiences, Len(w.ledger) <= Len(r.ledger),
         Len(r.ledger) <= MaxEvents, NEW was,
         NEW now, now = [experience |-> x, version |-> Current(w, x).version]
  PROVE  Outcome(s, r, "adopted", was, now)
<1>1. KeepsMakers(s, r) \/ Makes(s, r, x)
  <2>1. CASE SameMakers(s, w)
    <3>1. SameMakers(s, r)
      BY <2>1 DEF SameMakers
    <3> QED BY <3>1, SameKept
  <2>2. ASSUME x = Len(s.experiences) + 1, NEW owner \in Agent, NEW origin \in AdoptedOrigins,
               NewExperience(s, w, owner, origin)
        PROVE  Makes(s, r, x)
    <3>1. NewExperience(s, r, owner, origin)
      BY <2>2 DEF NewExperience
    <3>2. origin \in Origins /\ origin # "authored"
      BY DEF Origins, AdoptedOrigins
    <3> QED BY <2>2, <3>1, <3>2, NewKept
  <2> QED BY <2>1, <2>2 DEF Target
<1> PICK m \in Nat, k \in Nat, l \in Nat :
      m = Len(r.experiences) /\ k = Len(w.ledger) /\ l = Len(r.ledger)
  BY Lengths, LogLength DEF Target, Quietly, Wrote, Ready, Sourced
<1> PICK v : v = Current(w, x).version
  OBVIOUS
<1>2. x \in 1..m /\ v \in 1..k
  BY DEF Target
<1>3. m <= l /\ k <= l /\ l <= MaxEvents /\ MaxEvents \in Nat
  BY <1>1, BoundsAssumption DEF KeepsMakers, Makes
<1>4. x \in 1..MaxEvents /\ v \in 1..MaxEvents
  BY <1>2, <1>3
<1> QED BY <1>1, <1>4 DEF Outcome

\* An adoption of a candidate more.
Books(q, r, row) == r = [q EXCEPT !.adoptions = Append(@, row)]

LEMMA AdoptionWritten ==
  ASSUME NEW s, NEW q, NEW d, Quietly(s, q, d), NEW row, NEW r, Books(q, r, row)
  PROVE  Quietly(s, r, d) /\ r.experiences = q.experiences /\ SameItems(q, r)
         /\ r.ledger = q.ledger
<1>1. Sourced(q) /\ Began(s, q)
  BY DEF Quietly, Wrote, Ready
<1> PICK log : log = Append(q.adoptions, row)
  OBVIOUS
<1>2. /\ IsSource(r) /\ r.ledger = q.ledger /\ r.experiences = q.experiences
      /\ SameItems(q, r) /\ r.imports = q.imports /\ r.candidates = q.candidates
      /\ r.receipts = q.receipts /\ r.adoptions = log
  BY <1>1 DEF Sourced, IsSource, Books, SameItems
<1>3. Extends(log, q.adoptions, 1, <<row>>)
  BY <1>1, LogAppend DEF Sourced
<1>4. Sourced(r) /\ Began(s, r)
  BY <1>1, <1>2, <1>3 DEF Sourced, Extends, Began
<1>5. Quietly(s, r, d)
  BY <1>2, <1>4, GoesOn
<1> QED BY <1>2, <1>5

\* An adoption of a passport more.
Moves(q, r, row) == r = [q EXCEPT !.transfers = Append(@, row)]

LEMMA TransferWritten ==
  ASSUME NEW s, NEW q, NEW d, Quietly(s, q, d), NEW row, NEW r, Moves(q, r, row)
  PROVE  Quietly(s, r, d) /\ r.experiences = q.experiences /\ SameItems(q, r)
         /\ r.ledger = q.ledger
<1>1. Sourced(q) /\ Began(s, q)
  BY DEF Quietly, Wrote, Ready
<1>2. /\ IsSource(r) /\ r.ledger = q.ledger /\ r.experiences = q.experiences
      /\ SameItems(q, r) /\ r.imports = q.imports /\ r.candidates = q.candidates
      /\ r.receipts = q.receipts /\ r.adoptions = q.adoptions
  BY <1>1 DEF Sourced, IsSource, Moves, SameItems
<1>3. Sourced(r) /\ Began(s, r)
  BY <1>1, <1>2 DEF Sourced, Began
<1>4. Quietly(s, r, d)
  BY <1>2, <1>3, GoesOn
<1> QED BY <1>2, <1>4

LEMMA TargetOf ==
  ASSUME NEW s, NEW q, Quietly(s, q, 0), SameRows(s, q), Len(s.experiences) \in Nat,
         NEW owner \in Agent, NEW origin \in AdoptedOrigins, NEW content, NEW at,
         NEW E, E \subseteq 1..Len(s.experiences),
         NEW x, x = IF E = {} THEN Len(s.experiences) + 1 ELSE CHOOSE y \in E : TRUE,
         NEW w, w = IF E = {} THEN Created(q, owner, origin, content, at) ELSE q
  PROVE  \E d : Target(s, w, d, x)
<1>1. CASE E = {}
  BY <1>1, TargetCreated
<1>2. CASE E # {}
  <2>1. x \in 1..Len(s.experiences)
    BY <1>2
  <2> QED BY <1>2, <2>1, TargetFound
<1> QED BY <1>1, <1>2

LEMMA AdoptsCandidate ==
  ASSUME Good(source, tables), NEW c \in 1..Len(source.candidates), NEW clock \in Time,
         tables.candidates[c].decision = "pending", NEW scope, NEW request, NEW q,
         q = Reserved(source, scope, source.candidates[c].owner, request, clock),
         NEW r, r = CandidateAdopted(q, c, clock)
  PROVE  Commits(source, tables, r)
<1> PICK s, t : s = source /\ t = tables
  OBVIOUS
<1>1. Good(s, t) /\ Len(s.experiences) \in Nat /\ Len(s.adoptions) \in Nat
  BY Lengths DEF Good
<1>a. PICK owner, content : owner = s.candidates[c].owner /\ content = s.candidates[c].content
  OBVIOUS
<1>b. PICK E : E = Equivalents(s, owner, content)
  OBVIOUS
<1>c. PICK x, w : /\ x = IF E = {} THEN Len(s.experiences) + 1 ELSE CHOOSE y \in E : TRUE
                /\ w = IF E = {} THEN Created(q, owner, "adopted_candidate", content, clock) ELSE q
  OBVIOUS
<1>d. PICK result, n : result = [experience |-> x, version |-> Current(w, x).version]
                     /\ n = Len(s.adoptions) + 1
  OBVIOUS
<1>e. PICK row, data :
      /\ row = [candidate |-> c, owner |-> owner, result |-> result, content |-> content,
                created |-> (E = {}), at |-> clock]
      /\ data = [candidate |-> c, owner |-> owner, adoption |-> n, result |-> result,
                 content |-> content, created |-> (E = {})]
  OBVIOUS
<1>f. PICK b : b = Attached(w, Resource("candidate_adoption", n))
  OBVIOUS
<1>g. PICK y : y = [b EXCEPT !.adoptions = Append(@, row)]
  OBVIOUS
<1>2. r = Appended(y, "candidate_adopted", "candidate", c, owner, clock, data)
  BY <1>a, <1>b, <1>c, <1>d, <1>e, <1>f, <1>g DEF CandidateAdopted
<1>h. data.adoption = n /\ data.result = result
  BY <1>e
<1>3. Quietly(s, q, 0) /\ SameRows(s, q)
  BY <1>1, Starting
<1>4. PICK d : Target(s, w, d, x)
  <2>1. owner \in Agent /\ "adopted_candidate" \in AdoptedOrigins
    BY <1>1, <1>a DEF Good, Owned, AdoptedOrigins
  <2>2. E \subseteq 1..Len(s.experiences)
    BY <1>1, <1>b, Lengths DEF Equivalents, Good
  <2> QED BY <1>1, <1>3, <1>c, <2>1, <2>2, TargetOf
<1>5. d \in Nat /\ Quietly(s, b, d) /\ SameRows(w, b)
  BY <1>4, <1>f, AttachesOn DEF Target
<1>6. Quietly(s, y, d) /\ y.experiences = b.experiences /\ SameItems(b, y)
  <2>1. Books(b, y, row)
    BY <1>g DEF Books
  <2> QED BY <1>5, <2>1, AdoptionWritten
<1>7. /\ Tells(s, r, d + 1, "candidate_adopted", "candidate", c, clock, data)
      /\ SameRows(y, r)
  BY <1>2, <1>5, <1>6, Ends
<1>8. r.experiences = w.experiences /\ SameItems(s, r)
  BY <1>4, <1>5, <1>6, <1>7 DEF SameRows, SameItems, Target, OtherRows
<1>9. Ready(r) /\ Longer(s, r, d + 1) /\ Began(s, r)
  BY <1>7 DEF Tells, Wrote
<1>10. Len(w.ledger) <= Len(r.ledger) /\ d + 1 \in Nat /\ d + 1 # 0 /\ d + 1 \in 1..3
  <2> PICK k \in Nat : k = Len(s.ledger)
    BY <1>1, Lengths DEF Good
  <2>1. Len(w.ledger) = k + d /\ Len(r.ledger) = k + (d + 1)
    BY <1>4, <1>9 DEF Target, Quietly, Wrote, Longer
  <2>2. d = 0 \/ d = 2
    BY <1>4 DEF Target
  <2> QED BY <2>1, <2>2
<1> PICK u : u = Projected(r, t, Len(s.ledger))
  OBVIOUS
<1>11. ASSUME Len(r.ledger) <= MaxEvents, ~Refused(u)
       PROVE  Step(s, t, r, u)
  <2>1. PICK e : /\ Says(e, "candidate_adopted", "candidate", c, clock, data)
                 /\ Reduces(r, t, u, e)
    BY <1>1, <1>7, <1>10, <1>11, CommitsTelling
  <2>2. Outcome(s, r, "adopted", t.candidates[c].result, result)
    BY <1>1, <1>4, <1>8, <1>9, <1>10, <1>11, <1>d, TargetOutcome
  <2>3. result # None /\ n # None
    <3>1. n \in Nat
      BY <1>1, <1>d
    <3>2. result # None
      BY <2>2, NoneAssumption DEF Outcome
    <3> QED BY <3>1, <3>2, NoneAssumption
  <2>4. /\ e.subject = c /\ e.type = "candidate_adopted" /\ e.at # None
        /\ e.data.adoption # None /\ e.data.result = result
    BY <2>1, <2>3, <1>h, ClockIsNumber DEF Says
  <2>5. u.passports = t.passports /\ IsTables(u)
    BY <2>1, <2>4 DEF Reduces, ApplyToPassports
  <2>6. IsCandidateRow(t.candidates[c]) /\ t.candidates[c].decision = "pending"
    BY <1>1 DEF Good, Tabled
  <2>7. PICK new : /\ Overwritten(t.candidates, u.candidates, c, new) /\ IsCandidateRow(new)
                   /\ new.decision = "adopted" /\ new.result = result
    BY <2>1, <2>3, <2>4, <2>6, CandidateAdopts DEF Reduces
  <2>8. Outcome(s, r, new.decision, t.candidates[c].result, new.result)
    BY <2>2, <2>7
  <2> QED BY <1>1, <1>8, <1>9, <1>10, <1>11, <2>5, <2>6, <2>7, <2>8, StepOfCandidate
<1> QED BY <1>9, <1>11 DEF Commits

LEMMA AdoptsPassport ==
  ASSUME Good(source, tables), NEW p \in 1..Len(source.imports), NEW clock \in Time,
         tables.passports[p].state = "pending", NEW scope, NEW request, NEW q,
         q = Reserved(source, scope, source.imports[p].owner, request, clock),
         NEW E, E \subseteq DOMAIN source.experiences,
         NEW r, r = PassportAdopted(q, p, E, clock)
  PROVE  Commits(source, tables, r)
<1> PICK s, t : s = source /\ t = tables
  OBVIOUS
<1>1. Good(s, t) /\ Len(s.experiences) \in Nat
  BY Lengths DEF Good
<1>a. PICK owner, content : /\ owner = s.imports[p].owner
                          /\ content = s.documents[s.imports[p].document].content
  OBVIOUS
<1>b. PICK n : n = Len(s.transfers) + 1
  OBVIOUS
<1>c. PICK b : b = Attached(q, Resource("passport_adoption", n))
  OBVIOUS
<1>d. PICK x, w : /\ x = IF E = {} THEN Len(s.experiences) + 1 ELSE CHOOSE y \in E : TRUE
                /\ w = IF E = {} THEN Created(b, owner, "adopted_passport", content, clock) ELSE b
  OBVIOUS
<1>e. PICK result : result = [experience |-> x, version |-> Current(w, x).version]
  OBVIOUS
<1>f. PICK row, data :
      /\ row = [import |-> p, owner |-> owner, result |-> result, content |-> content,
                created |-> (E = {}), at |-> clock]
      /\ data = [import |-> p, owner |-> owner, adoption |-> n, result |-> result,
                 content |-> content, created |-> (E = {})]
  OBVIOUS
<1>g. PICK y : y = [w EXCEPT !.transfers = Append(@, row)]
  OBVIOUS
<1>2. r = Appended(y, "passport_adopted", "passport", p, owner, clock, data)
  BY <1>a, <1>b, <1>c, <1>d, <1>e, <1>f, <1>g DEF PassportAdopted
<1>h. data.result = result
  BY <1>f
<1>3. Quietly(s, b, 0) /\ SameRows(s, b)
  <2>1. Quietly(s, q, 0) /\ SameRows(s, q)
    BY <1>1, Starting
  <2>2. Quietly(s, b, 0) /\ SameRows(q, b)
    BY <1>c, <2>1, AttachesOn
  <2> QED BY <2>1, <2>2 DEF SameRows
<1>4. PICK d : Target(s, w, d, x)
  <2>1. owner \in Agent /\ "adopted_passport" \in AdoptedOrigins
    BY <1>1, <1>a DEF Good, Owned, AdoptedOrigins
  <2>2. E \subseteq 1..Len(s.experiences)
    BY <1>1, Lengths DEF Good
  <2> QED BY <1>1, <1>3, <1>d, <2>1, <2>2, TargetOf
<1>5. d \in Nat /\ Quietly(s, w, d)
  BY <1>4 DEF Target
<1>6. Quietly(s, y, d) /\ y.experiences = w.experiences /\ SameItems(w, y)
  <2>1. Moves(w, y, row)
    BY <1>g DEF Moves
  <2> QED BY <1>5, <2>1, TransferWritten
<1>7. /\ Tells(s, r, d + 1, "passport_adopted", "passport", p, clock, data)
      /\ SameRows(y, r)
  BY <1>2, <1>5, <1>6, Ends
<1>8. r.experiences = w.experiences /\ SameItems(s, r)
  BY <1>4, <1>6, <1>7 DEF SameRows, SameItems, Target, OtherRows
<1>9. Ready(r) /\ Longer(s, r, d + 1) /\ Began(s, r)
  BY <1>7 DEF Tells, Wrote
<1>10. Len(w.ledger) <= Len(r.ledger) /\ d + 1 \in Nat /\ d + 1 # 0 /\ d + 1 \in 1..3
  <2> PICK k \in Nat : k = Len(s.ledger)
    BY <1>1, Lengths DEF Good
  <2>1. Len(w.ledger) = k + d /\ Len(r.ledger) = k + (d + 1)
    BY <1>4, <1>9 DEF Target, Quietly, Wrote, Longer
  <2>2. d = 0 \/ d = 2
    BY <1>4 DEF Target
  <2> QED BY <2>1, <2>2
<1> PICK u : u = Projected(r, t, Len(s.ledger))
  OBVIOUS
<1>11. ASSUME Len(r.ledger) <= MaxEvents, ~Refused(u)
       PROVE  Step(s, t, r, u)
  <2>1. PICK e : /\ Says(e, "passport_adopted", "passport", p, clock, data)
                 /\ Reduces(r, t, u, e)
    BY <1>1, <1>7, <1>10, <1>11, CommitsTelling
  <2>2. Outcome(s, r, "adopted", t.passports[p].result, result)
    BY <1>1, <1>4, <1>8, <1>9, <1>10, <1>11, <1>e, TargetOutcome
  <2>3. e.subject = p /\ e.type = "passport_adopted" /\ e.data.result = result
    BY <2>1, <1>h DEF Says
  <2>4. u.candidates = t.candidates /\ IsTables(u)
    BY <2>1, <2>3 DEF Reduces, ApplyToCandidates
  <2>5. IsPassportRow(t.passports[p]) /\ t.passports[p].state = "pending"
    BY <1>1 DEF Good, Tabled
  <2>6. PICK new : /\ Overwritten(t.passports, u.passports, p, new) /\ IsPassportRow(new)
                   /\ new.state = "adopted" /\ new.result = result
    BY <2>1, <2>3, <2>5, PassportAdopts DEF Reduces
  <2>7. Outcome(s, r, new.state, t.passports[p].result, new.result)
    BY <2>2, <2>6
  <2> QED BY <1>1, <1>8, <1>9, <1>10, <1>11, <2>4, <2>5, <2>6, <2>7, StepOfPassport
<1> QED BY <1>9, <1>11 DEF Commits
-----------------------------------------------------------------------------
(* Capture: the drafts of a trajectory, their rows and their events.       *)

\* The drafts after one signal more.
Drafted(found, signal) ==
  IF \E d \in ToSet(found) : d.content = signal.content THEN found
  ELSE Append(found, [content |-> signal.content, evidence |-> Kept(signal)])

IsDraftsTo(g, signals, m) ==
  g = [n \in 0..m |-> IF n = 0 THEN << >>
                      ELSE LET found == g[n - 1] IN Drafted(found, signals[n])]

LEMMA DraftsExist ==
  ASSUME NEW signals, NEW d \in Nat
  PROVE  \E g : IsDraftsTo(g, signals, d)
<1> PICK bad : bad = {e \in Nat : ~ \E g : IsDraftsTo(g, signals, e)}
  OBVIOUS
<1>1. SUFFICES ASSUME bad # {} PROVE FALSE
  OBVIOUS
<1>2. PICK e \in bad : \A b \in bad : ~(<<b, e>> \in OpToRel(<, Nat))
  BY <1>1, WFMin, NatLessThanWellFounded
<1>3. e \in Nat /\ \A b \in bad : ~(b < e)
  BY <1>2 DEF OpToRel
<1>4. CASE e = 0
  <2> PICK g : g = [n \in 0..0 |-> << >>]
    OBVIOUS
  <2>1. g = [n \in 0..0 |-> IF n = 0 THEN << >>
               ELSE LET found == g[n - 1] IN Drafted(found, signals[n])]
    <3>1. \A n \in 0..0 : n = 0
      OBVIOUS
    <3> QED BY <3>1
  <2> QED BY <1>2, <1>4, <2>1 DEF IsDraftsTo
<1>5. CASE e # 0
  <2>1. e - 1 \in Nat /\ e - 1 < e
    BY <1>3, <1>5
  <2>2. PICK g : IsDraftsTo(g, signals, e - 1)
    BY <1>3, <2>1
  <2> PICK h : h = [n \in 0..e |-> IF n = e THEN Drafted(g[n - 1], signals[n]) ELSE g[n]]
    OBVIOUS
  <2>3. ASSUME NEW n \in 0..e
        PROVE  h[n] = IF n = 0 THEN << >>
                      ELSE LET found == h[n - 1] IN Drafted(found, signals[n])
    <3>1. CASE n = 0
      <4>1. n # e /\ n \in 0..e - 1
        BY <1>3, <1>5, <3>1
      <4>2. g[n] = << >>
        BY <2>2, <3>1, <4>1 DEF IsDraftsTo
      <4> QED BY <3>1, <4>1, <4>2
    <3>2. CASE n # 0 /\ n # e
      <4>1. n \in 0..e - 1 /\ n - 1 \in 0..e /\ n - 1 # e
        BY <1>3, <3>2
      <4>2. g[n] = Drafted(g[n - 1], signals[n])
        BY <2>2, <3>2, <4>1 DEF IsDraftsTo
      <4>3. h[n - 1] = g[n - 1] /\ h[n] = g[n]
        BY <3>2, <4>1
      <4> QED BY <3>2, <4>2, <4>3
    <3>3. CASE n # 0 /\ n = e
      <4>1. n - 1 \in 0..e /\ n - 1 # e
        BY <1>3, <3>3
      <4>2. h[n - 1] = g[n - 1] /\ h[n] = Drafted(g[n - 1], signals[n])
        BY <3>3, <4>1
      <4> QED BY <3>3, <4>2
    <3> QED BY <3>1, <3>2, <3>3
  <2>4. h = [n \in 0..e |-> h[n]]
    OBVIOUS
  <2>5. IsDraftsTo(h, signals, e)
    BY <2>3, <2>4 DEF IsDraftsTo
  <2> QED BY <1>2, <2>5
<1> QED BY <1>4, <1>5

\* The drafts are a sequence.
LEMMA DraftsAreLog ==
  ASSUME NEW m \in Trajectory
  PROVE  IsLog(Extracted(m))
<1> PICK signals, d : signals = Signals[m] /\ d = Len(signals)
  OBVIOUS
<1>1. d \in Nat
  BY SignalsAssumption
<1> PICK g : g = CHOOSE h : IsDraftsTo(h, signals, d)
  OBVIOUS
<1>2. IsDraftsTo(g, signals, d)
  BY <1>1, DraftsExist
<1>3. Extracted(m) = g[d]
  BY DEF Extracted, IsDraftsTo, Drafted
<1> PICK bad : bad = {n \in 0..d : ~IsLog(g[n])}
  OBVIOUS
<1>4. SUFFICES ASSUME bad # {} PROVE FALSE
  <2>1. d \in 0..d
    BY <1>1
  <2>2. bad = {} => IsLog(g[d])
    BY <2>1
  <2> QED BY <1>3, <2>2
<1>5. bad \subseteq Nat
  BY <1>1
<1>6. PICK e \in bad : \A b \in bad : ~(<<b, e>> \in OpToRel(<, Nat))
  BY <1>4, <1>5, WFMin, NatLessThanWellFounded
<1>7. e \in 0..d /\ ~IsLog(g[e]) /\ \A b \in bad : ~(b < e)
  BY <1>5, <1>6 DEF OpToRel
<1>8. CASE e = 0
  <2>1. g[e] = << >>
    BY <1>2, <1>7, <1>8 DEF IsDraftsTo
  <2>2. IsLog(<< >>)
    <3>1. << >> \in Seq({})
      OBVIOUS
    <3> QED BY <3>1, LogOf
  <2> QED BY <1>7, <2>1, <2>2
<1>9. CASE e # 0
  <2>1. e - 1 \in 0..d /\ e - 1 < e
    BY <1>1, <1>7, <1>9
  <2>2. IsLog(g[e - 1])
    BY <1>7, <2>1
  <2>3. g[e] = Drafted(g[e - 1], signals[e])
    BY <1>2, <1>7, <1>9 DEF IsDraftsTo
  <2>4. ASSUME NEW x
        PROVE  IsLog(Append(g[e - 1], x))
    BY <2>2, LogAppend DEF Extends
  <2>5. IsLog(g[e])
    BY <2>2, <2>3, <2>4 DEF Drafted
  <2> QED BY <1>7, <2>5
<1> QED BY <1>8, <1>9

\* The rows and events of a capture: n candidates of one owner.
CapturedRows(s, r, n) ==
  /\ r.experiences = s.experiences /\ r.imports = s.imports
  /\ Len(r.candidates) = Len(s.candidates) + n
  /\ \A c \in 1..Len(r.candidates) : r.candidates[c].owner \in Agent
CreatedEvents(s, r, n) ==
  LET k == Len(s.ledger) + 1
      m == Len(s.candidates)
  IN /\ Len(r.ledger) = k + n /\ \A j \in 1..Len(s.ledger) : r.ledger[j] = s.ledger[j]
     /\ r.ledger[k].type \notin Telling /\ r.ledger[k].kind # "experience"
     /\ \A i \in 1..n : /\ r.ledger[k + i].type = "candidate_created"
                        /\ r.ledger[k + i].kind # "experience"
                        /\ r.ledger[k + i].subject = m + i

\* The rows of a capture, and the bundle's event.
Draws(q, w, bundles, evidence, candidates) ==
  w = [q EXCEPT !.bundles = bundles, !.evidence = evidence, !.candidates = candidates]

LEMMA RowsDrawn ==
  ASSUME NEW s, NEW q, Quietly(s, q, 0), SameRows(s, q),
         NEW n \in Nat, NEW f, DOMAIN f = 1..n, f = [i \in 1..n |-> f[i]],
         NEW bundles, NEW evidence, NEW w, Draws(q, w, bundles, evidence, q.candidates \o f)
  PROVE  /\ Quietly(s, w, 0) /\ w.experiences = s.experiences /\ w.imports = s.imports
         /\ Extends(w.candidates, s.candidates, n, f)
<1>1. Sourced(q) /\ Began(s, q)
  BY DEF Quietly, Wrote, Ready
<1> PICK log : log = q.candidates \o f
  OBVIOUS
<1>2. Extends(log, s.candidates, n, f)
  <2>1. IsLog(q.candidates) /\ q.candidates = s.candidates
    BY <1>1 DEF Sourced, SameRows
  <2> QED BY <2>1, LogConcat
<1>3. /\ IsSource(w) /\ w.ledger = q.ledger /\ w.experiences = q.experiences
      /\ w.imports = q.imports /\ w.candidates = log
      /\ w.receipts = q.receipts /\ w.adoptions = q.adoptions
  BY <1>1 DEF Sourced, IsSource, Draws
<1>4. Sourced(w) /\ Began(s, w)
  BY <1>1, <1>2, <1>3 DEF Sourced, Extends, Began
<1>5. Quietly(s, w, 0)
  BY <1>3, <1>4, GoesOn
<1> QED BY <1>2, <1>3, <1>5 DEF SameRows

\* The events of the candidates.
Follows(w, r, log) == r = [w EXCEPT !.ledger = log]

LEMMA EventsFollow ==
  ASSUME NEW s, NEW w, Wrote(s, w, 1), NEW n \in Nat, NEW f, DOMAIN f = 1..n,
         f = [i \in 1..n |-> f[i]], \A i \in 1..n : f[i].kind # "experience",
         NEW r, Follows(w, r, w.ledger \o f)
  PROVE  /\ Ready(r) /\ Began(s, r) /\ SameRows(w, r)
         /\ Extends(r.ledger, w.ledger, n, f)
<1>1. Ready(w) /\ Began(s, w) /\ Sourced(w)
  BY DEF Wrote, Ready
<1> PICK log : log = w.ledger \o f
  OBVIOUS
<1> PICK k \in Nat : k = Len(w.ledger)
  BY <1>1, Lengths
<1>2. Extends(log, w.ledger, n, f)
  BY <1>1, LogConcat DEF Sourced
<1>3. /\ IsSource(r) /\ r.ledger = log /\ SameRows(w, r) /\ r.receipts = w.receipts
  BY <1>1 DEF Sourced, IsSource, Follows, SameRows
<1>4. Sourced(r) /\ Began(s, r)
  BY <1>1, <1>2, <1>3 DEF Sourced, Extends, Began, SameRows
<1>5. Snapshots(r)
  <2> SUFFICES ASSUME NEW j \in 1..k + n, log[j].kind = "experience"
               PROVE  IsSnapshot(log[j].data.after, j)
    BY <1>2, <1>3 DEF Snapshots, Extends
  <2>1. CASE j \in 1..k
    BY <1>1, <1>2, <2>1 DEF Ready, Snapshots, Extends
  <2>2. CASE j \notin 1..k
    <3>1. j - k \in 1..n /\ k + (j - k) = j
      BY <2>2
    <3>2. log[k + (j - k)] = f[j - k]
      BY <1>2, <3>1 DEF Extends
    <3> QED BY <3>1, <3>2
  <2> QED BY <2>1, <2>2
<1>6. Recorded(r)
  <2> SUFFICES ASSUME NEW x \in 1..Len(w.experiences)
               PROVE  \E j \in 1..k + n : OfExperience(log[j], x)
    BY <1>2, <1>3 DEF Recorded, Extends, SameRows
  <2>1. PICK j \in 1..k : OfExperience(w.ledger[j], x)
    BY <1>1 DEF Ready, Recorded
  <2>2. j \in 1..k + n /\ log[j] = w.ledger[j]
    BY <1>2 DEF Extends
  <2> QED BY <2>1, <2>2
<1> QED BY <1>2, <1>3, <1>4, <1>5, <1>6 DEF Ready

LEMMA CaptureWritten ==
  ASSUME NEW s, NEW q, Quietly(s, q, 0), SameRows(s, q), Makers(s), Owned(s),
         NEW m \in Trajectory, NEW clock, NEW r, r = Captured(q, m, clock)
  PROVE  \E n \in Nat : /\ Ready(r) /\ Began(s, r)
                        /\ CapturedRows(s, r, n) /\ CreatedEvents(s, r, n)
<1> DEFINE owner == OwnerOf[m]
           bundle == Len(q.bundles) + 1
           drafts == Extracted(m)
           pointers == UniqueEvidence(drafts)
           id == [p \in ToSet(pointers) |->
                    Len(q.evidence) + CHOOSE n \in DOMAIN pointers : pointers[n] = p]
           refs(n) == [k \in DOMAIN drafts[n].evidence |-> id[drafts[n].evidence[k]]]
           first == Len(q.candidates)
           bundles == Append(q.bundles, [owner |-> owner, trajectory |-> m, at |-> clock])
           evidence == q.evidence \o [n \in DOMAIN pointers |->
                         [bundle |-> bundle, owner |-> owner, pointer |-> pointers[n]]]
           f == [n \in DOMAIN drafts |->
                   [bundle |-> bundle, owner |-> owner, ordinal |-> n,
                    content |-> drafts[n].content, evidence |-> refs(n), at |-> clock]]
           w == [q EXCEPT !.bundles = bundles, !.evidence = evidence,
                          !.candidates = q.candidates \o f]
           data == [owner |-> owner, trajectory |-> m,
                    evidence |-> [n \in DOMAIN pointers |-> Len(q.evidence) + n],
                    candidates |-> [n \in DOMAIN drafts |-> first + n]]
           captured == Appended(w, "trajectory_captured", "bundle", bundle, owner, clock, data)
           datum(n) == [candidate |-> first + n, bundle |-> bundle, owner |-> owner,
                        content |-> drafts[n].content, evidence |-> refs(n)]
           g == [n \in DOMAIN drafts |->
                   NextEvent(captured, n, "candidate_created", "candidate", first + n, owner,
                             clock, datum(n))]
<1>1. Follows(captured, r, captured.ledger \o g)
  BY DEF Captured, Follows
<1>2. Draws(q, w, bundles, evidence, q.candidates \o f)
  BY DEF Draws
<1>3. \A i \in DOMAIN drafts : f[i].owner = owner
  OBVIOUS
<1>4. DOMAIN f = DOMAIN drafts /\ DOMAIN g = DOMAIN drafts
  OBVIOUS
<1>5. f = [i \in DOMAIN drafts |-> f[i]] /\ g = [i \in DOMAIN drafts |-> g[i]]
  OBVIOUS
<1>6. \A i \in DOMAIN drafts :
        Says(g[i], "candidate_created", "candidate", first + i, clock, datum(i))
  <2> SUFFICES ASSUME NEW i \in DOMAIN drafts
               PROVE  Says(g[i], "candidate_created", "candidate", first + i, clock, datum(i))
    OBVIOUS
  <2>1. g[i] = NextEvent(captured, i, "candidate_created", "candidate", first + i, owner,
                         clock, datum(i))
    OBVIOUS
  <2> HIDE DEF g, captured, datum, first, owner
  <2> QED BY <2>1, NextSays
<1>7. PICK n \in Nat : DOMAIN drafts = 1..n
  BY DraftsAreLog, LogLength
<1>8. captured = Appended(w, "trajectory_captured", "bundle", bundle, owner, clock, data)
  OBVIOUS
<1>9. owner \in Agent
  BY OwnersAssumption
<1> HIDE DEF owner, bundle, drafts, pointers, id, refs, first, bundles, evidence, f, w, data,
             captured, datum, g
<1> PICK k \in Nat, c \in Nat : k = Len(s.ledger) /\ c = Len(s.candidates) /\ c = Len(q.candidates)
  <2>1. Len(s.ledger) \in Nat /\ Ready(q) /\ q.candidates = s.candidates
    BY DEF Quietly, Wrote, SameRows
  <2> QED BY <2>1, Lengths
<1>10. /\ Quietly(s, w, 0) /\ w.experiences = s.experiences /\ w.imports = s.imports
       /\ Extends(w.candidates, s.candidates, n, f)
  BY <1>2, <1>4, <1>5, <1>7, RowsDrawn
<1>11. /\ Tells(s, captured, 1, "trajectory_captured", "bundle", bundle, clock, data)
       /\ SameRows(w, captured)
  <2>1. 0 \in Nat /\ 0 + 1 = 1 /\ "bundle" # "experience"
    OBVIOUS
  <2> QED BY <1>8, <1>10, <2>1, Ends
<1>12. Wrote(s, captured, 1)
  BY <1>11 DEF Tells
<1>13. \A i \in 1..n : g[i].kind # "experience" /\ g[i].type = "candidate_created"
                       /\ g[i].subject = c + i
  BY <1>6, <1>7 DEF Says, first
<1>14. /\ Ready(r) /\ Began(s, r) /\ SameRows(captured, r)
       /\ Extends(r.ledger, captured.ledger, n, g)
  BY <1>1, <1>4, <1>5, <1>7, <1>12, <1>13, EventsFollow
<1>15. CapturedRows(s, r, n)
  <2>1. /\ r.experiences = s.experiences /\ r.imports = s.imports
        /\ r.candidates = w.candidates
    BY <1>10, <1>11, <1>14 DEF SameRows
  <2>2. \A i \in 1..c + n : w.candidates[i].owner \in Agent
    <3> SUFFICES ASSUME NEW i \in 1..c + n PROVE w.candidates[i].owner \in Agent
      OBVIOUS
    <3>1. CASE i \in 1..c
      BY <1>10, <3>1 DEF Extends, Owned
    <3>2. CASE i \notin 1..c
      <4>1. i - c \in 1..n /\ c + (i - c) = i
        BY <3>2
      <4>2. w.candidates[c + (i - c)] = f[i - c]
        BY <1>10, <4>1 DEF Extends
      <4> QED BY <1>3, <1>7, <1>9, <4>1, <4>2
    <3> QED BY <3>1, <3>2
  <2> QED BY <1>10, <2>1, <2>2 DEF CapturedRows, Extends
<1>16. CreatedEvents(s, r, n)
  <2>1. /\ Len(captured.ledger) = k + 1
        /\ \A j \in 1..k : captured.ledger[j] = s.ledger[j]
        /\ Says(captured.ledger[k + 1], "trajectory_captured", "bundle", bundle, clock, data)
    BY <1>11 DEF Tells, Wrote, Longer
  <2>2. /\ Len(r.ledger) = k + 1 + n /\ \A j \in 1..k + 1 : r.ledger[j] = captured.ledger[j]
        /\ \A i \in 1..n : r.ledger[k + 1 + i] = g[i]
    BY <1>14, <2>1 DEF Extends
  <2>3. k + 1 \in 1..k + 1 /\ \A j \in 1..k : j \in 1..k + 1
    OBVIOUS
  <2>4. \A j \in 1..k : r.ledger[j] = s.ledger[j]
    BY <2>1, <2>2, <2>3
  <2>5. r.ledger[k + 1].type \notin Telling /\ r.ledger[k + 1].kind # "experience"
    BY <2>1, <2>2, <2>3 DEF Says, Telling
  <2> QED BY <1>13, <2>2, <2>4, <2>5 DEF CreatedEvents
<1> QED BY <1>14, <1>15, <1>16

\* The tables after the events of the first i candidates.
EnteredUpTo(t, u, m, i) ==
  /\ IsTables(u) /\ u.passports = t.passports /\ DOMAIN u.candidates = 1..m + i
  /\ \A c \in 1..m : u.candidates[c] = t.candidates[c]
  /\ \A c \in 1..m + i : c \notin 1..m => /\ IsCandidateRow(u.candidates[c])
                                          /\ u.candidates[c].decision = "pending"
                                          /\ u.candidates[c].result = None

LEMMA Shifted == \A k, n \in Nat : k + 1 + n = k + (n + 1) /\ n + 1 \in Nat
OBVIOUS

LEMMA NotMore ==
  \A k, n, x \in Nat : x <= k => x + n <= k + (n + 1) /\ x <= k + (n + 1)
OBVIOUS

LEMMA Between ==
  \A k, n \in Nat :
    \A a \in 0..n : /\ k + (a + 1) \in k + 1..k + (n + 1)
                    /\ (k + (a + 1)) - 1 = k + a /\ k + (a + 1) = k + 1 + a
OBVIOUS

LEMMA OneEnters ==
  ASSUME NEW r, NEW t, NEW u, NEW m \in Nat, NEW i \in Nat, EnteredUpTo(t, u, m, i),
         NEW e, e.type = "candidate_created", e.subject = m + (i + 1),
         NEW v, v = Applied(r, u, e)
  PROVE  Refused(v) \/ EnteredUpTo(t, v, m, i + 1)
<1> SUFFICES ASSUME ~Refused(v) PROVE EnteredUpTo(t, v, m, i + 1)
  OBVIOUS
<1>1. v = [candidates |-> ApplyToCandidates(r, u.candidates, e),
           passports |-> ApplyToPassports(r, u.passports, e)]
  BY DEF Applied, Refused
<1>2. ApplyToPassports(r, u.passports, e) = u.passports
  BY DEF ApplyToPassports
<1> PICK new : new = ApplyToCandidates(r, u.candidates, e)
  OBVIOUS
<1>3. v.candidates = new /\ v.passports = u.passports /\ IsTables(v) /\ new # None
  BY <1>1, <1>2 DEF IsTables, Refused
<1>4. PICK row : /\ Added(u.candidates, new, m + (i + 1), row)
                 /\ IsCandidateRow(row) /\ row.decision = "pending" /\ row.result = None
  BY <1>3, CandidateAdded
<1>5. DOMAIN new = 1..m + (i + 1)
  <2>1. (1..m + i) \cup {m + (i + 1)} = 1..m + (i + 1)
    OBVIOUS
  <2> QED BY <1>4, <2>1 DEF Added, EnteredUpTo
<1>6. \A c \in 1..m : new[c] = t.candidates[c]
  <2>1. \A c \in 1..m : c \in 1..m + i
    OBVIOUS
  <2> QED BY <1>4, <2>1 DEF Added, EnteredUpTo
<1>7. ASSUME NEW c \in 1..m + (i + 1), c \notin 1..m
      PROVE  /\ IsCandidateRow(new[c]) /\ new[c].decision = "pending" /\ new[c].result = None
  <2>1. c \in 1..m + i \/ c = m + (i + 1)
    OBVIOUS
  <2>2. CASE c \in 1..m + i
    BY <1>4, <1>7, <2>2 DEF Added, EnteredUpTo
  <2>3. CASE c = m + (i + 1)
    BY <1>4, <2>3 DEF Added
  <2> QED BY <2>1, <2>2, <2>3
<1>8. v.passports = t.passports
  BY <1>3 DEF EnteredUpTo
<1> QED BY <1>3, <1>5, <1>6, <1>7, <1>8 DEF EnteredUpTo

LEMMA CaptureFolds ==
  ASSUME NEW s, NEW t, Good(s, t), NEW r, NEW n \in Nat, CreatedEvents(s, r, n),
         NEW u, u = Projected(r, t, Len(s.ledger)), ~Refused(u)
  PROVE  EnteredUpTo(t, u, Len(s.candidates), n)
<1> PICK k \in Nat, m \in Nat : k = Len(s.ledger) /\ m = Len(s.candidates)
  BY Lengths DEF Good
<1>0. n + 1 \in Nat /\ Len(r.ledger) = k + (n + 1)
  <2>1. Len(r.ledger) = k + 1 + n
    BY DEF CreatedEvents
  <2> QED BY <2>1, Shifted
<1>1. PICK rows : Folds(rows, r, t, k, n + 1)
  BY <1>0, FoldOf
<1>2. rows[k] = t /\ u = rows[k + (n + 1)]
  BY <1>1 DEF Folds, IsFold
<1>3. ASSUME NEW j \in k + 1..k + (n + 1)
      PROVE  rows[j] = Applied(r, rows[j - 1], r.ledger[j])
  BY <1>0, <1>1 DEF Folds, IsFold
<1> PICK bad : bad = {i \in 0..n : ~(Refused(rows[k + (i + 1)])
                                     \/ EnteredUpTo(t, rows[k + (i + 1)], m, i))}
  OBVIOUS
<1>4. SUFFICES ASSUME bad # {} PROVE FALSE
  <2>1. n \in 0..n
    OBVIOUS
  <2>2. bad = {} => Refused(rows[k + (n + 1)]) \/ EnteredUpTo(t, rows[k + (n + 1)], m, n)
    BY <2>1
  <2> QED BY <1>2, <2>2
<1>5. bad \subseteq Nat
  OBVIOUS
<1>6. PICK a \in bad : \A b \in bad : ~(<<b, a>> \in OpToRel(<, Nat))
  BY <1>4, <1>5, WFMin, NatLessThanWellFounded
<1>7. /\ a \in 0..n /\ \A b \in bad : ~(b < a)
      /\ ~(Refused(rows[k + (a + 1)]) \/ EnteredUpTo(t, rows[k + (a + 1)], m, a))
  BY <1>5, <1>6 DEF OpToRel
<1>8. CASE a = 0
  <2>1. k + 1 \in k + 1..k + (n + 1) /\ (k + 1) - 1 = k /\ k + (a + 1) = k + 1
    <3>1. a \in 0..n /\ k + (a + 1) = k + 1 /\ k + a = k
      BY <1>7, <1>8
    <3>2. /\ k + (a + 1) \in k + 1..k + (n + 1)
          /\ (k + (a + 1)) - 1 = k + a
      BY <3>1, Between
    <3> QED BY <3>1, <3>2
  <2>2. rows[k + 1] = Applied(r, t, r.ledger[k + 1])
    BY <1>2, <1>3, <2>1
  <2>3. IsTables(t) /\ DOMAIN t.candidates = 1..m
    BY DEF Good, Tabled
  <2>4. r.ledger[k + 1].type \notin Telling
    BY DEF CreatedEvents
  <2>5. rows[k + 1] = t
    BY <2>2, <2>3, <2>4, PassedOver
  <2>6. EnteredUpTo(t, t, m, 0)
    <3>1. m + 0 = m
      OBVIOUS
    <3> QED BY <2>3, <3>1 DEF EnteredUpTo
  <2> QED BY <1>7, <1>8, <2>1, <2>5, <2>6
<1>9. CASE a # 0
  <2> PICK i \in Nat : a = i + 1
    <3>1. a - 1 \in Nat /\ a = (a - 1) + 1
      BY <1>7, <1>9
    <3> QED BY <3>1
  <2>1. i \in 0..n /\ i < a /\ a \in 1..n
    BY <1>7, <1>9
  <2> PICK before, after, e : /\ before = rows[k + (i + 1)] /\ after = rows[k + (a + 1)]
                              /\ e = r.ledger[k + 1 + a]
    OBVIOUS
  <2>2. Refused(before) \/ EnteredUpTo(t, before, m, i)
    BY <1>7, <2>1
  <2>3. after = Applied(r, before, e)
    <3>1. /\ k + (a + 1) \in k + 1..k + (n + 1) /\ (k + (a + 1)) - 1 = k + (i + 1)
          /\ k + (a + 1) = k + 1 + a
      BY <2>1, Between
    <3> QED BY <1>3, <3>1
  <2>4. e.type = "candidate_created" /\ e.subject = m + (i + 1)
    BY <2>1 DEF CreatedEvents
  <2>5. CASE Refused(before)
    <3>1. after = before
      BY <2>3, <2>5 DEF Applied, Refused
    <3> QED BY <1>7, <2>5, <3>1
  <2>6. CASE EnteredUpTo(t, before, m, i)
    <3>1. Refused(after) \/ EnteredUpTo(t, after, m, i + 1)
      BY <2>3, <2>4, <2>6, OneEnters
    <3> QED BY <1>7, <3>1
  <2> QED BY <2>2, <2>5, <2>6
<1> QED BY <1>8, <1>9

LEMMA StepOfCapture ==
  ASSUME NEW s, NEW t, Good(s, t), NEW r, Ready(r), NEW n \in Nat,
         CapturedRows(s, r, n), CreatedEvents(s, r, n), Len(r.ledger) <= MaxEvents,
         NEW u, EnteredUpTo(t, u, Len(s.candidates), n)
  PROVE  Step(s, t, r, u)
<1> PICK k \in Nat, m \in Nat, p \in Nat :
      k = Len(s.ledger) /\ m = Len(s.candidates) /\ p = Len(s.imports)
  BY Lengths DEF Good
<1>1. Len(r.ledger) = k + (n + 1) /\ Longer(s, r, n + 1) /\ n + 1 \in Nat
  <2>1. Len(r.ledger) = k + 1 + n
    BY DEF CreatedEvents
  <2>2. Len(r.ledger) = k + (n + 1) /\ n + 1 \in Nat
    BY <2>1, Shifted
  <2> QED BY <2>2 DEF CreatedEvents, Longer
<1>2. KeepsMakers(s, r)
  <2>1. SameMakers(s, r)
    BY DEF CapturedRows, SameMakers
  <2> QED BY <1>1, <2>1, SameKept
<1>3. Makers(r) /\ Owned(r)
  BY <1>2 DEF KeepsMakers, Owned, CapturedRows, Good
<1>4. Sized(r)
  <2>1. Len(r.candidates) = m + n /\ Len(r.imports) = p
    BY DEF CapturedRows
  <2>2. m + n <= k + (n + 1) /\ p <= k + (n + 1)
    <3>1. m <= k /\ p <= k
      BY DEF Good, Sized
    <3> QED BY <3>1, NotMore
  <2> QED BY <1>1, <1>2, <2>1, <2>2 DEF Sized, KeepsMakers
<1>5. Tabled(r, u)
  <2>1. /\ IsTables(u) /\ DOMAIN u.candidates = 1..Len(r.candidates)
        /\ DOMAIN u.passports = 1..Len(r.imports)
        /\ \A q \in 1..Len(r.imports) : IsPassportRow(u.passports[q])
    BY DEF EnteredUpTo, CapturedRows, Good, Tabled
  <2>2. ASSUME NEW c \in 1..m + n
        PROVE  IsCandidateRow(u.candidates[c])
    <3>1. CASE c \in 1..m
      BY <3>1 DEF EnteredUpTo, Good, Tabled
    <3>2. CASE c \notin 1..m
      BY <3>2 DEF EnteredUpTo
    <3> QED BY <3>1, <3>2
  <2> QED BY <2>1, <2>2 DEF Tabled, CapturedRows
<1>6. Entered(s, t, r, u)
  <2>1. DOMAIN t.candidates = 1..m /\ DOMAIN u.candidates = 1..m + n
        /\ u.passports = t.passports
    BY DEF Good, Tabled, EnteredUpTo
  <2> SUFFICES ASSUME NEW i \in Items
               PROVE  /\ ResultIn(u, i) = ResultIn(t, i)
                      /\ \/ StateIn(u, i) = StateIn(t, i)
                         \/ StateIn(t, i) = "absent" /\ StateIn(u, i) = "pending"
    BY <1>2 DEF Entered, KeepsMakers
  <2>2. CASE i[1] # "candidate"
    BY <2>1, <2>2 DEF StateIn, ResultIn
  <2>3. CASE i[1] = "candidate" /\ i[2] \in 1..m
    <3>1. i[2] \in 1..m + n
      BY <2>3
    <3> QED BY <2>1, <2>3, <3>1 DEF StateIn, ResultIn, EnteredUpTo
  <2>4. CASE i[1] = "candidate" /\ i[2] \notin 1..m /\ i[2] \in 1..m + n
    <3>1. u.candidates[i[2]].decision = "pending" /\ u.candidates[i[2]].result = None
      BY <2>4 DEF EnteredUpTo
    <3> QED BY <2>1, <2>4, <3>1 DEF StateIn, ResultIn
  <2>5. CASE i[1] = "candidate" /\ i[2] \notin 1..m + n
    <3>1. i[2] \notin 1..m
      <4>1. \A c \in 1..m : c \in 1..m + n
        OBVIOUS
      <4> QED BY <2>5, <4>1
    <3> QED BY <2>1, <2>5, <3>1 DEF StateIn, ResultIn
  <2> QED BY <2>2, <2>3, <2>4, <2>5
<1> QED BY <1>3, <1>4, <1>5, <1>6 DEF Step, Good, StepOfQuarantine

LEMMA CapturesTrajectory ==
  ASSUME NEW s, NEW t, Good(s, t), NEW m \in Trajectory, NEW clock, NEW scope, NEW owner,
         NEW request, NEW q, q = Reserved(s, scope, owner, request, clock), NEW resource,
         NEW r, r = Attached(Captured(q, m, clock), resource)
  PROVE  Commits(s, t, r)
<1> PICK w : w = Captured(q, m, clock)
  OBVIOUS
<1>1. Quietly(s, q, 0) /\ SameRows(s, q)
  BY Starting
<1>2. PICK n \in Nat : /\ Ready(w) /\ Began(s, w)
                       /\ CapturedRows(s, w, n) /\ CreatedEvents(s, w, n)
  BY <1>1, CaptureWritten DEF Good
<1>3. Sourced(r) /\ Began(s, r) /\ SameRows(w, r) /\ r.ledger = w.ledger
  <2>1. r = Attached(w, resource) /\ Sourced(w)
    BY <1>2 DEF Ready
  <2> QED BY <1>2, <2>1, Attaches
<1>4. Ready(r) /\ CapturedRows(s, r, n) /\ CreatedEvents(s, r, n)
  BY <1>2, <1>3 DEF Ready, CapturedRows, CreatedEvents, SameRows, Snapshots, Recorded
<1> PICK u : u = Projected(r, t, Len(s.ledger))
  OBVIOUS
<1>5. ASSUME Len(r.ledger) <= MaxEvents, ~Refused(u)
      PROVE  Step(s, t, r, u)
  <2>1. EnteredUpTo(t, u, Len(s.candidates), n)
    BY <1>4, <1>5, CaptureFolds
  <2> QED BY <1>4, <1>5, <2>1, StepOfCapture
<1> QED BY <1>3, <1>5 DEF Commits
-----------------------------------------------------------------------------
(* The actions.                                                            *)

Components == {"reducers", "answer", "lineage", "view", "export"}
Timed(s) == \A n \in 1..Len(s.receipts) : s.receipts[n].completed \in Time
IInv == Good(source, tables) /\ Timed(source) /\ refused \subseteq Components

LEMMA InitInv == Init => IInv
<1> SUFFICES ASSUME Init PROVE IInv
  OBVIOUS
<1>1. IsLog(<< >>)
  <2>1. << >> \in Seq({})
    OBVIOUS
  <2> QED BY <2>1, LogOf
<1> PICK none : none = << >>
  OBVIOUS
<1>2. IsLog(none) /\ Len(none) = 0 /\ DOMAIN none = 1..0 /\ 1..0 = {}
  <2>1. DOMAIN << >> = {} /\ Len(<< >>) = 0 /\ 1..0 = {}
    OBVIOUS
  <2> QED BY <1>1, <2>1
<1>3. source = [ledger |-> none, receipts |-> none, experiences |-> none,
                bundles |-> none, evidence |-> none, candidates |-> none,
                adoptions |-> none, documents |-> Foreign, imports |-> none,
                transfers |-> none]
  BY DEF Init, NoSources, NoRows
<1>4. tables = [candidates |-> none, passports |-> none] /\ refused = {}
  BY DEF Init, NoRows
<1> HIDE DEF Init
<1>5. Ready(source)
  BY <1>2, <1>3 DEF Ready, Sourced, IsSource, Snapshots, Recorded
<1>6. Makers(source) /\ Owned(source) /\ Timed(source)
  BY <1>2, <1>3 DEF Makers, Owned, Timed
<1>7. Tabled(source, tables)
  BY <1>2, <1>3, <1>4 DEF Tabled, IsTables
<1>8. Sized(source)
  <2>1. 0 <= 0 /\ 0 <= MaxEvents
    BY BoundsAssumption
  <2> QED BY <1>2, <1>3, <2>1 DEF Sized
<1> QED BY <1>4, <1>5, <1>6, <1>7, <1>8 DEF IInv, Good

LEMMA Closes ==
  ASSUME IInv, NEW r, NEW u, r = source', u = tables', Step(source, tables, r, u),
         Timed(r), refused' \subseteq Components
  PROVE  IInv' /\ [Quarantined!Next]_(Quarantined!vars)
<1>1. Good(r, u) /\ StepOfQuarantine(source, tables, r, u)
  BY DEF Step
<1>2. IInv'
  BY <1>1 DEF IInv
<1>3. [Quarantined!Next]_(Quarantined!vars)
  BY <1>1, StepRefines
<1> QED BY <1>2, <1>3

LEMMA Stutters ==
  ASSUME NEW s, NEW t, Good(s, t)
  PROVE  Step(s, t, s, t)
<1>1. Entered(s, t, s, t)
  BY DEF Entered
<1> QED BY <1>1 DEF Step, StepOfQuarantine

LEMMA Dying ==
  ASSUME IInv, NEW component \in Components, Dies(component)
  PROVE  IInv' /\ [Quarantined!Next]_(Quarantined!vars)
<1> PICK r, u : r = source' /\ u = tables'
  OBVIOUS
<1>1. r = source /\ u = tables /\ refused' \subseteq Components
  BY DEF Dies, IInv
<1>2. Step(source, tables, r, u) /\ Timed(r)
  BY <1>1, Stutters DEF IInv
<1> QED BY <1>1, <1>2, Closes

\* The receipt of the command is completed, and all others were.
LEMMA Completing ==
  ASSUME NEW s, NEW t, Good(s, t), Timed(s), NEW r, Began(s, r), NEW u, Step(s, t, r, u),
         NEW status, NEW answer, NEW now \in Time,
         NEW done, done = Answered(r, status, answer, now)
  PROVE  Step(s, t, done, u) /\ Timed(done)
<1>1. Ready(r) /\ Makers(r) /\ Owned(r) /\ Tabled(r, u) /\ Sized(r)
  BY DEF Step, Good
<1>2. /\ Sourced(done) /\ Began(s, done) /\ SameRows(r, done) /\ done.ledger = r.ledger
      /\ done.receipts[Len(s.receipts) + 1].completed = now
  BY <1>1, Answers DEF Ready
<1>3. Ready(done)
  BY <1>1, <1>2 DEF Ready, Snapshots, Recorded, SameRows
<1>4. Good(done, u)
  BY <1>1, <1>2, <1>3 DEF Good, SameRows, Makers, Owned, Tabled, Sized
<1>5. MadeIn(done) = MadeIn(r)
  BY <1>2 DEF MadeIn, SameRows
<1>6. StepOfQuarantine(s, t, done, u)
  BY <1>5 DEF Step, StepOfQuarantine, Entered, Rejected, Adopted, Decided
<1>7. Timed(done)
  <2> PICK n \in Nat : n = Len(s.receipts)
    BY Lengths DEF Good
  <2>1. Len(done.receipts) = n + 1 /\ \A i \in 1..n : done.receipts[i] = s.receipts[i]
    BY <1>2 DEF Began
  <2> SUFFICES ASSUME NEW i \in 1..n + 1 PROVE done.receipts[i].completed \in Time
    BY <2>1 DEF Timed
  <2>2. CASE i \in 1..n
    BY <2>1, <2>2 DEF Timed
  <2>3. CASE i = n + 1
    BY <1>2, <2>3
  <2> QED BY <2>2, <2>3
<1> QED BY <1>4, <1>6, <1>7 DEF Step

LEMMA Committing ==
  ASSUME IInv, NEW r, Commits(source, tables, r), NEW status, NEW about, NEW now \in Time,
         Commit(r, status, about, now)
  PROVE  IInv' /\ [Quarantined!Next]_(Quarantined!vars)
<1> PICK v : v = Projected(r, tables, Len(source.ledger))
  OBVIOUS
<1>1. CASE Dies("reducers") \/ Dies("answer")
  BY <1>1, Dying DEF Components
<1>2. ASSUME Len(r.ledger) <= MaxEvents, ~Refused(v), NEW done, NEW answer,
             done = Answered(r, status, answer, now), source' = done, tables' = v,
             refused' = refused
      PROVE  IInv' /\ [Quarantined!Next]_(Quarantined!vars)
  <2>1. Began(source, r) /\ Step(source, tables, r, v)
    BY <1>2 DEF Commits
  <2>2. Step(source, tables, done, v) /\ Timed(done)
    BY <1>2, <2>1, Completing DEF IInv
  <2>3. refused' \subseteq Components
    BY <1>2 DEF IInv
  <2> QED BY <1>2, <2>2, <2>3, Closes
<1>3. \/ Dies("reducers") \/ Dies("answer")
      \/ \E done, answer : /\ Len(r.ledger) <= MaxEvents /\ ~Refused(v)
                           /\ done = Answered(r, status, answer, now)
                           /\ source' = done /\ tables' = v /\ refused' = refused
  BY DEF Commit, Refused
<1> QED BY <1>1, <1>2, <1>3

LEMMA Refusing ==
  ASSUME IInv, NEW scope, NEW owner, NEW request, NEW clock,
         NEW r, r = Reserved(source, scope, owner, request, clock),
         NEW status, NEW code, NEW now \in Time, Refuse(r, status, code, now)
  PROVE  IInv' /\ [Quarantined!Next]_(Quarantined!vars)
<1> PICK s, t : s = source /\ t = tables
  OBVIOUS
<1>1. Good(s, t) /\ Timed(s)
  BY DEF IInv
<1>2. Quietly(s, r, 0) /\ SameRows(s, r)
  BY <1>1, Starting
<1>3. Ready(r) /\ Longer(s, r, 0) /\ Began(s, r) /\ 0 \in Nat
  BY <1>2 DEF Quietly, Wrote
<1>4. SameItems(s, r) /\ SameMakers(s, r)
  BY <1>2 DEF SameRows, SameItems, SameMakers
<1>5. KeepsMakers(s, r)
  BY <1>1, <1>3, <1>4, SameKept
<1>6. Len(r.ledger) <= MaxEvents
  <2>1. Len(r.ledger) = Len(s.ledger)
    BY <1>2, <1>3, Lengths DEF Longer, Ready, Quietly, Wrote
  <2> QED BY <1>1, <2>1 DEF Good, Sized
<1>7. Step(s, t, r, t)
  BY <1>1, <1>3, <1>4, <1>5, <1>6, StepQuiet
<1> PICK done : done = Answered(r, status, code, now)
  OBVIOUS
<1>8. Step(s, t, done, t) /\ Timed(done)
  BY <1>1, <1>3, <1>7, Completing
<1>9. source' = done /\ tables' = t /\ refused' \subseteq Components
  BY DEF Refuse, IInv
<1> QED BY <1>8, <1>9, Closes

LEMMA NowIsTime ==
  ASSUME NEW clock \in Time, NEW now \in Later(clock) PROVE now \in Time
BY DEF Later

LEMMA Captures ==
  ASSUME IInv, NEW m \in Trajectory, NEW clock \in Time, NEW now \in Time,
         Capture(m, clock, now)
  PROVE  IInv' /\ [Quarantined!Next]_(Quarantined!vars)
<1> PICK r : r = Reserved(source, "capture", OwnerOf[m], m, clock)
  OBVIOUS
<1> PICK w : w = Attached(Captured(r, m, clock), Resource("bundle", Len(source.bundles) + 1))
  OBVIOUS
<1>1. \/ Refuse(r, 409, "trajectory_already_captured", now)
      \/ Commit(w, 201, Resource("capture", Len(source.bundles) + 1), now)
  BY DEF Capture
<1>2. Commits(source, tables, w)
  BY CapturesTrajectory DEF IInv
<1>3. CASE Refuse(r, 409, "trajectory_already_captured", now)
  BY <1>3, Refusing
<1>4. CASE Commit(w, 201, Resource("capture", Len(source.bundles) + 1), now)
  BY <1>2, <1>4, Committing
<1> QED BY <1>1, <1>3, <1>4

LEMMA DecidingCandidate ==
  ASSUME IInv, NEW c \in DOMAIN source.candidates, ~Undecided(c) = FALSE
  PROVE  c \in 1..Len(source.candidates) /\ tables.candidates[c].decision = "pending"
BY Lengths DEF IInv, Good, Undecided

LEMMA AdoptingCandidate ==
  ASSUME IInv, NEW c \in DOMAIN source.candidates, NEW clock \in Time, NEW now \in Time,
         AdoptCandidate(c, clock, now)
  PROVE  IInv' /\ [Quarantined!Next]_(Quarantined!vars)
<1> PICK r : r = Reserved(source, "candidate.adopt", source.candidates[c].owner, c, clock)
  OBVIOUS
<1> PICK w : w = CandidateAdopted(r, c, clock)
  OBVIOUS
<1>1. \/ Refuse(r, 409, "candidate_already_decided", now)
      \/ Dies("lineage")
      \/ Undecided(c) /\ Commit(w, 200, Resource("decision", c), now)
  BY DEF AdoptCandidate
<1>2. CASE Refuse(r, 409, "candidate_already_decided", now)
  BY <1>2, Refusing
<1>3. CASE Dies("lineage")
  BY <1>3, Dying DEF Components
<1>4. CASE Undecided(c) /\ Commit(w, 200, Resource("decision", c), now)
  <2>1. c \in 1..Len(source.candidates) /\ tables.candidates[c].decision = "pending"
    BY <1>4, DecidingCandidate
  <2>2. Commits(source, tables, w)
    BY <2>1, AdoptsCandidate DEF IInv
  <2> QED BY <1>4, <2>2, Committing
<1> QED BY <1>1, <1>2, <1>3, <1>4

LEMMA RejectingCandidate ==
  ASSUME IInv, NEW c \in DOMAIN source.candidates, NEW clock \in Time, NEW now \in Time,
         RejectCandidate(c, clock, now)
  PROVE  IInv' /\ [Quarantined!Next]_(Quarantined!vars)
<1> PICK owner : owner = source.candidates[c].owner
  OBVIOUS
<1> PICK r : r = Reserved(source, "candidate.reject", owner, c, clock)
  OBVIOUS
<1> PICK w : w = Appended(Attached(r, Resource("candidate", c)), "candidate_rejected",
                          "candidate", c, owner, clock,
                          [candidate |-> c, owner |-> owner, reason |-> "owner"])
  OBVIOUS
<1>1. \/ Refuse(r, 409, "candidate_already_decided", now)
      \/ Dies("lineage")
      \/ Undecided(c) /\ Commit(w, 200, Resource("decision", c), now)
  BY DEF RejectCandidate
<1>2. CASE Refuse(r, 409, "candidate_already_decided", now)
  BY <1>2, Refusing
<1>3. CASE Dies("lineage")
  BY <1>3, Dying DEF Components
<1>4. CASE Undecided(c) /\ Commit(w, 200, Resource("decision", c), now)
  <2>1. c \in 1..Len(source.candidates) /\ tables.candidates[c].decision = "pending"
    BY <1>4, DecidingCandidate
  <2>2. Commits(source, tables, w)
    BY <2>1, RejectsCandidate DEF IInv
  <2> QED BY <1>4, <2>2, Committing
<1> QED BY <1>1, <1>2, <1>3, <1>4

LEMMA Importing ==
  ASSUME IInv, NEW owner \in Agent, NEW d \in DOMAIN source.documents, NEW clock \in Time,
         NEW now \in Time, ImportPassport(owner, d, clock, now)
  PROVE  IInv' /\ [Quarantined!Next]_(Quarantined!vars)
<1> PICK r : r = Reserved(source, "passport.import", owner,
                          [owner |-> owner, document |-> d], clock)
  OBVIOUS
<1> PICK new : new = Len(source.imports) + 1
  OBVIOUS
<1> PICK data : data = [import |-> new, owner |-> owner, document |-> d]
  OBVIOUS
<1> PICK w : w = Appended(Attached([r EXCEPT !.imports = Append(@,
                                       [owner |-> owner, document |-> d, at |-> clock])],
                                   Resource("passport", new)),
                          "passport_imported", "passport", new, owner, clock, data)
  OBVIOUS
<1>1. \/ Commit(w, 201, Resource("import", new), now)
      \/ \E p \in DOMAIN source.imports :
           Commit(Attached(r, Resource("passport", p)), 200, Resource("repetition", p), now)
  BY DEF ImportPassport
<1>2. CASE Commit(w, 201, Resource("import", new), now)
  <2>1. Commits(source, tables, w)
    BY ImportsDocument DEF IInv
  <2> QED BY <1>2, <2>1, Committing
<1>3. ASSUME NEW p \in DOMAIN source.imports,
             Commit(Attached(r, Resource("passport", p)), 200, Resource("repetition", p), now)
      PROVE  IInv' /\ [Quarantined!Next]_(Quarantined!vars)
  <2>1. Commits(source, tables, Attached(r, Resource("passport", p)))
    BY Repeats DEF IInv
  <2> QED BY <1>3, <2>1, Committing
<1> QED BY <1>1, <1>2, <1>3

LEMMA AdoptingPassport ==
  ASSUME IInv, NEW p \in DOMAIN source.imports, NEW clock \in Time, NEW now \in Time,
         AdoptPassport(p, clock, now)
  PROVE  IInv' /\ [Quarantined!Next]_(Quarantined!vars)
<1> PICK owner : owner = source.imports[p].owner
  OBVIOUS
<1> PICK E : E = Equivalents(source, owner, source.documents[source.imports[p].document].content)
  OBVIOUS
<1> PICK r : r = Reserved(source, "passport.adopt", owner, DecisionRequest(source, p), clock)
  OBVIOUS
<1> PICK w : w = PassportAdopted(r, p, E, clock)
  OBVIOUS
<1>1. \/ Dies("view")
      \/ Refuse(r, 409, "passport_decision_conflict", now)
      \/ Refuse(r, 409, "passport_restore_required", now)
      \/ /\ tables.passports[p].state = "pending"
         /\ Commit(w, 200, Resource("transfer", Len(source.transfers) + 1), now)
  BY DEF AdoptPassport, ActOn
<1>2. CASE Dies("view")
  BY <1>2, Dying DEF Components
<1>3. CASE Refuse(r, 409, "passport_decision_conflict", now)
  BY <1>3, Refusing
<1>4. CASE Refuse(r, 409, "passport_restore_required", now)
  BY <1>4, Refusing
<1>5. CASE /\ tables.passports[p].state = "pending"
           /\ Commit(w, 200, Resource("transfer", Len(source.transfers) + 1), now)
  <2>1. p \in 1..Len(source.imports)
    BY Lengths DEF IInv, Good
  <2>2. E \subseteq DOMAIN source.experiences
    BY DEF Equivalents
  <2>3. Commits(source, tables, w)
    BY <1>5, <2>1, <2>2, AdoptsPassport DEF IInv
  <2> QED BY <1>5, <2>3, Committing
<1> QED BY <1>1, <1>2, <1>3, <1>4, <1>5

LEMMA RejectingPassport ==
  ASSUME IInv, NEW p \in DOMAIN source.imports, NEW clock \in Time, NEW now \in Time,
         RejectPassport(p, clock, now)
  PROVE  IInv' /\ [Quarantined!Next]_(Quarantined!vars)
<1> PICK owner : owner = source.imports[p].owner
  OBVIOUS
<1> PICK r : r = Reserved(source, "passport.reject", owner, DecisionRequest(source, p), clock)
  OBVIOUS
<1> PICK w : w = Appended(Attached(r, Resource("passport", p)), "passport_rejected",
                          "passport", p, owner, clock,
                          [import |-> p, owner |-> owner, reason |-> "owner"])
  OBVIOUS
<1>1. \/ Dies("view")
      \/ Refuse(r, 409, "passport_decision_conflict", now)
      \/ /\ tables.passports[p].state = "pending"
         /\ Commit(w, 200, Resource("rejection", p), now)
  BY DEF RejectPassport, ActOn
<1>2. CASE Dies("view")
  BY <1>2, Dying DEF Components
<1>3. CASE Refuse(r, 409, "passport_decision_conflict", now)
  BY <1>3, Refusing
<1>4. CASE tables.passports[p].state = "pending" /\ Commit(w, 200, Resource("rejection", p), now)
  <2>1. p \in 1..Len(source.imports)
    BY Lengths DEF IInv, Good
  <2>2. Commits(source, tables, w)
    BY <1>4, <2>1, RejectsPassport DEF IInv
  <2> QED BY <1>4, <2>2, Committing
<1> QED BY <1>1, <1>2, <1>3, <1>4

LEMMA Exporting ==
  ASSUME IInv, NEW x, NEW v, NEW parent, ExportPassport(x, v, parent)
  PROVE  IInv' /\ [Quarantined!Next]_(Quarantined!vars)
<1> PICK d : d = Exported(source, x, v, parent)
  OBVIOUS
<1> PICK r : r = [source EXCEPT !.documents = Append(@, d)]
  OBVIOUS
<1> PICK s, t : s = source /\ t = tables
  OBVIOUS
<1>1. Good(s, t) /\ Timed(s)
  BY DEF IInv
<1>2. Dies("export") \/ (source' = r /\ tables' = t /\ refused' = refused)
  BY DEF ExportPassport
<1>3. CASE Dies("export")
  BY <1>3, Dying DEF Components
<1>4. CASE source' = r /\ tables' = t /\ refused' = refused
  <2>1. /\ IsSource(r) /\ r.ledger = s.ledger /\ SameRows(s, r) /\ r.receipts = s.receipts
    BY <1>1 DEF Good, Ready, Sourced, IsSource, SameRows
  <2>2. Ready(r) /\ Timed(r)
    BY <1>1, <2>1 DEF Good, Ready, Sourced, Snapshots, Recorded, SameRows, Timed
  <2>3. Longer(s, r, 0) /\ SameItems(s, r) /\ SameMakers(s, r) /\ 0 \in Nat
    <3>1. Len(s.ledger) \in Nat
      BY <1>1, Lengths DEF Good
    <3> QED BY <2>1, <3>1 DEF Longer, SameItems, SameMakers, SameRows
  <2>4. KeepsMakers(s, r) /\ Len(r.ledger) <= MaxEvents
    BY <1>1, <2>1, <2>2, <2>3, SameKept DEF Good, Sized
  <2>5. Step(s, t, r, t)
    BY <1>1, <2>2, <2>3, <2>4, StepQuiet
  <2>6. refused' \subseteq Components
    BY <1>4 DEF IInv
  <2> QED BY <1>4, <2>2, <2>5, <2>6, Closes
<1> QED BY <1>2, <1>3, <1>4

LEMMA Writing ==
  ASSUME IInv, NEW owner \in Agent, NEW content, NEW clock \in Time,
         WriteExperience(owner, content, clock)
  PROVE  IInv' /\ [Quarantined!Next]_(Quarantined!vars)
<1> PICK r : r = Created(Reserved(source, "experience.create", owner, content, clock),
                         owner, "authored", content, clock)
  OBVIOUS
<1>1. Commit(r, 201, Resource("experience", Len(source.experiences) + 1), clock)
  BY DEF WriteExperience
<1>2. Commits(source, tables, r)
  BY WritesExperience DEF IInv
<1> QED BY <1>1, <1>2, Committing

LEMMA Changing ==
  ASSUME IInv, NEW x \in DOMAIN source.experiences, NEW content, NEW temperature,
         NEW clock \in Time, ChangeExperience(x, content, temperature, clock)
  PROVE  IInv' /\ [Quarantined!Next]_(Quarantined!vars)
<1> PICK owner : owner = Current(source, x).owner
  OBVIOUS
<1> PICK r : r = Changed(Reserved(source, "experience.change", owner, x, clock),
                         x, content, temperature, clock)
  OBVIOUS
<1>1. Commit(r, 200, Resource("experience", x), clock)
  BY DEF ChangeExperience
<1>2. x \in 1..Len(source.experiences)
  BY Lengths DEF IInv, Good
<1>3. Commits(source, tables, r)
  BY <1>2, ChangesExperience DEF IInv
<1> QED BY <1>1, <1>3, Committing

\* Every step keeps the invariant and is a step of Quarantine.
LEMMA EveryStep ==
  IInv /\ [Next]_vars => IInv' /\ [Quarantined!Next]_(Quarantined!vars)
<1> SUFFICES ASSUME IInv, [Next]_vars
             PROVE  IInv' /\ [Quarantined!Next]_(Quarantined!vars)
  OBVIOUS
<1>1. ASSUME NEW m \in Trajectory, NEW clock \in Time, NEW now \in Later(clock),
             Capture(m, clock, now)
      PROVE  IInv' /\ [Quarantined!Next]_(Quarantined!vars)
  BY <1>1, NowIsTime, Captures
<1>2. ASSUME NEW c \in DOMAIN source.candidates, NEW clock \in Time, NEW now \in Later(clock),
             AdoptCandidate(c, clock, now)
      PROVE  IInv' /\ [Quarantined!Next]_(Quarantined!vars)
  BY <1>2, NowIsTime, AdoptingCandidate
<1>3. ASSUME NEW c \in DOMAIN source.candidates, NEW clock \in Time, NEW now \in Later(clock),
             RejectCandidate(c, clock, now)
      PROVE  IInv' /\ [Quarantined!Next]_(Quarantined!vars)
  BY <1>3, NowIsTime, RejectingCandidate
<1>4. ASSUME NEW a \in Agent, NEW d \in DOMAIN source.documents, NEW clock \in Time,
             NEW now \in Later(clock), ImportPassport(a, d, clock, now)
      PROVE  IInv' /\ [Quarantined!Next]_(Quarantined!vars)
  BY <1>4, NowIsTime, Importing
<1>5. ASSUME NEW p \in DOMAIN source.imports, NEW clock \in Time, NEW now \in Later(clock),
             AdoptPassport(p, clock, now)
      PROVE  IInv' /\ [Quarantined!Next]_(Quarantined!vars)
  BY <1>5, NowIsTime, AdoptingPassport
<1>6. ASSUME NEW p \in DOMAIN source.imports, NEW clock \in Time, NEW now \in Later(clock),
             RejectPassport(p, clock, now)
      PROVE  IInv' /\ [Quarantined!Next]_(Quarantined!vars)
  BY <1>6, NowIsTime, RejectingPassport
<1>7. ASSUME NEW x, NEW v, NEW parent, ExportPassport(x, v, parent)
      PROVE  IInv' /\ [Quarantined!Next]_(Quarantined!vars)
  BY <1>7, Exporting
<1>8. ASSUME NEW a \in Agent, NEW c \in Content, NEW clock \in Time,
             WriteExperience(a, c, clock)
      PROVE  IInv' /\ [Quarantined!Next]_(Quarantined!vars)
  BY <1>8, Writing
<1>9. ASSUME NEW x \in DOMAIN source.experiences, NEW c, NEW t, NEW clock \in Time,
             ChangeExperience(x, c, t, clock)
      PROVE  IInv' /\ [Quarantined!Next]_(Quarantined!vars)
  BY <1>9, Changing
<1>10. CASE UNCHANGED vars
  <2> PICK r, u : r = source' /\ u = tables'
    OBVIOUS
  <2>1. r = source /\ u = tables /\ refused' = refused
    BY <1>10 DEF vars
  <2>2. Step(source, tables, r, u) /\ Timed(r) /\ refused' \subseteq Components
    BY <2>1, Stutters DEF IInv
  <2> QED BY <2>2, Closes
<1> QED BY <1>1, <1>2, <1>3, <1>4, <1>5, <1>6, <1>7, <1>8, <1>9, <1>10 DEF Next
-----------------------------------------------------------------------------
(* Theorems.                                                               *)

LEMMA InvIsTyped == IInv => TypeOK
<1> SUFFICES ASSUME IInv PROVE TypeOK
  OBVIOUS
<1> PICK s, t : s = source /\ t = tables
  OBVIOUS
<1>1. Good(s, t) /\ Timed(s) /\ refused \subseteq Components
  BY DEF IInv
<1>2. DOMAIN t.candidates = DOMAIN s.candidates /\ DOMAIN t.passports = DOMAIN s.imports
  BY <1>1, Lengths DEF Good, Tabled
<1>3. \A c \in DOMAIN t.candidates : /\ t.candidates[c].decision \in Decisions
                                     /\ DecisionShaped(t.candidates[c])
  BY <1>1 DEF Good, Tabled, IsCandidateRow
<1>4. \A p \in DOMAIN t.passports : t.passports[p].state \in Decisions
  BY <1>1 DEF Good, Tabled, IsPassportRow
<1>5. \A x \in ToSet(s.experiences) : x.owner \in Agent /\ x.origin \in Origins
  BY <1>1, Lengths DEF Good, Makers, IsMaker, ToSet
<1>6. \A r \in ToSet(s.receipts) : r.completed \in Time
  BY <1>1, Lengths DEF Good, Timed, ToSet
<1> QED BY <1>1, <1>2, <1>3, <1>4, <1>5, <1>6 DEF TypeOK, Components

\* Every candidate and every import has its row, of the right shape, whatever
\* was captured, imported, decided and written before it; all receipts are
\* completed, and experiences have an owner and an origin.
THEOREM Typing == Spec => []TypeOK
<1>1. IInv /\ [Next]_vars => IInv'
  BY EveryStep
<1> QED BY InitInv, InvIsTyped, <1>1, PTL DEF Spec

\* Candidates and passports are quarantined (ImplementsQuarantine), for all
\* agents, trajectories and documents: items arrive pending, the owner decides
\* each of them once, and an experience of adopted origin appears only in the
\* step that adopts an item into it.
THEOREM Refinement == Spec => ImplementsQuarantine
<1>1. Init => Quarantined!Init
  <2> SUFFICES ASSUME Init PROVE Quarantined!Init
    OBVIOUS
  <2> PICK s, t : s = source /\ t = tables
    OBVIOUS
  <2>1. DOMAIN t.candidates = {} /\ DOMAIN t.passports = {} /\ DOMAIN s.experiences = {}
    <3>1. DOMAIN << >> = {}
      OBVIOUS
    <3> QED BY <3>1 DEF Init, NoSources, NoRows
  <2>2. \A i \in Items : StateOf(i) = "absent" /\ ResultOf(i) = None
    BY <2>1, StateIs, ResultIs DEF StateIn, ResultIn
  <2>3. {x \in DOMAIN source.experiences : source.experiences[x].origin # "authored"} = {}
    BY <2>1
  <2> QED BY <2>2, <2>3 DEF Quarantined!Init
<1>2. IInv /\ [Next]_vars => IInv' /\ [Quarantined!Next]_(Quarantined!vars)
  BY EveryStep
<1> QED BY <1>1, <1>2, InitInv, PTL DEF Spec, ImplementsQuarantine, Quarantined!Spec
=============================================================================
