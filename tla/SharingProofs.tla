---------------------------- MODULE SharingProofs ----------------------------
(***************************************************************************)
(* Proofs about Sharing, for every set of agents, topics and contents,     *)
(* every limit on hops, every clock and every bound on the exploration:    *)
(* the types, with verdict counts that are exactly the effective verdicts, *)
(* the provenance of capsules, hop by hop, and the audit of the stored     *)
(* graph.                                                                  *)
(***************************************************************************)
EXTENDS SharingAudit, FiniteSetTheorems, SequenceTheorems, WellFoundedInduction, TLAPS

(***************************************************************************)
(* Logs: sequences whatever their elements.                                *)
(***************************************************************************)
IsLog(s) == s \in Seq({s[n] : n \in DOMAIN s})

LEMMA LogOf ==
  ASSUME NEW S, NEW s \in Seq(S)
  PROVE  IsLog(s) /\ Len(s) \in Nat /\ DOMAIN s = 1..Len(s)
<1>1. Len(s) \in Nat /\ s \in [1..Len(s) -> S] /\ DOMAIN s = 1..Len(s)
  BY LenProperties
<1> PICK n \in Nat : n = Len(s)
  BY <1>1
<1>2. s \in [1..n -> {s[i] : i \in DOMAIN s}]
  BY <1>1
<1>3. [1..n -> {s[i] : i \in DOMAIN s}] \subseteq Seq({s[i] : i \in DOMAIN s})
  BY SeqDef
<1> QED BY <1>1, <1>2, <1>3 DEF IsLog

LEMMA ElementsOf ==
  ASSUME NEW S, NEW s \in Seq(S), NEW n \in DOMAIN s
  PROVE  n \in 1..Len(s) /\ s[n] \in S
OBVIOUS

LEMMA AppendOf ==
  ASSUME NEW S, NEW s \in Seq(S), NEW x \in S
  PROVE  Append(s, x) \in Seq(S)
OBVIOUS

LEMMA LogLength ==
  ASSUME NEW s, IsLog(s)
  PROVE  Len(s) \in Nat /\ DOMAIN s = 1..Len(s)
BY LogOf DEF IsLog

LEMMA LogConcat ==
  ASSUME NEW s, IsLog(s), NEW t, IsLog(t)
  PROVE  /\ IsLog(s \o t) /\ Len(s \o t) = Len(s) + Len(t)
         /\ \A n \in 1..Len(s) : (s \o t)[n] = s[n]
         /\ \A i \in 1..Len(t) : (s \o t)[Len(s) + i] = t[i]
<1> PICK S : S = {s[n] : n \in DOMAIN s} \cup {t[n] : n \in DOMAIN t}
  OBVIOUS
<1>1. s \in Seq(S) /\ t \in Seq(S)
  BY SeqMonotonic DEF IsLog
<1> PICK m \in Nat : m = Len(s)
  BY LogLength
<1> PICK k \in Nat : k = Len(t)
  BY LogLength
<1>2. /\ s \o t \in Seq(S) /\ Len(s \o t) = m + k
      /\ \A i \in 1..m + k : (s \o t)[i] = IF i <= m THEN s[i] ELSE t[i - m]
  BY <1>1, ConcatProperties
<1>3. IsLog(s \o t)
  BY <1>2, LogOf
<1>4. ASSUME NEW i \in 1..k
      PROVE  (s \o t)[m + i] = t[i]
  <2>1. m + i \in 1..m + k /\ ~(m + i <= m) /\ (m + i) - m = i
    OBVIOUS
  <2> QED BY <1>2, <2>1
<1>5. \A n \in 1..m : (s \o t)[n] = s[n]
  BY <1>2
<1> QED BY <1>2, <1>3, <1>4, <1>5

LEMMA LogAppend ==
  ASSUME NEW s, IsLog(s), NEW x
  PROVE  /\ IsLog(Append(s, x)) /\ Len(Append(s, x)) = Len(s) + 1
         /\ \A n \in 1..Len(s) : Append(s, x)[n] = s[n]
         /\ Append(s, x)[Len(s) + 1] = x
<1> PICK S : S = {s[n] : n \in DOMAIN s} \cup {x}
  OBVIOUS
<1>1. s \in Seq(S) /\ x \in S
  BY SeqMonotonic DEF IsLog
<1>2. Append(s, x) \in Seq(S) /\ Len(Append(s, x)) = Len(s) + 1
  BY <1>1
<1>3. \A n \in 1..Len(s) : Append(s, x)[n] = s[n]
  BY <1>1
<1>4. Append(s, x)[Len(s) + 1] = x
  BY <1>1
<1>5. IsLog(Append(s, x))
  BY <1>2, LogOf
<1> QED BY <1>2, <1>3, <1>4, <1>5

LEMMA LogOne ==
  ASSUME NEW x
  PROVE  IsLog(<<x>>) /\ Len(<<x>>) = 1 /\ <<x>>[1] = x
<1>1. <<x>> \in Seq({x})
  OBVIOUS
<1> QED BY <1>1, LogOf

LEMMA LogTwo ==
  ASSUME NEW x, NEW y
  PROVE  IsLog(<<x, y>>) /\ Len(<<x, y>>) = 2 /\ <<x, y>>[1] = x /\ <<x, y>>[2] = y
<1>1. <<x, y>> \in Seq({x, y})
  OBVIOUS
<1> QED BY <1>1, LogOf

LEMMA LogPair ==
  ASSUME NEW x, NEW y
  PROVE  /\ IsLog(<<x>> \o <<y>>) /\ Len(<<x>> \o <<y>>) = 2
         /\ (<<x>> \o <<y>>)[1] = x /\ (<<x>> \o <<y>>)[2] = y
<1>1. PICK u, v : /\ u = <<x>> /\ IsLog(u) /\ Len(u) \in {1} /\ u[1] = x
                  /\ v = <<y>> /\ IsLog(v) /\ Len(v) \in {1} /\ v[1] = y
  BY LogOne
<1>2. /\ IsLog(u \o v) /\ Len(u \o v) = Len(u) + Len(v)
      /\ \A i \in 1..Len(u) : (u \o v)[i] = u[i]
      /\ \A i \in 1..Len(v) : (u \o v)[Len(u) + i] = v[i]
  <2>1. IsLog(u) /\ IsLog(v)
    BY <1>1
  <2> QED BY <2>1, LogConcat
<1>3. PICK s : s = u \o v
  OBVIOUS
<1>4. /\ IsLog(s) /\ Len(s) = 1 + 1
      /\ \A i \in 1..1 : s[i] = u[i]
      /\ \A i \in 1..1 : s[1 + i] = v[i]
  BY <1>1, <1>2, <1>3
<1>5. s[1] = u[1] /\ s[1 + 1] = v[1]
  BY <1>4
<1>6. s = <<x>> \o <<y>>
  BY <1>1, <1>3
<1>7. IsLog(s) /\ Len(s) = 2 /\ s[1] = x /\ s[2] = y
  BY <1>1, <1>4, <1>5
<1> QED BY <1>6, <1>7

IsTriple(s, x, y, z) == IsLog(s) /\ Len(s) = 3 /\ s[1] = x /\ s[2] = y /\ s[3] = z

LEMMA LogTriple ==
  ASSUME NEW t, IsLog(t), Len(t) \in {2}, NEW x
  PROVE  IsTriple(t \o <<x>>, t[1], t[2], x)
<1>1. IsLog(<<x>>) /\ Len(<<x>>) = 1 /\ <<x>>[1] = x
  BY LogOne
<1>2. PICK u : u = <<x>> /\ IsLog(u) /\ Len(u) \in {1} /\ u[1] = x
  BY <1>1
<1>3. PICK s : s = t \o u
  OBVIOUS
<1>4. /\ IsLog(s) /\ Len(s) = Len(t) + Len(u)
      /\ \A i \in 1..Len(t) : s[i] = t[i]
      /\ \A i \in 1..Len(u) : s[Len(t) + i] = u[i]
  <2>1. IsLog(u)
    BY <1>2
  <2> QED BY <1>3, <2>1, LogConcat
<1>5. /\ IsLog(s) /\ Len(s) = 2 + 1
      /\ \A i \in 1..2 : s[i] = t[i]
      /\ \A i \in 1..1 : s[2 + i] = u[i]
  <2>1. Len(u) \in {1}
    BY <1>2
  <2> QED BY <1>4, <2>1
<1>6. s[1] = t[1] /\ s[2] = t[2] /\ s[2 + 1] = u[1]
  BY <1>5
<1>7. IsTriple(s, t[1], t[2], u[1])
  BY <1>5, <1>6 DEF IsTriple
<1>8. u[1] = x /\ s = t \o <<x>>
  BY <1>2, <1>3
<1> QED BY <1>7, <1>8

\* The drafts were appended to the ledger at one time, by the next receipt.
Lengthened(drafts, at) ==
  /\ IsLog(ledger') /\ Len(ledger') = Len(ledger) + Len(drafts)
  /\ \A n \in 1..Len(ledger) : ledger'[n] = ledger[n]
  /\ \A i \in 1..Len(drafts) : /\ ledger'[Len(ledger) + i].type = drafts[i].type
                               /\ ledger'[Len(ledger) + i].of = drafts[i].of
                               /\ ledger'[Len(ledger) + i].at = at
                               /\ ledger'[Len(ledger) + i].by = Len(receipts) + 1

\* What a command leaves in the ledger and among the receipts.
Recorded(drafts, at) ==
  Lengthened(drafts, at) /\ IsLog(receipts') /\ Len(receipts') = Len(receipts) + 1

LEMMA CommitRecords ==
  ASSUME IsLog(ledger), IsLog(receipts), NEW h, NEW c, NEW at, NEW drafts,
         IsLog(drafts), Commit(h, c, at, drafts)
  PROVE  Recorded(drafts, at) /\ clock' = c
<1> PICK k \in Nat : k = Len(drafts) /\ DOMAIN drafts = 1..k
  BY LogLength
<1> PICK by : by = Len(receipts) + 1
  OBVIOUS
<1> PICK t : t = [i \in 1..k |->
          [type |-> drafts[i].type, of |-> drafts[i].of, data |-> drafts[i].data,
           at |-> at, by |-> by]]
  OBVIOUS
<1>1. t \in [1..k -> {t[i] : i \in 1..k}]
  OBVIOUS
<1>2. t \in Seq({t[i] : i \in 1..k})
  <2>1. [1..k -> {t[i] : i \in 1..k}] \subseteq Seq({t[i] : i \in 1..k})
    BY SeqDef
  <2> QED BY <1>1, <2>1
<1>3. IsLog(t) /\ DOMAIN t = 1..Len(t) /\ Len(t) \in Nat /\ DOMAIN t = 1..k
  BY <1>2, LogOf
<1>4. Len(t) = k
  BY <1>3
<1>5. ledger' = ledger \o t
  BY DEF Commit
<1>6. /\ IsLog(ledger') /\ Len(ledger') = Len(ledger) + k
      /\ \A n \in 1..Len(ledger) : ledger'[n] = ledger[n]
      /\ \A i \in 1..k : ledger'[Len(ledger) + i] = t[i]
  BY <1>3, <1>4, <1>5, LogConcat
<1>7. \A i \in 1..k : /\ t[i].type = drafts[i].type /\ t[i].of = drafts[i].of
                      /\ t[i].at = at /\ t[i].by = by
  OBVIOUS
<1>8. IsLog(receipts') /\ Len(receipts') = Len(receipts) + 1
  <2> PICK x : receipts' = Append(receipts, x)
    BY DEF Commit
  <2> QED BY LogAppend
<1>9. clock' = c
  BY DEF Commit
<1> QED BY <1>6, <1>7, <1>8, <1>9 DEF Recorded, Lengthened
-----------------------------------------------------------------------------
(* Types.                                                                  *)

LedgerTyped ==
  /\ IsLog(ledger) /\ IsLog(receipts)
  /\ \A n \in DOMAIN ledger : ledger[n].by \in DOMAIN receipts /\ ledger[n].at \in Times

TopicsTyped ==
  /\ topics \in [DOMAIN topics -> Times] /\ DOMAIN topics \subseteq Topics
  /\ subscriptions \in [DOMAIN subscriptions -> [event : DOMAIN ledger, at : Times]]
  /\ DOMAIN subscriptions \subseteq Agents \X Topics
  /\ IsFiniteSet(DOMAIN subscriptions)

\* Every experience has a version: the one it was created with.
ExperiencesTyped ==
  /\ experiences \in Seq(Experience) /\ Len(experiences) <= MaxExperiences
  /\ temperature \in [DOMAIN experiences -> {"active", "cold", "archived"}]
  /\ \A e \in DOMAIN experiences : Len(experiences[e].versions) \in 1..MaxVersions

CapsulesTyped ==
  /\ capsules \in Seq(Capsule) /\ Len(capsules) <= MaxCapsules
  /\ statuses \in [DOMAIN capsules -> CapsuleState]

RoutesTyped ==
  /\ inbox \in [DOMAIN inbox -> Route]
  /\ DOMAIN inbox \subseteq (DOMAIN capsules) \X Agents

AdoptionsTyped == adoptions \subseteq Adoption

\* What the verdict counts are: the capsules of the subject that the observer
\* last judged so.
Effective(s, a, v) ==
  {k \in DOMAIN capsules : capsules[k].publisher = s /\ LatestFeedback(a, k) = v}

Counted(s, a) ==
  /\ CountsOf(s, a).useful = Cardinality(Effective(s, a, "useful"))
  /\ CountsOf(s, a).refuted = Cardinality(Effective(s, a, "refuted"))
  /\ CountsOf(s, a).harmful = Cardinality(Effective(s, a, "harmful"))

VerdictsTyped ==
  /\ feedback \in Seq(Revision)
  /\ \A f \in DOMAIN feedback : feedback[f].capsule \in DOMAIN capsules
  /\ reputation \in [DOMAIN reputation -> Counts]
  /\ DOMAIN reputation \subseteq Agents \X Agents
  /\ \A s \in Agents, a \in Agents : Counted(s, a)

Typed ==
  /\ clock \in Times /\ LedgerTyped /\ TopicsTyped /\ ExperiencesTyped /\ CapsulesTyped
  /\ RoutesTyped /\ AdoptionsTyped /\ VerdictsTyped

\* No rejection dies of anything but feedback.
Refusals == refused \subseteq {"capsule.feedback_recorded"}

LEMMA TypedIsTypeOK == Typed /\ Refusals => TypeOK
BY DEF Refusals, Typed, TypeOK, LedgerTyped, TopicsTyped, ExperiencesTyped, CapsulesTyped,
   RoutesTyped, AdoptionsTyped, VerdictsTyped

LEMMA ReadingTyped ==
  ASSUME NEW p \in Readings
  PROVE  p[1] \in Times /\ p[2] \in Times
BY DEF Readings

LEMMA TimesAreNat == Times \subseteq Nat
BY SharingBounds DEF Times

LEMMA RecordedTyped ==
  ASSUME LedgerTyped, NEW drafts, IsLog(drafts), NEW at \in Times, Recorded(drafts, at)
  PROVE  LedgerTyped' /\ DOMAIN ledger \subseteq DOMAIN ledger'
<1> PICK m \in Nat : m = Len(ledger) /\ DOMAIN ledger = 1..m
  BY LogLength DEF LedgerTyped
<1> PICK k \in Nat : k = Len(drafts)
  BY LogLength
<1> PICK r \in Nat : r = Len(receipts) /\ DOMAIN receipts = 1..r
  BY LogLength DEF LedgerTyped
<1>1. /\ IsLog(ledger') /\ Len(ledger') = m + k
      /\ IsLog(receipts') /\ Len(receipts') = r + 1
      /\ \A n \in 1..m : ledger'[n] = ledger[n]
      /\ \A i \in 1..k : ledger'[m + i].at = at /\ ledger'[m + i].by = r + 1
  BY DEF Recorded, Lengthened
<1>2. DOMAIN ledger' = 1..m + k /\ DOMAIN receipts' = 1..r + 1
  BY <1>1, LogLength
<1>3. ASSUME NEW n \in 1..m + k
      PROVE  ledger'[n].by \in DOMAIN receipts' /\ ledger'[n].at \in Times
  <2>1. CASE n <= m
    BY <1>1, <1>2, <2>1, SMTT(30) DEF LedgerTyped
  <2>2. CASE n > m
    <3>1. n - m \in 1..k /\ m + (n - m) = n
      BY <2>2
    <3>2. ledger'[n].at = at /\ ledger'[n].by = r + 1
      BY <1>1, <3>1
    <3> QED BY <1>2, <3>2
  <2> QED BY <2>1, <2>2
<1> QED BY <1>1, <1>2, <1>3 DEF LedgerTyped

\* A command with its readings of the clock.
LEMMA CommandTyped ==
  ASSUME Typed, NEW p \in Readings, NEW at \in Times, NEW drafts, IsLog(drafts),
         Commit(p[1], p[2], at, drafts)
  PROVE  /\ clock' \in Times /\ LedgerTyped' /\ Recorded(drafts, at)
         /\ DOMAIN ledger \subseteq DOMAIN ledger'
         /\ Len(ledger) \in Nat /\ DOMAIN ledger = 1..Len(ledger)
         /\ DOMAIN ledger' = 1..Len(ledger) + Len(drafts)
<1>1. IsLog(ledger) /\ IsLog(receipts) /\ LedgerTyped
  BY DEF Typed, LedgerTyped
<1>2. Recorded(drafts, at) /\ clock' = p[2]
  BY <1>1, CommitRecords
<1>3. LedgerTyped' /\ DOMAIN ledger \subseteq DOMAIN ledger'
  BY <1>1, <1>2, RecordedTyped
<1>4. DOMAIN ledger' = 1..Len(ledger')
  BY <1>3, LogLength DEF LedgerTyped
<1> QED BY <1>1, <1>2, <1>3, <1>4, ReadingTyped, LogLength DEF Recorded, Lengthened

\* What the types of a part rest on.
LEMMA PartsKept ==
  ASSUME Typed, DOMAIN ledger \subseteq DOMAIN ledger'
  PROVE  /\ UNCHANGED <<topics, subscriptions>> => TopicsTyped'
         /\ UNCHANGED <<experiences, temperature>> => ExperiencesTyped'
         /\ UNCHANGED <<capsules, statuses>> => CapsulesTyped'
         /\ UNCHANGED <<capsules, inbox>> => RoutesTyped'
         /\ UNCHANGED adoptions => AdoptionsTyped'
         /\ UNCHANGED <<capsules, feedback, reputation>> => VerdictsTyped'
<1>1. UNCHANGED <<topics, subscriptions>> => TopicsTyped'
  <2> SUFFICES ASSUME UNCHANGED <<topics, subscriptions>>
               PROVE  TopicsTyped'
    OBVIOUS
  <2>1. \A s \in DOMAIN subscriptions :
          subscriptions[s] \in [event : DOMAIN ledger', at : Times]
    BY DEF Typed, TopicsTyped
  <2>2. subscriptions \in [DOMAIN subscriptions -> [event : DOMAIN ledger', at : Times]]
    BY <2>1 DEF Typed, TopicsTyped
  <2> QED BY <2>2 DEF Typed, TopicsTyped
<1>2. UNCHANGED <<experiences, temperature>> => ExperiencesTyped'
  BY DEF Typed, ExperiencesTyped
<1>3. UNCHANGED <<capsules, statuses>> => CapsulesTyped'
  BY DEF Typed, CapsulesTyped
<1>4. UNCHANGED <<capsules, inbox>> => RoutesTyped'
  BY DEF Typed, RoutesTyped
<1>5. UNCHANGED adoptions => AdoptionsTyped'
  BY DEF Typed, AdoptionsTyped
<1>6. UNCHANGED <<capsules, feedback, reputation>> => VerdictsTyped'
  <2> SUFFICES ASSUME UNCHANGED <<capsules, feedback, reputation>>
               PROVE  VerdictsTyped'
    OBVIOUS
  <2>1. ASSUME NEW a, NEW k
        PROVE  LatestFeedback(a, k)' = LatestFeedback(a, k)
    BY DEF LatestFeedback, Streams
  <2>2. ASSUME NEW s, NEW a, NEW v
        PROVE  Effective(s, a, v)' = Effective(s, a, v)
    BY <2>1 DEF Effective
  <2>3. ASSUME NEW s, NEW a
        PROVE  CountsOf(s, a)' = CountsOf(s, a)
    BY DEF CountsOf
  <2>4. \A s \in Agents, a \in Agents : Counted(s, a)'
    BY <2>2, <2>3 DEF Typed, VerdictsTyped, Counted
  <2> QED BY <2>4 DEF Typed, VerdictsTyped
<1> QED BY <1>1, <1>2, <1>3, <1>4, <1>5, <1>6
-----------------------------------------------------------------------------
(* Each command keeps the types.                                           *)

LEMMA CreateTopicTyped ==
  ASSUME Typed, NEW t \in Topics, CreateTopic(t)
  PROVE  Typed'
<1> PICK p \in Readings :
      /\ topics' = Extended(topics, t, p[1])
      /\ Commit(p[1], p[2], p[1], <<Draft("topic.created", "topic", t, {})>>)
  BY DEF CreateTopic
<1> PICK drafts : drafts = <<Draft("topic.created", "topic", t, {})>>
  OBVIOUS
<1>1. IsLog(drafts) /\ p[1] \in Times
  BY LogOne, ReadingTyped
<1>2. clock' \in Times /\ LedgerTyped' /\ DOMAIN ledger \subseteq DOMAIN ledger'
  BY <1>1, CommandTyped
<1>3. UNCHANGED <<subscriptions, experiences, temperature, capsules, statuses,
                  inbox, adoptions, feedback, reputation>>
  BY DEF CreateTopic
<1>4. topics' \in [DOMAIN topics' -> Times] /\ DOMAIN topics' \subseteq Topics
  <2> PICK at \in Times : at = p[1]
    BY <1>1
  <2>1. topics \in [DOMAIN topics -> Times] /\ DOMAIN topics \subseteq Topics
    BY DEF Typed, TopicsTyped
  <2>2. /\ DOMAIN Extended(topics, t, at) = DOMAIN topics \cup {t}
        /\ Extended(topics, t, at) \in [DOMAIN topics \cup {t} -> Times]
    BY <2>1 DEF Extended
  <2>3. topics' = Extended(topics, t, at)
    OBVIOUS
  <2> QED BY <2>1, <2>2, <2>3
<1>5. subscriptions \in [DOMAIN subscriptions -> [event : DOMAIN ledger', at : Times]]
  <2>1. \A s \in DOMAIN subscriptions :
          subscriptions[s] \in [event : DOMAIN ledger', at : Times]
    BY <1>2 DEF Typed, TopicsTyped
  <2> QED BY <2>1 DEF Typed, TopicsTyped
<1>6. TopicsTyped'
  BY <1>3, <1>4, <1>5 DEF Typed, TopicsTyped
<1> QED BY <1>2, <1>3, <1>6, PartsKept DEF Typed

LEMMA CreateSubscriptionTyped ==
  ASSUME Typed, NEW a \in Agents, NEW t \in Topics, CreateSubscription(a, t)
  PROVE  Typed'
<1> PICK p \in Readings :
      /\ subscriptions' = Extended(subscriptions, <<a, t>>,
                                   [event |-> Len(ledger) + 1, at |-> p[1]])
      /\ Commit(p[1], p[2], p[1],
                <<Draft("subscription.created", "subscription", <<a, t>>, {})>>)
  BY DEF CreateSubscription
<1> PICK drafts : drafts = <<Draft("subscription.created", "subscription", <<a, t>>, {})>>
  OBVIOUS
<1>1. IsLog(drafts) /\ p[1] \in Times /\ Len(drafts) = 1
  BY LogOne, ReadingTyped
<1>2. /\ clock' \in Times /\ LedgerTyped' /\ DOMAIN ledger \subseteq DOMAIN ledger'
      /\ Len(ledger) \in Nat /\ DOMAIN ledger' = 1..Len(ledger) + 1
  BY <1>1, CommandTyped
<1>3. UNCHANGED <<topics, experiences, temperature, capsules, statuses,
                  inbox, adoptions, feedback, reputation>>
  BY DEF CreateSubscription
<1>4. [event |-> Len(ledger) + 1, at |-> p[1]] \in [event : DOMAIN ledger', at : Times]
  BY <1>1, <1>2
<1>5. subscriptions \in [DOMAIN subscriptions -> [event : DOMAIN ledger', at : Times]]
  <2>1. \A s \in DOMAIN subscriptions :
          subscriptions[s] \in [event : DOMAIN ledger', at : Times]
    BY <1>2 DEF Typed, TopicsTyped
  <2> QED BY <2>1 DEF Typed, TopicsTyped
<1> PICK S : S = [event : DOMAIN ledger', at : Times]
  OBVIOUS
<1> PICK key, value : key = <<a, t>> /\ value = [event |-> Len(ledger) + 1, at |-> p[1]]
  OBVIOUS
<1>6. /\ DOMAIN subscriptions' = DOMAIN subscriptions \cup {key}
      /\ subscriptions' \in [DOMAIN subscriptions' -> S]
  <2>1. value \in S /\ subscriptions \in [DOMAIN subscriptions -> S]
    BY <1>4, <1>5
  <2>2. subscriptions' = Extended(subscriptions, key, value)
    OBVIOUS
  <2>3. /\ DOMAIN Extended(subscriptions, key, value) = DOMAIN subscriptions \cup {key}
        /\ Extended(subscriptions, key, value) \in [DOMAIN subscriptions \cup {key} -> S]
    BY <2>1 DEF Extended
  <2> QED BY <2>2, <2>3
<1>7. IsFiniteSet(DOMAIN subscriptions')
  <2>1. IsFiniteSet(DOMAIN subscriptions)
    BY DEF Typed, TopicsTyped
  <2>2. IsFiniteSet(DOMAIN subscriptions \cup {key})
    BY <2>1, FS_AddElement
  <2> QED BY <1>6, <2>2
<1>8. TopicsTyped'
  BY <1>3, <1>6, <1>7, SMTT(30) DEF Typed, TopicsTyped
<1> QED BY <1>2, <1>3, <1>8, PartsKept DEF Typed

\* The rows of a creation.
LEMMA CreationTyped ==
  ASSUME ExperiencesTyped, NEW a \in Agents, NEW origin \in Origins,
         NEW content \in Contents, NEW at \in Times, Len(experiences) < MaxExperiences,
         Creation(a, origin, content, at)
  PROVE  /\ ExperiencesTyped'
         /\ Len(experiences') = Len(experiences) + 1 /\ Len(experiences) \in Nat
         /\ DOMAIN experiences = 1..Len(experiences)
         /\ DOMAIN experiences' = 1..Len(experiences) + 1
         /\ \A e \in DOMAIN experiences : experiences'[e] = experiences[e]
<1> PICK n \in Nat : n = Len(experiences)
  BY DEF ExperiencesTyped
<1> PICK w : w = <<[content |-> content, at |-> at]>>
  OBVIOUS
<1> PICK x : x = [owner |-> a, origin |-> origin, versions |-> w]
  OBVIOUS
<1>1. w \in Seq([content : Contents, at : Times]) /\ Len(w) = 1
  <2>1. [content |-> content, at |-> at] \in [content : Contents, at : Times]
    OBVIOUS
  <2> PICK y : y = [content |-> content, at |-> at]
    OBVIOUS
  <2>2. y \in [content : Contents, at : Times] /\ w = <<y>>
    BY <2>1
  <2> QED BY <2>2
<1>2. x \in Experience /\ x.versions = w
  BY <1>1 DEF Experience
<1>3. experiences' = Append(experiences, x) /\ experiences \in Seq(Experience)
  BY DEF Creation, ExperiencesTyped
<1>4. /\ experiences' \in Seq(Experience) /\ Len(experiences') = n + 1
      /\ \A e \in 1..n : experiences'[e] = experiences[e]
      /\ experiences'[n + 1] = x
      /\ DOMAIN experiences = 1..n /\ DOMAIN experiences' = 1..n + 1
  BY <1>2, <1>3
<1>5. temperature' \in [1..n + 1 -> {"active", "cold", "archived"}]
  <2>1. temperature \in [1..n -> {"active", "cold", "archived"}]
    BY <1>4 DEF ExperiencesTyped
  <2>2. temperature \in Seq({"active", "cold", "archived"})
    <3>1. [1..n -> {"active", "cold", "archived"}] \subseteq Seq({"active", "cold", "archived"})
      BY SeqDef
    <3> QED BY <2>1, <3>1
  <2>3. Len(temperature) = n
    BY <2>1, <2>2, LenProperties
  <2>4. /\ Append(temperature, "active") \in Seq({"active", "cold", "archived"})
        /\ Len(Append(temperature, "active")) = n + 1
    BY <2>2, <2>3
  <2>5. temperature' = Append(temperature, "active")
    BY DEF Creation
  <2> QED BY <2>4, <2>5, LenProperties
<1>6. \A e \in 1..n + 1 : Len(experiences'[e].versions) \in 1..MaxVersions
  <2>1. MaxVersions \in Nat \ {0}
    BY SharingBounds
  <2>2. Len(experiences'[n + 1].versions) \in 1..MaxVersions
    BY <1>1, <1>2, <1>4, <2>1
  <2>3. \A e \in 1..n : Len(experiences'[e].versions) \in 1..MaxVersions
    BY <1>4 DEF ExperiencesTyped
  <2>4. \A e \in 1..n + 1 : e \in 1..n \/ e = n + 1
    OBVIOUS
  <2> QED BY <2>2, <2>3, <2>4
<1>7. Len(experiences') <= MaxExperiences
  BY <1>4, SharingBounds
<1> QED BY <1>4, <1>5, <1>6, <1>7 DEF ExperiencesTyped

LEMMA CreationLog ==
  ASSUME NEW e, NEW content
  PROVE  /\ IsLog(CreationDrafts(e, content)) /\ Len(CreationDrafts(e, content)) = 2
         /\ CreationDrafts(e, content)[1].type = "experience.created"
         /\ CreationDrafts(e, content)[2].type = "experience.version_created"
<1> PICK after : after = [content |-> content, temperature |-> "active"]
  OBVIOUS
<1> PICK x : x = Draft("experience.created", "experience", e,
                       [before |-> {}, after |-> after])
  OBVIOUS
<1> PICK y : y = Draft("experience.version_created", "experience", e,
                       [before |-> after, after |-> after])
  OBVIOUS
<1>1. CreationDrafts(e, content) = <<x, y>>
  BY DEF CreationDrafts
<1>2. x.type = "experience.created" /\ y.type = "experience.version_created"
  BY DEF Draft
<1> QED BY <1>1, <1>2, LogTwo

LEMMA CreateExperienceTyped ==
  ASSUME Typed, NEW a \in Agents, NEW origin \in {"local", "adopted_passport"},
         NEW content \in Contents, CreateExperience(a, origin, content)
  PROVE  Typed'
<1> PICK p \in Readings :
      /\ Creation(a, origin, content, p[1])
      /\ Commit(p[1], p[2], p[1], CreationDrafts(Len(experiences) + 1, content))
  BY DEF CreateExperience
<1> PICK drafts : drafts = CreationDrafts(Len(experiences) + 1, content)
  OBVIOUS
<1>1. IsLog(drafts) /\ p[1] \in Times
  BY CreationLog, ReadingTyped
<1>2. clock' \in Times /\ LedgerTyped' /\ DOMAIN ledger \subseteq DOMAIN ledger'
  BY <1>1, CommandTyped
<1>3. UNCHANGED <<topics, subscriptions, capsules, statuses, inbox, adoptions,
                  feedback, reputation>>
  BY DEF CreateExperience
<1>4. ExperiencesTyped'
  <2>1. origin \in Origins /\ Len(experiences) < MaxExperiences /\ ExperiencesTyped
    BY DEF Origins, CreateExperience, Typed
  <2> QED BY <1>1, <2>1, CreationTyped
<1> QED BY <1>2, <1>3, <1>4, PartsKept DEF Typed

LEMMA CreateVersionTyped ==
  ASSUME Typed, NEW e \in DOMAIN experiences, NEW content \in Contents,
         CreateVersion(e, content)
  PROVE  Typed'
<1> PICK p \in Readings :
      /\ experiences' = [experiences EXCEPT ![e].versions =
                            Append(@, [content |-> content, at |-> p[1]])]
      /\ \E d : Commit(p[1], p[2], p[1], <<d>>)
  BY DEF CreateVersion
<1> PICK d : Commit(p[1], p[2], p[1], <<d>>)
  OBVIOUS
<1> PICK drafts : drafts = <<d>>
  OBVIOUS
<1>1. IsLog(drafts) /\ p[1] \in Times
  BY LogOne, ReadingTyped
<1>2. clock' \in Times /\ LedgerTyped' /\ DOMAIN ledger \subseteq DOMAIN ledger'
  BY <1>1, CommandTyped
<1>3. UNCHANGED <<topics, subscriptions, temperature, capsules, statuses, inbox,
                  adoptions, feedback, reputation>>
  BY DEF CreateVersion
<1>4. ExperiencesTyped'
  <2> PICK n \in Nat : n = Len(experiences) /\ DOMAIN experiences = 1..n
    BY SMTT(30) DEF Typed, ExperiencesTyped
  <2> PICK y : y = [content |-> content, at |-> p[1]]
    OBVIOUS
  <2> PICK x : x = experiences[e]
    OBVIOUS
  <2>1. /\ x \in Experience /\ y \in [content : Contents, at : Times]
        /\ Len(x.versions) < MaxVersions /\ Len(x.versions) \in 1..MaxVersions
    BY <1>1 DEF Typed, ExperiencesTyped, CreateVersion
  <2>2. x.owner \in Agents /\ x.origin \in Origins
        /\ x.versions \in Seq([content : Contents, at : Times])
        /\ x = [owner |-> x.owner, origin |-> x.origin, versions |-> x.versions]
    BY <2>1 DEF Experience
  <2> PICK w : w = Append(x.versions, y)
    OBVIOUS
  <2>3. w \in Seq([content : Contents, at : Times]) /\ Len(w) = Len(x.versions) + 1
    BY <2>1, <2>2
  <2> PICK z : z = [x EXCEPT !.versions = w]
    OBVIOUS
  <2>4. z \in Experience /\ z.versions = w
    BY <2>2, <2>3 DEF Experience
  <2>5. Len(z.versions) \in 1..MaxVersions
    BY <2>1, <2>3, <2>4, SharingBounds
  <2>6. experiences' = [experiences EXCEPT ![e] = z]
    OBVIOUS
  <2>7. /\ experiences' \in Seq(Experience) /\ Len(experiences') = n
        /\ DOMAIN experiences' = 1..n
        /\ \A i \in 1..n : experiences'[i] = IF i = e THEN z ELSE experiences[i]
    BY <2>4, <2>6, ExceptSeq DEF Typed, ExperiencesTyped
  <2>8. \A i \in DOMAIN experiences' : Len(experiences'[i].versions) \in 1..MaxVersions
    BY <2>5, <2>7 DEF Typed, ExperiencesTyped
  <2> QED BY <1>3, <2>7, <2>8 DEF Typed, ExperiencesTyped
<1> QED BY <1>2, <1>3, <1>4, PartsKept DEF Typed

LEMMA ChangeTemperatureTyped ==
  ASSUME Typed, NEW e \in DOMAIN experiences, ChangeTemperature(e)
  PROVE  Typed'
<1> PICK after : /\ temperature' = [temperature EXCEPT ![e] = after]
                 /\ after \in {"active", "cold", "archived"}
  BY DEF ChangeTemperature
<1> PICK p \in Readings : \E d : Commit(p[1], p[2], p[1], <<d>>)
  BY DEF ChangeTemperature
<1> PICK d : Commit(p[1], p[2], p[1], <<d>>)
  OBVIOUS
<1> PICK drafts : drafts = <<d>>
  OBVIOUS
<1>1. IsLog(drafts) /\ p[1] \in Times
  BY LogOne, ReadingTyped
<1>2. clock' \in Times /\ LedgerTyped' /\ DOMAIN ledger \subseteq DOMAIN ledger'
  BY <1>1, CommandTyped
<1>3. UNCHANGED <<topics, subscriptions, experiences, capsules, statuses, inbox,
                  adoptions, feedback, reputation>>
  BY DEF ChangeTemperature
<1>4. ExperiencesTyped'
  BY <1>3 DEF Typed, ExperiencesTyped
<1> QED BY <1>2, <1>3, <1>4, PartsKept DEF Typed

\* The other agents that subscribed to a topic, in some order.
LEMMA SubscribersFinite ==
  ASSUME Typed, NEW t, NEW a
  PROVE  IsFiniteSet(EligibleSubscribers(t, a)) /\ EligibleSubscribers(t, a) \subseteq Agents
<1> PICK S : S = EligibleSubscribers(t, a)
  OBVIOUS
<1> PICK D : D = DOMAIN subscriptions
  OBVIOUS
<1>1. S \subseteq Agents /\ \A b \in S : <<b, t>> \in D
  BY DEF EligibleSubscribers
<1> PICK f : f = [b \in S |-> <<b, t>>]
  OBVIOUS
<1>2. f \in [S -> D] /\ DOMAIN f = S /\ \A b \in S : f[b] = <<b, t>>
  BY <1>1
<1>3. IsInjective(f)
  <2>1. ASSUME NEW b \in S, NEW c \in S, f[b] = f[c]
        PROVE  b = c
    <3>1. <<b, t>> = <<c, t>>
      BY <1>2, <2>1
    <3> QED BY <3>1
  <2> QED BY <1>2, <2>1 DEF IsInjective
<1>4. f \in Injection(S, D)
  BY <1>2, <1>3 DEF Injection
<1>5. IsFiniteSet(D)
  BY DEF Typed, TopicsTyped
<1> QED BY <1>1, <1>4, <1>5, FS_Injection

LEMMA SetListed ==
  ASSUME NEW S, IsFiniteSet(S)
  PROVE  /\ Cardinality(S) \in Nat /\ SetToSeq(S) \in Injection(1..Cardinality(S), S)
         /\ SetToSeq(S) \in Surjection(1..Cardinality(S), S)
<1>1. /\ Cardinality(S) \in Nat
      /\ \E f \in [1..Cardinality(S) -> S] : IsInjective(f)
  <2>1. Cardinality(S) \in Nat /\ ExistsBijection(1..Cardinality(S), S)
    BY FS_CardinalityType
  <2> QED BY <2>1 DEF ExistsBijection, Bijection, Injection
<1> PICK n \in Nat : n = Cardinality(S)
  BY <1>1
<1> PICK f : f = SetToSeq(S)
  OBVIOUS
<1>2. f \in Injection(1..n, S)
  BY <1>1 DEF SetToSeq, Injection
<1>3. Cardinality(1..n) = n
  BY FS_Interval
<1>4. f \in Surjection(1..n, S)
  BY <1>2, <1>3, FS_Injection
<1> QED BY <1>2, <1>4

LEMMA RecipientsListed ==
  ASSUME Typed, NEW t, NEW a
  PROVE  \E n \in Nat : SetToSeq(EligibleSubscribers(t, a)) \in [1..n -> Agents]
<1> PICK S : S = EligibleSubscribers(t, a)
  OBVIOUS
<1>1. IsFiniteSet(S) /\ S \subseteq Agents
  BY SubscribersFinite
<1> PICK n : n = Cardinality(S)
  OBVIOUS
<1>2. n \in Nat /\ SetToSeq(S) \in [1..n -> S]
  BY <1>1, SetListed DEF Injection
<1>3. SetToSeq(S) \in [1..n -> Agents]
  BY <1>1, <1>2
<1> QED BY <1>2, <1>3

PublicationDrafts(k, recipients) ==
  <<Draft("capsule.published", "capsule", k, {})>> \o DeliverToSubscribers(k, recipients)

Publishing(drafts, k, n) ==
  /\ IsLog(drafts) /\ Len(drafts) = 1 + n
  /\ drafts[1].type = "capsule.published" /\ drafts[1].of = <<"capsule", k>>
  /\ \A i \in 1..n : drafts[1 + i].type = "capsule.received"

LEMMA PublicationLog ==
  ASSUME NEW k, NEW n \in Nat, NEW recipients \in [1..n -> Agents],
         NEW drafts, drafts = PublicationDrafts(k, recipients)
  PROVE  Publishing(drafts, k, n)
<1> PICK x : x = Draft("capsule.published", "capsule", k, {})
  OBVIOUS
<1> PICK t : t = DeliverToSubscribers(k, recipients)
  OBVIOUS
<1>1. x.type = "capsule.published" /\ x.of = <<"capsule", k>>
  BY DEF Draft
<1>2. IsLog(<<x>>) /\ Len(<<x>>) = 1 /\ <<x>>[1] = x
  BY LogOne
<1>3. /\ DOMAIN t = 1..n /\ t \in [1..n -> {t[i] : i \in 1..n}]
      /\ \A i \in 1..n : t[i].type = "capsule.received"
  BY DEF DeliverToSubscribers, Draft
<1>4. IsLog(t) /\ Len(t) = n
  <2>1. t \in Seq({t[i] : i \in 1..n})
    <3>1. [1..n -> {t[i] : i \in 1..n}] \subseteq Seq({t[i] : i \in 1..n})
      BY SeqDef
    <3> QED BY <1>3, <3>1
  <2>2. IsLog(t) /\ Len(t) \in Nat /\ DOMAIN t = 1..Len(t)
    BY <2>1, LogOf
  <2> QED BY <1>3, <2>2
<1> PICK u : u = <<x>>
  OBVIOUS
<1>5. drafts = u \o t
  BY DEF PublicationDrafts
<1>6. /\ IsLog(u \o t) /\ Len(u \o t) = Len(u) + Len(t)
      /\ \A i \in 1..Len(u) : (u \o t)[i] = u[i]
      /\ \A i \in 1..Len(t) : (u \o t)[Len(u) + i] = t[i]
  BY <1>2, <1>4, LogConcat
<1>7. /\ IsLog(u \o t) /\ Len(u \o t) = 1 + n
      /\ (u \o t)[1] = x
      /\ \A i \in 1..n : (u \o t)[1 + i] = t[i]
  BY <1>2, <1>4, <1>6
<1>8. IsLog(drafts) /\ Len(drafts) = 1 + n /\ drafts[1] = x
  BY <1>5, <1>7
<1>9. \A i \in 1..n : drafts[1 + i].type = "capsule.received"
  <2> TAKE i \in 1..n
  <2>1. drafts[1 + i] = t[i]
    BY <1>5, <1>7
  <2> QED BY <1>3, <2>1
<1> QED BY <1>1, <1>8, <1>9 DEF Publishing

\* The path and the root of a publication are those of its parent, if any.
OfParent(a, e, v, parents) ==
  \/ /\ parents = {} /\ ChainFor(parents) = <<>>
  \/ \E r \in adoptions : /\ parents = {r} /\ r.adopter = a /\ r.experience = e
                          /\ ChainFor(parents) = r.chain
                          /\ RootFor(a, experiences[e].versions[v].content, parents) = r.root

\* A publication is of what its source says, under the path of its parent.
LEMMA PublishedTyped ==
  ASSUME Typed, NEW a \in Agents, NEW t \in Topics, NEW e \in DOMAIN experiences,
         NEW v \in DOMAIN experiences[e].versions,
         NEW parents \in {{}} \cup {{r} : r \in Parents(a, e)},
         NEW lifetime \in Lifetimes
  PROVE  /\ Published(a, t, e, v, parents, lifetime) \in Capsule
         /\ OfParent(a, e, v, parents)
<1> PICK x : x = experiences[e]
  OBVIOUS
<1> PICK content : content = x.versions[v].content
  OBVIOUS
<1>1. x \in Experience /\ e \in 1..MaxExperiences /\ Len(x.versions) \in 1..MaxVersions
  BY SharingBounds DEF Typed, ExperiencesTyped
<1>2. x.versions \in Seq([content : Contents, at : Times])
  BY <1>1 DEF Experience
<1>3. v \in 1..MaxVersions /\ content \in Contents
  <2> PICK S : S = [content : Contents, at : Times]
    OBVIOUS
  <2> PICK w \in Seq(S) : w = x.versions
    BY <1>2
  <2>0. v \in DOMAIN w
    OBVIOUS
  <2>1. v \in 1..Len(w) /\ w[v] \in S
    BY <2>0, ElementsOf
  <2>2. w[v] \in [content : Contents, at : Times] /\ content = w[v].content
    BY <2>1
  <2> QED BY <1>1, <2>1, <2>2, SharingBounds
<1>4. lifetime \in Nat /\ clock \in Times /\ clock + lifetime \in Nat
  BY LifetimeAssumption, TimesAreNat DEF Typed
<1>5. CASE parents = {}
  <2> PICK root : root = <<a, content>>
    OBVIOUS
  <2>1. ChainFor(parents) = <<>> /\ RootFor(a, content, parents) = root
    BY <1>5 DEF ChainFor, RootFor, OwnRoot
  <2>2. <<>> \in Seq(1..MaxCapsules) /\ root \in Agents \X Contents
    BY <1>3
  <2>3. Published(a, t, e, v, parents, lifetime) \in Capsule
    BY <1>1, <1>3, <1>4, <2>1, <2>2 DEF Published, Capsule
  <2> QED BY <1>5, <2>1, <2>3 DEF OfParent
<1>6. CASE parents # {}
  <2> PICK r \in adoptions : parents = {r} /\ r.adopter = a /\ r.experience = e
    BY <1>6 DEF Parents
  <2>1. (CHOOSE q \in parents : TRUE) = r
    OBVIOUS
  <2>2. ChainFor(parents) = r.chain /\ RootFor(a, content, parents) = r.root
    BY <1>6, <2>1 DEF ChainFor, RootFor
  <2>3. r.chain \in Seq(1..MaxCapsules) /\ r.root \in Agents \X Contents
    BY DEF Typed, AdoptionsTyped, Adoption
  <2>4. Published(a, t, e, v, parents, lifetime) \in Capsule
    BY <1>1, <1>3, <1>4, <2>2, <2>3 DEF Published, Capsule
  <2>5. RootFor(a, experiences[e].versions[v].content, parents) = r.root
    BY <2>2
  <2> QED BY <2>2, <2>4, <2>5 DEF OfParent
<1> QED BY <1>5, <1>6

\* Nobody has judged a capsule that is not there yet.
LEMMA NewCapsuleUnjudged ==
  ASSUME VerdictsTyped, CapsulesTyped, NEW x \in Capsule, capsules' = Append(capsules, x),
         UNCHANGED <<feedback, reputation>>
  PROVE  VerdictsTyped'
<1> PICK n \in Nat : n = Len(capsules) /\ DOMAIN capsules = 1..n
  BY DEF CapsulesTyped
<1>1. DOMAIN capsules' = 1..n + 1 /\ \A k \in 1..n : capsules'[k] = capsules[k]
  BY DEF CapsulesTyped
<1>2. ASSUME NEW a, NEW k
      PROVE  LatestFeedback(a, k)' = LatestFeedback(a, k)
  BY DEF LatestFeedback, Streams
<1>3. ASSUME NEW a
      PROVE  LatestFeedback(a, n + 1) = "none"
  <2>1. \A f \in DOMAIN feedback : feedback[f].capsule # n + 1
    BY DEF VerdictsTyped
  <2>2. Streams(a, n + 1) = {}
    BY <2>1 DEF Streams
  <2> QED BY <2>2 DEF LatestFeedback
<1>4. ASSUME NEW s, NEW a, NEW v \in Verdicts
      PROVE  Effective(s, a, v)' = Effective(s, a, v)
  <2>1. v # "none"
    BY DEF Verdicts
  <2>2. ASSUME NEW k \in 1..n + 1
        PROVE  (capsules'[k].publisher = s /\ LatestFeedback(a, k) = v)
                 <=> (k \in 1..n /\ capsules[k].publisher = s /\ LatestFeedback(a, k) = v)
    <3>1. CASE k = n + 1
      BY <1>3, <2>1, <3>1
    <3>2. CASE k # n + 1
      <4>1. k \in 1..n
        BY <3>2
      <4> QED BY <1>1, <4>1
    <3> QED BY <3>1, <3>2
  <2>3. Effective(s, a, v)' = {k \in 1..n + 1 : capsules'[k].publisher = s
                                               /\ LatestFeedback(a, k) = v}
    BY <1>1, <1>2 DEF Effective
  <2>4. Effective(s, a, v) = {k \in 1..n : capsules[k].publisher = s
                                          /\ LatestFeedback(a, k) = v}
    BY DEF Effective
  <2> QED BY <2>2, <2>3, <2>4
<1>5. ASSUME NEW s, NEW a
      PROVE  CountsOf(s, a)' = CountsOf(s, a)
  BY DEF CountsOf
<1>6. \A s \in Agents, a \in Agents : Counted(s, a)'
  BY <1>4, <1>5 DEF VerdictsTyped, Counted, Verdicts
<1>7. \A f \in DOMAIN feedback' : feedback'[f].capsule \in DOMAIN capsules'
  BY <1>1 DEF VerdictsTyped
<1> QED BY <1>6, <1>7 DEF VerdictsTyped

\* The routes of a new capsule.
LEMMA PendingTyped ==
  ASSUME Typed, NEW k, k = Len(capsules) + 1, Len(ledger) \in Nat,
         NEW n \in Nat, NEW recipients \in [1..n -> Agents]
  PROVE  /\ Pending(k, recipients) \in [DOMAIN Pending(k, recipients) -> Route]
         /\ DOMAIN Pending(k, recipients) \subseteq ((DOMAIN capsules) \cup {k}) \X Agents
         /\ DOMAIN inbox \subseteq DOMAIN Pending(k, recipients)
         /\ \A y \in DOMAIN inbox : Pending(k, recipients)[y] = inbox[y]
<1> PICK D : D = DOMAIN inbox \cup {<<k, recipients[i]>> : i \in 1..n}
  OBVIOUS
<1> PICK m \in Nat : m = Len(ledger) + 1
  OBVIOUS
<1> PICK g : g = Pending(k, recipients)
  OBVIOUS
<1>1. /\ DOMAIN g = D
      /\ g = [x \in D |-> IF x \in DOMAIN inbox THEN inbox[x]
                          ELSE [state |-> "pending",
                                event |-> m + (CHOOSE i \in 1..n : recipients[i] = x[2])]]
  BY DEF Pending
<1>2. \A y \in DOMAIN inbox : g[y] = inbox[y]
  BY <1>1
<1>3. ASSUME NEW x \in D
      PROVE  g[x] \in Route
  <2>1. CASE x \in DOMAIN inbox
    BY <1>2, <2>1 DEF Typed, RoutesTyped
  <2>2. CASE x \notin DOMAIN inbox
    <3>1. PICK i \in 1..n : x = <<k, recipients[i]>>
      BY <2>2
    <3>2. x[2] = recipients[i]
      BY <3>1
    <3> PICK j : j = (CHOOSE q \in 1..n : recipients[q] = x[2])
      OBVIOUS
    <3>3. j \in 1..n
      BY <3>2
    <3>4. g[x] = [state |-> "pending", event |-> m + j]
      BY <1>1, <2>2
    <3> QED BY <3>3, <3>4 DEF Route
  <2> QED BY <2>1, <2>2
<1>4. g \in [D -> Route]
  BY <1>1, <1>3
<1>5. D \subseteq ((DOMAIN capsules) \cup {k}) \X Agents
  BY DEF Typed, RoutesTyped
<1> QED BY <1>1, <1>2, <1>4, <1>5

LEMMA PublishTyped ==
  ASSUME Typed, NEW a \in Agents, NEW t \in Topics, NEW e \in DOMAIN experiences,
         NEW v \in DOMAIN experiences[e].versions,
         NEW parents \in {{}} \cup {{r} : r \in Parents(a, e)},
         NEW lifetime \in Lifetimes, PublishCapsule(a, t, e, v, parents, lifetime)
  PROVE  Typed'
<1> PICK c \in Nat : c = Len(capsules) /\ DOMAIN capsules = 1..c
  BY DEF Typed, CapsulesTyped
<1> PICK k : k = c + 1
  OBVIOUS
<1> PICK n \in Nat : SetToSeq(EligibleSubscribers(t, a)) \in [1..n -> Agents]
  BY RecipientsListed
<1> PICK recipients \in [1..n -> Agents] : recipients = SetToSeq(EligibleSubscribers(t, a))
  OBVIOUS
<1> PICK x : x = Published(a, t, e, v, parents, lifetime)
  OBVIOUS
<1> PICK drafts : drafts = PublicationDrafts(k, recipients)
  OBVIOUS
<1>1. /\ capsules' = Append(capsules, x)
      /\ statuses' = Append(statuses, [status |-> "active", event |-> Len(ledger) + 1])
      /\ inbox' = Pending(k, recipients)
      /\ \E p \in Readings : Commit(p[1], p[2], clock, drafts)
  BY DEF PublishCapsule, PublicationDrafts
<1>2. UNCHANGED <<topics, subscriptions, experiences, temperature, adoptions,
                  feedback, reputation>> /\ c < MaxCapsules
  BY DEF PublishCapsule
<1>3. IsLog(drafts)
  BY PublicationLog DEF Publishing
<1>4. /\ clock' \in Times /\ LedgerTyped' /\ DOMAIN ledger \subseteq DOMAIN ledger'
      /\ Len(ledger) \in Nat
  <2>1. clock \in Times
    BY DEF Typed
  <2> QED BY <1>1, <1>3, <2>1, CommandTyped
<1>5. x \in Capsule
  BY PublishedTyped
<1>6. CapsulesTyped'
  <2>1. capsules' \in Seq(Capsule) /\ Len(capsules') = c + 1 /\ DOMAIN capsules' = 1..c + 1
    BY <1>1, <1>5 DEF Typed, CapsulesTyped
  <2> PICK y : y = [status |-> "active", event |-> Len(ledger) + 1]
    OBVIOUS
  <2>2. y \in CapsuleState
    BY <1>4 DEF CapsuleState
  <2>3. statuses \in [1..c -> CapsuleState]
    BY DEF Typed, CapsulesTyped
  <2>4. statuses \in Seq(CapsuleState) /\ Len(statuses) = c
    <3>1. [1..c -> CapsuleState] \subseteq Seq(CapsuleState)
      BY SeqDef
    <3>2. statuses \in Seq(CapsuleState)
      BY <2>3, <3>1
    <3> QED BY <2>3, <3>2, LenProperties
  <2>5. Append(statuses, y) \in Seq(CapsuleState) /\ Len(Append(statuses, y)) = c + 1
    BY <2>2, <2>4
  <2>6. statuses' \in [1..c + 1 -> CapsuleState]
    BY <1>1, <2>5, LenProperties
  <2>7. c + 1 <= MaxCapsules
    BY <1>2, SharingBounds
  <2> QED BY <2>1, <2>6, <2>7 DEF CapsulesTyped
<1>7. RoutesTyped'
  <2>1. /\ inbox' \in [DOMAIN inbox' -> Route]
        /\ DOMAIN inbox' \subseteq ((DOMAIN capsules) \cup {k}) \X Agents
    BY <1>1, <1>4, PendingTyped
  <2>2. DOMAIN capsules' = (DOMAIN capsules) \cup {k}
    BY <1>1, <1>5 DEF Typed, CapsulesTyped
  <2> QED BY <2>1, <2>2 DEF RoutesTyped
<1>8. VerdictsTyped'
  BY <1>1, <1>2, <1>5, NewCapsuleUnjudged DEF Typed
<1> QED BY <1>2, <1>4, <1>6, <1>7, <1>8, PartsKept DEF Typed

LEMMA RetractTyped ==
  ASSUME Typed, NEW k \in DOMAIN capsules, RetractCapsule(k)
  PROVE  Typed'
<1> PICK drafts : drafts = <<Draft("capsule.retracted", "capsule", k, {})>>
  OBVIOUS
<1> PICK p \in Readings : Commit(p[1], p[2], p[1], drafts)
  BY DEF RetractCapsule
<1>1. IsLog(drafts) /\ p[1] \in Times
  BY LogOne, ReadingTyped
<1>2. /\ clock' \in Times /\ LedgerTyped' /\ DOMAIN ledger \subseteq DOMAIN ledger'
      /\ Len(ledger) \in Nat
  BY <1>1, CommandTyped
<1>3. UNCHANGED <<topics, subscriptions, experiences, temperature, capsules,
                  inbox, adoptions, feedback, reputation>>
  BY DEF RetractCapsule
<1>4. CapsulesTyped'
  <2> PICK y : y = [status |-> "retracted", event |-> Len(ledger) + 1]
    OBVIOUS
  <2>1. y \in CapsuleState
    BY <1>2 DEF CapsuleState
  <2>2. statuses' = [statuses EXCEPT ![k] = y]
    BY DEF RetractCapsule
  <2> QED BY <1>3, <2>1, <2>2 DEF Typed, CapsulesTyped
<1> QED BY <1>2, <1>3, <1>4, PartsKept DEF Typed

\* The end of a route.
LEMMA TerminalTyped ==
  ASSUME Typed, NEW k, NEW a, <<k, a>> \in DOMAIN inbox, NEW state \in {"adopted", "rejected"},
         NEW drafts, IsLog(drafts), inbox' = Terminal(k, a, state, drafts),
         UNCHANGED capsules
  PROVE  RoutesTyped'
<1> PICK n \in Nat : n = Len(ledger) + Len(drafts)
  <2>1. Len(ledger) \in Nat /\ Len(drafts) \in Nat
    BY LogLength DEF Typed, LedgerTyped
  <2> QED BY <2>1
<1> PICK y, x : y = [state |-> state, event |-> n] /\ x = <<k, a>>
  OBVIOUS
<1>1. y \in Route /\ x \in DOMAIN inbox
  BY DEF Route
<1>2. inbox' = [inbox EXCEPT ![x] = y]
  BY DEF Terminal
<1>3. inbox \in [DOMAIN inbox -> Route] /\ DOMAIN inbox \subseteq (DOMAIN capsules) \X Agents
  BY DEF Typed, RoutesTyped
<1> QED BY <1>1, <1>2, <1>3 DEF RoutesTyped

\* A route is of a capsule and one of the agents.
LEMMA RouteOf ==
  ASSUME Typed, NEW k, NEW a, <<k, a>> \in DOMAIN inbox
  PROVE  /\ k \in DOMAIN capsules /\ k \in 1..MaxCapsules /\ a \in Agents
         /\ capsules[k] \in Capsule /\ capsules[k].publisher \in Agents
<1>1. k \in DOMAIN capsules /\ a \in Agents
  BY DEF Typed, RoutesTyped
<1>2. capsules[k] \in Capsule /\ k \in 1..MaxCapsules
  BY <1>1, SharingBounds DEF Typed, CapsulesTyped
<1> QED BY <1>1, <1>2 DEF Capsule

LEMMA CountsTyped ==
  ASSUME Typed, NEW s, NEW a
  PROVE  /\ CountsOf(s, a) \in Counts
         /\ ObserverTrust(CountsOf(s, a)) \in Nat \X Nat
<1>1. NoCounts \in Counts
  BY DEF NoCounts, Counts
<1>2. CountsOf(s, a) \in Counts
  BY <1>1 DEF CountsOf, Typed, VerdictsTyped
<1> PICK c \in Counts : c = CountsOf(s, a)
  BY <1>2
<1>3. c.useful \in Nat /\ c.refuted \in Nat /\ c.harmful \in Nat
  BY DEF Counts
<1>4. 2 + c.useful \in Nat /\ 2 + c.refuted + c.harmful \in Nat
  BY <1>3
<1>5. ObserverTrust(c) \in Nat \X Nat
  BY <1>4 DEF ObserverTrust
<1> QED BY <1>2, <1>5

\* The row of an adoption.
LEMMA RecordTyped ==
  ASSUME Typed, NEW k, NEW a, <<k, a>> \in DOMAIN inbox, NEW e \in 1..MaxExperiences,
         NEW corroborated \in BOOLEAN, NEW h \in Times
  PROVE  Record(k, a, e, corroborated, h) \in Adoption
<1>1. /\ k \in 1..MaxCapsules /\ a \in Agents /\ capsules[k] \in Capsule
  BY RouteOf
<1> PICK x \in Capsule : x = capsules[k]
  BY <1>1
<1>2. x.chain \in Seq(1..MaxCapsules) /\ x.root \in Agents \X Contents
  BY DEF Capsule
<1> PICK path \in Seq(1..MaxCapsules) : path = x.chain
  BY <1>2
<1>4. Append(path, k) \in Seq(1..MaxCapsules)
  <2>1. k \in 1..MaxCapsules
    BY <1>1
  <2> QED BY <2>1, AppendOf
<1> PICK chain \in Seq(1..MaxCapsules) : chain = Append(path, k)
  BY <1>4
<1> PICK trust \in Nat \X Nat : trust = ObserverTrust(CountsOf(x.publisher, a))
  BY CountsTyped
<1>3. Record(k, a, e, corroborated, h) =
        [adopter |-> a, capsule |-> k, experience |-> e, trust |-> trust, chain |-> chain,
         root |-> x.root, corroborated |-> corroborated, at |-> h]
  BY DEF Record
<1> QED BY <1>1, <1>2, <1>3 DEF Adoption

LEMMA CompleteTyped ==
  ASSUME Typed, NEW k, NEW a, <<k, a>> \in DOMAIN inbox, NEW p \in Readings,
         NEW record \in Adoption, NEW drafts, IsLog(drafts),
         Complete(k, a, p, record, drafts), UNCHANGED capsules
  PROVE  /\ clock' \in Times /\ LedgerTyped' /\ DOMAIN ledger \subseteq DOMAIN ledger'
         /\ RoutesTyped' /\ AdoptionsTyped'
<1>1. /\ adoptions' = adoptions \cup {record}
      /\ inbox' = Terminal(k, a, "adopted", drafts)
      /\ Commit(p[1], p[2], p[1], drafts)
  BY DEF Complete
<1>2. p[1] \in Times
  BY ReadingTyped
<1>3. clock' \in Times /\ LedgerTyped' /\ DOMAIN ledger \subseteq DOMAIN ledger'
  BY <1>1, <1>2, CommandTyped
<1>4. RoutesTyped'
  BY <1>1, TerminalTyped
<1>5. AdoptionsTyped'
  BY <1>1 DEF Typed, AdoptionsTyped
<1> QED BY <1>3, <1>4, <1>5

\* The log of an adoption ends with its own event.
LEMMA AdoptionLog ==
  ASSUME NEW t, IsLog(t), NEW k, NEW a, NEW e, NEW created, NEW corroborated
  PROVE  /\ IsLog(Append(t, Adopted(k, a, e, created, corroborated)))
         /\ Len(Append(t, Adopted(k, a, e, created, corroborated))) = Len(t) + 1
         /\ Append(t, Adopted(k, a, e, created, corroborated))[Len(t) + 1].type
              = "capsule.adopted"
         /\ \A i \in 1..Len(t) :
              Append(t, Adopted(k, a, e, created, corroborated))[i] = t[i]
<1> PICK x : x = Adopted(k, a, e, created, corroborated)
  OBVIOUS
<1>1. x.type = "capsule.adopted"
  BY DEF Adopted, Draft
<1> QED BY <1>1, LogAppend

LEMMA CorroborationLog ==
  ASSUME NEW e, NEW k, NEW t, t = CorroborateFromCapsule(e, k)
  PROVE  /\ IsLog(t) /\ Len(t) \in 1..2
         /\ \A i \in 1..Len(t) : t[i].type \in {"experience.corroborated",
                                               "experience.temperature_changed"}
<1> DEFINE before == Snapshot(e)
           p == Draft("experience.corroborated", "experience", e,
                      [before |-> before, after |-> before, capsule |-> k])
           q == Draft("experience.temperature_changed", "experience", e,
                      [before |-> before, after |-> [before EXCEPT !.temperature = "active"]])
<1>1. p.type = "experience.corroborated" /\ q.type = "experience.temperature_changed"
  BY DEF Draft
<1>2. CASE temperature[e] # "cold"
  <2>1. PICK x : t = <<x>> /\ x.type = "experience.corroborated"
    <3>1. t = <<p>> \o <<>>
      BY <1>2 DEF CorroborateFromCapsule
    <3> HIDE DEF p
    <3>2. t = <<p>>
      BY <3>1
    <3> QED BY <1>1, <3>2
  <2>2. IsLog(t) /\ Len(t) = 1 /\ t[1] = x
    BY <2>1, LogOne
  <2> QED BY <2>1, <2>2
<1>3. CASE temperature[e] = "cold"
  <2>1. PICK x, y : /\ t = <<x>> \o <<y>>
                    /\ x.type = "experience.corroborated"
                    /\ y.type = "experience.temperature_changed"
    <3>1. t = <<p>> \o <<q>>
      BY <1>3 DEF CorroborateFromCapsule
    <3> QED BY <1>1, <3>1
  <2>2. IsLog(t) /\ Len(t) = 2 /\ t[1] = x /\ t[2] = y
    BY <2>1, LogPair
  <2>3. x.type = "experience.corroborated" /\ y.type = "experience.temperature_changed"
    BY <2>1
  <2> QED BY <2>2, <2>3
<1> QED BY <1>2, <1>3

\* The drafts of an adoption: none publishes, and the one that adopts says
\* who adopted what.
Adopting(drafts, k, a) ==
  \A i \in 1..Len(drafts) :
    /\ drafts[i].type # "capsule.published"
    /\ drafts[i].type = "capsule.adopted" => drafts[i].of[2] = <<k, a>>

NewAdoptionDrafts(k, a, e, content) ==
  CreationDrafts(e, content) \o <<Adopted(k, a, e, TRUE, FALSE)>>

LEMMA NewAdoptionLog ==
  ASSUME NEW k, NEW a, NEW e, NEW content, NEW drafts,
         drafts = NewAdoptionDrafts(k, a, e, content)
  PROVE  IsLog(drafts) /\ Len(drafts) \in 1..3 /\ Adopting(drafts, k, a)
<1>1. PICK t, x : /\ drafts = t \o <<x>> /\ x.type = "capsule.adopted"
                  /\ x.of[2] = <<k, a>>
                  /\ IsLog(t) /\ Len(t) = 2 /\ t[1].type = "experience.created"
                  /\ t[2].type = "experience.version_created"
  <2>1. /\ Adopted(k, a, e, TRUE, FALSE).type = "capsule.adopted"
        /\ Adopted(k, a, e, TRUE, FALSE).of[2] = <<k, a>>
    BY DEF Adopted, Draft
  <2> QED BY <2>1, CreationLog DEF NewAdoptionDrafts
<1>2. IsTriple(drafts, t[1], t[2], x)
  <2>1. IsLog(t) /\ Len(t) \in {2} /\ drafts = t \o <<x>>
    BY <1>1
  <2>2. IsTriple(t \o <<x>>, t[1], t[2], x)
    BY <2>1, LogTriple
  <2> QED BY <2>1, <2>2
<1>3. IsLog(drafts) /\ Len(drafts) = 3
      /\ drafts[1] = t[1] /\ drafts[2] = t[2] /\ drafts[3] = x
  BY <1>2 DEF IsTriple
<1>4. Adopting(drafts, k, a)
  <2>1. \A i \in 1..3 : i = 1 \/ i = 2 \/ i = 3
    OBVIOUS
  <2>2. /\ t[1].type = "experience.created" /\ t[2].type = "experience.version_created"
        /\ x.type = "capsule.adopted" /\ x.of[2] = <<k, a>>
    BY <1>1
  <2> QED BY <1>3, <2>1, <2>2 DEF Adopting
<1> QED BY <1>3, <1>4

LEMMA AdoptAsNewTyped ==
  ASSUME Typed, NEW k, NEW a, <<k, a>> \in DOMAIN inbox, NEW p \in Readings,
         AdoptAsNew(k, a, p),
         UNCHANGED <<topics, subscriptions, capsules, statuses, feedback, reputation>>
  PROVE  Typed'
<1> PICK n \in Nat : n = Len(experiences)
  BY DEF Typed, ExperiencesTyped
<1> PICK content : content = capsules[k].content
  OBVIOUS
<1> PICK drafts : drafts = NewAdoptionDrafts(k, a, n + 1, content)
  OBVIOUS
<1> PICK record : record = Record(k, a, n + 1, FALSE, p[1])
  OBVIOUS
<1>1. /\ n + 1 <= MaxExperiences
      /\ Creation(a, "adopted_capsule", content, p[1])
      /\ Complete(k, a, p, record, drafts)
  BY DEF AdoptAsNew, NewAdoptionDrafts
<1>2. n < MaxExperiences /\ n + 1 \in 1..MaxExperiences
  BY <1>1, SharingBounds
<1>3. IsLog(drafts) /\ p[1] \in Times
  BY NewAdoptionLog, ReadingTyped
<1>4. record \in Adoption
  BY <1>2, <1>3, RecordTyped
<1>5. /\ clock' \in Times /\ LedgerTyped' /\ DOMAIN ledger \subseteq DOMAIN ledger'
      /\ RoutesTyped' /\ AdoptionsTyped'
  BY <1>1, <1>3, <1>4, CompleteTyped
<1>6. ExperiencesTyped'
  <2>1. a \in Agents /\ content \in Contents
    BY RouteOf DEF Capsule
  <2>2. "adopted_capsule" \in Origins /\ ExperiencesTyped
    BY DEF Origins, Typed
  <2> QED BY <1>1, <1>2, <1>3, <2>1, <2>2, CreationTyped
<1> QED BY <1>5, <1>6, PartsKept DEF Typed

EquivalentDrafts(k, a, e) ==
  LET corroborates == ~RootIsRepresented(e, capsules[k].root)
      drafts == IF corroborates THEN CorroborateFromCapsule(e, k) ELSE <<>>
  IN Append(drafts, Adopted(k, a, e, FALSE, corroborates))

LEMMA EquivalentLog ==
  ASSUME NEW k, NEW a, NEW e, NEW drafts, drafts = EquivalentDrafts(k, a, e)
  PROVE  IsLog(drafts) /\ Len(drafts) \in 1..3 /\ Adopting(drafts, k, a)
<1>1. PICK t, x : /\ drafts = Append(t, x) /\ x.type = "capsule.adopted"
                  /\ x.of[2] = <<k, a>>
                  /\ IsLog(t) /\ Len(t) \in 0..2
                  /\ \A i \in 1..Len(t) : t[i].type \notin {"capsule.published", "capsule.adopted"}
  <2> DEFINE corroborates == ~RootIsRepresented(e, capsules[k].root)
             u == IF corroborates THEN CorroborateFromCapsule(e, k) ELSE <<>>
             y == Adopted(k, a, e, FALSE, corroborates)
  <2>1. drafts = Append(u, y) /\ y.type = "capsule.adopted" /\ y.of[2] = <<k, a>>
    BY DEF EquivalentDrafts, Adopted, Draft
  <2>2. /\ IsLog(u) /\ Len(u) \in 0..2
        /\ \A i \in 1..Len(u) : u[i].type \notin {"capsule.published", "capsule.adopted"}
    <3>1. CASE corroborates
      <4>1. /\ IsLog(u) /\ Len(u) \in 1..2
            /\ \A i \in 1..Len(u) : u[i].type \in {"experience.corroborated",
                                                   "experience.temperature_changed"}
        BY <3>1, CorroborationLog
      <4> QED BY <4>1
    <3>2. CASE ~corroborates
      <4>1. u = <<>>
        BY <3>2
      <4>2. <<>> \in Seq({1})
        OBVIOUS
      <4>3. IsLog(u) /\ Len(u) = 0
        BY <4>1, <4>2, LogOf
      <4> QED BY <4>3
    <3> QED BY <3>1, <3>2
  <2> HIDE DEF u, y
  <2> QED BY <2>1, <2>2
<1>2. /\ IsLog(Append(t, x)) /\ Len(Append(t, x)) = Len(t) + 1
      /\ \A i \in 1..Len(t) : Append(t, x)[i] = t[i]
      /\ Append(t, x)[Len(t) + 1] = x
  <2>1. IsLog(t)
    BY <1>1
  <2> QED BY <2>1, LogAppend
<1>3. Len(drafts) \in 1..3 /\ Len(drafts) = Len(t) + 1
  BY <1>1, <1>2
<1>4. Adopting(drafts, k, a)
  <2>1. \A i \in 1..Len(t) + 1 : i \in 1..Len(t) \/ i = Len(t) + 1
    BY <1>1
  <2>2. \A i \in 1..Len(t) : drafts[i].type \notin {"capsule.published", "capsule.adopted"}
    BY <1>1, <1>2
  <2>3. drafts[Len(t) + 1].type = "capsule.adopted" /\ drafts[Len(t) + 1].of[2] = <<k, a>>
    BY <1>1, <1>2
  <2> QED BY <1>3, <2>1, <2>2, <2>3 DEF Adopting
<1> QED BY <1>1, <1>2, <1>3, <1>4

LEMMA AdoptEquivalentTyped ==
  ASSUME Typed, NEW k, NEW a, <<k, a>> \in DOMAIN inbox, NEW p \in Readings,
         NEW e \in DOMAIN experiences, AdoptEquivalent(k, a, e, p),
         UNCHANGED <<topics, subscriptions, capsules, statuses, feedback, reputation>>
  PROVE  Typed'
<1> PICK corroborates \in BOOLEAN : corroborates = ~RootIsRepresented(e, capsules[k].root)
  OBVIOUS
<1> PICK drafts : drafts = EquivalentDrafts(k, a, e)
  OBVIOUS
<1> PICK record : record = Record(k, a, e, corroborates, p[1])
  OBVIOUS
<1>1. /\ UNCHANGED experiences
      /\ temperature' = IF corroborates /\ temperature[e] = "cold"
                          THEN [temperature EXCEPT ![e] = "active"] ELSE temperature
      /\ Complete(k, a, p, record, drafts)
  BY DEF AdoptEquivalent, EquivalentDrafts
<1>2. IsLog(drafts) /\ p[1] \in Times
  BY EquivalentLog, ReadingTyped
<1>3. record \in Adoption
  <2>1. e \in 1..MaxExperiences
    BY SharingBounds DEF Typed, ExperiencesTyped
  <2> QED BY <1>2, <2>1, RecordTyped
<1>4. /\ clock' \in Times /\ LedgerTyped' /\ DOMAIN ledger \subseteq DOMAIN ledger'
      /\ RoutesTyped' /\ AdoptionsTyped'
  BY <1>1, <1>2, <1>3, CompleteTyped
<1>5. ExperiencesTyped'
  BY <1>1 DEF Typed, ExperiencesTyped
<1> QED BY <1>4, <1>5, PartsKept DEF Typed

LEMMA RejectTyped ==
  ASSUME Typed, NEW k, NEW a, <<k, a>> \in DOMAIN inbox, NEW p \in Readings,
         EndByRejection(k, a, p)
  PROVE  Typed'
<1> PICK drafts : drafts = <<Draft("capsule.rejected", "inbox_item", <<k, a>>, {})>>
  OBVIOUS
<1>1. /\ inbox' = Terminal(k, a, "rejected", drafts)
      /\ UNCHANGED <<topics, subscriptions, experiences, temperature, capsules,
                     statuses, adoptions, feedback, reputation>>
      /\ Commit(p[1], p[2], p[1], drafts)
  BY DEF EndByRejection
<1>2. IsLog(drafts) /\ p[1] \in Times
  BY LogOne, ReadingTyped
<1>3. clock' \in Times /\ LedgerTyped' /\ DOMAIN ledger \subseteq DOMAIN ledger'
  BY <1>1, <1>2, CommandTyped
<1>4. RoutesTyped'
  BY <1>1, <1>2, TerminalTyped
<1> QED BY <1>1, <1>3, <1>4, PartsKept DEF Typed
-----------------------------------------------------------------------------
(* Verdicts.  The latest revision of a stream is the one that counts.      *)

\* A set of positions has a last one.
LEMMA LastPosition ==
  ASSUME NEW n \in Nat, NEW S, S \subseteq 1..n, S # {}
  PROVE  \E f \in S : \A g \in S : g <= f
<1> DEFINE T == {n - f : f \in S}
<1>1. T \subseteq Nat /\ T # {}
  <2>1. \A f \in S : n - f \in Nat
    OBVIOUS
  <2> QED BY <2>1
<1>2. PICK d \in T : \A c \in T : ~(<<c, d>> \in OpToRel(<, Nat))
  <2>1. IsWellFoundedOn(OpToRel(<, Nat), Nat)
    BY NatLessThanWellFounded
  <2> HIDE DEF T
  <2> QED BY <1>1, <2>1, WFMin
<1>3. PICK f \in S : d = n - f
  OBVIOUS
<1>4. \A g \in S : g <= f
  <2> TAKE g \in S
  <2>1. n - g \in T /\ n - g \in Nat /\ d \in Nat
    BY <1>1
  <2>2. ~(n - g < d)
    BY <1>2, <2>1 DEF OpToRel
  <2>3. g \in 1..n /\ f \in 1..n
    OBVIOUS
  <2> QED BY <1>3, <2>2, <2>3
<1> QED BY <1>4

\* A new revision of the verdict of an observer on a capsule.
Revises(k, a, x) ==
  /\ x \in Revision /\ x.observer = a /\ x.capsule = k
  /\ feedback' = Append(feedback, x) /\ UNCHANGED capsules

\* What it changes of the latest verdicts.
LEMMA LatestRevised ==
  ASSUME VerdictsTyped, NEW k, NEW a, NEW x, Revises(k, a, x)
  PROVE  /\ LatestFeedback(a, k)' = x.verdict
         /\ \A b, j : (b # a \/ j # k) => LatestFeedback(b, j)' = LatestFeedback(b, j)
<1> PICK m \in Nat : m = Len(feedback) /\ DOMAIN feedback = 1..m
  BY DEF VerdictsTyped
<1>1. /\ DOMAIN feedback' = 1..m + 1 /\ feedback'[m + 1] = x
      /\ \A f \in 1..m : feedback'[f] = feedback[f]
      /\ x.observer = a /\ x.capsule = k
  BY DEF VerdictsTyped, Revises
<1>2. LatestFeedback(a, k)' = x.verdict
  <2> PICK S : S = {f \in 1..m + 1 : feedback'[f].observer = a /\ feedback'[f].capsule = k}
    OBVIOUS
  <2>1. Streams(a, k)' = S
    BY <1>1 DEF Streams
  <2>2. m + 1 \in S /\ S \subseteq 1..m + 1 /\ \A g \in S : g <= m + 1
    BY <1>1
  <2> PICK f : f = (CHOOSE h \in S : \A g \in S : g <= h)
    OBVIOUS
  <2>3. f \in S /\ \A g \in S : g <= f
    BY <2>2
  <2>4. f = m + 1
    <3>1. f \in 1..m + 1
      BY <2>2, <2>3
    <3> QED BY <2>2, <2>3, <3>1
  <2>5. LatestFeedback(a, k)' = feedback'[f].verdict
    BY <2>1, <2>2 DEF LatestFeedback
  <2> QED BY <1>1, <2>4, <2>5
<1>3. ASSUME NEW b, NEW j, b # a \/ j # k
      PROVE  LatestFeedback(b, j)' = LatestFeedback(b, j)
  <2>1. ASSUME NEW f \in 1..m + 1
        PROVE  (feedback'[f].observer = b /\ feedback'[f].capsule = j)
                 <=> (f \in 1..m /\ feedback[f].observer = b /\ feedback[f].capsule = j)
    <3>1. CASE f = m + 1
      BY <1>1, <1>3, <3>1
    <3>2. CASE f # m + 1
      <4>1. f \in 1..m
        BY <3>2
      <4> QED BY <1>1, <4>1
    <3> QED BY <3>1, <3>2
  <2>2. Streams(b, j)' = {f \in 1..m + 1 : feedback'[f].observer = b
                                           /\ feedback'[f].capsule = j}
    BY <1>1 DEF Streams
  <2>3. Streams(b, j) = {f \in 1..m : feedback[f].observer = b /\ feedback[f].capsule = j}
    BY DEF Streams
  <2> PICK S : S = Streams(b, j)
    OBVIOUS
  <2>4. Streams(b, j)' = S /\ S \subseteq 1..m
    BY <2>1, <2>2, <2>3
  <2>5. CASE S = {}
    BY <2>4, <2>5 DEF LatestFeedback
  <2>6. CASE S # {}
    <3> PICK f : f = (CHOOSE h \in S : \A g \in S : g <= h)
      OBVIOUS
    <3>1. f \in S
      BY <2>4, <2>6, LastPosition
    <3>2. LatestFeedback(b, j)' = feedback'[f].verdict
      BY <2>4, <2>6 DEF LatestFeedback
    <3>3. LatestFeedback(b, j) = feedback[f].verdict
      BY <2>4, <2>6 DEF LatestFeedback
    <3> QED BY <1>1, <2>4, <3>1, <3>2, <3>3
  <2> QED BY <2>5, <2>6
<1> QED BY <1>2, <1>3

\* What it changes of the effective verdicts.
LEMMA EffectiveRevised ==
  ASSUME VerdictsTyped, CapsulesTyped, NEW k \in DOMAIN capsules, NEW a,
         NEW x, Revises(k, a, x), NEW s, NEW b, NEW v
  PROVE  /\ IsFiniteSet(Effective(s, b, v))
         /\ (s # capsules[k].publisher \/ b # a) => Effective(s, b, v)' = Effective(s, b, v)
         /\ (s = capsules[k].publisher /\ b = a /\ v = x.verdict)
               => Effective(s, b, v)' = Effective(s, b, v) \cup {k}
         /\ (s = capsules[k].publisher /\ b = a /\ v # x.verdict)
               => Effective(s, b, v)' = Effective(s, b, v) \ {k}
<1> PICK n \in Nat : n = Len(capsules) /\ DOMAIN capsules = 1..n
  BY DEF CapsulesTyped
<1>1. IsFiniteSet(Effective(s, b, v))
  <2> PICK E : E = Effective(s, b, v)
    OBVIOUS
  <2>1. E \in SUBSET (1..n) /\ IsFiniteSet(1..n)
    BY FS_Interval DEF Effective
  <2> QED BY <2>1, FS_Subset
<1>2. LatestFeedback(a, k)' = x.verdict
  BY LatestRevised
<1>3. \A c, j : (c # a \/ j # k) => LatestFeedback(c, j)' = LatestFeedback(c, j)
  BY LatestRevised
<1>4. ASSUME s # capsules[k].publisher \/ b # a
      PROVE  Effective(s, b, v)' = Effective(s, b, v)
  <2>1. \A j \in DOMAIN capsules :
          (capsules[j].publisher = s /\ LatestFeedback(b, j)' = v)
            <=> (capsules[j].publisher = s /\ LatestFeedback(b, j) = v)
    BY <1>3, <1>4
  <2> QED BY <2>1 DEF Effective, Revises
<1>5. ASSUME s = capsules[k].publisher, b = a
      PROVE  \A j \in DOMAIN capsules :
               (capsules[j].publisher = s /\ LatestFeedback(b, j)' = v)
                 <=> IF j = k THEN x.verdict = v
                     ELSE capsules[j].publisher = s /\ LatestFeedback(b, j) = v
  BY <1>2, <1>3, <1>5
<1>6. ASSUME s = capsules[k].publisher, b = a, v = x.verdict
      PROVE  Effective(s, b, v)' = Effective(s, b, v) \cup {k}
  <2>1. \A j \in DOMAIN capsules :
          (capsules[j].publisher = s /\ LatestFeedback(b, j)' = v)
            <=> (j = k \/ (capsules[j].publisher = s /\ LatestFeedback(b, j) = v))
    BY <1>5, <1>6
  <2> QED BY <2>1 DEF Effective, Revises
<1>7. ASSUME s = capsules[k].publisher, b = a, v # x.verdict
      PROVE  Effective(s, b, v)' = Effective(s, b, v) \ {k}
  <2>1. \A j \in DOMAIN capsules :
          (capsules[j].publisher = s /\ LatestFeedback(b, j)' = v)
            <=> (j # k /\ capsules[j].publisher = s /\ LatestFeedback(b, j) = v)
    BY <1>5, <1>7
  <2> QED BY <2>1 DEF Effective, Revises
<1> QED BY <1>1, <1>4, <1>6, <1>7

\* Replacing a verdict counts the capsules as they are judged now.
Recounted(s, a, v, previous, verdict) ==
  /\ Cardinality(Effective(s, a, v)') \in Nat
  /\ Cardinality(Effective(s, a, v)')
       = Cardinality(Effective(s, a, v)) - (IF previous = v THEN 1 ELSE 0)
           + (IF verdict = v THEN 1 ELSE 0)

LEMMA CardinalityRevised ==
  ASSUME VerdictsTyped, CapsulesTyped, NEW k \in DOMAIN capsules, NEW a,
         NEW x, Revises(k, a, x), NEW s \in {capsules[k].publisher}, NEW v
  PROVE  Recounted(s, a, v, LatestFeedback(a, k), x.verdict)
<1>0. /\ IsFiniteSet(Effective(s, a, v))
      /\ (v = x.verdict) => Effective(s, a, v)' = Effective(s, a, v) \cup {k}
      /\ (v # x.verdict) => Effective(s, a, v)' = Effective(s, a, v) \ {k}
  BY EffectiveRevised
<1> PICK E, F : E = Effective(s, a, v) /\ F = Effective(s, a, v)'
  OBVIOUS
<1>1. /\ IsFiniteSet(E)
      /\ (v = x.verdict) => F = E \cup {k}
      /\ (v # x.verdict) => F = E \ {k}
  BY <1>0
<1>2. k \in E <=> LatestFeedback(a, k) = v
  BY DEF Effective
<1>3. IsFiniteSet(E \cup {k}) /\ IsFiniteSet(E \ {k})
  BY <1>1, FS_AddElement, FS_RemoveElement
<1>4. IsFiniteSet(F) /\ Cardinality(F) \in Nat /\ Cardinality(E) \in Nat
  BY <1>1, <1>3, FS_CardinalityType
<1> PICK d : d = (IF LatestFeedback(a, k) = v THEN 1 ELSE 0)
  OBVIOUS
<1>5. (d = 1 /\ k \in E) \/ (d = 0 /\ k \notin E)
  BY <1>2
<1> PICK m, n : m = Cardinality(E) /\ n = Cardinality(F)
  OBVIOUS
<1> PICK y : y = (IF x.verdict = v THEN 1 ELSE 0)
  OBVIOUS
<1>6. ASSUME v = x.verdict
      PROVE  n = m - d + y
  <2>1. n = IF k \in E THEN m ELSE m + 1
    BY <1>1, <1>6, FS_AddElement
  <2>2. n = m - d + 1
    BY <1>4, <1>5, <2>1
  <2>3. y = 1
    BY <1>6
  <2> QED BY <2>2, <2>3
<1>7. ASSUME v # x.verdict
      PROVE  n = m - d + y
  <2>1. n = IF k \in E THEN m - 1 ELSE m
    BY <1>1, <1>7, FS_RemoveElement
  <2>2. n = m - d + 0
    BY <1>4, <1>5, <2>1
  <2>3. y = 0
    BY <1>7
  <2> QED BY <2>2, <2>3
<1>8. n \in Nat /\ n = m - d + y
  BY <1>4, <1>6, <1>7
<1> QED BY <1>8 DEF Recounted

\* The verdicts an observer gave a capsule are finitely many: they are places of the feedback.
LEMMA StreamsCounted ==
  ASSUME VerdictsTyped, NEW a, NEW k
  PROVE  Cardinality(Streams(a, k)) \in Nat
<1>1. feedback \in Seq(Revision)
  BY DEF VerdictsTyped
<1>2. Len(feedback) \in Nat /\ DOMAIN feedback = 1..Len(feedback)
  BY <1>1
<1>3. IsFiniteSet(1..Len(feedback))
  BY <1>2, FS_Interval
<1>4. Streams(a, k) \subseteq 1..Len(feedback)
  BY <1>2 DEF Streams
<1>5. IsFiniteSet(Streams(a, k))
  BY <1>3, <1>4, FS_Subset
<1> QED BY <1>5, FS_CardinalityType

LEMMA FeedbackTyped ==
  ASSUME Typed, NEW k, NEW a, <<k, a>> \in DOMAIN inbox, NEW verdict \in Verdicts,
         RecordCapsuleFeedback(k, a, verdict)
  PROVE  Typed'
<1>1. /\ k \in DOMAIN capsules /\ k \in 1..MaxCapsules /\ a \in Agents
      /\ capsules[k].publisher \in Agents
  BY RouteOf
<1> PICK s \in Agents : s = capsules[k].publisher
  BY <1>1
<1> PICK counts \in Counts : counts = CountsOf(s, a)
  BY CountsTyped
<1> PICK previous : previous = LatestFeedback(a, k)
  OBVIOUS
<1>2. /\ UNCHANGED <<topics, subscriptions, experiences, temperature, capsules,
                     statuses, inbox, adoptions>>
      /\ \E p \in Readings :
            /\ feedback' = Append(feedback,
                  [observer |-> a, capsule |-> k,
                   revision |-> Cardinality(Streams(a, k)) + 1,
                   verdict |-> verdict, at |-> p[1]])
            /\ reputation' = Extended(reputation, <<s, a>>,
                                      Replaced(counts, previous, verdict, Len(ledger) + 1))
            /\ \E d : Commit(p[1], p[2], p[1], <<d>>)
  BY DEF RecordCapsuleFeedback
<1> PICK p \in Readings :
      /\ feedback' = Append(feedback,
            [observer |-> a, capsule |-> k, revision |-> Cardinality(Streams(a, k)) + 1,
             verdict |-> verdict, at |-> p[1]])
      /\ reputation' = Extended(reputation, <<s, a>>,
                                Replaced(counts, previous, verdict, Len(ledger) + 1))
      /\ \E d : Commit(p[1], p[2], p[1], <<d>>)
  BY <1>2
<1> PICK d : Commit(p[1], p[2], p[1], <<d>>)
  OBVIOUS
<1> PICK drafts : drafts = <<d>>
  OBVIOUS
<1>3. IsLog(drafts) /\ p[1] \in Times
  BY LogOne, ReadingTyped
<1>4. /\ clock' \in Times /\ LedgerTyped' /\ DOMAIN ledger \subseteq DOMAIN ledger'
      /\ Len(ledger) \in Nat
  BY <1>3, CommandTyped
<1>5. VerdictsTyped /\ CapsulesTyped
  BY DEF Typed
<1> PICK x : x = [observer |-> a, capsule |-> k, revision |-> Cardinality(Streams(a, k)) + 1,
                  verdict |-> verdict, at |-> p[1]]
  OBVIOUS
<1>6. Revises(k, a, x) /\ x.verdict = verdict
  <2>1. Cardinality(Streams(a, k)) \in Nat
    BY <1>5, StreamsCounted
  <2>2. x \in Revision
    BY <1>1, <1>3, <2>1 DEF Revision
  <2>3. x.observer = a /\ x.capsule = k /\ x.verdict = verdict
    OBVIOUS
  <2>4. feedback' = Append(feedback, x) /\ UNCHANGED capsules
    BY <1>2
  <2> QED BY <2>2, <2>3, <2>4 DEF Revises
<1> PICK new : new = Replaced(counts, previous, verdict, Len(ledger) + 1)
  OBVIOUS
<1>7. ASSUME NEW v
      PROVE  /\ Cardinality(Effective(s, a, v)') \in Nat
             /\ Cardinality(Effective(s, a, v)')
                  = Cardinality(Effective(s, a, v))
                      - (IF previous = v THEN 1 ELSE 0) + (IF verdict = v THEN 1 ELSE 0)
  <2>1. Recounted(s, a, v, LatestFeedback(a, k), x.verdict)
    BY <1>1, <1>5, <1>6, CardinalityRevised
  <2> QED BY <1>6, <2>1 DEF Recounted
<1>8. Counted(s, a)
  BY <1>1, <1>5 DEF VerdictsTyped
<1>9. /\ new.useful = Cardinality(Effective(s, a, "useful")')
      /\ new.refuted = Cardinality(Effective(s, a, "refuted")')
      /\ new.harmful = Cardinality(Effective(s, a, "harmful")')
      /\ new = [useful |-> new.useful, refuted |-> new.refuted, harmful |-> new.harmful,
                event |-> Len(ledger) + 1]
  <2>1. /\ counts.useful = Cardinality(Effective(s, a, "useful"))
        /\ counts.refuted = Cardinality(Effective(s, a, "refuted"))
        /\ counts.harmful = Cardinality(Effective(s, a, "harmful"))
    BY <1>8 DEF Counted
  <2>2. new = [useful |-> new.useful, refuted |-> new.refuted, harmful |-> new.harmful,
               event |-> Len(ledger) + 1]
    BY DEF Replaced
  <2>3. new.useful = Cardinality(Effective(s, a, "useful")')
    BY <1>7, <2>1 DEF Replaced
  <2>4. new.refuted = Cardinality(Effective(s, a, "refuted")')
    BY <1>7, <2>1 DEF Replaced
  <2>5. new.harmful = Cardinality(Effective(s, a, "harmful")')
    BY <1>7, <2>1 DEF Replaced
  <2> QED BY <2>2, <2>3, <2>4, <2>5
<1>10. new \in Counts
  <2>1. new.useful \in Nat /\ new.refuted \in Nat /\ new.harmful \in Nat
    BY <1>7, <1>9
  <2>2. Len(ledger) + 1 \in Nat
    BY <1>4
  <2> QED BY <1>9, <2>1, <2>2 DEF Counts
<1> PICK pair : pair = <<s, a>>
  OBVIOUS
<1>11. /\ DOMAIN reputation' = DOMAIN reputation \cup {pair}
       /\ \A q \in DOMAIN reputation' :
             reputation'[q] = IF q = pair THEN new ELSE reputation[q]
       /\ reputation' \in [DOMAIN reputation' -> Counts]
       /\ DOMAIN reputation' \subseteq Agents \X Agents
  <2>1. reputation' = Extended(reputation, pair, new)
    OBVIOUS
  <2>2. /\ reputation \in [DOMAIN reputation -> Counts]
        /\ DOMAIN reputation \subseteq Agents \X Agents
    BY <1>5 DEF VerdictsTyped
  <2>3. pair \in Agents \X Agents
    BY <1>1
  <2> QED BY <1>10, <2>1, <2>2, <2>3 DEF Extended
<1>12. \A r \in Agents, b \in Agents : Counted(r, b)'
  <2> SUFFICES ASSUME NEW r \in Agents, NEW b \in Agents
               PROVE  Counted(r, b)'
    OBVIOUS
  <2>1. CASE r = s /\ b = a
    <3>1. CountsOf(s, a)' = new
      BY <1>11 DEF CountsOf
    <3> QED BY <1>9, <2>1, <3>1 DEF Counted
  <2>2. CASE r # s \/ b # a
    <3>1. <<r, b>> # pair
      BY <2>2
    <3>2. CountsOf(r, b)' = CountsOf(r, b)
      BY <1>11, <3>1 DEF CountsOf
    <3>3. ASSUME NEW v
          PROVE  Effective(r, b, v)' = Effective(r, b, v)
      BY <1>1, <1>5, <1>6, <2>2, EffectiveRevised
    <3>4. Counted(r, b)
      BY <1>5 DEF VerdictsTyped
    <3> QED BY <3>2, <3>3, <3>4 DEF Counted
  <2> QED BY <2>1, <2>2
<1>13. /\ feedback' \in Seq(Revision)
       /\ \A f \in DOMAIN feedback' : feedback'[f].capsule \in DOMAIN capsules'
  <2> PICK n \in Nat : n = Len(feedback) /\ DOMAIN feedback = 1..n
    BY <1>5 DEF VerdictsTyped
  <2>1. /\ feedback' \in Seq(Revision) /\ DOMAIN feedback' = 1..n + 1
        /\ feedback'[n + 1] = x /\ \A f \in 1..n : feedback'[f] = feedback[f]
    BY <1>5, <1>6 DEF VerdictsTyped, Revises
  <2>2. \A f \in 1..n + 1 : f \in 1..n \/ f = n + 1
    OBVIOUS
  <2>3. x.capsule \in DOMAIN capsules'
    BY <1>1, <1>6 DEF Revises
  <2>4. \A f \in 1..n : feedback[f].capsule \in DOMAIN capsules'
    BY <1>2, <1>5 DEF VerdictsTyped
  <2> QED BY <2>1, <2>2, <2>3, <2>4
<1>14. VerdictsTyped'
  BY <1>11, <1>12, <1>13 DEF VerdictsTyped
<1> QED BY <1>2, <1>4, <1>14, PartsKept DEF Typed

LEMMA ClockTyped ==
  ASSUME Typed, UNCHANGED Tables, clock' \in Times
  PROVE  Typed'
<1>1. UNCHANGED <<ledger, receipts, topics, subscriptions, experiences, temperature,
                  capsules, statuses, inbox, adoptions, feedback, reputation>>
  BY DEF Tables
<1>2. LedgerTyped' /\ DOMAIN ledger \subseteq DOMAIN ledger'
  BY <1>1 DEF Typed, LedgerTyped
<1> QED BY <1>1, <1>2, PartsKept DEF Typed

LEMMA TypedInit == Init => Typed
<1> SUFFICES ASSUME Init
             PROVE  Typed
  OBVIOUS
<1>1. IsLog(<<>>) /\ DOMAIN <<>> = {} /\ Len(<<>>) = 0
  <2>1. <<>> \in Seq({1})
    OBVIOUS
  <2>2. IsLog(<<>>)
    BY <2>1, LogOf
  <2> QED BY <2>2
<1>2. clock \in Times /\ LedgerTyped
  BY <1>1, SharingBounds DEF Init, Times, LedgerTyped
<1>3. TopicsTyped
  <2>1. IsFiniteSet(DOMAIN subscriptions)
    BY <1>1, FS_EmptySet DEF Init
  <2> QED BY <1>1, <2>1 DEF Init, TopicsTyped
<1>4. ExperiencesTyped
  BY <1>1, SharingBounds DEF Init, ExperiencesTyped
<1>5. CapsulesTyped
  BY <1>1, SharingBounds DEF Init, CapsulesTyped
<1>6. RoutesTyped /\ AdoptionsTyped
  BY <1>1 DEF Init, RoutesTyped, AdoptionsTyped
<1>7. VerdictsTyped
  <2>1. ASSUME NEW s, NEW a
        PROVE  Counted(s, a)
    <3>1. /\ Effective(s, a, "useful") = {} /\ Effective(s, a, "refuted") = {}
          /\ Effective(s, a, "harmful") = {}
      BY <1>1 DEF Init, Effective
    <3>2. CountsOf(s, a) = NoCounts
      BY <1>1 DEF Init, CountsOf
    <3> QED BY <3>1, <3>2, FS_EmptySet DEF Counted, NoCounts
  <2> QED BY <1>1, <2>1 DEF Init, VerdictsTyped
<1> QED BY <1>2, <1>3, <1>4, <1>5, <1>6, <1>7 DEF Typed

\* A route is a pair.
LEMMA RoutePair ==
  ASSUME Typed, NEW x \in DOMAIN inbox
  PROVE  x = <<x[1], x[2]>>
BY DEF Typed, RoutesTyped

LEMMA TypedStep ==
  ASSUME Typed, [Next]_vars
  PROVE  Typed'
<1>1. ASSUME TopicCommands
      PROVE  Typed'
  BY <1>1, CreateTopicTyped, CreateSubscriptionTyped DEF TopicCommands
<1>2. ASSUME OwnerCommands
      PROVE  Typed'
  BY <1>2, CreateExperienceTyped, CreateVersionTyped, ChangeTemperatureTyped
     DEF OwnerCommands
<1>3. ASSUME Publications
      PROVE  Typed'
  <2> PICK t \in Topics, e \in DOMAIN experiences, lifetime \in Lifetimes :
        \E v \in DOMAIN experiences[e].versions,
           parents \in {{}} \cup {{r} : r \in Parents(experiences[e].owner, e)} :
           PublishCapsule(experiences[e].owner, t, e, v, parents, lifetime)
    BY <1>3 DEF Publications
  <2> PICK a : a = experiences[e].owner
    OBVIOUS
  <2> PICK v \in DOMAIN experiences[e].versions,
           parents \in {{}} \cup {{r} : r \in Parents(a, e)} :
        PublishCapsule(a, t, e, v, parents, lifetime)
    OBVIOUS
  <2>1. a \in Agents
    <3>1. experiences[e] \in Experience
      BY DEF Typed, ExperiencesTyped
    <3> QED BY <3>1 DEF Experience
  <2> QED BY <2>1, PublishTyped
<1>4. ASSUME RouteCommands
      PROVE  Typed'
  <2> PICK x \in DOMAIN inbox :
        \/ AdoptCapsule(x[1], x[2])
        \/ RejectInboxItem(x[1], x[2])
        \/ \E verdict \in Verdicts : RecordCapsuleFeedback(x[1], x[2], verdict)
    BY <1>4 DEF RouteCommands
  <2> PICK k, a : k = x[1] /\ a = x[2]
    OBVIOUS
  <2>1. <<k, a>> \in DOMAIN inbox
    BY RoutePair
  <2>2. ASSUME AdoptCapsule(k, a)
        PROVE  Typed'
    <3>1. UNCHANGED <<topics, subscriptions, capsules, statuses, feedback, reputation>>
      BY <2>2 DEF AdoptCapsule
    <3> PICK p \in Readings :
          \/ AdoptAsNew(k, a, p)
          \/ \E e \in CurrentEquivalents(a, capsules[k].content) :
                AdoptEquivalent(k, a, e, p)
      BY <2>2 DEF AdoptCapsule
    <3>2. ASSUME AdoptAsNew(k, a, p)
          PROVE  Typed'
      BY <2>1, <3>1, <3>2, AdoptAsNewTyped
    <3>3. ASSUME NEW e \in CurrentEquivalents(a, capsules[k].content),
                 AdoptEquivalent(k, a, e, p)
          PROVE  Typed'
      <4>1. e \in DOMAIN experiences
        BY DEF CurrentEquivalents, Owned
      <4> QED BY <2>1, <3>1, <3>3, <4>1, AdoptEquivalentTyped
    <3> QED BY <3>2, <3>3
  <2>3. ASSUME RejectInboxItem(k, a)
        PROVE  Typed'
    <3> PICK p \in Readings : EndByRejection(k, a, p) \/ RejectionDies(k, p[1])
      BY <2>3 DEF RejectInboxItem
    <3>1. ASSUME EndByRejection(k, a, p)
          PROVE  Typed'
      BY <2>1, <3>1, RejectTyped
    <3>2. ASSUME RejectionDies(k, p[1])
          PROVE  Typed'
      BY <3>2, ReadingTyped, ClockTyped DEF RejectionDies
    <3> QED BY <3>1, <3>2
  <2>4. ASSUME NEW verdict \in Verdicts, RecordCapsuleFeedback(k, a, verdict)
        PROVE  Typed'
    BY <2>1, <2>4, FeedbackTyped
  <2> QED BY <2>2, <2>3, <2>4
<1>5. ASSUME NEW k \in DOMAIN capsules, RetractCapsule(k)
      PROVE  Typed'
  BY <1>5, RetractTyped
<1>6. ASSUME AdvanceClock \/ StepBack
      PROVE  Typed'
  <2>1. clock' \in Times /\ UNCHANGED Tables
    BY <1>6, SharingBounds DEF AdvanceClock, StepBack, Typed, Times
  <2> QED BY <2>1, ClockTyped
<1>7. ASSUME UNCHANGED vars
      PROVE  Typed'
  <2>1. UNCHANGED Tables /\ clock' \in Times
    BY <1>7 DEF vars, Tables, Typed
  <2> QED BY <2>1, ClockTyped
<1> QED BY <1>1, <1>2, <1>3, <1>4, <1>5, <1>6, <1>7 DEF Next

\* Every history of commands keeps the types, with counts of verdicts that
\* are never negative because they are counts of capsules: those of the
\* subject that the observer last judged so (sharing/reputation.py,
\* sharing/reducers.py).
THEOREM VerdictsAreCounted == Spec => []Typed
<1>1. Init => Typed
  BY TypedInit
<1>2. Typed /\ [Next]_vars => Typed'
  BY TypedStep
<1> QED BY <1>1, <1>2, PTL DEF Spec
-----------------------------------------------------------------------------
(* Provenance.  A capsule is published by one event, retracted no earlier  *)
(* than it was published, and adopted once by each of its recipients, who  *)
(* may relay what they adopted.                                            *)

PublicationEvents == OfType({"capsule.published"})
AdoptedEvents == OfType({"capsule.adopted"})

PublicationsKept ==
  /\ \A n \in PublicationEvents : ledger[n].of[2] \in DOMAIN capsules
  /\ \A n \in PublicationEvents, m \in PublicationEvents :
        ledger[n].of[2] = ledger[m].of[2] => n = m
  /\ \A k \in DOMAIN capsules : \E n \in PublicationEvents : ledger[n].of = <<"capsule", k>>

StatusesKept ==
  \A k \in DOMAIN capsules :
    /\ statuses[k].event \in DOMAIN ledger
    /\ capsules[k].at <= ledger[statuses[k].event].at

RoutesKept == \A x \in DOMAIN inbox : inbox[x].event \in DOMAIN ledger

\* An adoption ended its route, under the path and the root of its capsule.
Ended(r) ==
  /\ r.capsule \in DOMAIN capsules
  /\ <<r.capsule, r.adopter>> \in DOMAIN inbox
  /\ inbox[<<r.capsule, r.adopter>>].state = "adopted"
  /\ r.chain = Append(capsules[r.capsule].chain, r.capsule)
  /\ r.root = capsules[r.capsule].root
  /\ capsules[r.capsule].at <= r.at

AdoptionsKept ==
  /\ \A r \in adoptions : Ended(r)
  /\ \A r \in adoptions, q \in adoptions :
        (r.capsule = q.capsule /\ r.adopter = q.adopter) => r = q

\* One hop of a path.
HopKept(k, i) ==
  LET hop == capsules[k].chain[i]
  IN /\ hop \in DOMAIN capsules
     /\ capsules[hop].chain = SubSeq(capsules[k].chain, 1, i - 1)
     /\ capsules[hop].root = capsules[k].root
     /\ EventOf("capsule.published", hop) < EventOf("capsule.published", k)
     /\ capsules[hop].at <= capsules[k].at

PathKept(k) ==
  /\ \A i \in DOMAIN capsules[k].chain : HopKept(k, i)
  /\ capsules[k].chain # <<>> => ParentAdoptions(k) # {}

PathsKept == \A k \in DOMAIN capsules : PathKept(k)

Kept == PublicationsKept /\ StatusesKept /\ RoutesKept /\ AdoptionsKept /\ PathsKept

\* The parent of a relayed capsule is the one adoption by its publisher of
\* the last capsule of its path.
LEMMA OneParent ==
  ASSUME Typed, AdoptionsKept, NEW k \in DOMAIN capsules,
         NEW r \in ParentAdoptions(k), NEW q \in ParentAdoptions(k)
  PROVE  r = q
<1>1. /\ r \in adoptions /\ q \in adoptions /\ r.adopter = q.adopter /\ r.chain = q.chain
      /\ r.chain = capsules[k].chain
  BY DEF ParentAdoptions
<1>2. /\ r.capsule \in DOMAIN capsules /\ q.capsule \in DOMAIN capsules
      /\ r.chain = Append(capsules[r.capsule].chain, r.capsule)
      /\ q.chain = Append(capsules[q.capsule].chain, q.capsule)
  BY <1>1 DEF AdoptionsKept, Ended
<1>0. \A j \in DOMAIN capsules : capsules[j].chain \in Seq(1..MaxCapsules)
  <2>1. \A j \in DOMAIN capsules : capsules[j] \in Capsule
    BY DEF Typed, CapsulesTyped
  <2> QED BY <2>1 DEF Capsule
<1> PICK s \in Seq(1..MaxCapsules) : s = capsules[r.capsule].chain
  BY <1>0, <1>2
<1> PICK t \in Seq(1..MaxCapsules) : t = capsules[q.capsule].chain
  BY <1>0, <1>2
<1> PICK x, y : x = r.capsule /\ y = q.capsule
  OBVIOUS
<1>3. Append(s, x) = Append(t, y)
  BY <1>1, <1>2
<1>4. x = y
  <2>1. x \in 1..MaxCapsules /\ y \in 1..MaxCapsules
    BY <1>1 DEF Typed, AdoptionsTyped, Adoption
  <2> QED BY <1>3, <2>1, AppendProperties
<1> QED BY <1>1, <1>4 DEF AdoptionsKept

LEMMA KeptIsAPath ==
  ASSUME Typed, Kept
  PROVE  ProvenanceIsAPath
<1> SUFFICES ASSUME NEW k \in DOMAIN capsules
             PROVE  ProvenanceValid(k)
  BY DEF ProvenanceIsAPath
<1>1. PathKept(k)
  BY DEF Kept, PathsKept
<1>2. ASSUME NEW i \in DOMAIN capsules[k].chain
      PROVE  \E hop \in {capsules[k].chain[i]} :
               /\ hop \in DOMAIN capsules
               /\ capsules[hop].chain = SubSeq(capsules[k].chain, 1, i - 1)
               /\ capsules[hop].root = capsules[k].root
               /\ EventOf("capsule.published", hop) < EventOf("capsule.published", k)
               /\ capsules[hop].at <= capsules[k].at
  <2>1. HopKept(k, i)
    BY <1>1 DEF PathKept
  <2> QED BY <2>1 DEF HopKept
<1>3. ASSUME capsules[k].chain # <<>>
      PROVE  Cardinality(ParentAdoptions(k)) = 1
  <2> PICK r \in ParentAdoptions(k) : TRUE
    BY <1>1, <1>3 DEF PathKept
  <2>1. \A q \in ParentAdoptions(k) : q = r
    BY OneParent DEF Kept
  <2>2. ParentAdoptions(k) = {r}
    BY <2>1
  <2> QED BY <2>2, FS_Singleton
<1> QED BY <1>2, <1>3 DEF ProvenanceValid

\* The event of a publication.
LEMMA EventOfPublication ==
  ASSUME PublicationsKept, NEW k \in DOMAIN capsules
  PROVE  /\ EventOf("capsule.published", k) \in PublicationEvents
         /\ ledger[EventOf("capsule.published", k)].of[2] = k
         /\ \A n \in PublicationEvents :
               ledger[n].of[2] = k => EventOf("capsule.published", k) = n
<1> PICK n \in PublicationEvents : ledger[n].of = <<"capsule", k>>
  BY DEF PublicationsKept
<1> PICK m : m = EventOf("capsule.published", k)
  OBVIOUS
<1>1. m \in PublicationEvents /\ ledger[m].of[2] = k
  BY DEF EventOf, PublicationEvents
<1>2. \A i \in PublicationEvents : ledger[i].of[2] = k => m = i
  BY <1>1 DEF PublicationsKept
<1> QED BY <1>1, <1>2

\* What a step may not forget: the events, the capsules and the adoptions.
LedgerKept ==
  /\ DOMAIN ledger \subseteq DOMAIN ledger'
  /\ \A n \in DOMAIN ledger : ledger'[n] = ledger[n]

CapsulesRemembered ==
  /\ DOMAIN capsules \subseteq DOMAIN capsules'
  /\ \A k \in DOMAIN capsules : capsules'[k] = capsules[k]

AdoptionsRemembered ==
  /\ adoptions \subseteq adoptions'
  /\ \A r \in adoptions : AdoptionEvents(r)' = AdoptionEvents(r)

LEMMA EventsRemembered ==
  ASSUME PublicationsKept, PublicationsKept', LedgerKept, CapsulesRemembered,
         NEW k \in DOMAIN capsules
  PROVE  EventOf("capsule.published", k)' = EventOf("capsule.published", k)
<1> PICK n : n = EventOf("capsule.published", k)
  OBVIOUS
<1>1. n \in PublicationEvents /\ ledger[n].of[2] = k
  BY EventOfPublication
<1>2. n \in DOMAIN ledger /\ ledger[n].type = "capsule.published"
  BY <1>1 DEF PublicationEvents, OfType
<1>3. n \in PublicationEvents' /\ ledger'[n].of[2] = k
  BY <1>1, <1>2 DEF LedgerKept, PublicationEvents, OfType
<1> PICK m : m = EventOf("capsule.published", k)'
  OBVIOUS
<1>4. m \in PublicationEvents' /\ ledger'[m].of[2] = k
  BY <1>3 DEF EventOf, PublicationEvents
<1>5. m = n
  BY <1>3, <1>4 DEF PublicationsKept
<1> QED BY <1>5

LEMMA PathRemembered ==
  ASSUME PublicationsKept, PublicationsKept', LedgerKept, CapsulesRemembered,
         AdoptionsRemembered, NEW k \in DOMAIN capsules, PathKept(k)
  PROVE  PathKept(k)'
<1> PICK x : x = capsules[k]
  OBVIOUS
<1>1. capsules'[k] = x /\ k \in DOMAIN capsules'
  BY DEF CapsulesRemembered
<1>2. EventOf("capsule.published", k)' = EventOf("capsule.published", k)
  BY EventsRemembered
<1>3. ASSUME NEW i \in DOMAIN x.chain
      PROVE  HopKept(k, i)'
  <2> PICK hop : hop = x.chain[i]
    OBVIOUS
  <2>1. /\ hop \in DOMAIN capsules
        /\ capsules[hop].chain = SubSeq(x.chain, 1, i - 1)
        /\ capsules[hop].root = x.root
        /\ EventOf("capsule.published", hop) < EventOf("capsule.published", k)
        /\ capsules[hop].at <= x.at
    BY DEF PathKept, HopKept
  <2>2. EventOf("capsule.published", hop)' = EventOf("capsule.published", hop)
    BY <2>1, EventsRemembered
  <2>3. capsules'[hop] = capsules[hop] /\ hop \in DOMAIN capsules'
    BY <2>1 DEF CapsulesRemembered
  <2> QED BY <1>1, <1>2, <2>1, <2>2, <2>3 DEF HopKept
<1>4. ASSUME x.chain # <<>>
      PROVE  ParentAdoptions(k)' # {}
  <2> PICK r \in ParentAdoptions(k) : TRUE
    BY <1>4 DEF PathKept
  <2>1. /\ r \in adoptions /\ r.adopter = x.publisher /\ r.experience = x.source
        /\ r.root = x.root /\ r.chain = x.chain /\ r.at <= x.at
        /\ \A n \in AdoptionEvents(r) : n < EventOf("capsule.published", k)
    BY DEF ParentAdoptions
  <2>2. r \in adoptions' /\ AdoptionEvents(r)' = AdoptionEvents(r)
    BY <2>1 DEF AdoptionsRemembered
  <2>3. r \in ParentAdoptions(k)'
    BY <1>1, <1>2, <2>1, <2>2 DEF ParentAdoptions
  <2> QED BY <2>3
<1> QED BY <1>1, <1>3, <1>4 DEF PathKept
-----------------------------------------------------------------------------
(* Most commands neither publish nor adopt.                                *)

\* What a command leaves of the ledger it found.
LEMMA RecordedKeeps ==
  ASSUME Typed, NEW drafts, IsLog(drafts), NEW at, Recorded(drafts, at)
  PROVE  /\ LedgerKept /\ Len(ledger) \in Nat /\ Len(drafts) \in Nat
         /\ DOMAIN ledger = 1..Len(ledger) /\ DOMAIN ledger' = 1..Len(ledger) + Len(drafts)
         /\ \A i \in 1..Len(drafts) : /\ ledger'[Len(ledger) + i].type = drafts[i].type
                                      /\ ledger'[Len(ledger) + i].of = drafts[i].of
                                      /\ ledger'[Len(ledger) + i].at = at
<1>1. Len(ledger) \in Nat /\ DOMAIN ledger = 1..Len(ledger) /\ Len(drafts) \in Nat
  BY LogLength DEF Typed, LedgerTyped
<1>2. /\ IsLog(ledger') /\ Len(ledger') = Len(ledger) + Len(drafts)
      /\ \A n \in 1..Len(ledger) : ledger'[n] = ledger[n]
      /\ \A i \in 1..Len(drafts) : /\ ledger'[Len(ledger) + i].type = drafts[i].type
                                   /\ ledger'[Len(ledger) + i].of = drafts[i].of
                                   /\ ledger'[Len(ledger) + i].at = at
  BY DEF Recorded, Lengthened
<1>3. DOMAIN ledger' = 1..Len(ledger')
  BY <1>2, LogLength
<1>4. LedgerKept
  BY <1>1, <1>2, <1>3 DEF LedgerKept
<1> QED BY <1>1, <1>2, <1>3, <1>4

\* The events of a type after a command.
Without(drafts, type) == \A i \in 1..Len(drafts) : drafts[i].type # type
OnlyAt(drafts, type, j) ==
  /\ j \in 1..Len(drafts) /\ drafts[j].type = type
  /\ \A i \in 1..Len(drafts) : drafts[i].type = type => i = j

LEMMA TypeRecorded ==
  ASSUME Typed, NEW drafts, IsLog(drafts), NEW at, Recorded(drafts, at), NEW type
  PROVE  /\ Without(drafts, type) => OfType({type})' = OfType({type})
         /\ \A j : OnlyAt(drafts, type, j)
                     => OfType({type})' = OfType({type}) \cup {Len(ledger) + j}
<1> PICK m \in Nat : m = Len(ledger)
  BY RecordedKeeps
<1> PICK k \in Nat : k = Len(drafts)
  BY RecordedKeeps
<1>1. /\ DOMAIN ledger = 1..m /\ DOMAIN ledger' = 1..m + k
      /\ \A n \in 1..m : ledger'[n] = ledger[n]
      /\ \A i \in 1..k : ledger'[m + i].type = drafts[i].type
  BY RecordedKeeps DEF LedgerKept
<1>2. ASSUME NEW n \in 1..m + k, ~(n \in 1..m)
      PROVE  n - m \in 1..k /\ ledger'[n].type = drafts[n - m].type
  <2>1. n - m \in 1..k /\ m + (n - m) = n
    BY <1>2
  <2> QED BY <1>1, <2>1
<1>3. OfType({type}) = {n \in 1..m : ledger[n].type = type}
  BY <1>1 DEF OfType
<1>4. OfType({type})' = {n \in 1..m + k : ledger'[n].type = type}
  BY <1>1 DEF OfType
<1>5. ASSUME Without(drafts, type)
      PROVE  OfType({type})' = OfType({type})
  <2>1. \A n \in 1..m + k : ledger'[n].type = type <=> (n \in 1..m /\ ledger[n].type = type)
    BY <1>1, <1>2, <1>5, SMTT(30) DEF Without
  <2>2. 1..m \subseteq 1..m + k
    OBVIOUS
  <2> QED BY <1>3, <1>4, <2>1, <2>2
<1>6. ASSUME NEW j, OnlyAt(drafts, type, j)
      PROVE  OfType({type})' = OfType({type}) \cup {m + j}
  <2>1. /\ j \in 1..k /\ drafts[j].type = type
        /\ \A i \in 1..k : drafts[i].type = type => i = j
    BY <1>6 DEF OnlyAt
  <2>2. m + j \in 1..m + k /\ ledger'[m + j].type = type
    BY <1>1, <2>1
  <2>3. \A n \in 1..m : ledger'[n].type = type <=> ledger[n].type = type
    BY <1>1
  <2>4. ASSUME NEW n \in 1..m + k, ~(n \in 1..m), ledger'[n].type = type
        PROVE  n = m + j
    <3>1. n - m \in 1..k /\ drafts[n - m].type = type
      BY <1>2, <2>4
    <3>2. n - m = j
      BY <2>1, <3>1
    <3> QED BY <2>1, <3>2
  <2>5. 1..m \subseteq 1..m + k
    OBVIOUS
  <2>6. \A n \in 1..m + k : ledger'[n].type = type
                              <=> (n \in 1..m /\ ledger[n].type = type) \/ n = m + j
    BY <2>2, <2>3, <2>4
  <2>7. OfType({type})' = {n \in 1..m : ledger[n].type = type} \cup {m + j}
    BY <1>4, <2>2, <2>5, <2>6
  <2> QED BY <1>3, <2>7
<1> QED BY <1>5, <1>6

\* A step after which the provenance is what it was.
Quiet ==
  /\ LedgerKept /\ UNCHANGED <<capsules, adoptions>>
  /\ PublicationEvents' = PublicationEvents /\ AdoptedEvents' = AdoptedEvents
  /\ \A x \in DOMAIN inbox :
        inbox[x].state = "adopted" => (x \in DOMAIN inbox' /\ inbox'[x].state = "adopted")

LEMMA QuietKeeps ==
  ASSUME Typed, Kept, Quiet, StatusesKept', RoutesKept'
  PROVE  Kept'
<1>1. \A n \in PublicationEvents : ledger'[n] = ledger[n]
  BY DEF Quiet, LedgerKept, PublicationEvents, OfType
<1>2. PublicationsKept'
  <2> PICK P, D : P = PublicationEvents /\ D = DOMAIN capsules
    OBVIOUS
  <2>1. /\ \A n \in P : ledger[n].of[2] \in D
        /\ \A n \in P, m \in P : ledger[n].of[2] = ledger[m].of[2] => n = m
        /\ \A k \in D : \E n \in P : ledger[n].of = <<"capsule", k>>
    BY DEF Kept, PublicationsKept
  <2>2. PublicationEvents' = P /\ DOMAIN capsules' = D
    BY DEF Quiet
  <2>6. \A n \in P : ledger'[n] = ledger[n]
    BY <1>1
  <2>3. \A n \in P : ledger'[n].of[2] \in D
    BY <2>1, <2>6
  <2>4. \A n \in P, m \in P : ledger'[n].of[2] = ledger'[m].of[2] => n = m
    BY <2>1, <2>6
  <2>5. \A k \in D : \E n \in P : ledger'[n].of = <<"capsule", k>>
    <3> TAKE k \in D
    <3>1. PICK n \in P : ledger[n].of = <<"capsule", k>>
      BY <2>1
    <3> QED BY <2>6, <3>1
  <2> QED BY <2>2, <2>3, <2>4, <2>5 DEF PublicationsKept
<1>3. AdoptionsKept'
  BY DEF Quiet, Kept, AdoptionsKept, Ended
<1>4. \A n \in AdoptedEvents : ledger'[n] = ledger[n]
  BY DEF Quiet, LedgerKept, AdoptedEvents, OfType
<1>5. \A r \in adoptions : AdoptionEvents(r)' = AdoptionEvents(r)
  <2> TAKE r \in adoptions
  <2>1. AdoptionEvents(r) = {n \in AdoptedEvents : ledger[n].of[2] = <<r.capsule, r.adopter>>}
    BY DEF AdoptionEvents, AdoptedEvents
  <2>2. AdoptionEvents(r)' = {n \in AdoptedEvents : ledger'[n].of[2] = <<r.capsule, r.adopter>>}
    BY DEF AdoptionEvents, AdoptedEvents, Quiet
  <2> QED BY <1>4, <2>1, <2>2
<1>6. AdoptionsRemembered /\ CapsulesRemembered
  BY <1>5 DEF AdoptionsRemembered, CapsulesRemembered, Quiet
<1>7. PathsKept'
  <2> SUFFICES ASSUME NEW k \in DOMAIN capsules'
               PROVE  PathKept(k)'
    BY DEF PathsKept
  <2>1. k \in DOMAIN capsules
    BY DEF Quiet
  <2>2. PathKept(k)
    BY <2>1 DEF Kept, PathsKept
  <2> QED BY <1>2, <1>6, <2>1, <2>2, PathRemembered DEF Kept, Quiet
<1> QED BY <1>2, <1>3, <1>7 DEF Kept

LEMMA StatusesRemembered ==
  ASSUME StatusesKept, LedgerKept, UNCHANGED <<capsules, statuses>>
  PROVE  StatusesKept'
BY DEF StatusesKept, LedgerKept

LEMMA RoutesRemembered ==
  ASSUME RoutesKept, LedgerKept, UNCHANGED inbox
  PROVE  RoutesKept'
BY DEF RoutesKept, LedgerKept

\* A command of one event that is neither.
LEMMA QuietCommand ==
  ASSUME Typed, NEW p \in Readings, NEW d, Commit(p[1], p[2], p[1], <<d>>),
         d.type \notin {"capsule.published", "capsule.adopted"}
  PROVE  /\ LedgerKept
         /\ PublicationEvents' = PublicationEvents /\ AdoptedEvents' = AdoptedEvents
<1> PICK drafts : drafts = <<d>>
  OBVIOUS
<1>1. IsLog(drafts) /\ Len(drafts) = 1 /\ drafts[1] = d /\ p[1] \in Times
  BY LogOne, ReadingTyped
<1>2. Recorded(drafts, p[1])
  BY <1>1, CommandTyped
<1>3. Without(drafts, "capsule.published") /\ Without(drafts, "capsule.adopted")
  BY <1>1 DEF Without
<1>4. LedgerKept
  BY <1>1, <1>2, RecordedKeeps
<1>5. PublicationEvents' = PublicationEvents
  BY <1>1, <1>2, <1>3, TypeRecorded DEF PublicationEvents
<1>6. AdoptedEvents' = AdoptedEvents
  BY <1>1, <1>2, <1>3, TypeRecorded DEF AdoptedEvents
<1> QED BY <1>4, <1>5, <1>6

\* One that leaves the capsules, their routes and their adoptions alone.
LEMMA ElsewhereKeeps ==
  ASSUME Typed, Kept, NEW p \in Readings, NEW d, Commit(p[1], p[2], p[1], <<d>>),
         d.type \notin {"capsule.published", "capsule.adopted"},
         UNCHANGED <<capsules, statuses, inbox, adoptions>>
  PROVE  Kept'
<1>1. /\ LedgerKept
      /\ PublicationEvents' = PublicationEvents /\ AdoptedEvents' = AdoptedEvents
  BY QuietCommand
<1>2. Quiet
  BY <1>1 DEF Quiet
<1>3. StatusesKept' /\ RoutesKept'
  BY <1>1, StatusesRemembered, RoutesRemembered DEF Kept
<1> QED BY <1>2, <1>3, QuietKeeps

LEMMA CreateTopicKeeps ==
  ASSUME Typed, Kept, NEW t \in Topics, CreateTopic(t)
  PROVE  Kept'
<1> DEFINE d == Draft("topic.created", "topic", t, {})
<1>1. PICK p \in Readings : Commit(p[1], p[2], p[1], <<d>>)
  BY DEF CreateTopic
<1>2. UNCHANGED <<capsules, statuses, inbox, adoptions>>
  BY DEF CreateTopic
<1>3. d.type \notin {"capsule.published", "capsule.adopted"}
  BY DEF Draft
<1> HIDE DEF d
<1> QED BY <1>1, <1>2, <1>3, ElsewhereKeeps

LEMMA CreateSubscriptionKeeps ==
  ASSUME Typed, Kept, NEW a \in Agents, NEW t \in Topics, CreateSubscription(a, t)
  PROVE  Kept'
<1> DEFINE d == Draft("subscription.created", "subscription", <<a, t>>, {})
<1>1. PICK p \in Readings : Commit(p[1], p[2], p[1], <<d>>)
  BY DEF CreateSubscription
<1>2. UNCHANGED <<capsules, statuses, inbox, adoptions>>
  BY DEF CreateSubscription
<1>3. d.type \notin {"capsule.published", "capsule.adopted"}
  BY DEF Draft
<1> HIDE DEF d
<1> QED BY <1>1, <1>2, <1>3, ElsewhereKeeps

LEMMA CreateExperienceKeeps ==
  ASSUME Typed, Kept, NEW a \in Agents, NEW origin, NEW content,
         CreateExperience(a, origin, content)
  PROVE  Kept'
<1>1. UNCHANGED <<capsules, statuses, inbox, adoptions>>
  BY DEF CreateExperience
<1> PICK drafts : drafts = CreationDrafts(Len(experiences) + 1, content)
  OBVIOUS
<1>2. PICK p \in Readings : Commit(p[1], p[2], p[1], drafts)
  BY DEF CreateExperience
<1>3. /\ IsLog(drafts) /\ Len(drafts) = 2 /\ drafts[1].type = "experience.created"
      /\ drafts[2].type = "experience.version_created"
  BY CreationLog
<1>4. Without(drafts, "capsule.published") /\ Without(drafts, "capsule.adopted")
  <2>1. \A i \in 1..2 : i = 1 \/ i = 2
    OBVIOUS
  <2> QED BY <1>3, <2>1 DEF Without
<1>5. IsLog(drafts) /\ p[1] \in Times
  BY <1>3, ReadingTyped
<1>6. Recorded(drafts, p[1])
  BY <1>2, <1>5, CommandTyped
<1>7. LedgerKept
  BY <1>5, <1>6, RecordedKeeps
<1>8. PublicationEvents' = PublicationEvents
  BY <1>4, <1>5, <1>6, TypeRecorded DEF PublicationEvents
<1>9. AdoptedEvents' = AdoptedEvents
  BY <1>4, <1>5, <1>6, TypeRecorded DEF AdoptedEvents
<1>10. Quiet
  BY <1>1, <1>7, <1>8, <1>9 DEF Quiet
<1>11. StatusesKept' /\ RoutesKept'
  BY <1>1, <1>7, StatusesRemembered, RoutesRemembered DEF Kept
<1> QED BY <1>10, <1>11, QuietKeeps

LEMMA CreateVersionKeeps ==
  ASSUME Typed, Kept, NEW e, NEW content, CreateVersion(e, content)
  PROVE  Kept'
<1> DEFINE d == Draft("experience.version_created", "experience", e,
                      [before |-> Snapshot(e),
                       after |-> [Snapshot(e) EXCEPT !.content = content]])
<1>1. PICK p \in Readings : Commit(p[1], p[2], p[1], <<d>>)
  BY DEF CreateVersion
<1>2. UNCHANGED <<capsules, statuses, inbox, adoptions>>
  BY DEF CreateVersion
<1>3. d.type \notin {"capsule.published", "capsule.adopted"}
  BY DEF Draft
<1> HIDE DEF d
<1> QED BY <1>1, <1>2, <1>3, ElsewhereKeeps

LEMMA ChangeTemperatureKeeps ==
  ASSUME Typed, Kept, NEW e, ChangeTemperature(e)
  PROVE  Kept'
<1>1. PICK p \in Readings : \E d :
        Commit(p[1], p[2], p[1], <<d>>) /\ d.type = "experience.temperature_changed"
  <2> PICK p \in Readings :
        \E before, after :
          Commit(p[1], p[2], p[1], <<Draft("experience.temperature_changed", "experience", e,
                                           [before |-> before, after |-> after])>>)
    BY DEF ChangeTemperature
  <2> PICK before, after :
        Commit(p[1], p[2], p[1], <<Draft("experience.temperature_changed", "experience", e,
                                         [before |-> before, after |-> after])>>)
    OBVIOUS
  <2>1. Draft("experience.temperature_changed", "experience", e,
              [before |-> before, after |-> after]).type = "experience.temperature_changed"
    BY DEF Draft
  <2> QED BY <2>1
<1>2. UNCHANGED <<capsules, statuses, inbox, adoptions>>
  BY DEF ChangeTemperature
<1>3. PICK d : /\ Commit(p[1], p[2], p[1], <<d>>)
               /\ d.type \notin {"capsule.published", "capsule.adopted"}
  BY <1>1
<1> QED BY <1>2, <1>3, ElsewhereKeeps

LEMMA OneRecorded ==
  ASSUME Typed, NEW p \in Readings, NEW d, Commit(p[1], p[2], p[1], <<d>>)
  PROVE  /\ Len(ledger) \in Nat /\ DOMAIN ledger' = 1..Len(ledger) + 1
         /\ ledger'[Len(ledger) + 1].at = p[1]
<1>1. PICK drafts : drafts = <<d>> /\ IsLog(drafts) /\ Len(drafts) = 1
  BY LogOne
<1>2. IsLog(drafts) /\ p[1] \in Times /\ Commit(p[1], p[2], p[1], drafts)
  BY <1>1, ReadingTyped
<1>3. Recorded(drafts, p[1])
  BY <1>2, CommandTyped
<1>4. /\ Len(ledger) \in Nat /\ DOMAIN ledger' = 1..Len(ledger) + Len(drafts)
      /\ \A i \in 1..Len(drafts) : ledger'[Len(ledger) + i].at = p[1]
  BY <1>2, <1>3, RecordedKeeps
<1>5. 1 \in 1..Len(drafts)
  BY <1>1
<1>6. ledger'[Len(ledger) + 1].at = p[1]
  BY <1>4, <1>5
<1> QED BY <1>1, <1>4, <1>6

\* The newest event of a capsule is one.
LEMMA CapsuleEventTimes ==
  ASSUME Typed, Kept, NEW k \in DOMAIN capsules
  PROVE  LatestCapsuleCausalAt(k) \in Nat
<1> PICK n \in Nat : n = Len(ledger) /\ DOMAIN ledger = 1..n
  BY LogLength DEF Typed, LedgerTyped
<1> PICK S : S = EventsOf("capsule", k)
  OBVIOUS
<1>1. S \subseteq 1..n /\ S # {}
  <2> PICK m \in PublicationEvents : ledger[m].of = <<"capsule", k>>
    BY DEF Kept, PublicationsKept
  <2>1. m \in S
    BY DEF PublicationEvents, OfType, EventsOf
  <2> QED BY <2>1 DEF EventsOf
<1>2. NewestOf("capsule", k) \in S
  BY <1>1, LastPosition DEF NewestOf
<1>3. LatestCapsuleCausalAt(k) \in Times
  BY <1>1, <1>2 DEF LatestCapsuleCausalAt, CausalAt, Typed, LedgerTyped
<1> QED BY <1>3, TimesAreNat

LEMMA RetractKeeps ==
  ASSUME Typed, Kept, NEW k \in DOMAIN capsules, RetractCapsule(k)
  PROVE  Kept'
<1> DEFINE d == Draft("capsule.retracted", "capsule", k, {})
<1>1. PICK p \in Readings : /\ Commit(p[1], p[2], p[1], <<d>>)
                            /\ p[1] >= Larger(LastTransitionAt(k), LatestCapsuleCausalAt(k))
  BY DEF RetractCapsule
<1>2. UNCHANGED <<capsules, inbox, adoptions>>
  BY DEF RetractCapsule
<1>3. d.type \notin {"capsule.published", "capsule.adopted"}
  BY DEF Draft
<1> HIDE DEF d
<1>4. /\ LedgerKept
      /\ PublicationEvents' = PublicationEvents /\ AdoptedEvents' = AdoptedEvents
  BY <1>1, <1>3, QuietCommand
<1>5. Quiet
  BY <1>2, <1>4 DEF Quiet
<1>6. StatusesKept'
  <2>1. p[1] \in Times
    BY ReadingTyped
  <2>2. /\ Len(ledger) \in Nat /\ DOMAIN ledger' = 1..Len(ledger) + 1
        /\ ledger'[Len(ledger) + 1].at = p[1]
    BY <1>1, OneRecorded
  <2> PICK n \in Nat : n = Len(ledger)
    BY <2>2
  <2>3. DOMAIN ledger' = 1..n + 1 /\ ledger'[n + 1].at = p[1]
    BY <2>2
  <2>4. capsules[k].at <= p[1]
    <3> PICK x, y : x = LastTransitionAt(k) /\ y = LatestCapsuleCausalAt(k)
      OBVIOUS
    <3>1. capsules[k].at <= x
      BY DEF Kept, StatusesKept, LastTransitionAt
    <3>2. p[1] >= Larger(x, y)
      BY <1>1
    <3>3. x \in Times /\ capsules[k].at \in Times
      <4>1. capsules[k] \in Capsule
        BY DEF Typed, CapsulesTyped
      <4>2. statuses[k].event \in DOMAIN ledger
        BY DEF Kept, StatusesKept
      <4>3. x \in Times
        BY <4>2 DEF LastTransitionAt, Typed, LedgerTyped
      <4> QED BY <4>1, <4>3 DEF Capsule
    <3>4. x \in Nat /\ capsules[k].at \in Nat /\ p[1] \in Nat
      BY <2>1, <3>3, TimesAreNat
    <3>5. CASE x > y
      <4>1. p[1] >= x
        BY <3>2, <3>5 DEF Larger
      <4> QED BY <3>1, <3>4, <4>1
    <3>6. CASE ~(x > y)
      <4>1. p[1] >= y
        BY <3>2, <3>6 DEF Larger
      <4>2. y \in Nat
        BY CapsuleEventTimes
      <4> QED BY <3>1, <3>4, <3>6, <4>1, <4>2
    <3> QED BY <3>5, <3>6
  <2> PICK s : s = [status |-> "retracted", event |-> n + 1]
    OBVIOUS
  <2>5. statuses' = [statuses EXCEPT ![k] = s] /\ s.event = n + 1
    BY DEF RetractCapsule
  <2>6. k \in DOMAIN statuses
    BY DEF Typed, CapsulesTyped
  <2> SUFFICES ASSUME NEW j \in DOMAIN capsules
               PROVE  /\ statuses'[j].event \in DOMAIN ledger'
                      /\ capsules[j].at <= ledger'[statuses'[j].event].at
    BY <1>2 DEF StatusesKept
  <2>7. CASE j = k
    BY <2>3, <2>4, <2>5, <2>6, <2>7
  <2>8. CASE j # k
    <3>1. statuses'[j] = statuses[j]
      BY <2>5, <2>8 DEF Typed, CapsulesTyped
    <3> QED BY <1>4, <3>1 DEF Kept, StatusesKept, LedgerKept
  <2> QED BY <2>7, <2>8
<1>7. RoutesKept'
  BY <1>2, <1>4, RoutesRemembered DEF Kept
<1> QED BY <1>5, <1>6, <1>7, QuietKeeps

LEMMA RejectKeeps ==
  ASSUME Typed, Kept, NEW k, NEW a, <<k, a>> \in DOMAIN inbox, NEW p \in Readings,
         Rejectable(k, a, p[1]), EndByRejection(k, a, p)
  PROVE  Kept'
<1> DEFINE d == Draft("capsule.rejected", "inbox_item", <<k, a>>, {})
<1>1. Commit(p[1], p[2], p[1], <<d>>)
  BY DEF EndByRejection
<1>2. UNCHANGED <<capsules, statuses, adoptions>>
  BY DEF EndByRejection
<1>3. d.type \notin {"capsule.published", "capsule.adopted"}
  BY DEF Draft
<1>4. \A x \in DOMAIN inbox :
         inbox[x].state = "adopted" => (x \in DOMAIN inbox' /\ inbox'[x].state = "adopted")
  <2> PICK key, y : key = <<k, a>> /\ y = [state |-> "rejected", event |-> Len(ledger) + Len(<<d>>)]
    OBVIOUS
  <2>1. inbox' = [inbox EXCEPT ![key] = y]
    BY DEF EndByRejection, Terminal
  <2>2. inbox[key].state = "pending"
    BY DEF Rejectable
  <2>3. \A x \in DOMAIN inbox : x # key => (x \in DOMAIN inbox' /\ inbox'[x] = inbox[x])
    BY <2>1
  <2> QED BY <2>2, <2>3
<1> HIDE DEF d
<1>5. /\ LedgerKept
      /\ PublicationEvents' = PublicationEvents /\ AdoptedEvents' = AdoptedEvents
  BY <1>1, <1>3, QuietCommand
<1>6. Quiet
  BY <1>2, <1>4, <1>5 DEF Quiet
<1>7. StatusesKept'
  BY <1>2, <1>5, StatusesRemembered DEF Kept
<1>8. RoutesKept'
  <2>1. Len(ledger) \in Nat /\ DOMAIN ledger' = 1..Len(ledger) + 1
    BY <1>1, OneRecorded
  <2> PICK n \in Nat : n = Len(ledger)
    BY <2>1
  <2>2. n + 1 \in DOMAIN ledger'
    BY <2>1
  <2> PICK key, y : key = <<k, a>> /\ y = [state |-> "rejected", event |-> n + 1]
    OBVIOUS
  <2>3. inbox' = [inbox EXCEPT ![key] = y] /\ y.event = n + 1
    BY DEF EndByRejection, Terminal
  <2>4. \A x \in DOMAIN inbox' : inbox'[x].event = n + 1 \/ inbox'[x].event = inbox[x].event
    BY <2>3
  <2> QED BY <1>5, <2>2, <2>3, <2>4 DEF Kept, RoutesKept, LedgerKept
<1> QED BY <1>6, <1>7, <1>8, QuietKeeps

LEMMA FeedbackKeeps ==
  ASSUME Typed, Kept, NEW k, NEW a, NEW verdict, RecordCapsuleFeedback(k, a, verdict)
  PROVE  Kept'
<1>1. PICK p \in Readings : \E d :
        Commit(p[1], p[2], p[1], <<d>>) /\ d.type = "capsule.feedback_recorded"
  <2> PICK p \in Readings :
        \E data : Commit(p[1], p[2], p[1],
                         <<Draft("capsule.feedback_recorded", "capsule", k, data)>>)
    BY DEF RecordCapsuleFeedback
  <2> PICK data : Commit(p[1], p[2], p[1],
                         <<Draft("capsule.feedback_recorded", "capsule", k, data)>>)
    OBVIOUS
  <2>1. Draft("capsule.feedback_recorded", "capsule", k, data).type
          = "capsule.feedback_recorded"
    BY DEF Draft
  <2> QED BY <2>1
<1>2. UNCHANGED <<capsules, statuses, inbox, adoptions>>
  BY DEF RecordCapsuleFeedback
<1>3. PICK d : /\ Commit(p[1], p[2], p[1], <<d>>)
               /\ d.type \notin {"capsule.published", "capsule.adopted"}
  BY <1>1
<1> QED BY <1>2, <1>3, ElsewhereKeeps

LEMMA ClockKeeps ==
  ASSUME Typed, Kept, UNCHANGED Tables
  PROVE  Kept'
<1>1. UNCHANGED <<ledger, capsules, statuses, inbox, adoptions>>
  BY DEF Tables
<1>2. LedgerKept
  BY <1>1 DEF LedgerKept
<1>3. PublicationEvents' = PublicationEvents /\ AdoptedEvents' = AdoptedEvents
  BY <1>1 DEF PublicationEvents, AdoptedEvents, OfType
<1>4. Quiet
  BY <1>1, <1>2, <1>3 DEF Quiet
<1>5. StatusesKept' /\ RoutesKept'
  BY <1>1, <1>2, StatusesRemembered, RoutesRemembered DEF Kept
<1> QED BY <1>4, <1>5, QuietKeeps
-----------------------------------------------------------------------------
(* A publication starts a path, or adds a hop to the path of its parent.   *)

LEMMA NewEventOf ==
  ASSUME PublicationsKept', NEW n, n \in PublicationEvents', NEW k, ledger'[n].of[2] = k
  PROVE  EventOf("capsule.published", k)' = n
<1> PICK m : m = EventOf("capsule.published", k)'
  OBVIOUS
<1>1. m \in PublicationEvents' /\ ledger'[m].of[2] = k
  BY DEF EventOf, PublicationEvents
<1> QED BY <1>1 DEF PublicationsKept

\* A path with one more hop.
Extends(t, s, x) ==
  /\ Len(s) \in Nat /\ DOMAIN s = 1..Len(s) /\ DOMAIN t = 1..Len(s) + 1
  /\ t[Len(s) + 1] = x /\ SubSeq(t, 1, Len(s)) = s
  /\ \A i \in 1..Len(s) : t[i] = s[i] /\ SubSeq(t, 1, i - 1) = SubSeq(s, 1, i - 1)

LEMMA PathExtended ==
  ASSUME NEW S, NEW s \in Seq(S), NEW x \in S, NEW t, t = Append(s, x)
  PROVE  Extends(t, s, x)
<1> PICK n \in Nat : n = Len(s) /\ DOMAIN s = 1..n
  OBVIOUS
<1>1. /\ t \in Seq(S) /\ Len(t) = n + 1 /\ DOMAIN t = 1..n + 1 /\ t[n + 1] = x
      /\ \A i \in 1..n : t[i] = s[i]
  OBVIOUS
<1>2. ASSUME NEW j \in 0..n
      PROVE  /\ SubSeq(t, 1, j) \in Seq(S) /\ Len(SubSeq(t, 1, j)) = j
             /\ SubSeq(s, 1, j) \in Seq(S) /\ Len(SubSeq(s, 1, j)) = j
             /\ \A i \in 1..j : SubSeq(t, 1, j)[i] = t[i] /\ SubSeq(s, 1, j)[i] = s[i]
  BY <1>1
<1>3. ASSUME NEW j \in 0..n
      PROVE  SubSeq(t, 1, j) = SubSeq(s, 1, j)
  <2> PICK u \in Seq(S) : u = SubSeq(t, 1, j) /\ Len(u) = j
                          /\ \A i \in 1..j : u[i] = s[i]
    <3>1. PICK u \in Seq(S) : u = SubSeq(t, 1, j) /\ Len(u) = j
                              /\ \A i \in 1..j : u[i] = t[i]
      BY <1>2
    <3>2. \A i \in 1..j : t[i] = s[i]
      BY <1>1
    <3> QED BY <3>1, <3>2
  <2> PICK w \in Seq(S) : w = SubSeq(s, 1, j) /\ Len(w) = j
                          /\ \A i \in 1..j : w[i] = s[i]
    BY <1>2
  <2>1. u = w
    BY SeqEqual
  <2> QED BY <2>1
<1>4. SubSeq(s, 1, n) = s
  <2> PICK w \in Seq(S) : w = SubSeq(s, 1, n) /\ Len(w) = n
                          /\ \A i \in 1..n : w[i] = s[i]
    BY <1>2
  <2>1. w = s
    BY SeqEqual
  <2> QED BY <2>1
<1>5. SubSeq(t, 1, n) = s
  BY <1>3, <1>4
<1>6. \A i \in 1..n : i - 1 \in 0..n
  OBVIOUS
<1>7. \A i \in 1..n : t[i] = s[i] /\ SubSeq(t, 1, i - 1) = SubSeq(s, 1, i - 1)
  BY <1>1, <1>3, <1>6
<1> QED BY <1>1, <1>5, <1>7 DEF Extends

\* The order of times is transitive.
LEMMA Transitive ==
  ASSUME NEW p \in Nat, NEW q \in Nat, NEW r \in Nat, p <= q, q <= r
  PROVE  p <= r
OBVIOUS

\* The path of a capsule relayed from adoption r: what r adopted, and before
\* it what was on that capsule's path.
LEMMA RelayedPath ==
  ASSUME Typed, Kept, PublicationsKept', LedgerKept, CapsulesRemembered, AdoptionsRemembered,
         Len(ledger) \in Nat,
         NEW k, k \in DOMAIN capsules', NEW x, capsules'[k] = x,
         NEW r \in adoptions, x.publisher = r.adopter, x.source = r.experience,
         x.chain = r.chain, x.root = r.root, x.at \in Times, r.at <= x.at,
         EventOf("capsule.published", k)' = Len(ledger) + 1
  PROVE  PathKept(k)'
<1> PICK h : h = r.capsule
  OBVIOUS
<1>1. /\ h \in DOMAIN capsules /\ r.chain = Append(capsules[h].chain, h)
      /\ r.root = capsules[h].root /\ capsules[h].at <= r.at
  BY DEF Kept, AdoptionsKept, Ended
<1>2. /\ h \in 1..MaxCapsules /\ capsules[h].chain \in Seq(1..MaxCapsules)
      /\ capsules[h].at \in Nat /\ r.at \in Nat /\ x.at \in Nat
  <2>1. r \in Adoption /\ capsules[h] \in Capsule
    BY <1>1 DEF Typed, AdoptionsTyped, CapsulesTyped
  <2> QED BY <2>1, TimesAreNat DEF Adoption, Capsule
<1> PICK s \in Seq(1..MaxCapsules) : s = capsules[h].chain
  BY <1>2
<1> PICK t : t = x.chain
  OBVIOUS
<1>3. /\ Len(s) \in Nat /\ DOMAIN s = 1..Len(s) /\ DOMAIN t = 1..Len(s) + 1
      /\ t[Len(s) + 1] = h /\ SubSeq(t, 1, Len(s)) = s
      /\ \A i \in 1..Len(s) : t[i] = s[i] /\ SubSeq(t, 1, i - 1) = SubSeq(s, 1, i - 1)
  <2>1. t = Append(s, h) /\ h \in 1..MaxCapsules
    BY <1>1, <1>2
  <2>2. Extends(t, s, h)
    BY <2>1, PathExtended
  <2> QED BY <2>2 DEF Extends
<1> PICK n \in Nat : n = Len(s)
  BY <1>3
<1> PICK m \in Nat : m = Len(ledger)
  OBVIOUS
\* Every capsule there was has its event in the ledger there was.
<1>4. ASSUME NEW j \in DOMAIN capsules
      PROVE  /\ EventOf("capsule.published", j)' = EventOf("capsule.published", j)
             /\ EventOf("capsule.published", j) \in 1..m
             /\ j \in DOMAIN capsules' /\ capsules'[j] = capsules[j]
             /\ capsules[j].at \in Nat
  <2>1. EventOf("capsule.published", j)' = EventOf("capsule.published", j)
    BY EventsRemembered DEF Kept
  <2>2. EventOf("capsule.published", j) \in PublicationEvents
    BY EventOfPublication DEF Kept
  <2>3. PublicationEvents \subseteq 1..m
    BY LogLength DEF PublicationEvents, OfType, Typed, LedgerTyped
  <2>4. capsules[j].at \in Nat
    <3>1. capsules[j] \in Capsule
      BY DEF Typed, CapsulesTyped
    <3> QED BY <3>1, TimesAreNat DEF Capsule
  <2> QED BY <2>1, <2>2, <2>3, <2>4 DEF CapsulesRemembered
<1>5. ASSUME NEW i \in 1..n + 1
      PROVE  HopKept(k, i)'
  <2>1. PICK hop \in DOMAIN capsules :
          /\ hop = t[i] /\ capsules[hop].chain = SubSeq(t, 1, i - 1)
          /\ capsules[hop].root = x.root /\ capsules[hop].at <= x.at
    <3>1. CASE i = n + 1
      <4>1. t[i] = h /\ SubSeq(t, 1, i - 1) = s
        BY <1>3, <3>1
      <4>2. capsules[h].at <= x.at
        BY <1>1, <1>2
      <4> QED BY <1>1, <4>1, <4>2
    <3>2. CASE i # n + 1
      <4>1. i \in 1..n /\ i \in DOMAIN capsules[h].chain
        BY <1>3, <3>2
      <4>2. HopKept(h, i)
        BY <1>1, <4>1 DEF Kept, PathsKept, PathKept
      <4> PICK hop : hop = s[i]
        OBVIOUS
      <4>3. /\ hop \in DOMAIN capsules /\ capsules[hop].chain = SubSeq(s, 1, i - 1)
            /\ capsules[hop].root = capsules[h].root /\ capsules[hop].at <= capsules[h].at
        BY <4>2 DEF HopKept
      <4>4. capsules[hop].at <= x.at
        <5>1. capsules[hop].at \in Nat
          BY <1>4, <4>3
        <5>2. capsules[hop].at <= capsules[h].at
          BY <4>3
        <5>3. capsules[h].at <= x.at
          BY <1>1, <1>2
        <5>4. capsules[h].at \in Nat /\ x.at \in Nat
          BY <1>1, <1>2
        <5> QED BY <5>1, <5>2, <5>3, <5>4, Transitive
      <4>5. t[i] = hop /\ SubSeq(t, 1, i - 1) = SubSeq(s, 1, i - 1)
        BY <1>3, <4>1
      <4> QED BY <1>1, <4>3, <4>4, <4>5
    <3> QED BY <3>1, <3>2
  <2>2. /\ EventOf("capsule.published", hop)' = EventOf("capsule.published", hop)
        /\ EventOf("capsule.published", hop) \in 1..m
        /\ hop \in DOMAIN capsules' /\ capsules'[hop] = capsules[hop]
    BY <1>4
  <2>3. EventOf("capsule.published", hop)' < EventOf("capsule.published", k)'
    BY <2>2
  <2> QED BY <2>1, <2>2, <2>3 DEF HopKept
<1>6. r \in ParentAdoptions(k)'
  <2>1. r \in adoptions' /\ AdoptionEvents(r)' = AdoptionEvents(r)
    BY DEF AdoptionsRemembered
  <2>2. AdoptionEvents(r) \subseteq 1..m
    BY LogLength DEF AdoptionEvents, OfType, Typed, LedgerTyped
  <2>3. \A j \in AdoptionEvents(r)' : j < EventOf("capsule.published", k)'
    BY <2>1, <2>2
  <2> QED BY <2>1, <2>3 DEF ParentAdoptions
<1>7. DOMAIN capsules'[k].chain = 1..n + 1
  BY <1>3
<1> QED BY <1>5, <1>6, <1>7 DEF PathKept

LEMMA PublishKeeps ==
  ASSUME Typed, Kept, NEW a \in Agents, NEW t \in Topics, NEW e \in DOMAIN experiences,
         NEW v \in DOMAIN experiences[e].versions,
         NEW parents \in {{}} \cup {{r} : r \in Parents(a, e)},
         NEW lifetime \in Lifetimes, PublishCapsule(a, t, e, v, parents, lifetime)
  PROVE  Kept'
<1> PICK c \in Nat : c = Len(capsules) /\ DOMAIN capsules = 1..c
  BY DEF Typed, CapsulesTyped
<1> PICK k : k = c + 1
  OBVIOUS
<1> PICK n \in Nat : SetToSeq(EligibleSubscribers(t, a)) \in [1..n -> Agents]
  BY RecipientsListed
<1> PICK recipients \in [1..n -> Agents] : recipients = SetToSeq(EligibleSubscribers(t, a))
  OBVIOUS
<1> DEFINE x == Published(a, t, e, v, parents, lifetime)
           drafts == PublicationDrafts(k, recipients)
<1>1. /\ capsules' = Append(capsules, x)
      /\ statuses' = Append(statuses, [status |-> "active", event |-> Len(ledger) + 1])
      /\ inbox' = Pending(k, recipients)
      /\ UNCHANGED adoptions
      /\ \A r \in parents : r.at <= clock
  BY DEF PublishCapsule
<1>2. PICK p \in Readings : Commit(p[1], p[2], clock, drafts)
  BY DEF PublishCapsule, PublicationDrafts
<1>3. /\ IsLog(drafts) /\ Len(drafts) = 1 + n
      /\ drafts[1].type = "capsule.published" /\ drafts[1].of = <<"capsule", k>>
      /\ \A i \in 1..n : drafts[1 + i].type = "capsule.received"
  <2>1. drafts = PublicationDrafts(k, recipients)
    OBVIOUS
  <2> HIDE DEF drafts
  <2>2. Publishing(drafts, k, n)
    BY <2>1, PublicationLog
  <2> QED BY <2>2 DEF Publishing
<1>4. x \in Capsule /\ OfParent(a, e, v, parents)
  BY PublishedTyped
<1>5. /\ x.publisher = a /\ x.source = e /\ x.at = clock /\ x.chain = ChainFor(parents)
      /\ x.root = RootFor(a, experiences[e].versions[v].content, parents)
  BY DEF Published
<1>6. clock \in Times
  BY DEF Typed
<1> HIDE DEF x, drafts
<1>7. Recorded(drafts, clock)
  BY <1>2, <1>3, <1>6, CommandTyped
<1>8. /\ LedgerKept /\ Len(ledger) \in Nat /\ DOMAIN ledger = 1..Len(ledger)
      /\ DOMAIN ledger' = 1..Len(ledger) + Len(drafts)
      /\ \A i \in 1..Len(drafts) : /\ ledger'[Len(ledger) + i].of = drafts[i].of
                                   /\ ledger'[Len(ledger) + i].at = clock
  <2> PICK at : at = clock
    OBVIOUS
  <2>1. IsLog(drafts) /\ Recorded(drafts, at)
    BY <1>3, <1>7
  <2>2. /\ LedgerKept /\ Len(ledger) \in Nat /\ DOMAIN ledger = 1..Len(ledger)
        /\ DOMAIN ledger' = 1..Len(ledger) + Len(drafts)
        /\ \A i \in 1..Len(drafts) : /\ ledger'[Len(ledger) + i].of = drafts[i].of
                                     /\ ledger'[Len(ledger) + i].at = at
    BY <2>1, RecordedKeeps, ZenonT(60)
  <2> QED BY <2>2
<1> PICK m \in Nat : m = Len(ledger)
  BY <1>8
<1>9. /\ DOMAIN ledger' = 1..m + (1 + n)
      /\ ledger'[m + 1].of = <<"capsule", k>> /\ ledger'[m + 1].at = clock
  <2>1. 1 \in 1..Len(drafts)
    BY <1>3
  <2>2. ledger'[m + 1].of = drafts[1].of /\ ledger'[m + 1].at = clock
    BY <1>8, <2>1
  <2> QED BY <1>3, <1>8, <2>2
<1>10. OnlyAt(drafts, "capsule.published", 1) /\ Without(drafts, "capsule.adopted")
  <2>1. 1 \in 1..Len(drafts) /\ drafts[1].type = "capsule.published"
    BY <1>3
  <2>2. ASSUME NEW i \in 1..Len(drafts), i # 1
        PROVE  drafts[i].type = "capsule.received"
    <3>1. i - 1 \in 1..n /\ 1 + (i - 1) = i
      BY <1>3, <2>2
    <3> QED BY <1>3, <3>1
  <2> QED BY <2>1, <2>2 DEF OnlyAt, Without
<1>11. PublicationEvents' = PublicationEvents \cup {m + 1}
  BY <1>3, <1>7, <1>10, TypeRecorded DEF PublicationEvents
<1>12. AdoptedEvents' = AdoptedEvents
  BY <1>3, <1>7, <1>10, TypeRecorded DEF AdoptedEvents
<1>13. /\ DOMAIN capsules' = 1..c + 1 /\ capsules'[c + 1] = x
       /\ \A j \in 1..c : capsules'[j] = capsules[j]
  BY <1>1, <1>4 DEF Typed, CapsulesTyped
<1>14. CapsulesRemembered
  BY <1>13 DEF CapsulesRemembered
<1>15. PublicationEvents \subseteq 1..m /\ \A i \in PublicationEvents : ledger'[i] = ledger[i]
  BY <1>8 DEF PublicationEvents, OfType, LedgerKept
<1>16. PublicationsKept'
  <2> PICK P : P = PublicationEvents
    OBVIOUS
  <2>1. /\ \A i \in P : ledger[i].of[2] \in 1..c
        /\ \A i \in P, j \in P : ledger[i].of[2] = ledger[j].of[2] => i = j
        /\ \A j \in 1..c : \E i \in P : ledger[i].of = <<"capsule", j>>
    BY DEF Kept, PublicationsKept
  <2>2. ledger'[m + 1].of[2] = c + 1
    BY <1>9
  <2>3. \A i \in P \cup {m + 1} : ledger'[i].of[2] \in 1..c + 1
    BY <1>15, <2>1, <2>2
  <2>4. \A i \in P : ledger'[i].of[2] # c + 1
    BY <1>15, <2>1
  <2>5. \A i \in P \cup {m + 1}, j \in P \cup {m + 1} :
           ledger'[i].of[2] = ledger'[j].of[2] => i = j
    BY <1>15, <2>1, <2>2, <2>4, SMTT(30)
  <2>6. \A j \in 1..c + 1 : \E i \in P \cup {m + 1} : ledger'[i].of = <<"capsule", j>>
    <3> TAKE j \in 1..c + 1
    <3>1. CASE j = c + 1
      BY <1>9, <3>1
    <3>2. CASE j # c + 1
      <4>1. j \in 1..c
        BY <3>2
      <4>2. PICK i \in P : ledger[i].of = <<"capsule", j>>
        BY <2>1, <4>1
      <4>3. ledger'[i] = ledger[i]
        BY <1>15
      <4> QED BY <4>2, <4>3
    <3> QED BY <3>1, <3>2
  <2> QED BY <1>11, <1>13, <2>3, <2>5, <2>6 DEF PublicationsKept
<1>17. StatusesKept'
  <2> PICK y : y = [status |-> "active", event |-> m + 1]
    OBVIOUS
  <2>1. /\ statuses'[c + 1] = y /\ \A j \in 1..c : statuses'[j] = statuses[j]
    <3>1. statuses \in [1..c -> CapsuleState]
      BY DEF Typed, CapsulesTyped
    <3>2. statuses \in Seq(CapsuleState) /\ Len(statuses) = c
      <4>1. [1..c -> CapsuleState] \subseteq Seq(CapsuleState)
        BY SeqDef
      <4>2. statuses \in Seq(CapsuleState)
        BY <3>1, <4>1
      <4> QED BY <3>1, <4>2, LenProperties
    <3>3. IsLog(statuses) /\ Len(statuses) = c
      BY <3>2, LogOf
    <3>4. statuses' = Append(statuses, y)
      BY <1>1
    <3>5. /\ \A j \in 1..Len(statuses) : Append(statuses, y)[j] = statuses[j]
          /\ Append(statuses, y)[Len(statuses) + 1] = y
      <4>1. IsLog(statuses)
        BY <3>3
      <4> QED BY <4>1, LogAppend
    <3> QED BY <3>3, <3>4, <3>5
  <2>2. y.event = m + 1 /\ m + 1 \in DOMAIN ledger' /\ ledger'[m + 1].at = x.at
    BY <1>5, <1>9
  <2>3. x.at <= x.at
    BY <1>5, <1>6, TimesAreNat
  <2> SUFFICES ASSUME NEW j \in 1..c + 1
               PROVE  /\ statuses'[j].event \in DOMAIN ledger'
                      /\ capsules'[j].at <= ledger'[statuses'[j].event].at
    BY <1>13 DEF StatusesKept
  <2>4. CASE j = c + 1
    BY <1>13, <2>1, <2>2, <2>3, <2>4
  <2>5. CASE j # c + 1
    <3>1. j \in 1..c
      BY <2>5
    <3>2. PICK w : w = statuses[j].event
      OBVIOUS
    <3>3. w \in DOMAIN ledger /\ capsules[j].at <= ledger[w].at
      BY <3>1, <3>2 DEF Kept, StatusesKept
    <3>4. w \in DOMAIN ledger' /\ ledger'[w] = ledger[w]
      BY <1>8, <3>3 DEF LedgerKept
    <3>5. statuses'[j].event = w /\ capsules'[j] = capsules[j]
      BY <1>13, <2>1, <3>1, <3>2
    <3> QED BY <3>3, <3>4, <3>5
  <2> QED BY <2>4, <2>5
<1>18. /\ DOMAIN inbox \subseteq DOMAIN inbox'
       /\ \A y \in DOMAIN inbox : inbox'[y] = inbox[y]
       /\ \A y \in DOMAIN inbox' : y \notin DOMAIN inbox
              => inbox'[y].event \in m + 2..m + 1 + n
  <2>1. inbox' = [y \in DOMAIN inbox \cup {<<k, recipients[i]>> : i \in 1..n} |->
                    IF y \in DOMAIN inbox THEN inbox[y]
                    ELSE [state |-> "pending",
                          event |-> m + 1 + (CHOOSE i \in 1..n : recipients[i] = y[2])]]
    BY <1>1 DEF Pending
  <2>2. ASSUME NEW y \in DOMAIN inbox', y \notin DOMAIN inbox
        PROVE  inbox'[y].event \in m + 2..m + 1 + n
    <3>1. PICK i \in 1..n : y = <<k, recipients[i]>>
      BY <2>1, <2>2
    <3>2. y[2] = recipients[i]
      BY <3>1
    <3> PICK j : j = (CHOOSE q \in 1..n : recipients[q] = y[2])
      OBVIOUS
    <3>3. j \in 1..n
      BY <3>2
    <3>4. inbox'[y] = [state |-> "pending", event |-> m + 1 + j]
      BY <2>1, <2>2
    <3>5. inbox'[y].event = m + 1 + j
      BY <3>4
    <3>6. m + 1 + j \in m + 2..m + 1 + n
      BY <3>3
    <3> QED BY <3>5, <3>6
  <2> QED BY <2>1, <2>2
<1>19. RoutesKept'
  <2>1. m + 2..m + 1 + n \subseteq DOMAIN ledger'
    BY <1>9
  <2> QED BY <1>8, <1>18, <2>1 DEF Kept, RoutesKept, LedgerKept
<1>20. AdoptionsKept'
  <2>1. ASSUME NEW r \in adoptions
        PROVE  Ended(r)'
    <3>1. Ended(r)
      BY DEF Kept, AdoptionsKept
    <3> QED BY <1>14, <1>18, <3>1 DEF Ended, CapsulesRemembered
  <2> QED BY <1>1, <2>1 DEF Kept, AdoptionsKept
<1>21. AdoptionsRemembered
  <2>1. \A i \in AdoptedEvents : ledger'[i] = ledger[i]
    BY <1>8 DEF AdoptedEvents, OfType, LedgerKept
  <2>2. \A r \in adoptions : AdoptionEvents(r)' = AdoptionEvents(r)
    <3> TAKE r \in adoptions
    <3>1. AdoptionEvents(r) = {i \in AdoptedEvents : ledger[i].of[2] = <<r.capsule, r.adopter>>}
      BY DEF AdoptionEvents, AdoptedEvents
    <3>2. AdoptionEvents(r)' = {i \in AdoptedEvents : ledger'[i].of[2] = <<r.capsule, r.adopter>>}
      BY <1>12 DEF AdoptionEvents, AdoptedEvents
    <3> QED BY <2>1, <3>1, <3>2
  <2> QED BY <1>1, <2>2 DEF AdoptionsRemembered
<1>22. PathKept(k)'
  <2>1. EventOf("capsule.published", k)' = m + 1
    <3>1. m + 1 \in PublicationEvents' /\ ledger'[m + 1].of[2] = k
      BY <1>9, <1>11
    <3> QED BY <1>16, <3>1, NewEventOf
  <2>2. CASE parents = {} /\ ChainFor(parents) = <<>>
    <3>1. capsules'[k].chain = <<>> /\ DOMAIN <<>> = {}
      BY <1>5, <1>13, <2>2
    <3> QED BY <3>1 DEF PathKept
  <2>3. ASSUME NEW r \in adoptions,
               /\ parents = {r} /\ r.adopter = a /\ r.experience = e
               /\ ChainFor(parents) = r.chain
               /\ RootFor(a, experiences[e].versions[v].content, parents) = r.root
        PROVE  PathKept(k)'
    <3>1. /\ x.publisher = r.adopter /\ x.source = r.experience
          /\ x.chain = r.chain /\ x.root = r.root
          /\ x.at \in Times /\ r.at <= x.at
      BY <1>1, <1>5, <1>6, <2>3
    <3>2. k \in DOMAIN capsules' /\ capsules'[k] = x
      BY <1>13
    <3> QED BY <1>8, <1>14, <1>16, <1>21, <2>1, <3>1, <3>2, RelayedPath
  <2> QED BY <1>4, <2>2, <2>3 DEF OfParent
<1>23. PathsKept'
  <2> SUFFICES ASSUME NEW j \in 1..c + 1
               PROVE  PathKept(j)'
    BY <1>13 DEF PathsKept
  <2>1. CASE j = c + 1
    BY <1>22, <2>1
  <2>2. CASE j # c + 1
    <3>1. j \in DOMAIN capsules
      BY <2>2
    <3>2. PathKept(j)
      BY <3>1 DEF Kept, PathsKept
    <3> QED BY <1>8, <1>14, <1>16, <1>21, <3>1, <3>2, PathRemembered DEF Kept
  <2> QED BY <2>1, <2>2
<1> QED BY <1>16, <1>17, <1>19, <1>20, <1>23 DEF Kept
-----------------------------------------------------------------------------
(* An adoption ends a pending route, so it is the first of its agent.      *)

\* No capsule is adopted before it is published.
LEMMA AvailableAfterPublication ==
  ASSUME Typed, Kept, NEW k \in DOMAIN capsules, NEW a, <<k, a>> \in DOMAIN inbox,
         NEW h \in Times, Available(k, a, h)
  PROVE  capsules[k].at <= h
<1> PICK x, y : x = ledger[inbox[<<k, a>>].event].at /\ y = LastTransitionAt(k)
  OBVIOUS
<1>1. h >= Larger(x, y)
  BY DEF Available, RouteLatestCausalAt
<1>2. inbox[<<k, a>>].event \in DOMAIN ledger /\ statuses[k].event \in DOMAIN ledger
  BY DEF Kept, RoutesKept, StatusesKept
<1>3. x \in Times /\ y \in Times
  BY <1>2 DEF LastTransitionAt, Typed, LedgerTyped
<1>4. capsules[k].at <= y
  BY DEF Kept, StatusesKept, LastTransitionAt
<1>5. capsules[k].at \in Times
  <2>1. capsules[k] \in Capsule
    BY DEF Typed, CapsulesTyped
  <2> QED BY <2>1 DEF Capsule
<1>6. x \in Nat /\ y \in Nat /\ h \in Nat /\ capsules[k].at \in Nat
  BY <1>3, <1>5, TimesAreNat
<1> PICK at : at = capsules[k].at
  OBVIOUS
<1>7. CASE x > y
  <2>1. h >= x
    BY <1>1, <1>7 DEF Larger
  <2> QED BY <1>4, <1>6, <1>7, <2>1
<1>8. CASE ~(x > y)
  <2>1. h >= y
    BY <1>1, <1>8 DEF Larger
  <2> QED BY <1>4, <1>6, <2>1
<1> QED BY <1>7, <1>8

LEMMA CompleteKeeps ==
  ASSUME Typed, Kept, NEW k, NEW a, <<k, a>> \in DOMAIN inbox, NEW p \in Readings,
         Available(k, a, p[1]), NEW e, NEW corroborated,
         NEW drafts, IsLog(drafts), Len(drafts) \in 1..3, Adopting(drafts, k, a),
         Complete(k, a, p, Record(k, a, e, corroborated, p[1]), drafts),
         UNCHANGED <<capsules, statuses>>
  PROVE  Kept'
<1> PICK record : record = Record(k, a, e, corroborated, p[1])
  OBVIOUS
<1>1. /\ adoptions' = adoptions \cup {record}
      /\ inbox' = Terminal(k, a, "adopted", drafts)
      /\ Commit(p[1], p[2], p[1], drafts)
  BY DEF Complete
<1>2. /\ record.capsule = k /\ record.adopter = a
      /\ record.chain = Append(capsules[k].chain, k)
      /\ record.root = capsules[k].root /\ record.at = p[1]
  BY DEF Record
<1>3. p[1] \in Times
  BY ReadingTyped
<1>4. Recorded(drafts, p[1])
  BY <1>1, <1>3, CommandTyped
<1>5. /\ LedgerKept /\ Len(ledger) \in Nat /\ DOMAIN ledger = 1..Len(ledger)
      /\ DOMAIN ledger' = 1..Len(ledger) + Len(drafts)
      /\ \A i \in 1..Len(drafts) : /\ ledger'[Len(ledger) + i].type = drafts[i].type
                                   /\ ledger'[Len(ledger) + i].of = drafts[i].of
  BY <1>4, RecordedKeeps
<1> PICK m \in Nat : m = Len(ledger)
  BY <1>5
<1> PICK n \in 1..3 : n = Len(drafts)
  OBVIOUS
<1>6. Without(drafts, "capsule.published")
  BY DEF Adopting, Without
<1>7. PublicationEvents' = PublicationEvents
  BY <1>4, <1>6, TypeRecorded DEF PublicationEvents
<1>8. \A i \in PublicationEvents : ledger'[i] = ledger[i]
  BY <1>5 DEF PublicationEvents, OfType, LedgerKept
<1>9. PublicationsKept'
  <2> PICK P, D : P = PublicationEvents /\ D = DOMAIN capsules
    OBVIOUS
  <2>1. /\ \A i \in P : ledger[i].of[2] \in D
        /\ \A i \in P, j \in P : ledger[i].of[2] = ledger[j].of[2] => i = j
        /\ \A j \in D : \E i \in P : ledger[i].of = <<"capsule", j>>
    BY DEF Kept, PublicationsKept
  <2>5. \A i \in P : ledger'[i] = ledger[i]
    BY <1>8
  <2>2. \A i \in P : ledger'[i].of[2] \in D
    BY <2>1, <2>5
  <2>3. \A i \in P, j \in P : ledger'[i].of[2] = ledger'[j].of[2] => i = j
    BY <2>1, <2>5
  <2>4. \A j \in D : \E i \in P : ledger'[i].of = <<"capsule", j>>
    <3> TAKE j \in D
    <3>1. PICK i \in P : ledger[i].of = <<"capsule", j>>
      BY <2>1
    <3> QED BY <2>5, <3>1
  <2> QED BY <1>7, <2>2, <2>3, <2>4 DEF PublicationsKept
<1>10. StatusesKept'
  BY <1>5, StatusesRemembered DEF Kept
<1> PICK key : key = <<k, a>>
  OBVIOUS
<1>11. /\ DOMAIN inbox' = DOMAIN inbox /\ key \in DOMAIN inbox
       /\ inbox'[key].state = "adopted" /\ inbox'[key].event = m + n
       /\ \A x \in DOMAIN inbox : x # key => inbox'[x] = inbox[x]
  <2> PICK y : y = [state |-> "adopted", event |-> m + n]
    OBVIOUS
  <2>1. inbox' = [inbox EXCEPT ![key] = y] /\ y.state = "adopted" /\ y.event = m + n
    BY <1>1 DEF Terminal
  <2> QED BY <2>1
<1>12. RoutesKept'
  <2>1. m + n \in DOMAIN ledger'
    BY <1>5
  <2> QED BY <1>5, <1>11, <2>1 DEF Kept, RoutesKept, LedgerKept
<1>13. \A r \in adoptions : <<r.capsule, r.adopter>> # key
  <2>1. inbox[key].state = "pending"
    BY DEF Available
  <2>2. \A r \in adoptions : inbox[<<r.capsule, r.adopter>>].state = "adopted"
    BY DEF Kept, AdoptionsKept, Ended
  <2> QED BY <2>1, <2>2
<1>14. Ended(record)'
  <2>1. k \in DOMAIN capsules
    BY RouteOf
  <2>2. capsules[k].at <= p[1]
    BY <1>3, <2>1, AvailableAfterPublication
  <2> QED BY <1>2, <1>11, <2>1, <2>2 DEF Ended
<1>15. ASSUME NEW r \in adoptions
       PROVE  Ended(r)'
  <2>1. Ended(r) /\ <<r.capsule, r.adopter>> # key
    BY <1>13 DEF Kept, AdoptionsKept
  <2> QED BY <1>11, <2>1 DEF Ended
<1>16. AdoptionsKept'
  <2>1. \A r \in adoptions' : Ended(r)'
    BY <1>1, <1>14, <1>15
  <2>2. \A r \in adoptions : r.capsule # k \/ r.adopter # a
    BY <1>13
  <2>3. \A r \in adoptions, q \in adoptions :
           (r.capsule = q.capsule /\ r.adopter = q.adopter) => r = q
    BY DEF Kept, AdoptionsKept
  <2>4. \A r \in adoptions', q \in adoptions' :
           (r.capsule = q.capsule /\ r.adopter = q.adopter) => r = q
    BY <1>1, <1>2, <2>2, <2>3
  <2> QED BY <2>1, <2>4 DEF AdoptionsKept
<1>17. CapsulesRemembered
  BY DEF CapsulesRemembered
<1>18. ASSUME NEW r \in adoptions
       PROVE  AdoptionEvents(r)' = AdoptionEvents(r)
  <2> PICK q : q = <<r.capsule, r.adopter>>
    OBVIOUS
  <2>1. q # key
    BY <1>13
  <2>2. AdoptionEvents(r) = {i \in 1..m : ledger[i].type = "capsule.adopted"
                                          /\ ledger[i].of[2] = q}
    BY <1>5 DEF AdoptionEvents, OfType
  <2>3. AdoptionEvents(r)' = {i \in 1..m + n : ledger'[i].type = "capsule.adopted"
                                               /\ ledger'[i].of[2] = q}
    BY <1>5 DEF AdoptionEvents, OfType
  <2>4. \A i \in 1..m : ledger'[i] = ledger[i]
    BY <1>5 DEF LedgerKept
  <2>5. ASSUME NEW i \in 1..m + n, ~(i \in 1..m), ledger'[i].type = "capsule.adopted"
        PROVE  ledger'[i].of[2] # q
    <3>1. i - m \in 1..n /\ m + (i - m) = i
      BY <2>5
    <3>2. drafts[i - m].type = "capsule.adopted" /\ ledger'[i].of = drafts[i - m].of
      BY <1>5, <2>5, <3>1
    <3>3. drafts[i - m].of[2] = key
      BY <3>1, <3>2 DEF Adopting
    <3> QED BY <2>1, <3>2, <3>3
  <2>6. 1..m \subseteq 1..m + n
    OBVIOUS
  <2> QED BY <2>2, <2>3, <2>4, <2>5, <2>6
<1>19. AdoptionsRemembered
  BY <1>1, <1>18 DEF AdoptionsRemembered
<1>20. PathsKept'
  <2> SUFFICES ASSUME NEW j \in DOMAIN capsules
               PROVE  PathKept(j)'
    BY DEF PathsKept
  <2>1. PathKept(j)
    BY DEF Kept, PathsKept
  <2> QED BY <1>5, <1>9, <1>17, <1>19, <2>1, PathRemembered DEF Kept
<1> QED BY <1>9, <1>10, <1>12, <1>16, <1>20 DEF Kept

LEMMA AdoptKeeps ==
  ASSUME Typed, Kept, NEW k, NEW a, <<k, a>> \in DOMAIN inbox, AdoptCapsule(k, a)
  PROVE  Kept'
<1>1. UNCHANGED <<capsules, statuses>>
  BY DEF AdoptCapsule
<1> PICK p \in Readings :
      /\ Available(k, a, p[1])
      /\ \/ AdoptAsNew(k, a, p)
         \/ \E e \in CurrentEquivalents(a, capsules[k].content) : AdoptEquivalent(k, a, e, p)
  BY DEF AdoptCapsule
<1>2. ASSUME AdoptAsNew(k, a, p)
      PROVE  Kept'
  <2>1. PICK e, drafts :
          /\ drafts = NewAdoptionDrafts(k, a, e, capsules[k].content)
          /\ Complete(k, a, p, Record(k, a, e, FALSE, p[1]), drafts)
    BY <1>2 DEF AdoptAsNew, NewAdoptionDrafts
  <2>2. IsLog(drafts) /\ Len(drafts) \in 1..3 /\ Adopting(drafts, k, a)
    BY <2>1, NewAdoptionLog
  <2> QED BY <1>1, <2>1, <2>2, CompleteKeeps
<1>3. ASSUME NEW e, AdoptEquivalent(k, a, e, p)
      PROVE  Kept'
  <2>1. PICK corroborates, drafts :
          /\ drafts = EquivalentDrafts(k, a, e)
          /\ Complete(k, a, p, Record(k, a, e, corroborates, p[1]), drafts)
    BY <1>3 DEF AdoptEquivalent, EquivalentDrafts
  <2>2. IsLog(drafts) /\ Len(drafts) \in 1..3 /\ Adopting(drafts, k, a)
    BY <2>1, EquivalentLog
  <2> QED BY <1>1, <2>1, <2>2, CompleteKeeps
<1> QED BY <1>2, <1>3

LEMMA KeptInit == Init => Kept
<1> SUFFICES ASSUME Init
             PROVE  Kept
  OBVIOUS
<1>1. DOMAIN ledger = {} /\ DOMAIN capsules = {} /\ DOMAIN inbox = {} /\ adoptions = {}
  BY DEF Init
<1>2. PublicationEvents = {}
  BY <1>1 DEF PublicationEvents, OfType
<1> QED BY <1>1, <1>2 DEF Kept, PublicationsKept, StatusesKept, RoutesKept, AdoptionsKept,
           PathsKept

LEMMA KeptStep ==
  ASSUME Typed, Kept, [Next]_vars
  PROVE  Kept'
<1>1. ASSUME TopicCommands
      PROVE  Kept'
  BY <1>1, CreateTopicKeeps, CreateSubscriptionKeeps DEF TopicCommands
<1>2. ASSUME OwnerCommands
      PROVE  Kept'
  BY <1>2, CreateExperienceKeeps, CreateVersionKeeps, ChangeTemperatureKeeps
     DEF OwnerCommands
<1>3. ASSUME Publications
      PROVE  Kept'
  <2> PICK t \in Topics, e \in DOMAIN experiences, lifetime \in Lifetimes :
        \E v \in DOMAIN experiences[e].versions,
           parents \in {{}} \cup {{r} : r \in Parents(experiences[e].owner, e)} :
           PublishCapsule(experiences[e].owner, t, e, v, parents, lifetime)
    BY <1>3 DEF Publications
  <2> PICK a : a = experiences[e].owner
    OBVIOUS
  <2> PICK v \in DOMAIN experiences[e].versions,
           parents \in {{}} \cup {{r} : r \in Parents(a, e)} :
        PublishCapsule(a, t, e, v, parents, lifetime)
    OBVIOUS
  <2>1. a \in Agents
    <3>1. experiences[e] \in Experience
      BY DEF Typed, ExperiencesTyped
    <3> QED BY <3>1 DEF Experience
  <2> QED BY <2>1, PublishKeeps
<1>4. ASSUME RouteCommands
      PROVE  Kept'
  <2> PICK x \in DOMAIN inbox :
        \/ AdoptCapsule(x[1], x[2])
        \/ RejectInboxItem(x[1], x[2])
        \/ \E verdict \in Verdicts : RecordCapsuleFeedback(x[1], x[2], verdict)
    BY <1>4 DEF RouteCommands
  <2> PICK k, a : k = x[1] /\ a = x[2]
    OBVIOUS
  <2>1. <<k, a>> \in DOMAIN inbox
    BY RoutePair
  <2>2. ASSUME AdoptCapsule(k, a)
        PROVE  Kept'
    BY <2>1, <2>2, AdoptKeeps
  <2>3. ASSUME RejectInboxItem(k, a)
        PROVE  Kept'
    <3> PICK p \in Readings : /\ Rejectable(k, a, p[1])
                              /\ EndByRejection(k, a, p) \/ RejectionDies(k, p[1])
      BY <2>3 DEF RejectInboxItem
    <3>1. ASSUME EndByRejection(k, a, p)
          PROVE  Kept'
      BY <2>1, <3>1, RejectKeeps
    <3>2. ASSUME RejectionDies(k, p[1])
          PROVE  Kept'
      BY <3>2, ClockKeeps DEF RejectionDies
    <3> QED BY <3>1, <3>2
  <2>4. ASSUME NEW verdict \in Verdicts, RecordCapsuleFeedback(k, a, verdict)
        PROVE  Kept'
    BY <2>4, FeedbackKeeps
  <2> QED BY <2>2, <2>3, <2>4
<1>5. ASSUME NEW k \in DOMAIN capsules, RetractCapsule(k)
      PROVE  Kept'
  BY <1>5, RetractKeeps
<1>6. ASSUME (AdvanceClock \/ StepBack) \/ UNCHANGED vars
      PROVE  Kept'
  <2>1. UNCHANGED Tables
    BY <1>6 DEF AdvanceClock, StepBack, vars, Tables
  <2> QED BY <2>1, ClockKeeps
<1> QED BY <1>1, <1>2, <1>3, <1>4, <1>5, <1>6 DEF Next

\* The inductive invariant of provenance, next to the types: one event per
\* publication, states and routes that refer to the ledger, one adoption per
\* ended route, and the path of every capsule.
THEOREM SharingInvariance == Spec => [](Typed /\ Kept)
<1>1. Init => Typed /\ Kept
  BY TypedInit, KeptInit
<1>2. (Typed /\ Kept) /\ [Next]_vars => (Typed /\ Kept)'
  BY TypedStep, KeptStep
<1> QED BY <1>1, <1>2, PTL DEF Spec

\* However often a capsule is relayed, retracted or judged, and however the
\* clock steps back, its stored path leads hop by hop to the original whose
\* root it carries, each hop published before the next, and exactly one
\* adoption brought it to its publisher (sharing/validation.py).
THEOREM ProvenanceLeadsBack == Spec => []ProvenanceIsAPath
<1>1. Typed /\ Kept => ProvenanceIsAPath
  BY KeptIsAPath
<1> QED BY <1>1, SharingInvariance, PTL
-----------------------------------------------------------------------------
(***************************************************************************)
(* Every startup accepts the stored sharing graph (SharingAudit).  The     *)
(* validator asks its questions of the whole ledger; the invariant Graph   *)
(* answers them event by event, with what each event says of the events    *)
(* before it, which no later event changes.                                *)
(***************************************************************************)

(***************************************************************************)
(* What a command appends.                                                 *)
(***************************************************************************)

\* The event of a draft.
Event(d, at, by) == [type |-> d.type, of |-> d.of, data |-> d.data, at |-> at, by |-> by]

\* The drafts were appended at one time, by a receipt of their own.
Issued(drafts, at) ==
  /\ Len(ledger) \in Nat /\ DOMAIN ledger = 1..Len(ledger)
  /\ Len(drafts) \in Nat /\ Len(receipts) \in Nat
  /\ DOMAIN ledger' = 1..Len(ledger) + Len(drafts)
  /\ \A n \in 1..Len(ledger) : ledger'[n] = ledger[n]
  /\ \A i \in 1..Len(drafts) :
        ledger'[Len(ledger) + i] = Event(drafts[i], at, Len(receipts) + 1)
  /\ DOMAIN receipts = 1..Len(receipts) /\ DOMAIN receipts' = 1..Len(receipts) + 1
  /\ \A n \in 1..Len(receipts) : receipts'[n] = receipts[n]
  /\ receipts'[Len(receipts) + 1].created = clock
  /\ receipts'[Len(receipts) + 1].completed = IF clock' > clock THEN clock' ELSE clock

\* The receipt knows whether the clock stepped back between the readings.
Witnessed(h, c) == receipts'[Len(receipts) + 1].back \/ ~(h < clock \/ c < h)

LEMMA CommitIssues ==
  ASSUME Typed, NEW h, NEW c, NEW at, NEW drafts, IsLog(drafts), Commit(h, c, at, drafts)
  PROVE  Issued(drafts, at) /\ clock' = c /\ Witnessed(h, c)
<1> PICK k \in Nat : k = Len(drafts) /\ DOMAIN drafts = 1..k
  BY LogLength
<1> PICK m \in Nat : m = Len(ledger) /\ DOMAIN ledger = 1..m
  BY LogLength DEF Typed, LedgerTyped
<1> PICK r \in Nat : r = Len(receipts) /\ DOMAIN receipts = 1..r
  BY LogLength DEF Typed, LedgerTyped
<1> PICK t : t = [i \in 1..k |-> Event(drafts[i], at, r + 1)]
  OBVIOUS
<1>1. t \in Seq({t[i] : i \in 1..k})
  <2> PICK S : S = {t[i] : i \in 1..k}
    OBVIOUS
  <2>1. t \in [1..k -> S]
    OBVIOUS
  <2>2. [1..k -> S] \subseteq Seq(S)
    BY SeqDef
  <2> QED BY <2>1, <2>2
<1>2. IsLog(t) /\ DOMAIN t = 1..Len(t) /\ Len(t) \in Nat /\ DOMAIN t = 1..k
  BY <1>1, LogOf
<1>3. Len(t) = k
  BY <1>2
<1>4. ledger' = ledger \o t
  BY DEF Commit, Event
<1>5. /\ IsLog(ledger') /\ Len(ledger') = m + k
      /\ \A n \in 1..m : ledger'[n] = ledger[n]
      /\ \A i \in 1..k : ledger'[m + i] = t[i]
  BY <1>2, <1>3, <1>4, LogConcat DEF Typed, LedgerTyped
<1>6. DOMAIN ledger' = 1..m + k
  BY <1>5, LogLength
<1>7. \A i \in 1..k : t[i] = Event(drafts[i], at, r + 1)
  OBVIOUS
<1> PICK x : x = [created |-> clock, completed |-> IF c > clock THEN c ELSE clock,
                  back |-> h < clock \/ c < h]
  OBVIOUS
<1>8. receipts' = Append(receipts, x) /\ clock' = c
  BY DEF Commit
<1>9. /\ IsLog(receipts') /\ Len(receipts') = r + 1
      /\ \A n \in 1..r : receipts'[n] = receipts[n]
      /\ receipts'[r + 1] = x
  BY <1>8, LogAppend DEF Typed, LedgerTyped
<1>10. DOMAIN receipts' = 1..r + 1
  BY <1>9, LogLength
<1>11. x.created = clock /\ x.completed = IF c > clock THEN c ELSE clock
  OBVIOUS
<1>12. x.back = (h < clock \/ c < h)
  BY Zenon
<1>13. Witnessed(h, c)
  <2>1. x.back \/ ~(h < clock \/ c < h)
    BY <1>12, Zenon
  <2> QED BY <1>9, <2>1, Zenon DEF Witnessed
<1> QED BY <1>5, <1>6, <1>7, <1>8, <1>9, <1>10, <1>11, <1>13 DEF Issued

\* An event is one of the ledger found, or of a draft.
LEMMA OldOrNew ==
  ASSUME NEW drafts, NEW at, Issued(drafts, at), NEW n \in DOMAIN ledger'
  PROVE  \/ n \in DOMAIN ledger /\ ledger'[n] = ledger[n]
         \/ \E i \in 1..Len(drafts) :
               /\ n = Len(ledger) + i /\ n \notin DOMAIN ledger
               /\ ledger'[n] = Event(drafts[i], at, Len(receipts) + 1)
<1> PICK m \in Nat : m = Len(ledger)
  BY DEF Issued
<1> PICK k \in Nat : k = Len(drafts)
  BY DEF Issued
<1>1. n \in 1..m + k /\ DOMAIN ledger = 1..m
  BY DEF Issued
<1>2. CASE n \in 1..m
  BY <1>1, <1>2 DEF Issued
<1>3. CASE n \notin 1..m
  <2>1. n - m \in 1..k /\ n = m + (n - m)
    BY <1>1, <1>3
  <2> PICK i \in 1..k : n = m + i
    BY <2>1
  <2> QED BY <1>1, <1>3 DEF Issued
<1> QED BY <1>2, <1>3

LEMMA IssuedKeeps ==
  ASSUME NEW drafts, NEW at, Issued(drafts, at)
  PROVE  LedgerKept
<1> PICK m \in Nat, k \in Nat : m = Len(ledger) /\ k = Len(drafts)
  BY DEF Issued
<1>1. 1..m \subseteq 1..m + k
  OBVIOUS
<1> QED BY <1>1 DEF Issued, LedgerKept

LEMMA NewEvent ==
  ASSUME NEW drafts, NEW at, Issued(drafts, at), NEW i \in 1..Len(drafts)
  PROVE  /\ Len(ledger) + i \in DOMAIN ledger' /\ Len(ledger) + i \notin DOMAIN ledger
         /\ \A n \in DOMAIN ledger : n < Len(ledger) + i
         /\ ledger'[Len(ledger) + i].type = drafts[i].type
         /\ ledger'[Len(ledger) + i].of = drafts[i].of
         /\ ledger'[Len(ledger) + i].data = drafts[i].data
         /\ ledger'[Len(ledger) + i].at = at
         /\ ledger'[Len(ledger) + i].by = Len(receipts) + 1
<1> PICK m \in Nat, k \in Nat : m = Len(ledger) /\ k = Len(drafts)
  BY DEF Issued
<1>1. /\ DOMAIN ledger = 1..m /\ DOMAIN ledger' = 1..m + k
      /\ ledger'[m + i] = Event(drafts[i], at, Len(receipts) + 1)
  BY DEF Issued
<1>2. m + i \in 1..m + k /\ m + i \notin 1..m /\ \A n \in 1..m : n < m + i
  OBVIOUS
<1> QED BY <1>1, <1>2 DEF Event

\* The event made of a draft.
EventMade(d, at, j) ==
  /\ \A n \in DOMAIN ledger : n < j
  /\ ledger'[j].type = d.type /\ ledger'[j].of = d.of /\ ledger'[j].at = at

LEMMA DraftMade ==
  ASSUME NEW drafts, NEW at, Issued(drafts, at), NEW m, m = Len(ledger),
         NEW i \in 1..Len(drafts)
  PROVE  EventMade(drafts[i], at, m + i)
<1>1. m \in Nat /\ DOMAIN ledger = 1..m /\ ledger'[m + i] = Event(drafts[i], at, Len(receipts) + 1)
  BY DEF Issued
<1>2. \A n \in DOMAIN ledger : n < m + i
  BY <1>1
<1> QED BY <1>1, <1>2 DEF EventMade, Event

LEMMA EventsMade ==
  ASSUME NEW drafts, NEW at, Issued(drafts, at), NEW j \in DOMAIN ledger', j \notin DOMAIN ledger
  PROVE  \E i \in 1..Len(drafts) : EventMade(drafts[i], at, j)
<1> PICK i \in 1..Len(drafts) : j = Len(ledger) + i
  BY OldOrNew
<1>1. EventMade(drafts[i], at, j)
  BY DraftMade
<1> QED BY <1>1

\* How many events have one of some types: one for each member of a set.
OneEach(types, D) ==
  /\ \A n \in DOMAIN ledger : ledger[n].type \in types => ledger[n].of[2] \in D
  /\ \A n \in DOMAIN ledger, m \in DOMAIN ledger :
        /\ ledger[n].type \in types /\ ledger[m].type \in types
        /\ ledger[n].of[2] = ledger[m].of[2]
        => n = m
  /\ \A x \in D : \E n \in DOMAIN ledger : ledger[n].type \in types /\ ledger[n].of[2] = x

\* The drafts of those types are for new members, one each.
Adds(drafts, types, D, E) ==
  /\ \A i \in 1..Len(drafts) :
        drafts[i].type \in types => drafts[i].of[2] \in E /\ drafts[i].of[2] \notin D
  /\ \A i \in 1..Len(drafts), j \in 1..Len(drafts) :
        /\ drafts[i].type \in types /\ drafts[j].type \in types
        /\ drafts[i].of[2] = drafts[j].of[2]
        => i = j
  /\ \A x \in E : \E i \in 1..Len(drafts) : drafts[i].type \in types /\ drafts[i].of[2] = x

LEMMA OneEachGrows ==
  ASSUME NEW drafts, NEW at, Issued(drafts, at), NEW types, NEW D, NEW E,
         OneEach(types, D), Adds(drafts, types, D, E)
  PROVE  OneEach(types, D \cup E)'
<1> PICK m \in Nat, k \in Nat : m = Len(ledger) /\ k = Len(drafts)
  BY DEF Issued
<1>1. ASSUME NEW n \in DOMAIN ledger', ledger'[n].type \in types
      PROVE  \/ /\ n \in DOMAIN ledger /\ ledger'[n] = ledger[n] /\ ledger[n].type \in types
                /\ ledger'[n].of[2] \in D
             \/ \E i \in 1..k : /\ n = m + i /\ drafts[i].type \in types
                                /\ ledger'[n].of = drafts[i].of
                                /\ ledger'[n].of[2] \in E /\ ledger'[n].of[2] \notin D
  <2>1. CASE n \in DOMAIN ledger
    <3>1. ledger'[n] = ledger[n]
      BY <2>1 DEF Issued
    <3> QED BY <1>1, <2>1, <3>1 DEF OneEach
  <2>2. CASE n \notin DOMAIN ledger
    <3>1. PICK i \in 1..k : n = m + i
      BY <2>2, OldOrNew
    <3>2. ledger'[n].type = drafts[i].type /\ ledger'[n].of = drafts[i].of
      BY <3>1, NewEvent
    <3> QED BY <1>1, <3>1, <3>2 DEF Adds
  <2> QED BY <2>1, <2>2
<1>2. \A n \in DOMAIN ledger' : ledger'[n].type \in types => ledger'[n].of[2] \in D \cup E
  BY <1>1
<1>3. ASSUME NEW n \in DOMAIN ledger', NEW l \in DOMAIN ledger',
             ledger'[n].type \in types, ledger'[l].type \in types,
             ledger'[n].of[2] = ledger'[l].of[2]
      PROVE  n = l
  <2>1. CASE n \in DOMAIN ledger /\ ledger'[n] = ledger[n] /\ ledger'[n].of[2] \in D
    <3>1. l \in DOMAIN ledger /\ ledger'[l] = ledger[l]
      BY <1>1, <1>3, <2>1
    <3> QED BY <1>3, <2>1, <3>1 DEF OneEach
  <2>2. ASSUME NEW i \in 1..k, n = m + i, drafts[i].type \in types,
               ledger'[n].of = drafts[i].of, ledger'[n].of[2] \notin D
        PROVE  n = l
    <3>1. PICK j \in 1..k : /\ l = m + j /\ drafts[j].type \in types
                            /\ ledger'[l].of = drafts[j].of
      BY <1>1, <1>3, <2>2
    <3>2. drafts[i].of[2] = drafts[j].of[2]
      BY <1>3, <2>2, <3>1
    <3>3. i = j
      BY <2>2, <3>1, <3>2 DEF Adds
    <3> QED BY <2>2, <3>1, <3>3
  <2> QED BY <1>1, <1>3, <2>1, <2>2
<1>4. ASSUME NEW x \in D \cup E
      PROVE  \E n \in DOMAIN ledger' : ledger'[n].type \in types /\ ledger'[n].of[2] = x
  <2>1. CASE x \in D
    <3>1. PICK n \in DOMAIN ledger : ledger[n].type \in types /\ ledger[n].of[2] = x
      BY <2>1 DEF OneEach
    <3>2. n \in DOMAIN ledger' /\ ledger'[n] = ledger[n]
      BY IssuedKeeps DEF LedgerKept
    <3> QED BY <3>1, <3>2
  <2>2. CASE x \in E
    <3>1. PICK i \in 1..k : drafts[i].type \in types /\ drafts[i].of[2] = x
      BY <2>2 DEF Adds
    <3>2. /\ m + i \in DOMAIN ledger' /\ ledger'[m + i].type = drafts[i].type
          /\ ledger'[m + i].of = drafts[i].of
      BY NewEvent
    <3> QED BY <3>1, <3>2
  <2> QED BY <2>1, <2>2
<1> QED BY <1>2, <1>3, <1>4 DEF OneEach

\* None of the drafts has such a type.
LEMMA OneEachKept ==
  ASSUME NEW drafts, NEW at, Issued(drafts, at), NEW types, NEW D, OneEach(types, D),
         \A i \in 1..Len(drafts) : drafts[i].type \notin types
  PROVE  OneEach(types, D)'
<1>1. Adds(drafts, types, D, {})
  BY DEF Adds
<1>2. OneEach(types, D \cup {})'
  BY <1>1, OneEachGrows
<1>3. D \cup {} = D
  OBVIOUS
<1> QED BY <1>2, <1>3

\* One of them has.
LEMMA OneEachOnce ==
  ASSUME NEW drafts, NEW at, Issued(drafts, at), NEW types, NEW D, OneEach(types, D),
         NEW j \in 1..Len(drafts), drafts[j].type \in types,
         NEW x, drafts[j].of[2] = x, x \notin D,
         \A i \in 1..Len(drafts) : drafts[i].type \in types => i = j
  PROVE  OneEach(types, D \cup {x})'
<1> PICK E : E = {x}
  OBVIOUS
<1>1. Adds(drafts, types, D, E)
  BY DEF Adds
<1>2. OneEach(types, D \cup E)'
  BY <1>1, OneEachGrows
<1> QED BY <1>2
-----------------------------------------------------------------------------
(* What every event says of the events before it and of the sources.       *)

Terminals == {"capsule.adopted", "capsule.rejected"}
LoneTypes == {"topic.created", "subscription.created", "capsule.retracted",
              "capsule.feedback_recorded", "capsule.rejected"}

Filed(n) == ledger[n].of = <<AggregateType(ledger[n].type), ledger[n].of[2]>>

NotOlder(n) ==
  \A m \in DOMAIN ledger :
    (m < n /\ ledger[m].of = ledger[n].of) => ledger[m].at <= ledger[n].at

Spanned(n) == SpannedBy(receipts[ledger[n].by], n) \/ receipts[ledger[n].by].back

Single(n) == \A m \in DOMAIN ledger : ledger[m].by = ledger[n].by => m = n

\* An event of a type and an identity came before event n.
Earlier(n, type, id) ==
  \E m \in DOMAIN ledger : m < n /\ ledger[m].type = type /\ ledger[m].of[2] = id

\* A topic was there by event n.
TopicBefore(n, t) ==
  \E m \in DOMAIN ledger : /\ m < n /\ ledger[m].type = "topic.created"
                           /\ ledger[m].of[2] = t /\ ledger[m].at <= ledger[n].at

SubscriptionSaid(n, s) ==
  /\ subscriptions[s].event = n /\ subscriptions[s].at = ledger[n].at
  /\ TopicBefore(n, s[2])

\* A publication shares its command with its deliveries.
PublicationSaid(n, k) ==
  /\ ledger[n].at = capsules[k].at /\ TopicBefore(n, capsules[k].topic)
  /\ \A m \in DOMAIN ledger :
        ledger[m].by = ledger[n].by
          => m = n \/ (ledger[m].type = "capsule.received" /\ ledger[m].of[2][1] = k)

DeliverySaid(n, k) ==
  \E m \in DOMAIN ledger : /\ m < n /\ ledger[m].type = "capsule.published"
                           /\ ledger[m].of[2] = k
                           /\ ledger[m].by = ledger[n].by /\ ledger[m].at = ledger[n].at

\* The end of a route comes after the newest event of its capsule, or is an
\* adoption and that event another observer's feedback.
EndSaid(n, k) ==
  \E m \in DOMAIN ledger :
    /\ m < n /\ ledger[m].of = <<"capsule", k>>
    /\ \A j \in DOMAIN ledger : (j < n /\ ledger[j].of = <<"capsule", k>>) => j <= m
    /\ \/ ledger[m].at <= ledger[n].at
       \/ ledger[n].type = "capsule.adopted" /\ ledger[m].type = "capsule.feedback_recorded"

Said(n) ==
  /\ Filed(n) /\ NotOlder(n) /\ Spanned(n)
  /\ ledger[n].type \in LoneTypes => Single(n)
  /\ ledger[n].type = "topic.created" => ledger[n].at = topics[ledger[n].of[2]]
  /\ ledger[n].type = "subscription.created" => SubscriptionSaid(n, ledger[n].of[2])
  /\ ledger[n].type = "capsule.published" => PublicationSaid(n, ledger[n].of[2])
  /\ ledger[n].type = "capsule.received" => DeliverySaid(n, ledger[n].of[2][1])
  /\ ledger[n].type \in Terminals =>
        /\ Earlier(n, "capsule.received", ledger[n].of[2])
        /\ EndSaid(n, ledger[n].of[2][1])
  /\ ledger[n].type \in {"capsule.retracted", "capsule.feedback_recorded"} =>
        Earlier(n, "capsule.published", ledger[n].of[2])
  /\ AggregateType(ledger[n].type) = "experience" => ledger[n].of[2] \in DOMAIN experiences

\* Which events there are.
Routes == DOMAIN inbox
Ends == {x \in DOMAIN inbox : inbox[x].state # "pending"}
Retractions == {k \in DOMAIN capsules : Retracted(k)}

OnceEach ==
  /\ OneEach({"topic.created"}, DOMAIN topics)
  /\ OneEach({"subscription.created"}, DOMAIN subscriptions)
  /\ OneEach({"capsule.published"}, DOMAIN capsules)
  /\ OneEach({"capsule.retracted"}, Retractions)
  /\ OneEach({"capsule.received"}, Routes)
  /\ OneEach(Terminals, Ends)

\* A version was written by an event of its experience.
VersionSaid(e, v) ==
  \E n \in DOMAIN ledger :
    ledger[n].of = <<"experience", e>> /\ ledger[n].at = experiences[e].versions[v].at

VersionsSaid == \A e \in DOMAIN experiences : \A v \in DOMAIN experiences[e].versions : VersionSaid(e, v)

\* A capsule is made from its source, and what its state refers to is its
\* publication as long as it is active.
CapsuleSaid(k) ==
  /\ Len(capsules[k].chain) <= MaxHops /\ capsules[k].expires > capsules[k].at
  /\ capsules[k].source \in DOMAIN experiences
  /\ capsules[k].version \in DOMAIN experiences[capsules[k].source].versions
  /\ MatchesItsSource(capsules[k])

StateSaid(k) ==
  /\ ledger[statuses[k].event].of[2] = k
  /\ ~Retracted(k) => ledger[statuses[k].event].type = "capsule.published"
  /\ Retracted(k) => ledger[statuses[k].event].type = "capsule.retracted"

\* A pending route refers to its delivery.
RouteSaid(x) ==
  inbox[x].state = "pending" =>
    ledger[inbox[x].event].type = "capsule.received" /\ ledger[inbox[x].event].of[2] = x

\* Who got a capsule.
Subscribed(k, a) ==
  /\ a # capsules[k].publisher
  /\ <<a, capsules[k].topic>> \in DOMAIN subscriptions
  /\ subscriptions[<<a, capsules[k].topic>>].event < EventOf("capsule.published", k)

Delivered(k) == \A a \in Agents : <<k, a>> \in Routes <=> Subscribed(k, a)

\* The counts of a pair refer to its newest verdict.
CountsSaid == \A q \in DOMAIN reputation : reputation[q].event \in DOMAIN ledger

Graph ==
  /\ \A n \in DOMAIN ledger : Said(n)
  /\ OnceEach /\ VersionsSaid /\ CountsSaid
  /\ \A k \in DOMAIN capsules : CapsuleSaid(k) /\ StateSaid(k) /\ Delivered(k)
  /\ \A x \in DOMAIN inbox : RouteSaid(x)
-----------------------------------------------------------------------------
(* What was said stays true: sources only grow.                            *)

TopicsGrow ==
  /\ \A t \in DOMAIN topics : t \in DOMAIN topics' /\ topics'[t] = topics[t]
  /\ \A s \in DOMAIN subscriptions :
        s \in DOMAIN subscriptions' /\ subscriptions'[s] = subscriptions[s]

ExperiencesGrow ==
  \A e \in DOMAIN experiences :
    /\ e \in DOMAIN experiences'
    /\ experiences'[e].owner = experiences[e].owner
    /\ experiences'[e].origin = experiences[e].origin
    /\ \A v \in DOMAIN experiences[e].versions :
          /\ v \in DOMAIN experiences'[e].versions
          /\ experiences'[e].versions[v] = experiences[e].versions[v]

SourcesGrow == TopicsGrow /\ ExperiencesGrow /\ CapsulesRemembered

\* What is older than an old event, or of its command, is old.
LEMMA OldOnes ==
  ASSUME Typed, NEW drafts, NEW at, Issued(drafts, at), NEW n \in DOMAIN ledger
  PROVE  /\ n \in DOMAIN ledger' /\ ledger'[n] = ledger[n]
         /\ \A j \in DOMAIN ledger' : j < n => j \in DOMAIN ledger
         /\ \A j \in DOMAIN ledger' : ledger'[j].by = ledger[n].by => j \in DOMAIN ledger
         /\ receipts'[ledger[n].by] = receipts[ledger[n].by]
<1> PICK m \in Nat, k \in Nat, r \in Nat :
      m = Len(ledger) /\ k = Len(drafts) /\ r = Len(receipts)
  BY DEF Issued
<1>1. n \in DOMAIN ledger' /\ ledger'[n] = ledger[n]
  BY IssuedKeeps DEF LedgerKept
<1>2. DOMAIN ledger = 1..m /\ DOMAIN ledger' = 1..m + k
  BY DEF Issued
<1>3. \A j \in DOMAIN ledger' : j < n => j \in DOMAIN ledger
  BY <1>2
<1>4. ledger[n].by \in 1..r
  BY DEF Typed, LedgerTyped, Issued
<1>5. \A j \in DOMAIN ledger' : ledger'[j].by = ledger[n].by => j \in DOMAIN ledger
  <2> SUFFICES ASSUME NEW j \in DOMAIN ledger', j \notin DOMAIN ledger
               PROVE  ledger'[j].by # ledger[n].by
    OBVIOUS
  <2>1. PICK i \in 1..Len(drafts) : j = Len(ledger) + i
    BY OldOrNew
  <2>2. ledger'[j].by = r + 1
    BY <2>1, NewEvent
  <2> QED BY <1>4, <2>2
<1>6. receipts'[ledger[n].by] = receipts[ledger[n].by]
  BY <1>4 DEF Issued
<1> QED BY <1>1, <1>3, <1>5, <1>6

LEMMA SaidKept ==
  ASSUME Typed, OnceEach, NEW drafts, NEW at, Issued(drafts, at), SourcesGrow,
         NEW n \in DOMAIN ledger, Said(n)
  PROVE  Said(n)'
<1>1. /\ ledger'[n] = ledger[n] /\ receipts'[ledger[n].by] = receipts[ledger[n].by]
      /\ \A j \in DOMAIN ledger' : j < n => j \in DOMAIN ledger
      /\ \A j \in DOMAIN ledger' : ledger'[j].by = ledger[n].by => j \in DOMAIN ledger
  BY OldOnes
<1>2. \A j \in DOMAIN ledger : j \in DOMAIN ledger' /\ ledger'[j] = ledger[j]
  BY OldOnes
<1>3. Filed(n)' /\ NotOlder(n)' /\ Spanned(n)'
  <2>1. Filed(n)'
    BY <1>1 DEF Said, Filed
  <2>2. NotOlder(n)'
    BY <1>1, <1>2 DEF Said, NotOlder
  <2>3. Spanned(n)'
    BY <1>1 DEF Said, Spanned, SpannedBy
  <2> QED BY <2>1, <2>2, <2>3
<1>4. ledger[n].type \in LoneTypes => Single(n)'
  BY <1>1, <1>2 DEF Said, Single
<1>5. ledger[n].type = "topic.created" => ledger[n].at = topics'[ledger[n].of[2]]
  <2>1. ledger[n].type = "topic.created" => ledger[n].of[2] \in DOMAIN topics
    BY DEF OnceEach, OneEach
  <2> QED BY <2>1 DEF Said, SourcesGrow, TopicsGrow
<1>6. ASSUME NEW t, TopicBefore(n, t)
      PROVE  TopicBefore(n, t)'
  BY <1>1, <1>2, <1>6 DEF TopicBefore
<1>7. ASSUME NEW type, NEW id, Earlier(n, type, id)
      PROVE  Earlier(n, type, id)'
  BY <1>1, <1>2, <1>7 DEF Earlier
<1>8. ASSUME ledger[n].type = "subscription.created"
      PROVE  SubscriptionSaid(n, ledger[n].of[2])'
  <2> PICK s : s = ledger[n].of[2]
    OBVIOUS
  <2>1. s \in DOMAIN subscriptions /\ SubscriptionSaid(n, s)
    BY <1>8 DEF OnceEach, OneEach, Said
  <2>2. subscriptions'[s] = subscriptions[s] /\ TopicBefore(n, s[2])'
    BY <1>6, <2>1 DEF SourcesGrow, TopicsGrow, SubscriptionSaid
  <2>3. SubscriptionSaid(n, s)'
    BY <1>1, <2>1, <2>2 DEF SubscriptionSaid
  <2> QED BY <1>1, <2>3
<1>9. ASSUME ledger[n].type = "capsule.published"
      PROVE  PublicationSaid(n, ledger[n].of[2])'
  <2> PICK k : k = ledger[n].of[2]
    OBVIOUS
  <2>1. k \in DOMAIN capsules /\ PublicationSaid(n, k)
    BY <1>9 DEF OnceEach, OneEach, Said
  <2>2. capsules'[k] = capsules[k] /\ TopicBefore(n, capsules[k].topic)'
    BY <1>6, <2>1 DEF SourcesGrow, CapsulesRemembered, PublicationSaid
  <2>3. PublicationSaid(n, k)'
    BY <1>1, <1>2, <2>1, <2>2 DEF PublicationSaid
  <2> QED BY <1>1, <2>3
<1>10. ASSUME ledger[n].type = "capsule.received"
       PROVE  DeliverySaid(n, ledger[n].of[2][1])'
  <2> PICK k : k = ledger[n].of[2][1]
    OBVIOUS
  <2>1. DeliverySaid(n, k)
    BY <1>10 DEF Said
  <2>2. DeliverySaid(n, k)'
    BY <1>1, <1>2, <2>1 DEF DeliverySaid
  <2> QED BY <1>1, <2>2
<1>11. ASSUME ledger[n].type \in Terminals
       PROVE  /\ Earlier(n, "capsule.received", ledger[n].of[2])'
              /\ EndSaid(n, ledger[n].of[2][1])'
  <2> PICK x, k : x = ledger[n].of[2] /\ k = x[1]
    OBVIOUS
  <2>1. Earlier(n, "capsule.received", x) /\ EndSaid(n, k)
    BY <1>11 DEF Said
  <2>2. Earlier(n, "capsule.received", x)'
    BY <1>7, <2>1
  <2>3. PICK m \in DOMAIN ledger :
          /\ m < n /\ ledger[m].of = <<"capsule", k>>
          /\ \A j \in DOMAIN ledger : (j < n /\ ledger[j].of = <<"capsule", k>>) => j <= m
          /\ \/ ledger[m].at <= ledger[n].at
             \/ /\ ledger[n].type = "capsule.adopted"
                /\ ledger[m].type = "capsule.feedback_recorded"
    BY <2>1 DEF EndSaid
  <2>4. \A j \in DOMAIN ledger' : (j < n /\ ledger'[j].of = <<"capsule", k>>) => j <= m
    BY <1>1, <1>2, <2>3
  <2>5. EndSaid(n, k)'
    BY <1>1, <1>2, <2>3, <2>4 DEF EndSaid
  <2> QED BY <1>1, <2>2, <2>5
<1>12. ledger[n].type \in {"capsule.retracted", "capsule.feedback_recorded"}
         => Earlier(n, "capsule.published", ledger[n].of[2])'
  <2> PICK k : k = ledger[n].of[2]
    OBVIOUS
  <2>1. Earlier(n, "capsule.published", k) => Earlier(n, "capsule.published", k)'
    BY <1>7
  <2>2. ledger'[n].of[2] = k
    BY <1>1
  <2> QED BY <2>1, <2>2 DEF Said
<1>13. AggregateType(ledger[n].type) = "experience"
         => ledger[n].of[2] \in DOMAIN experiences'
  BY DEF Said, SourcesGrow, ExperiencesGrow
<1> QED BY <1>1, <1>3, <1>4, <1>5, <1>8, <1>9, <1>10, <1>11, <1>12, <1>13 DEF Said

\* Then what a command has to say for is its own events.
LEMMA AllSaid ==
  ASSUME Typed, Graph, NEW drafts, NEW at, Issued(drafts, at), SourcesGrow,
         NEW m, m = Len(ledger), \A i \in 1..Len(drafts) : Said(m + i)'
  PROVE  \A n \in DOMAIN ledger' : Said(n)'
<1> TAKE n \in DOMAIN ledger'
<1>1. CASE n \in DOMAIN ledger
  BY <1>1, SaidKept DEF Graph
<1>2. CASE n \notin DOMAIN ledger
  BY <1>2, OldOrNew
<1> QED BY <1>1, <1>2

LEMMA CapsulesSaidKept ==
  ASSUME Typed, Graph, SourcesGrow, NEW k \in DOMAIN capsules
  PROVE  CapsuleSaid(k)'
<1> PICK c : c = capsules[k]
  OBVIOUS
<1>1. capsules'[k] = c
  BY DEF SourcesGrow, CapsulesRemembered
<1>2. CapsuleSaid(k)
  BY DEF Graph
<1> PICK e, v : e = c.source /\ v = c.version
  OBVIOUS
<1>3. e \in DOMAIN experiences /\ v \in DOMAIN experiences[e].versions /\ MatchesItsSource(c)
  BY <1>2 DEF CapsuleSaid
<1>4. 1 \in DOMAIN experiences[e].versions
  <2>1. experiences[e] \in Experience /\ Len(experiences[e].versions) \in 1..MaxVersions
    BY <1>3 DEF Typed, ExperiencesTyped
  <2>2. experiences[e].versions \in Seq([content : Contents, at : Times])
    BY <2>1 DEF Experience
  <2> QED BY <2>1, <2>2, SharingBounds
<1>5. /\ e \in DOMAIN experiences' /\ v \in DOMAIN experiences'[e].versions
      /\ experiences'[e].owner = experiences[e].owner
      /\ experiences'[e].origin = experiences[e].origin
      /\ experiences'[e].versions[v] = experiences[e].versions[v]
      /\ experiences'[e].versions[1] = experiences[e].versions[1]
  BY <1>3, <1>4 DEF SourcesGrow, ExperiencesGrow
<1>6. MatchesItsSource(c)'
  BY <1>3, <1>5 DEF MatchesItsSource, OwnRoot
<1> QED BY <1>1, <1>2, <1>5, <1>6 DEF CapsuleSaid

\* Who had subscribed to an old capsule stays who had: a new subscription
\* comes after it.
LEMMA DeliveredKept ==
  ASSUME Typed, Kept, Kept', Graph, NEW drafts, NEW at, Issued(drafts, at), SourcesGrow,
         NEW k \in DOMAIN capsules,
         \A a \in Agents : <<k, a>> \in Routes' <=> <<k, a>> \in Routes,
         \A s \in DOMAIN subscriptions' :
            s \notin DOMAIN subscriptions => subscriptions'[s].event = Len(ledger) + 1
  PROVE  Delivered(k)'
<1> PICK n : n = EventOf("capsule.published", k)
  OBVIOUS
<1>1. n \in DOMAIN ledger
  BY EventOfPublication DEF Kept, PublicationEvents, OfType
<1>2. EventOf("capsule.published", k)' = n
  <2>1. LedgerKept /\ CapsulesRemembered
    BY IssuedKeeps DEF SourcesGrow
  <2> QED BY <2>1, EventsRemembered DEF Kept
<1>3. capsules'[k] = capsules[k]
  BY DEF SourcesGrow, CapsulesRemembered
<1>4. Delivered(k)
  BY DEF Graph
<1> SUFFICES ASSUME NEW a \in Agents
             PROVE  Subscribed(k, a)' <=> Subscribed(k, a)
  BY <1>4 DEF Delivered
<1> PICK s : s = <<a, capsules[k].topic>>
  OBVIOUS
<1>5. CASE s \in DOMAIN subscriptions
  <2>1. s \in DOMAIN subscriptions' /\ subscriptions'[s] = subscriptions[s]
    BY <1>5 DEF SourcesGrow, TopicsGrow
  <2> QED BY <1>2, <1>3, <1>5, <2>1 DEF Subscribed
<1>6. CASE s \notin DOMAIN subscriptions
  <2>1. ~Subscribed(k, a)
    BY <1>6 DEF Subscribed
  <2>2. ASSUME s \in DOMAIN subscriptions', subscriptions'[s].event < n
        PROVE  FALSE
    <3>1. subscriptions'[s].event = Len(ledger) + 1
      BY <1>6, <2>2
    <3>2. Len(ledger) \in Nat /\ n \in 1..Len(ledger)
      BY <1>1 DEF Issued
    <3> QED BY <2>2, <3>1, <3>2
  <2> QED BY <1>2, <1>3, <2>1, <2>2 DEF Subscribed
<1> QED BY <1>5, <1>6
-----------------------------------------------------------------------------
(* What every new event says.                                              *)

LEMMA KindTypes ==
  ASSUME NEW type
  PROVE  /\ AggregateType(type) = "topic" <=> type = "topic.created"
         /\ AggregateType(type) = "subscription" <=> type = "subscription.created"
         /\ AggregateType(type) = "capsule" <=>
               type \in {"capsule.published", "capsule.retracted", "capsule.feedback_recorded"}
         /\ AggregateType(type) = "inbox_item" <=>
               type \in {"capsule.received", "capsule.adopted", "capsule.rejected"}
         /\ AggregateType(type) \in {"topic", "subscription", "capsule", "inbox_item",
                                     "experience"}
BY DEF AggregateType

LEMMA OfKind ==
  ASSUME Graph, NEW j \in DOMAIN ledger, NEW kind, NEW id, ledger[j].of = <<kind, id>>
  PROVE  AggregateType(ledger[j].type) = kind /\ ledger[j].of[2] = id
<1>1. ledger[j].of = <<AggregateType(ledger[j].type), ledger[j].of[2]>>
  BY DEF Graph, Said, Filed
<1> QED BY <1>1

\* The clock as a command reads it.
CommandAt(p, at) ==
  p \in Readings /\ at \in {clock, p[1]} /\ clock' = p[2] /\ Witnessed(p[1], p[2])

LEMMA CommonSaid ==
  ASSUME Typed, NEW p, NEW at, CommandAt(p, at), NEW drafts, Issued(drafts, at),
         NEW m, m = Len(ledger), NEW i \in 1..Len(drafts),
         drafts[i].of = <<AggregateType(drafts[i].type), drafts[i].of[2]>>,
         \A j \in DOMAIN ledger : ledger[j].of = drafts[i].of => ledger[j].at <= at
  PROVE  /\ Filed(m + i)' /\ NotOlder(m + i)' /\ Spanned(m + i)'
         /\ Len(drafts) = 1 => Single(m + i)'
<1> PICK k \in Nat, r \in Nat : k = Len(drafts) /\ r = Len(receipts)
  BY DEF Issued
<1>0. m \in Nat /\ DOMAIN ledger = 1..m /\ DOMAIN ledger' = 1..m + k
  BY DEF Issued
<1>1. /\ m \in Nat /\ DOMAIN ledger = 1..m /\ DOMAIN ledger' = 1..m + k
      /\ ledger'[m + i].type = drafts[i].type /\ ledger'[m + i].of = drafts[i].of
      /\ ledger'[m + i].at = at /\ ledger'[m + i].by = r + 1
  <2>1. /\ ledger'[Len(ledger) + i].type = drafts[i].type
        /\ ledger'[Len(ledger) + i].of = drafts[i].of
        /\ ledger'[Len(ledger) + i].at = at
        /\ ledger'[Len(ledger) + i].by = Len(receipts) + 1
    BY NewEvent, ZenonT(60)
  <2> QED BY <1>0, <2>1
<1>2. at \in Nat /\ clock \in Nat /\ p[1] \in Times /\ p[2] \in Times
  BY ReadingTyped, TimesAreNat DEF CommandAt, Typed
<1>3. NotOlder(m + i)'
  <2> SUFFICES ASSUME NEW j \in DOMAIN ledger', ledger'[j].of = drafts[i].of
               PROVE  ledger'[j].at <= at
    BY <1>1 DEF NotOlder
  <2>1. CASE j \in DOMAIN ledger
    <3>1. ledger'[j] = ledger[j]
      BY <2>1 DEF Issued
    <3> QED BY <2>1, <3>1
  <2>2. CASE j \notin DOMAIN ledger
    <3>1. \E l \in 1..Len(drafts) : EventMade(drafts[l], at, j)
      BY <2>2, EventsMade
    <3>2. ledger'[j].at = at
      BY <3>1 DEF EventMade
    <3> QED BY <1>2, <3>2
  <2> QED BY <2>1, <2>2
<1>4. Spanned(m + i)'
  <2> PICK y : y = receipts'[r + 1]
    OBVIOUS
  <2> SUFFICES ASSUME ~y.back
               PROVE  y.created <= at /\ at <= y.completed
    BY <1>1 DEF Spanned, SpannedBy
  <2>4. p[1] \in Nat /\ p[2] \in Nat
    BY <1>2, TimesAreNat
  <2>2. ~(p[1] < clock \/ p[2] < p[1])
    BY DEF CommandAt, Witnessed
  <2>1. clock <= p[1] /\ p[1] <= p[2]
    BY <1>2, <2>2, <2>4
  <2>3. y.created = clock /\ y.completed = IF p[2] > clock THEN p[2] ELSE clock
    BY DEF Issued, CommandAt
  <2> PICK c \in Nat, h \in Nat, z \in Nat : c = clock /\ h = p[1] /\ z = p[2]
    BY <1>2, <2>4
  <2>5. c <= h /\ h <= z /\ at \in {c, h}
    BY <2>1 DEF CommandAt
  <2>6. y.created = c /\ y.completed = IF z > c THEN z ELSE c
    BY <2>3
  <2> QED BY <2>5, <2>6
<1>5. ASSUME Len(drafts) = 1
      PROVE  Single(m + i)'
  <2> SUFFICES ASSUME NEW j \in DOMAIN ledger', ledger'[j].by = r + 1
               PROVE  j = m + i
    BY <1>1 DEF Single
  <2>1. j \notin DOMAIN ledger
    <3>1. ASSUME j \in DOMAIN ledger
          PROVE  FALSE
      <4>1. ledger'[j] = ledger[j] /\ ledger[j].by \in 1..r
        BY <3>1 DEF Issued, Typed, LedgerTyped
      <4> QED BY <4>1
    <3> QED BY <3>1
  <2>2. PICK l \in 1..k : j = m + l
    BY <2>1, OldOrNew
  <2> QED BY <1>5, <2>2
<1>6. Filed(m + i)'
  BY <1>1 DEF Filed
<1> QED BY <1>3, <1>4, <1>5, <1>6

\* A command of one event.
LEMMA OneIssued ==
  ASSUME Typed, NEW p \in Readings, NEW d, Commit(p[1], p[2], p[1], <<d>>)
  PROVE  /\ Issued(<<d>>, p[1]) /\ CommandAt(p, p[1])
         /\ Len(<<d>>) = 1 /\ <<d>>[1] = d /\ 1 \in 1..Len(<<d>>)
         /\ \A i \in 1..Len(<<d>>) : i = 1
<1> PICK drafts : drafts = <<d>>
  OBVIOUS
<1>1. IsLog(drafts) /\ Len(drafts) = 1 /\ drafts[1] = d
  BY LogOne
<1>2. Commit(p[1], p[2], p[1], drafts)
  OBVIOUS
<1>3. Issued(drafts, p[1]) /\ clock' = p[2] /\ Witnessed(p[1], p[2])
  BY <1>1, <1>2, CommitIssues
<1>4. CommandAt(p, p[1])
  BY <1>3 DEF CommandAt
<1>5. 1 \in 1..Len(drafts) /\ \A i \in 1..Len(drafts) : i = 1
  BY <1>1
<1> QED BY <1>1, <1>3, <1>4, <1>5

\* What it has to say, and no more than any event does.
LEMMA OneSaid ==
  ASSUME Typed, Graph, SourcesGrow, NEW p \in Readings, NEW d,
         Commit(p[1], p[2], p[1], <<d>>), d.of = <<AggregateType(d.type), d.of[2]>>,
         \A j \in DOMAIN ledger : ledger[j].of = d.of => ledger[j].at <= p[1],
         NEW m, m = Len(ledger)
  PROVE  /\ m \in Nat /\ DOMAIN ledger = 1..m /\ m + 1 \in DOMAIN ledger'
         /\ ledger'[m + 1] = Event(d, p[1], Len(receipts) + 1)
         /\ Filed(m + 1)' /\ NotOlder(m + 1)' /\ Spanned(m + 1)' /\ Single(m + 1)'
         /\ Said(m + 1)' => \A n \in DOMAIN ledger' : Said(n)'
<1> PICK drafts : drafts = <<d>>
  OBVIOUS
<1>1. /\ Issued(drafts, p[1]) /\ CommandAt(p, p[1]) /\ Len(drafts) = 1 /\ drafts[1] = d
      /\ 1 \in 1..Len(drafts) /\ \A i \in 1..Len(drafts) : i = 1
  BY OneIssued
<1>2. /\ Filed(m + 1)' /\ NotOlder(m + 1)' /\ Spanned(m + 1)'
      /\ Len(drafts) = 1 => Single(m + 1)'
  <2>1. drafts[1].of = <<AggregateType(drafts[1].type), drafts[1].of[2]>>
    BY <1>1
  <2>2. \A j \in DOMAIN ledger : ledger[j].of = drafts[1].of => ledger[j].at <= p[1]
    BY <1>1
  <2> QED BY <1>1, <2>1, <2>2, CommonSaid
<1>3. /\ m \in Nat /\ DOMAIN ledger = 1..m /\ m + 1 \in DOMAIN ledger'
      /\ ledger'[m + 1] = Event(d, p[1], Len(receipts) + 1)
  BY <1>1 DEF Issued
<1>4. Said(m + 1)' => \A n \in DOMAIN ledger' : Said(n)'
  <2> SUFFICES ASSUME Said(m + 1)'
               PROVE  \A n \in DOMAIN ledger' : Said(n)'
    OBVIOUS
  <2>1. \A i \in 1..Len(drafts) : Said(m + i)'
    <3> TAKE i \in 1..Len(drafts)
    <3>1. i = 1
      BY <1>1
    <3>2. Said(m + 1)'
      OBVIOUS
    <3> QED BY <3>1, <3>2
  <2> QED BY <1>1, <2>1, AllSaid
<1> QED BY <1>1, <1>2, <1>3, <1>4
-----------------------------------------------------------------------------
(* Topics, subscriptions and experiences.                                  *)

LEMMA VersionKept ==
  ASSUME LedgerKept, NEW e, NEW v, VersionSaid(e, v),
         experiences'[e].versions[v] = experiences[e].versions[v]
  PROVE  VersionSaid(e, v)'
<1> PICK n \in DOMAIN ledger :
      ledger[n].of = <<"experience", e>> /\ ledger[n].at = experiences[e].versions[v].at
  BY DEF VersionSaid
<1>1. n \in DOMAIN ledger' /\ ledger'[n] = ledger[n]
  BY DEF LedgerKept
<1> QED BY <1>1 DEF VersionSaid

LEMMA StatesKept ==
  ASSUME Kept, Graph, LedgerKept, NEW k \in DOMAIN capsules, statuses'[k] = statuses[k]
  PROVE  StateSaid(k)'
<1> PICK n : n = statuses[k].event
  OBVIOUS
<1>1. n \in DOMAIN ledger
  BY DEF Kept, StatusesKept
<1>2. ledger'[n] = ledger[n] /\ StateSaid(k)
  BY <1>1 DEF LedgerKept, Graph
<1> QED BY <1>2 DEF StateSaid, Retracted

LEMMA RouteKept ==
  ASSUME Kept, Graph, LedgerKept, NEW x \in DOMAIN inbox, inbox'[x] = inbox[x]
  PROVE  RouteSaid(x)'
<1> PICK n : n = inbox[x].event
  OBVIOUS
<1>1. n \in DOMAIN ledger
  BY DEF Kept, RoutesKept
<1>2. ledger'[n] = ledger[n] /\ RouteSaid(x)
  BY <1>1 DEF LedgerKept, Graph
<1> QED BY <1>2 DEF RouteSaid

LEMMA CountsKept ==
  ASSUME Graph, LedgerKept, UNCHANGED reputation
  PROVE  CountsSaid'
BY DEF Graph, CountsSaid, LedgerKept

\* A command that leaves capsules and routes alone.
LEMMA SidesKept ==
  ASSUME Typed, Kept, Kept', Graph, NEW drafts, NEW at, Issued(drafts, at), SourcesGrow,
         UNCHANGED <<capsules, statuses, inbox>>,
         \A s \in DOMAIN subscriptions' :
            s \notin DOMAIN subscriptions => subscriptions'[s].event = Len(ledger) + 1
  PROVE  /\ \A k \in DOMAIN capsules' : CapsuleSaid(k)' /\ StateSaid(k)' /\ Delivered(k)'
         /\ \A x \in DOMAIN inbox' : RouteSaid(x)'
<1>1. LedgerKept
  BY IssuedKeeps
<1>2. ASSUME NEW k \in DOMAIN capsules
      PROVE  CapsuleSaid(k)' /\ StateSaid(k)' /\ Delivered(k)'
  <2>1. CapsuleSaid(k)'
    BY CapsulesSaidKept
  <2>2. StateSaid(k)'
    BY <1>1, StatesKept
  <2>3. \A a \in Agents : <<k, a>> \in Routes' <=> <<k, a>> \in Routes
    BY DEF Routes
  <2>4. Delivered(k)'
    BY <2>3, DeliveredKept
  <2> QED BY <2>1, <2>2, <2>4
<1>3. ASSUME NEW x \in DOMAIN inbox
      PROVE  RouteSaid(x)'
  BY <1>1, RouteKept
<1> QED BY <1>2, <1>3

LEMMA CapsulePartsKept ==
  ASSUME Graph, NEW drafts, NEW at, Issued(drafts, at), UNCHANGED <<capsules, statuses, inbox>>,
         \A i \in 1..Len(drafts) : AggregateType(drafts[i].type) \notin {"capsule", "inbox_item"}
  PROVE  /\ OneEach({"capsule.published"}, DOMAIN capsules)'
         /\ OneEach({"capsule.retracted"}, Retractions)'
         /\ OneEach({"capsule.received"}, Routes)'
         /\ OneEach(Terminals, Ends)'
<1>1. \A i \in 1..Len(drafts) :
        /\ drafts[i].type \notin {"capsule.published"}
        /\ drafts[i].type \notin {"capsule.retracted"}
        /\ drafts[i].type \notin {"capsule.received"} /\ drafts[i].type \notin Terminals
  BY KindTypes DEF Terminals
<1> PICK C, R, I, E : C = DOMAIN capsules /\ R = Retractions /\ I = Routes /\ E = Ends
  OBVIOUS
<1>2. C = DOMAIN capsules' /\ R = Retractions' /\ I = Routes' /\ E = Ends'
  BY DEF Retractions, Retracted, Routes, Ends
<1>3. /\ OneEach({"capsule.published"}, C)' /\ OneEach({"capsule.retracted"}, R)'
      /\ OneEach({"capsule.received"}, I)' /\ OneEach({"capsule.adopted", "capsule.rejected"}, E)'
  BY <1>1, OneEachKept DEF Graph, OnceEach, Terminals
<1> QED BY <1>2, <1>3 DEF OneEach, Terminals

LEMMA TopicPartsKept ==
  ASSUME Graph, NEW drafts, NEW at, Issued(drafts, at), UNCHANGED <<topics, subscriptions>>,
         \A i \in 1..Len(drafts) : AggregateType(drafts[i].type) \notin {"topic", "subscription"}
  PROVE  /\ OneEach({"topic.created"}, DOMAIN topics)'
         /\ OneEach({"subscription.created"}, DOMAIN subscriptions)'
<1>1. \A i \in 1..Len(drafts) : /\ drafts[i].type \notin {"topic.created"}
                                /\ drafts[i].type \notin {"subscription.created"}
  BY KindTypes
<1> PICK T, S : T = DOMAIN topics /\ S = DOMAIN subscriptions
  OBVIOUS
<1>2. OneEach({"topic.created"}, T)' /\ OneEach({"subscription.created"}, S)'
  BY <1>1, OneEachKept DEF Graph, OnceEach
<1> QED BY <1>2 DEF OneEach

\* The function a command extends.
LEMMA ExtendedAt ==
  ASSUME NEW f, NEW key, NEW value, key \notin DOMAIN f, NEW g, g = Extended(f, key, value)
  PROVE  /\ DOMAIN g = DOMAIN f \cup {key} /\ g[key] = value
         /\ \A x \in DOMAIN f : g[x] = f[x]
BY DEF Extended

LEMMA CreateTopicGraph ==
  ASSUME Typed, Kept, Kept', Graph, NEW t \in Topics, CreateTopic(t)
  PROVE  Graph'
<1> PICK d : d = Draft("topic.created", "topic", t, {})
  OBVIOUS
<1>1. d.type = "topic.created" /\ d.of = <<"topic", t>> /\ d.of[2] = t
  BY DEF Draft
<1> PICK p \in Readings : /\ topics' = Extended(topics, t, p[1])
                          /\ Commit(p[1], p[2], p[1], <<d>>)
  BY DEF CreateTopic
<1>2. /\ t \notin DOMAIN topics
      /\ UNCHANGED <<subscriptions, experiences, capsules, statuses, inbox, reputation>>
  BY DEF CreateTopic
<1>3. /\ DOMAIN topics' = DOMAIN topics \cup {t} /\ topics'[t] = p[1]
      /\ \A x \in DOMAIN topics : topics'[x] = topics[x]
  <2> PICK f, g : f = topics /\ g = topics'
    OBVIOUS
  <2>1. g = Extended(f, t, p[1]) /\ t \notin DOMAIN f
    BY <1>2
  <2>2. DOMAIN g = DOMAIN f \cup {t} /\ g[t] = p[1] /\ \A x \in DOMAIN f : g[x] = f[x]
    BY <2>1, ExtendedAt DEF Extended
  <2> QED BY <2>2
<1>4. SourcesGrow
  BY <1>2, <1>3 DEF SourcesGrow, TopicsGrow, ExperiencesGrow, CapsulesRemembered
<1> PICK drafts : drafts = <<d>>
  OBVIOUS
<1>5. /\ Issued(drafts, p[1]) /\ Len(drafts) = 1 /\ drafts[1] = d
      /\ 1 \in 1..Len(drafts) /\ \A i \in 1..Len(drafts) : i = 1
  BY OneIssued
<1> PICK m : m = Len(ledger)
  OBVIOUS
<1>6. \A j \in DOMAIN ledger : ledger[j].of # d.of
  <2> SUFFICES ASSUME NEW j \in DOMAIN ledger, ledger[j].of = <<"topic", t>>
               PROVE  FALSE
    BY <1>1
  <2>1. ledger[j].type = "topic.created" /\ ledger[j].of[2] = t
    BY OfKind, KindTypes
  <2> QED BY <1>2, <2>1 DEF Graph, OnceEach, OneEach
<1>7. /\ ledger'[m + 1] = Event(d, p[1], Len(receipts) + 1)
      /\ Filed(m + 1)' /\ NotOlder(m + 1)' /\ Spanned(m + 1)' /\ Single(m + 1)'
      /\ Said(m + 1)' => \A n \in DOMAIN ledger' : Said(n)'
  <2>1. d.of = <<AggregateType(d.type), d.of[2]>>
    BY <1>1 DEF AggregateType
  <2> QED BY <1>4, <1>6, <2>1, OneSaid
<1>8. Said(m + 1)'
  <2>1. ledger'[m + 1].type = "topic.created" /\ ledger'[m + 1].of[2] = t
        /\ ledger'[m + 1].at = p[1]
    BY <1>1, <1>7 DEF Event
  <2> QED BY <1>3, <1>7, <2>1 DEF Said, Terminals, LoneTypes, AggregateType
<1>9. OneEach({"topic.created"}, DOMAIN topics)'
  <2> PICK D : D = DOMAIN topics
    OBVIOUS
  <2>1. OneEach({"topic.created"}, D \cup {t})'
    <3>1. /\ OneEach({"topic.created"}, D) /\ drafts[1].type \in {"topic.created"}
          /\ drafts[1].of[2] = t /\ t \notin D
      BY <1>1, <1>2, <1>5 DEF Graph, OnceEach
    <3> QED BY <1>5, <3>1, OneEachOnce
  <2> QED BY <1>3, <2>1 DEF OneEach
<1>10. OneEach({"subscription.created"}, DOMAIN subscriptions)'
  <2> PICK D : D = DOMAIN subscriptions
    OBVIOUS
  <2>1. OneEach({"subscription.created"}, D)'
    <3>1. /\ OneEach({"subscription.created"}, D)
          /\ \A i \in 1..Len(drafts) : drafts[i].type \notin {"subscription.created"}
      BY <1>1, <1>5 DEF Graph, OnceEach
    <3> QED BY <1>5, <3>1, OneEachKept
  <2> QED BY <1>2, <2>1 DEF OneEach
<1>11. OnceEach'
  <2>1. \A i \in 1..Len(drafts) : AggregateType(drafts[i].type) \notin {"capsule", "inbox_item"}
    BY <1>1, <1>5 DEF AggregateType
  <2> QED BY <1>2, <1>5, <1>9, <1>10, <2>1, CapsulePartsKept DEF OnceEach
<1>12. VersionsSaid'
  BY <1>2, <1>5, IssuedKeeps, VersionKept DEF Graph, VersionsSaid
<1>13. /\ \A k \in DOMAIN capsules' : CapsuleSaid(k)' /\ StateSaid(k)' /\ Delivered(k)'
       /\ \A x \in DOMAIN inbox' : RouteSaid(x)'
  BY <1>2, <1>4, <1>5, SidesKept
<1>14. CountsSaid'
  BY <1>2, <1>5, IssuedKeeps, CountsKept
<1> QED BY <1>7, <1>8, <1>11, <1>12, <1>13, <1>14 DEF Graph

LEMMA CreateSubscriptionGraph ==
  ASSUME Typed, Kept, Kept', Graph, NEW a \in Agents, NEW t \in Topics,
         CreateSubscription(a, t)
  PROVE  Graph'
<1> PICK s : s = <<a, t>>
  OBVIOUS
<1> PICK d : d = Draft("subscription.created", "subscription", s, {})
  OBVIOUS
<1>1. d.type = "subscription.created" /\ d.of = <<"subscription", s>> /\ d.of[2] = s
  BY DEF Draft
<1> PICK m : m = Len(ledger)
  OBVIOUS
<1> PICK p \in Readings : /\ p[1] >= topics[t]
                          /\ subscriptions' = Extended(subscriptions, s,
                                                [event |-> m + 1, at |-> p[1]])
                          /\ Commit(p[1], p[2], p[1], <<d>>)
  BY DEF CreateSubscription
<1>2. /\ t \in DOMAIN topics /\ s \notin DOMAIN subscriptions
      /\ UNCHANGED <<topics, experiences, capsules, statuses, inbox, reputation>>
  BY DEF CreateSubscription
<1>3. /\ DOMAIN subscriptions' = DOMAIN subscriptions \cup {s}
      /\ subscriptions'[s].event = m + 1 /\ subscriptions'[s].at = p[1]
      /\ \A x \in DOMAIN subscriptions : subscriptions'[x] = subscriptions[x]
  <2> PICK f, g, y : f = subscriptions /\ g = subscriptions' /\ y = [event |-> m + 1, at |-> p[1]]
    OBVIOUS
  <2>1. g = Extended(f, s, y) /\ s \notin DOMAIN f
    BY <1>2
  <2>2. DOMAIN g = DOMAIN f \cup {s} /\ g[s] = y /\ \A x \in DOMAIN f : g[x] = f[x]
    BY <2>1 DEF Extended
  <2>3. y.event = m + 1 /\ y.at = p[1]
    OBVIOUS
  <2> QED BY <2>2, <2>3
<1>4. SourcesGrow
  BY <1>2, <1>3 DEF SourcesGrow, TopicsGrow, ExperiencesGrow, CapsulesRemembered
<1> PICK drafts : drafts = <<d>>
  OBVIOUS
<1>5. /\ Issued(drafts, p[1]) /\ Len(drafts) = 1 /\ drafts[1] = d
      /\ 1 \in 1..Len(drafts) /\ \A i \in 1..Len(drafts) : i = 1
  BY OneIssued
<1>6. \A j \in DOMAIN ledger : ledger[j].of # d.of
  <2> SUFFICES ASSUME NEW j \in DOMAIN ledger, ledger[j].of = <<"subscription", s>>
               PROVE  FALSE
    BY <1>1
  <2>1. ledger[j].type = "subscription.created" /\ ledger[j].of[2] = s
    BY OfKind, KindTypes
  <2> QED BY <1>2, <2>1 DEF Graph, OnceEach, OneEach
<1>7. /\ m \in Nat /\ DOMAIN ledger = 1..m
      /\ ledger'[m + 1] = Event(d, p[1], Len(receipts) + 1)
      /\ Filed(m + 1)' /\ NotOlder(m + 1)' /\ Spanned(m + 1)' /\ Single(m + 1)'
      /\ Said(m + 1)' => \A n \in DOMAIN ledger' : Said(n)'
  <2>1. d.of = <<AggregateType(d.type), d.of[2]>>
    BY <1>1 DEF AggregateType
  <2> QED BY <1>4, <1>6, <2>1, OneSaid
<1>8. Said(m + 1)'
  <2>1. /\ ledger'[m + 1].type = "subscription.created" /\ ledger'[m + 1].of[2] = s
        /\ ledger'[m + 1].at = p[1]
    BY <1>1, <1>7 DEF Event
  <2>2. PICK n \in DOMAIN ledger : ledger[n].type = "topic.created" /\ ledger[n].of[2] = t
    BY <1>2 DEF Graph, OnceEach, OneEach
  <2>3. ledger[n].at = topics[t]
    BY <2>2 DEF Graph, Said
  <2>4. n \in DOMAIN ledger' /\ ledger'[n] = ledger[n] /\ n < m + 1
    BY <1>5, <1>7, IssuedKeeps DEF LedgerKept
  <2>5. ledger'[n].at <= p[1]
    <3>1. topics[t] \in Nat /\ p[1] \in Nat
      BY <1>2, ReadingTyped, TimesAreNat DEF Typed, TopicsTyped
    <3> QED BY <2>3, <2>4, <3>1
  <2>6. s[2] = t
    OBVIOUS
  <2>7. TopicBefore(m + 1, t)'
    BY <2>1, <2>2, <2>4, <2>5 DEF TopicBefore
  <2>8. SubscriptionSaid(m + 1, s)'
    BY <1>3, <2>1, <2>6, <2>7 DEF SubscriptionSaid
  <2> QED BY <1>7, <2>1, <2>8 DEF Said, Terminals, LoneTypes, AggregateType
<1>9. OneEach({"subscription.created"}, DOMAIN subscriptions)'
  <2> PICK D : D = DOMAIN subscriptions
    OBVIOUS
  <2>1. OneEach({"subscription.created"}, D \cup {s})'
    <3>1. /\ OneEach({"subscription.created"}, D) /\ drafts[1].type \in {"subscription.created"}
          /\ drafts[1].of[2] = s /\ s \notin D
      BY <1>1, <1>2, <1>5 DEF Graph, OnceEach
    <3> QED BY <1>5, <3>1, OneEachOnce
  <2> QED BY <1>3, <2>1 DEF OneEach
<1>10. OneEach({"topic.created"}, DOMAIN topics)'
  <2> PICK D : D = DOMAIN topics
    OBVIOUS
  <2>1. OneEach({"topic.created"}, D)'
    <3>1. /\ OneEach({"topic.created"}, D)
          /\ \A i \in 1..Len(drafts) : drafts[i].type \notin {"topic.created"}
      BY <1>1, <1>5 DEF Graph, OnceEach
    <3> QED BY <1>5, <3>1, OneEachKept
  <2> QED BY <1>2, <2>1 DEF OneEach
<1>11. OnceEach'
  <2>1. \A i \in 1..Len(drafts) : AggregateType(drafts[i].type) \notin {"capsule", "inbox_item"}
    BY <1>1, <1>5 DEF AggregateType
  <2> QED BY <1>2, <1>5, <1>9, <1>10, <2>1, CapsulePartsKept DEF OnceEach
<1>12. VersionsSaid'
  BY <1>2, <1>5, IssuedKeeps, VersionKept DEF Graph, VersionsSaid
<1>13. /\ \A k \in DOMAIN capsules' : CapsuleSaid(k)' /\ StateSaid(k)' /\ Delivered(k)'
       /\ \A x \in DOMAIN inbox' : RouteSaid(x)'
  BY <1>2, <1>3, <1>4, <1>5, SidesKept
<1>14. CountsSaid'
  BY <1>2, <1>5, IssuedKeeps, CountsKept
<1> QED BY <1>7, <1>8, <1>11, <1>12, <1>13, <1>14 DEF Graph

\* The newest event of an experience or a capsule is the latest.
LEMMA NewestIsLatest ==
  ASSUME Typed, Graph, NEW kind, NEW id, NEW n \in DOMAIN ledger, ledger[n].of = <<kind, id>>
  PROVE  /\ NewestOf(kind, id) \in DOMAIN ledger
         /\ ledger[NewestOf(kind, id)].of = <<kind, id>>
         /\ CausalAt(kind, id) \in Nat
         /\ \A j \in DOMAIN ledger : ledger[j].of = <<kind, id>>
               => j <= NewestOf(kind, id) /\ ledger[j].at <= CausalAt(kind, id)
<1> PICK m \in Nat : m = Len(ledger) /\ DOMAIN ledger = 1..m
  BY LogLength DEF Typed, LedgerTyped
<1> PICK S : S = EventsOf(kind, id)
  OBVIOUS
<1>1. S \subseteq 1..m /\ S # {} /\ \A j \in DOMAIN ledger : j \in S <=> ledger[j].of = <<kind, id>>
  BY DEF EventsOf
<1> PICK x : x = NewestOf(kind, id)
  OBVIOUS
<1>2. x \in S /\ \A j \in S : j <= x
  BY <1>1, LastPosition DEF NewestOf
<1>3. \A j \in 1..m : ledger[j].at \in Nat
  BY TimesAreNat DEF Typed, LedgerTyped
<1>4. ASSUME NEW j \in S
      PROVE  ledger[j].at <= ledger[x].at
  <2>1. CASE j = x
    BY <1>1, <1>3, <2>1
  <2>2. CASE j # x
    <3>1. j < x
      BY <1>1, <1>2, <2>2
    <3>2. ledger[j].of = ledger[x].of /\ NotOlder(x)
      BY <1>1, <1>2 DEF Graph, Said
    <3> QED BY <1>1, <3>1, <3>2 DEF NotOlder
  <2> QED BY <2>1, <2>2
<1> QED BY <1>1, <1>2, <1>3, <1>4 DEF CausalAt

\* An experience has events: those of its versions.
LEMMA ExperienceHasEvents ==
  ASSUME Typed, Graph, NEW e \in DOMAIN experiences
  PROVE  \E n \in DOMAIN ledger : ledger[n].of = <<"experience", e>>
<1>1. 1 \in DOMAIN experiences[e].versions
  <2>1. experiences[e] \in Experience /\ Len(experiences[e].versions) \in 1..MaxVersions
    BY DEF Typed, ExperiencesTyped
  <2>2. experiences[e].versions \in Seq([content : Contents, at : Times])
    BY <2>1 DEF Experience
  <2> QED BY <2>1, <2>2, SharingBounds
<1> QED BY <1>1 DEF Graph, VersionsSaid, VersionSaid

\* A draft for an experience that is there, and no older than its events.
OfExperience(d, e) == AggregateType(d.type) = "experience" /\ d.of = <<"experience", e>>
NoneLater(e, at) ==
  \A j \in DOMAIN ledger : ledger[j].of = <<"experience", e>> => ledger[j].at <= at

LEMMA ExperienceEventSaid ==
  ASSUME Typed, Graph, NEW p, NEW at, CommandAt(p, at), NEW drafts, Issued(drafts, at),
         NEW m, m = Len(ledger), NEW i \in 1..Len(drafts),
         NEW e, OfExperience(drafts[i], e), e \in DOMAIN experiences', NoneLater(e, at)
  PROVE  Said(m + i)'
<1> PICK type : type = drafts[i].type
  OBVIOUS
<1>1. /\ ledger'[m + i].type = type /\ ledger'[m + i].of = <<"experience", e>>
      /\ AggregateType(type) = "experience"
  <2>1. EventMade(drafts[i], at, m + i)
    BY DraftMade
  <2> QED BY <2>1 DEF EventMade, OfExperience
<1>2. Filed(m + i)' /\ NotOlder(m + i)' /\ Spanned(m + i)'
  <2>1. drafts[i].of = <<AggregateType(drafts[i].type), drafts[i].of[2]>>
    BY DEF OfExperience
  <2>2. \A j \in DOMAIN ledger : ledger[j].of = drafts[i].of => ledger[j].at <= at
    BY DEF OfExperience, NoneLater
  <2> QED BY <2>1, <2>2, CommonSaid
<1>3. /\ type # "topic.created" /\ type # "subscription.created"
      /\ type # "capsule.published" /\ type # "capsule.retracted"
      /\ type # "capsule.feedback_recorded" /\ type # "capsule.received"
      /\ type # "capsule.adopted" /\ type # "capsule.rejected"
  BY <1>1, KindTypes
<1>4. AggregateType(ledger'[m + i].type) = "experience" /\ ledger'[m + i].of[2] = e
  BY <1>1
<1> QED BY <1>1, <1>2, <1>3, <1>4 DEF Said, Terminals, LoneTypes

LEMMA OwnerGraph ==
  ASSUME Typed, Kept, Kept', Graph, NEW p, NEW at, CommandAt(p, at),
         NEW drafts, Issued(drafts, at),
         UNCHANGED <<topics, subscriptions, capsules, statuses, inbox, reputation>>,
         ExperiencesGrow,
         NEW e, \A i \in 1..Len(drafts) : OfExperience(drafts[i], e),
         e \in DOMAIN experiences', NoneLater(e, at), VersionsSaid'
  PROVE  Graph'
<1>1. SourcesGrow
  BY DEF SourcesGrow, TopicsGrow, CapsulesRemembered
<1> PICK m : m = Len(ledger)
  OBVIOUS
<1>2. \A i \in 1..Len(drafts) : Said(m + i)'
  BY ExperienceEventSaid
<1>3. \A n \in DOMAIN ledger' : Said(n)'
  BY <1>1, <1>2, AllSaid
<1>4. OnceEach'
  <2>1. \A i \in 1..Len(drafts) :
          /\ AggregateType(drafts[i].type) \notin {"capsule", "inbox_item"}
          /\ AggregateType(drafts[i].type) \notin {"topic", "subscription"}
    BY DEF OfExperience
  <2>2. /\ OneEach({"capsule.published"}, DOMAIN capsules)'
        /\ OneEach({"capsule.retracted"}, Retractions)'
        /\ OneEach({"capsule.received"}, Routes)' /\ OneEach(Terminals, Ends)'
    BY <2>1, CapsulePartsKept
  <2>3. /\ OneEach({"topic.created"}, DOMAIN topics)'
        /\ OneEach({"subscription.created"}, DOMAIN subscriptions)'
    BY <2>1, TopicPartsKept
  <2> QED BY <2>2, <2>3 DEF OnceEach
<1>5. /\ \A k \in DOMAIN capsules' : CapsuleSaid(k)' /\ StateSaid(k)' /\ Delivered(k)'
      /\ \A x \in DOMAIN inbox' : RouteSaid(x)'
  BY <1>1, SidesKept
<1>6. CountsSaid'
  BY IssuedKeeps, CountsKept
<1> QED BY <1>3, <1>4, <1>5, <1>6 DEF Graph

\* The events of a creation are the first of a new experience.
LEMMA CreationFacts ==
  ASSUME NEW e, NEW content, NEW t, t = CreationDrafts(e, content)
  PROVE  /\ IsLog(t) /\ Len(t) = 2 /\ OfExperience(t[1], e) /\ OfExperience(t[2], e)
         /\ t[1].type = "experience.created" /\ t[2].type = "experience.version_created"
         /\ t[1].data.after = [content |-> content, temperature |-> "active"]
         /\ t[2].data = [before |-> [content |-> content, temperature |-> "active"],
                         after |-> [content |-> content, temperature |-> "active"]]
<1> PICK after : after = [content |-> content, temperature |-> "active"]
  OBVIOUS
<1> PICK b : b = [before |-> {}, after |-> after]
  OBVIOUS
<1> PICK c : c = [before |-> after, after |-> after]
  OBVIOUS
<1> PICK x : x = Draft("experience.created", "experience", e, b)
  OBVIOUS
<1> PICK y : y = Draft("experience.version_created", "experience", e, c)
  OBVIOUS
<1>1. t = <<x, y>>
  BY DEF CreationDrafts
<1>2. /\ x.type = "experience.created" /\ y.type = "experience.version_created"
      /\ x.of = <<"experience", e>> /\ y.of = <<"experience", e>>
      /\ x.data = b /\ y.data = c /\ b.after = after
  BY DEF Draft
<1>3. OfExperience(x, e) /\ OfExperience(y, e)
  BY <1>2 DEF OfExperience, AggregateType
<1>4. IsLog(t) /\ Len(t) = 2 /\ t[1] = x /\ t[2] = y
  BY <1>1, LogTwo
<1> QED BY <1>2, <1>3, <1>4

LEMMA NoEventsYet ==
  ASSUME Typed, Graph, NEW e, e \notin DOMAIN experiences, NEW at
  PROVE  NoneLater(e, at)
<1> SUFFICES ASSUME NEW j \in DOMAIN ledger, ledger[j].of = <<"experience", e>>
             PROVE  FALSE
  BY DEF NoneLater
<1>1. AggregateType(ledger[j].type) = "experience" /\ ledger[j].of[2] = e
  BY OfKind
<1> QED BY <1>1 DEF Graph, Said

\* The experiences after a creation.
Created(e, a, origin, content, at) ==
  /\ ExperiencesGrow /\ VersionsSaid' /\ e \notin DOMAIN experiences
  /\ DOMAIN experiences' = DOMAIN experiences \cup {e}
  /\ experiences'[e].owner = a /\ experiences'[e].origin = origin
  /\ DOMAIN experiences'[e].versions = {1}
  /\ experiences'[e].versions[1] = [content |-> content, at |-> at]
  /\ \A x \in DOMAIN experiences : experiences'[x] = experiences[x]

LEMMA CreationVersions ==
  ASSUME Typed, Graph, NEW a \in Agents, NEW origin \in Origins, NEW content \in Contents,
         NEW at \in Times, Len(experiences) < MaxExperiences,
         Creation(a, origin, content, at), NEW drafts, Issued(drafts, at),
         NEW e, e = Len(experiences) + 1, 1 \in 1..Len(drafts), OfExperience(drafts[1], e)
  PROVE  Created(e, a, origin, content, at)
<1> PICK n \in Nat : n = Len(experiences) /\ DOMAIN experiences = 1..n
  BY DEF Typed, ExperiencesTyped
<1>1. /\ Len(experiences') = n + 1 /\ DOMAIN experiences' = 1..n + 1
      /\ \A x \in DOMAIN experiences : experiences'[x] = experiences[x]
  BY CreationTyped DEF Typed
<1> PICK y : y = [content |-> content, at |-> at]
  OBVIOUS
<1> PICK z : z = [owner |-> a, origin |-> origin, versions |-> <<y>>]
  OBVIOUS
<1>2. experiences'[e] = z
  <2>1. IsLog(experiences) /\ experiences' = Append(experiences, z)
    BY LogOf DEF Typed, ExperiencesTyped, Creation
  <2> QED BY <2>1, LogAppend
<1>3. z.versions = <<y>> /\ z.owner = a /\ z.origin = origin
  OBVIOUS
<1>4. DOMAIN <<y>> = {1} /\ <<y>>[1] = y
  OBVIOUS
<1>5. e \notin DOMAIN experiences /\ DOMAIN experiences' = DOMAIN experiences \cup {e}
  BY <1>1
<1>6. ExperiencesGrow
  BY <1>1, <1>5 DEF ExperiencesGrow
<1>7. VersionsSaid'
  <2>1. ASSUME NEW x \in DOMAIN experiences, NEW v \in DOMAIN experiences[x].versions
        PROVE  VersionSaid(x, v)'
    BY <1>1, IssuedKeeps, VersionKept DEF Graph, VersionsSaid
  <2>2. VersionSaid(e, 1)'
    <3>1. PICK m : m = Len(ledger)
      OBVIOUS
    <3>2. /\ m + 1 \in DOMAIN ledger' /\ ledger'[m + 1].of = <<"experience", e>>
          /\ ledger'[m + 1].at = at
      BY <3>1, NewEvent DEF OfExperience
    <3>3. experiences'[e].versions[1].at = at
      BY <1>2, <1>3, <1>4
    <3> QED BY <3>2, <3>3 DEF VersionSaid
  <2>3. DOMAIN experiences'[e].versions = {1}
    BY <1>2, <1>3, <1>4
  <2> QED BY <1>1, <1>5, <2>1, <2>2, <2>3 DEF VersionsSaid
<1> QED BY <1>1, <1>2, <1>3, <1>4, <1>5, <1>6, <1>7 DEF Created

LEMMA CreateExperienceGraph ==
  ASSUME Typed, Kept, Kept', Graph, NEW a \in Agents,
         NEW origin \in {"local", "adopted_passport"}, NEW content \in Contents,
         CreateExperience(a, origin, content)
  PROVE  Graph'
<1> PICK e : e = Len(experiences) + 1
  OBVIOUS
<1> PICK drafts : drafts = CreationDrafts(e, content)
  OBVIOUS
<1> PICK p \in Readings : /\ Creation(a, origin, content, p[1])
                          /\ Commit(p[1], p[2], p[1], drafts)
  BY DEF CreateExperience
<1>1. /\ Len(experiences) < MaxExperiences
      /\ UNCHANGED <<topics, subscriptions, capsules, statuses, inbox, reputation>>
  BY DEF CreateExperience
<1>2. IsLog(drafts) /\ Len(drafts) = 2 /\ OfExperience(drafts[1], e) /\ OfExperience(drafts[2], e)
  BY CreationFacts
<1>3. Issued(drafts, p[1]) /\ CommandAt(p, p[1])
  BY <1>2, CommitIssues DEF CommandAt
<1>4. \A i \in 1..Len(drafts) : OfExperience(drafts[i], e)
  <2>1. \A i \in 1..2 : i = 1 \/ i = 2
    OBVIOUS
  <2> QED BY <1>2, <2>1
<1>5. ExperiencesGrow /\ VersionsSaid' /\ e \notin DOMAIN experiences /\ e \in DOMAIN experiences'
  <2>1. origin \in Origins /\ p[1] \in Times /\ Len(drafts) = 2
    BY <1>2, ReadingTyped DEF Origins
  <2> PICK at \in Times : at = p[1]
    BY <2>1
  <2>3. Creation(a, origin, content, at) /\ Issued(drafts, at)
    BY <1>3
  <2>4. 1 \in 1..Len(drafts) /\ OfExperience(drafts[1], e)
    BY <1>2
  <2>5. Created(e, a, origin, content, at)
    BY <1>1, <2>1, <2>3, <2>4, CreationVersions
  <2> QED BY <2>5 DEF Created
<1>6. NoneLater(e, p[1])
  BY <1>5, NoEventsYet
<1> QED BY <1>1, <1>3, <1>4, <1>5, <1>6, OwnerGraph

\* The handler compares its clock with the newest event of the experience.
LEMMA NotBefore ==
  ASSUME Typed, Graph, NEW e \in DOMAIN experiences, NEW at \in Times,
         at >= CausalAt("experience", e)
  PROVE  NoneLater(e, at)
<1> PICK n \in DOMAIN ledger : ledger[n].of = <<"experience", e>>
  BY ExperienceHasEvents
<1> PICK c : c = CausalAt("experience", e)
  OBVIOUS
<1>1. c \in Nat /\ \A j \in DOMAIN ledger : ledger[j].of = <<"experience", e>> => ledger[j].at <= c
  BY NewestIsLatest
<1>2. at \in Nat /\ c <= at
  BY <1>1, TimesAreNat
<1>3. \A j \in DOMAIN ledger : ledger[j].at \in Nat
  BY TimesAreNat DEF Typed, LedgerTyped
<1> SUFFICES ASSUME NEW j \in DOMAIN ledger, ledger[j].of = <<"experience", e>>
             PROVE  ledger[j].at <= at
  BY DEF NoneLater
<1>4. ledger[j].at <= c /\ ledger[j].at \in Nat
  BY <1>1, <1>3
<1> QED BY <1>1, <1>2, <1>4, Transitive

LEMMA CreateVersionGraph ==
  ASSUME Typed, Kept, Kept', Graph, NEW e \in DOMAIN experiences, NEW content \in Contents,
         CreateVersion(e, content)
  PROVE  Graph'
<1> PICK d : d = Draft("experience.version_created", "experience", e,
                       [before |-> Snapshot(e),
                        after |-> [Snapshot(e) EXCEPT !.content = content]])
  OBVIOUS
<1>1. d.type = "experience.version_created" /\ d.of = <<"experience", e>>
  BY DEF Draft
<1> PICK p \in Readings :
      /\ p[1] >= CausalAt("experience", e)
      /\ experiences' = [experiences EXCEPT ![e].versions =
                            Append(@, [content |-> content, at |-> p[1]])]
      /\ Commit(p[1], p[2], p[1], <<d>>)
  BY DEF CreateVersion
<1>2. /\ UNCHANGED <<topics, subscriptions, capsules, statuses, inbox, reputation>>
      /\ p[1] \in Times
  BY ReadingTyped DEF CreateVersion
<1> PICK drafts : drafts = <<d>>
  OBVIOUS
<1>3. /\ Issued(drafts, p[1]) /\ CommandAt(p, p[1]) /\ Len(drafts) = 1 /\ drafts[1] = d
      /\ 1 \in 1..Len(drafts) /\ \A i \in 1..Len(drafts) : i = 1
  BY OneIssued
<1>4. \A i \in 1..Len(drafts) : OfExperience(drafts[i], e)
  BY <1>1, <1>3 DEF OfExperience, AggregateType
<1> PICK y : y = [content |-> content, at |-> p[1]]
  OBVIOUS
<1> PICK w : w = experiences[e].versions
  OBVIOUS
<1>5. w \in Seq([content : Contents, at : Times])
  <2>1. experiences[e] \in Experience
    BY DEF Typed, ExperiencesTyped
  <2> QED BY <2>1 DEF Experience
<1>6. /\ DOMAIN experiences' = DOMAIN experiences
      /\ \A x \in DOMAIN experiences : x # e => experiences'[x] = experiences[x]
      /\ experiences'[e] = [experiences[e] EXCEPT !.versions = Append(w, y)]
  BY DEF Typed, ExperiencesTyped
<1>7. /\ experiences'[e].versions = Append(w, y)
      /\ experiences'[e].owner = experiences[e].owner
      /\ experiences'[e].origin = experiences[e].origin
  <2>1. experiences[e] \in Experience
    BY DEF Typed, ExperiencesTyped
  <2> QED BY <1>6, <2>1 DEF Experience
<1> PICK n \in Nat : n = Len(w)
  <2>1. w \in Seq([content : Contents, at : Times])
    BY <1>5
  <2>2. Len(w) \in Nat
    BY <2>1
  <2> QED BY <2>2
<1> PICK u : u = experiences'[e].versions
  OBVIOUS
<1>8. /\ DOMAIN u = 1..n + 1 /\ DOMAIN w = 1..n /\ u[n + 1] = y
      /\ \A v \in 1..n : u[v] = w[v]
  <2>1. IsLog(w) /\ DOMAIN w = 1..n
    BY <1>5, LogOf
  <2>2. u = Append(w, y)
    BY <1>7
  <2>3. /\ IsLog(u) /\ Len(u) = n + 1 /\ \A v \in 1..n : u[v] = w[v]
        /\ u[n + 1] = y
    <3>1. /\ IsLog(Append(w, y)) /\ Len(Append(w, y)) = Len(w) + 1
          /\ \A v \in 1..Len(w) : Append(w, y)[v] = w[v]
          /\ Append(w, y)[Len(w) + 1] = y
      BY <2>1, LogAppend
    <3> QED BY <2>2, <3>1
  <2>4. DOMAIN u = 1..n + 1
    BY <2>3, LogLength
  <2> QED BY <2>1, <2>3, <2>4
<1>9. ExperiencesGrow
  <2> SUFFICES ASSUME NEW x \in DOMAIN experiences
               PROVE  /\ x \in DOMAIN experiences'
                      /\ experiences'[x].owner = experiences[x].owner
                      /\ experiences'[x].origin = experiences[x].origin
                      /\ \A v \in DOMAIN experiences[x].versions :
                            /\ v \in DOMAIN experiences'[x].versions
                            /\ experiences'[x].versions[v] = experiences[x].versions[v]
    BY DEF ExperiencesGrow
  <2>1. CASE x # e
    BY <1>6, <2>1
  <2>2. CASE x = e
    <3>1. \A v \in DOMAIN w : v \in DOMAIN u /\ u[v] = w[v]
      BY <1>8
    <3>2. experiences[x].versions = w /\ experiences'[x].versions = u
      BY <2>2
    <3>3. x \in DOMAIN experiences'
      BY <1>6
    <3>4. experiences'[x].owner = experiences[x].owner
          /\ experiences'[x].origin = experiences[x].origin
      BY <1>7, <2>2
    <3> QED BY <3>1, <3>2, <3>3, <3>4
  <2> QED BY <2>1, <2>2
<1>10. VersionsSaid'
  <2> SUFFICES ASSUME NEW x \in DOMAIN experiences, NEW v \in DOMAIN experiences'[x].versions
               PROVE  VersionSaid(x, v)'
    BY <1>6 DEF VersionsSaid
  <2>1. CASE v \in DOMAIN experiences[x].versions
    <3>1. experiences'[x].versions[v] = experiences[x].versions[v]
      BY <1>9, <2>1 DEF ExperiencesGrow
    <3> QED BY <1>3, <2>1, <3>1, IssuedKeeps, VersionKept DEF Graph, VersionsSaid
  <2>2. CASE v \notin DOMAIN experiences[x].versions
    <3>1. x = e
      BY <1>6, <2>2
    <3>2. v = n + 1
      BY <1>7, <1>8, <2>2, <3>1
    <3>3. experiences'[x].versions[v].at = p[1]
      <4>1. experiences'[x].versions = u /\ u[v] = y /\ y.at = p[1]
        BY <1>8, <3>1, <3>2
      <4> QED BY <4>1
    <3> PICK m, at : m = Len(ledger) /\ at = p[1]
      OBVIOUS
    <3> PICK i \in 1..Len(drafts) : i = 1
      BY <1>3
    <3>4. /\ m + i \in DOMAIN ledger' /\ ledger'[m + i].of = drafts[i].of
          /\ ledger'[m + i].at = at
      <4>1. Issued(drafts, at)
        BY <1>3
      <4>2. EventMade(drafts[i], at, m + i)
        BY <4>1, DraftMade
      <4>3. m + i \in DOMAIN ledger'
        BY <4>1 DEF Issued
      <4> QED BY <4>2, <4>3 DEF EventMade
    <3> QED BY <1>1, <1>3, <3>1, <3>3, <3>4 DEF VersionSaid
  <2> QED BY <2>1, <2>2
<1>11. NoneLater(e, p[1])
  BY <1>2, NotBefore
<1> QED BY <1>2, <1>3, <1>4, <1>6, <1>9, <1>10, <1>11, OwnerGraph

LEMMA ChangeTemperatureGraph ==
  ASSUME Typed, Kept, Kept', Graph, NEW e \in DOMAIN experiences, ChangeTemperature(e)
  PROVE  Graph'
<1> PICK after : after = CASE temperature[e] = "active"  -> "cold"
                           [] temperature[e] = "cold" -> "archived"
                           [] OTHER                   -> "active"
  OBVIOUS
<1> PICK d : d = Draft("experience.temperature_changed", "experience", e,
                       [before |-> Snapshot(e),
                        after |-> [Snapshot(e) EXCEPT !.temperature = after]])
  OBVIOUS
<1>1. d.type = "experience.temperature_changed" /\ d.of = <<"experience", e>>
  BY DEF Draft
<1> PICK p \in Readings : /\ p[1] >= CausalAt("experience", e)
                          /\ Commit(p[1], p[2], p[1], <<d>>)
  BY DEF ChangeTemperature
<1>2. /\ UNCHANGED <<topics, subscriptions, experiences, capsules, statuses, inbox, reputation>>
      /\ p[1] \in Times
  BY ReadingTyped DEF ChangeTemperature
<1> PICK drafts : drafts = <<d>>
  OBVIOUS
<1>3. /\ Issued(drafts, p[1]) /\ CommandAt(p, p[1]) /\ Len(drafts) = 1 /\ drafts[1] = d
      /\ 1 \in 1..Len(drafts) /\ \A i \in 1..Len(drafts) : i = 1
  BY OneIssued
<1>4. \A i \in 1..Len(drafts) : OfExperience(drafts[i], e)
  BY <1>1, <1>3 DEF OfExperience, AggregateType
<1>5. ExperiencesGrow
  BY <1>2 DEF ExperiencesGrow
<1>6. VersionsSaid'
  BY <1>2, <1>3, IssuedKeeps, VersionKept DEF Graph, VersionsSaid
<1>7. NoneLater(e, p[1])
  BY <1>2, NotBefore
<1> QED BY <1>2, <1>3, <1>4, <1>5, <1>6, <1>7, OwnerGraph
-----------------------------------------------------------------------------
(* Retractions, feedback and rejections.                                   *)

LEMMA LargerBounds ==
  ASSUME NEW x \in Nat, NEW y \in Nat, NEW h \in Nat, h >= Larger(x, y)
  PROVE  x <= h /\ y <= h
BY DEF Larger

LEMMA CapsuleHasEvents ==
  ASSUME Kept, NEW k \in DOMAIN capsules
  PROVE  \E n \in DOMAIN ledger :
           ledger[n].type = "capsule.published" /\ ledger[n].of = <<"capsule", k>>
                                                /\ ledger[n].of[2] = k
<1> PICK n \in PublicationEvents : ledger[n].of = <<"capsule", k>>
  BY DEF Kept, PublicationsKept
<1>1. n \in DOMAIN ledger /\ ledger[n].type = "capsule.published"
  BY DEF PublicationEvents, OfType
<1> QED BY <1>1

\* No event of a capsule is later than the newest.
LEMMA CapsuleNotBefore ==
  ASSUME Typed, Kept, Graph, NEW k \in DOMAIN capsules, NEW at \in Nat,
         at >= LatestCapsuleCausalAt(k)
  PROVE  \A j \in DOMAIN ledger : ledger[j].of = <<"capsule", k>> => ledger[j].at <= at
<1> PICK n \in DOMAIN ledger : ledger[n].of = <<"capsule", k>>
  BY CapsuleHasEvents
<1> PICK c : c = CausalAt("capsule", k)
  OBVIOUS
<1>1. c \in Nat /\ \A j \in DOMAIN ledger : ledger[j].of = <<"capsule", k>> => ledger[j].at <= c
  BY NewestIsLatest
<1>2. at >= c
  BY DEF LatestCapsuleCausalAt
<1>3. \A j \in DOMAIN ledger : ledger[j].at \in Nat
  BY TimesAreNat DEF Typed, LedgerTyped
<1> TAKE j \in DOMAIN ledger
<1> QED BY <1>1, <1>2, <1>3

\* An event that the command of one event adds to the events of a capsule.
LEMMA CapsuleEventSaid ==
  ASSUME Typed, Kept, Graph, SourcesGrow, NEW k \in DOMAIN capsules, NEW p \in Readings,
         NEW d, d.type \in {"capsule.retracted", "capsule.feedback_recorded"},
         d.of = <<"capsule", k>>, Commit(p[1], p[2], p[1], <<d>>),
         p[1] >= LatestCapsuleCausalAt(k)
  PROVE  \A n \in DOMAIN ledger' : Said(n)'
<1> PICK m : m = Len(ledger)
  OBVIOUS
<1>1. p[1] \in Nat
  BY ReadingTyped, TimesAreNat
<1>2. AggregateType(d.type) = "capsule" /\ d.of[2] = k
  BY KindTypes
<1>3. /\ m \in Nat /\ DOMAIN ledger = 1..m
      /\ ledger'[m + 1] = Event(d, p[1], Len(receipts) + 1)
      /\ Filed(m + 1)' /\ NotOlder(m + 1)' /\ Spanned(m + 1)' /\ Single(m + 1)'
      /\ Said(m + 1)' => \A n \in DOMAIN ledger' : Said(n)'
  <2>1. \A j \in DOMAIN ledger : ledger[j].of = d.of => ledger[j].at <= p[1]
    BY <1>1, CapsuleNotBefore
  <2>2. d.of = <<AggregateType(d.type), d.of[2]>>
    BY <1>2
  <2> QED BY <2>1, <2>2, OneSaid
<1>4. ledger'[m + 1].type = d.type /\ ledger'[m + 1].of[2] = k
  BY <1>2, <1>3 DEF Event
<1>5. Earlier(m + 1, "capsule.published", k)'
  <2> PICK n \in DOMAIN ledger : ledger[n].type = "capsule.published" /\ ledger[n].of[2] = k
    BY CapsuleHasEvents
  <2>1. Issued(<<d>>, p[1])
    BY OneIssued
  <2>2. n \in DOMAIN ledger' /\ ledger'[n] = ledger[n] /\ n < m + 1
    BY <1>3, <2>1, IssuedKeeps DEF LedgerKept
  <2> QED BY <2>2 DEF Earlier
<1>6. Said(m + 1)'
  BY <1>2, <1>3, <1>4, <1>5 DEF Said, LoneTypes, Terminals
<1> QED BY <1>3, <1>6

\* The parts that a draft of another type leaves alone.
LEMMA FirstPartsKept ==
  ASSUME Graph, NEW drafts, NEW at, Issued(drafts, at),
         UNCHANGED <<topics, subscriptions, capsules>>,
         \A i \in 1..Len(drafts) : drafts[i].type \notin
            {"topic.created", "subscription.created", "capsule.published"}
  PROVE  /\ OneEach({"topic.created"}, DOMAIN topics)'
         /\ OneEach({"subscription.created"}, DOMAIN subscriptions)'
         /\ OneEach({"capsule.published"}, DOMAIN capsules)'
<1> PICK T, S, C : T = DOMAIN topics /\ S = DOMAIN subscriptions /\ C = DOMAIN capsules
  OBVIOUS
<1>1. /\ OneEach({"topic.created"}, T)' /\ OneEach({"subscription.created"}, S)'
      /\ OneEach({"capsule.published"}, C)'
  BY OneEachKept DEF Graph, OnceEach
<1> QED BY <1>1 DEF OneEach

LEMMA RetractionsPartKept ==
  ASSUME Graph, NEW drafts, NEW at, Issued(drafts, at), UNCHANGED <<capsules, statuses>>,
         \A i \in 1..Len(drafts) : drafts[i].type # "capsule.retracted"
  PROVE  OneEach({"capsule.retracted"}, Retractions)'
<1> PICK D : D = Retractions
  OBVIOUS
<1>1. OneEach({"capsule.retracted"}, D)'
  BY OneEachKept DEF Graph, OnceEach
<1>2. D = Retractions'
  BY DEF Retractions, Retracted
<1> QED BY <1>1, <1>2 DEF OneEach

LEMMA RoutesPartKept ==
  ASSUME Graph, NEW drafts, NEW at, Issued(drafts, at), DOMAIN inbox' = DOMAIN inbox,
         \A i \in 1..Len(drafts) : drafts[i].type # "capsule.received"
  PROVE  OneEach({"capsule.received"}, Routes)'
<1> PICK D : D = Routes
  OBVIOUS
<1>1. OneEach({"capsule.received"}, D)'
  BY OneEachKept DEF Graph, OnceEach
<1>2. D = Routes'
  BY DEF Routes
<1> QED BY <1>1, <1>2 DEF OneEach

LEMMA EndsPartKept ==
  ASSUME Graph, NEW drafts, NEW at, Issued(drafts, at), Ends' = Ends,
         \A i \in 1..Len(drafts) : drafts[i].type \notin Terminals
  PROVE  OneEach(Terminals, Ends)'
<1> PICK D, types : D = Ends /\ types = Terminals
  OBVIOUS
<1>1. OneEach(types, D)'
  BY OneEachKept DEF Graph, OnceEach
<1> QED BY <1>1 DEF OneEach, Terminals

LEMMA OnlyEvent ==
  ASSUME NEW drafts, NEW at, Issued(drafts, at), 1 \in 1..Len(drafts), NEW d, drafts[1] = d
  PROVE  /\ ledger'[Len(ledger) + 1].type = d.type
         /\ ledger'[Len(ledger) + 1].of = d.of
<1> PICK i : i = 1
  OBVIOUS
<1>1. i \in 1..Len(drafts) /\ drafts[i] = d
  OBVIOUS
<1>2. /\ ledger'[Len(ledger) + i].type = drafts[i].type
      /\ ledger'[Len(ledger) + i].of = drafts[i].of
  BY <1>1, NewEvent, ZenonT(60)
<1> QED BY <1>1, <1>2

LEMMA RetractGraph ==
  ASSUME Typed, Kept, Kept', Graph, NEW k \in DOMAIN capsules, RetractCapsule(k)
  PROVE  Graph'
<1> PICK d : d = Draft("capsule.retracted", "capsule", k, {})
  OBVIOUS
<1>1. d.type = "capsule.retracted" /\ d.of = <<"capsule", k>> /\ d.of[2] = k
  BY DEF Draft
<1> PICK p \in Readings : /\ p[1] >= Larger(LastTransitionAt(k), LatestCapsuleCausalAt(k))
                          /\ Commit(p[1], p[2], p[1], <<d>>)
  BY DEF RetractCapsule
<1>2. /\ ~Retracted(k)
      /\ UNCHANGED <<topics, subscriptions, experiences, capsules, inbox, reputation>>
  BY DEF RetractCapsule
<1>3. SourcesGrow
  BY <1>2 DEF SourcesGrow, TopicsGrow, ExperiencesGrow, CapsulesRemembered
<1> PICK drafts : drafts = <<d>>
  OBVIOUS
<1>4. /\ Issued(drafts, p[1]) /\ Len(drafts) = 1 /\ drafts[1] = d
      /\ 1 \in 1..Len(drafts) /\ \A i \in 1..Len(drafts) : i = 1
  BY OneIssued
<1>5. p[1] >= LatestCapsuleCausalAt(k)
  <2>1. LastTransitionAt(k) \in Nat
    <3>1. statuses[k].event \in DOMAIN ledger
      BY DEF Kept, StatusesKept
    <3> QED BY <3>1, TimesAreNat DEF LastTransitionAt, Typed, LedgerTyped
  <2>2. LatestCapsuleCausalAt(k) \in Nat /\ p[1] \in Nat
    BY CapsuleEventTimes, ReadingTyped, TimesAreNat
  <2>3. LatestCapsuleCausalAt(k) <= p[1]
    BY <2>1, <2>2, LargerBounds
  <2> QED BY <2>2, <2>3
<1>6. \A n \in DOMAIN ledger' : Said(n)'
  BY <1>1, <1>3, <1>5, CapsuleEventSaid
<1>7. /\ DOMAIN statuses' = DOMAIN statuses /\ Retracted(k)'
      /\ statuses'[k].event = Len(ledger) + 1
      /\ \A j \in DOMAIN capsules : j # k => statuses'[j] = statuses[j]
  <2>1. statuses' = [statuses EXCEPT ![k] = [status |-> "retracted", event |-> Len(ledger) + 1]]
    BY DEF RetractCapsule
  <2>2. k \in DOMAIN statuses /\ DOMAIN statuses = DOMAIN capsules
    BY DEF Typed, CapsulesTyped
  <2> QED BY <2>1, <2>2 DEF Retracted
<1>8. OnceEach'
  <2>1. Retractions' = Retractions \cup {k} /\ k \notin Retractions
    BY <1>2, <1>7 DEF Retractions, Retracted
  <2> PICK D : D = Retractions
    OBVIOUS
  <2>2. OneEach({"capsule.retracted"}, D \cup {k})'
    <3>1. /\ OneEach({"capsule.retracted"}, D) /\ drafts[1].type \in {"capsule.retracted"}
          /\ drafts[1].of[2] = k /\ k \notin D
      BY <1>1, <1>4, <2>1 DEF Graph, OnceEach
    <3> QED BY <1>4, <3>1, OneEachOnce
  <2>3. OneEach({"capsule.retracted"}, Retractions)'
    BY <2>1, <2>2 DEF OneEach
  <2>4. \A i \in 1..Len(drafts) : drafts[i].type = "capsule.retracted"
    BY <1>1, <1>4
  <2>5. OneEach({"capsule.received"}, Routes)'
    BY <1>2, <1>4, <2>4, RoutesPartKept
  <2>6. OneEach(Terminals, Ends)'
    <3>1. Ends' = Ends
      BY <1>2 DEF Ends
    <3> QED BY <1>4, <2>4, <3>1, EndsPartKept DEF Terminals
  <2> QED BY <1>2, <1>4, <2>3, <2>4, <2>5, <2>6, FirstPartsKept DEF OnceEach
<1>9. VersionsSaid'
  BY <1>2, <1>4, IssuedKeeps, VersionKept DEF Graph, VersionsSaid
<1>10. ASSUME NEW j \in DOMAIN capsules
       PROVE  CapsuleSaid(j)' /\ StateSaid(j)' /\ Delivered(j)'
  <2>1. CapsuleSaid(j)'
    BY <1>3, CapsulesSaidKept
  <2>2. StateSaid(j)'
    <3>1. CASE j = k
      <4>1. /\ ledger'[Len(ledger) + 1].type = d.type
            /\ ledger'[Len(ledger) + 1].of = d.of
        BY <1>4, OnlyEvent, Zenon
      <4>2. /\ ledger'[statuses'[k].event].type = "capsule.retracted"
            /\ ledger'[statuses'[k].event].of[2] = k
        BY <1>1, <1>7, <4>1
      <4> QED BY <1>7, <3>1, <4>2 DEF StateSaid
    <3>2. CASE j # k
      BY <1>4, <1>7, <3>2, IssuedKeeps, StatesKept
    <3> QED BY <3>1, <3>2
  <2>3. Delivered(j)'
    <3>1. \A a \in Agents : <<j, a>> \in Routes' <=> <<j, a>> \in Routes
      BY <1>2 DEF Routes
    <3>2. \A s \in DOMAIN subscriptions' : s \in DOMAIN subscriptions
      BY <1>2
    <3> QED BY <1>3, <1>4, <3>1, <3>2, DeliveredKept
  <2> QED BY <2>1, <2>2, <2>3
<1>11. \A x \in DOMAIN inbox' : RouteSaid(x)'
  BY <1>2, <1>4, IssuedKeeps, RouteKept
<1>12. CountsSaid'
  BY <1>2, <1>4, IssuedKeeps, CountsKept
<1> QED BY <1>2, <1>6, <1>8, <1>9, <1>10, <1>11, <1>12 DEF Graph

LEMMA FeedbackGraph ==
  ASSUME Typed, Kept, Kept', Graph, NEW k, NEW a, <<k, a>> \in DOMAIN inbox,
         NEW verdict \in Verdicts, RecordCapsuleFeedback(k, a, verdict)
  PROVE  Graph'
<1>1. k \in DOMAIN capsules
  BY RouteOf
<1> PICK pair, counts, row : /\ pair = <<capsules[k].publisher, a>>
                             /\ counts = CountsOf(capsules[k].publisher, a)
                             /\ row = Replaced(counts, LatestFeedback(a, k), verdict, Len(ledger) + 1)
  OBVIOUS
<1> PICK p, d :
      /\ p \in Readings
      /\ p[1] >= FeedbackCausalAt(k, a, counts)
      /\ reputation' = Extended(reputation, pair, row)
      /\ d.type = "capsule.feedback_recorded" /\ d.of = <<"capsule", k>>
      /\ Commit(p[1], p[2], p[1], <<d>>)
  BY DEF RecordCapsuleFeedback, Draft
<1>2. UNCHANGED <<topics, subscriptions, experiences, capsules, statuses, inbox>>
  BY DEF RecordCapsuleFeedback
<1>3. SourcesGrow
  BY <1>2 DEF SourcesGrow, TopicsGrow, ExperiencesGrow, CapsulesRemembered
<1> PICK drafts : drafts = <<d>>
  OBVIOUS
<1>4. /\ Issued(drafts, p[1]) /\ Len(drafts) = 1 /\ drafts[1] = d
      /\ 1 \in 1..Len(drafts) /\ \A i \in 1..Len(drafts) : i = 1
  BY OneIssued
<1>5. p[1] >= LatestCapsuleCausalAt(k)
  <2> PICK x, y, z : /\ x = RouteLatestCausalAt(k, a) /\ y = LatestCapsuleCausalAt(k)
                     /\ z = ledger[counts.event].at
    OBVIOUS
  <2>1. x \in Nat /\ y \in Nat /\ p[1] \in Nat
    <3>1. inbox[<<k, a>>].event \in DOMAIN ledger /\ statuses[k].event \in DOMAIN ledger
      BY <1>1 DEF Kept, StatusesKept, RoutesKept
    <3>2. /\ ledger[inbox[<<k, a>>].event].at \in Nat /\ LastTransitionAt(k) \in Nat
      BY <3>1, TimesAreNat DEF LastTransitionAt, Typed, LedgerTyped
    <3>3. x \in Nat
      BY <3>2 DEF RouteLatestCausalAt, Larger
    <3>4. y \in Nat
      BY <1>1, CapsuleEventTimes
    <3>5. p[1] \in Nat
      BY ReadingTyped, TimesAreNat
    <3> QED BY <3>3, <3>4, <3>5
  <2> PICK known : known = Larger(x, y)
    OBVIOUS
  <2>2. known \in Nat /\ p[1] >= known
    <3>1. known \in Nat
      BY <2>1 DEF Larger
    <3>2. CASE counts = NoCounts
      BY <3>1, <3>2 DEF FeedbackCausalAt
    <3>3. CASE counts # NoCounts
      <4>1. pair \in DOMAIN reputation /\ counts = reputation[pair]
        BY <3>3 DEF CountsOf
      <4>2. z \in Nat
        BY <4>1, TimesAreNat DEF Graph, CountsSaid, Typed, LedgerTyped
      <4>3. p[1] >= Larger(known, z)
        BY <3>3 DEF FeedbackCausalAt
      <4>4. known <= p[1]
        BY <2>1, <3>1, <4>2, <4>3, LargerBounds
      <4> QED BY <2>1, <3>1, <4>4
    <3> QED BY <3>1, <3>2, <3>3
  <2>3. y <= p[1]
    BY <2>1, <2>2, LargerBounds
  <2> QED BY <2>1, <2>3
<1>6. \A n \in DOMAIN ledger' : Said(n)'
  BY <1>1, <1>3, <1>5, CapsuleEventSaid
<1>7. OnceEach'
  <2>1. \A i \in 1..Len(drafts) : drafts[i].type = "capsule.feedback_recorded"
    BY <1>4
  <2>2. OneEach({"capsule.received"}, Routes)' /\ OneEach({"capsule.retracted"}, Retractions)'
    BY <1>2, <1>4, <2>1, RoutesPartKept, RetractionsPartKept
  <2>3. OneEach(Terminals, Ends)'
    <3>1. Ends' = Ends
      BY <1>2 DEF Ends
    <3> QED BY <1>4, <2>1, <3>1, EndsPartKept DEF Terminals
  <2> QED BY <1>2, <1>4, <2>1, <2>2, <2>3, FirstPartsKept DEF OnceEach
<1>8. VersionsSaid'
  BY <1>2, <1>4, IssuedKeeps, VersionKept DEF Graph, VersionsSaid
<1>9. /\ \A j \in DOMAIN capsules' : CapsuleSaid(j)' /\ StateSaid(j)' /\ Delivered(j)'
      /\ \A x \in DOMAIN inbox' : RouteSaid(x)'
  BY <1>2, <1>3, <1>4, SidesKept
<1>10. CountsSaid'
  <2> PICK m : m = Len(ledger)
    OBVIOUS
  <2>1. m + 1 \in DOMAIN ledger' /\ LedgerKept
    <3>1. m + 1 \in DOMAIN ledger'
      BY <1>4, NewEvent
    <3> QED BY <1>4, <3>1, IssuedKeeps
  <2>2. row.event = m + 1
    BY DEF Replaced
  <2>3. \A q \in DOMAIN reputation' :
          \/ reputation'[q] = row
          \/ q \in DOMAIN reputation /\ reputation'[q] = reputation[q]
    BY DEF Extended
  <2> QED BY <2>1, <2>2, <2>3 DEF Graph, CountsSaid, LedgerKept
<1> QED BY <1>6, <1>7, <1>8, <1>9, <1>10 DEF Graph
-----------------------------------------------------------------------------
(* The ends of routes.                                                     *)

\* A pending route has one event, and the handler compares its clock with
\* that and with the state of the capsule.
FoundPending(k, x, at) ==
  /\ inbox[x].event \in DOMAIN ledger /\ ledger[inbox[x].event].type = "capsule.received"
  /\ ledger[inbox[x].event].of[2] = x
  /\ \A j \in DOMAIN ledger : ledger[j].of = <<"inbox_item", x>> => ledger[j].at <= at
  /\ LastTransitionAt(k) <= at

LEMMA PendingRoute ==
  ASSUME Typed, Kept, Graph, NEW k \in DOMAIN capsules, NEW a, NEW x, x = <<k, a>>,
         x \in DOMAIN inbox, inbox[x].state = "pending",
         NEW at \in Nat, at >= RouteLatestCausalAt(k, a)
  PROVE  FoundPending(k, x, at)
<1> PICK n : n = inbox[x].event
  OBVIOUS
<1>1. n \in DOMAIN ledger /\ ledger[n].type = "capsule.received" /\ ledger[n].of[2] = x
  BY DEF Kept, RoutesKept, Graph, RouteSaid
<1>2. ledger[n].at <= at /\ LastTransitionAt(k) <= at
  <2>1. statuses[k].event \in DOMAIN ledger
    BY DEF Kept, StatusesKept
  <2>2. LastTransitionAt(k) \in Nat /\ ledger[n].at \in Nat
    BY <1>1, <2>1, TimesAreNat DEF LastTransitionAt, Typed, LedgerTyped
  <2>3. at >= Larger(ledger[n].at, LastTransitionAt(k))
    BY DEF RouteLatestCausalAt
  <2> QED BY <2>2, <2>3, LargerBounds
<1>3. ASSUME NEW j \in DOMAIN ledger, ledger[j].of = <<"inbox_item", x>>
      PROVE  j = n
  <2>1. /\ ledger[j].type \in {"capsule.received", "capsule.adopted", "capsule.rejected"}
        /\ ledger[j].of[2] = x
    BY <1>3, OfKind, KindTypes
  <2>2. ledger[j].type \notin Terminals
    BY <2>1 DEF Graph, OnceEach, OneEach, Ends
  <2>3. ledger[j].type = "capsule.received"
    BY <2>1, <2>2 DEF Terminals
  <2> QED BY <1>1, <2>1, <2>3 DEF Graph, OnceEach, OneEach
<1> QED BY <1>1, <1>2, <1>3 DEF FoundPending

\* The newest event of an active capsule is its publication or feedback.
LEMMA NewestOfActive ==
  ASSUME Typed, Kept, Graph, NEW k \in DOMAIN capsules, ~Retracted(k), NEW q \in DOMAIN ledger,
         ledger[q].of = <<"capsule", k>>
  PROVE  \/ ledger[q].type = "capsule.feedback_recorded"
         \/ ledger[q].at = LastTransitionAt(k)
<1>1. /\ ledger[q].type \in {"capsule.published", "capsule.retracted",
                             "capsule.feedback_recorded"}
      /\ ledger[q].of[2] = k
  BY OfKind, KindTypes
<1>2. ledger[q].type # "capsule.retracted"
  BY <1>1 DEF Graph, OnceEach, OneEach, Retractions
<1>3. ASSUME ledger[q].type = "capsule.published"
      PROVE  q = statuses[k].event
  <2> PICK n : n = statuses[k].event
    OBVIOUS
  <2>1. n \in DOMAIN ledger /\ ledger[n].type = "capsule.published" /\ ledger[n].of[2] = k
    BY DEF Kept, StatusesKept, Graph, StateSaid
  <2> QED BY <1>1, <1>3, <2>1 DEF Graph, OnceEach, OneEach
<1> QED BY <1>1, <1>2, <1>3 DEF LastTransitionAt

\* What the end of a route says, in whatever command it is the last event.
LEMMA TerminalSaid ==
  ASSUME Typed, Kept, Graph, NEW p \in Readings, NEW drafts, Issued(drafts, p[1]),
         CommandAt(p, p[1]), NEW m, m = Len(ledger), NEW i \in 1..Len(drafts),
         NEW k \in DOMAIN capsules, NEW a, NEW x, x = <<k, a>>, x \in DOMAIN inbox,
         inbox[x].state = "pending", p[1] >= RouteLatestCausalAt(k, a),
         drafts[i].type \in Terminals, drafts[i].of = <<"inbox_item", x>>,
         \A j \in 1..Len(drafts) : drafts[j].of # <<"capsule", k>>,
         IF drafts[i].type = "capsule.rejected"
           THEN Len(drafts) = 1 /\ p[1] >= LatestCapsuleCausalAt(k) ELSE ~Retracted(k)
  PROVE  Said(m + i)'
<1> PICK at : at = p[1]
  OBVIOUS
<1>0. at \in Nat
  BY ReadingTyped, TimesAreNat
<1>1. /\ inbox[x].event \in DOMAIN ledger /\ ledger[inbox[x].event].type = "capsule.received"
      /\ ledger[inbox[x].event].of[2] = x
      /\ \A j \in DOMAIN ledger : ledger[j].of = <<"inbox_item", x>> => ledger[j].at <= at
      /\ LastTransitionAt(k) <= at
  <2>1. at >= RouteLatestCausalAt(k, a)
    OBVIOUS
  <2>2. FoundPending(k, x, at)
    BY <1>0, <2>1, PendingRoute
  <2> QED BY <2>2 DEF FoundPending
<1>2. AggregateType(drafts[i].type) = "inbox_item"
  BY KindTypes DEF Terminals
<1>3. /\ Filed(m + i)' /\ NotOlder(m + i)' /\ Spanned(m + i)'
      /\ Len(drafts) = 1 => Single(m + i)'
  <2>1. drafts[i].of = <<AggregateType(drafts[i].type), drafts[i].of[2]>>
    BY <1>2
  <2>2. \A j \in DOMAIN ledger : ledger[j].of = drafts[i].of => ledger[j].at <= at
    BY <1>1
  <2>3. CommandAt(p, at) /\ Issued(drafts, at)
    OBVIOUS
  <2> QED BY <2>1, <2>2, <2>3, CommonSaid
<1>4. /\ \A n \in DOMAIN ledger : n < m + i
      /\ ledger'[m + i].type = drafts[i].type /\ ledger'[m + i].of = <<"inbox_item", x>>
      /\ ledger'[m + i].at = at
  <2>1. Issued(drafts, at)
    OBVIOUS
  <2>2. EventMade(drafts[i], at, m + i)
    BY <2>1, DraftMade
  <2> QED BY <2>2 DEF EventMade
<1>5. LedgerKept
  BY IssuedKeeps
<1>6. Earlier(m + i, "capsule.received", x)'
  <2> PICK n : n = inbox[x].event
    OBVIOUS
  <2>1. n \in DOMAIN ledger' /\ ledger'[n] = ledger[n] /\ n < m + i
    BY <1>1, <1>4, <1>5 DEF LedgerKept
  <2> QED BY <1>1, <2>1 DEF Earlier
<1>7. EndSaid(m + i, k)'
  <2> PICK q : q = NewestOf("capsule", k)
    OBVIOUS
  <2>1. PICK n \in DOMAIN ledger : ledger[n].of = <<"capsule", k>>
    BY CapsuleHasEvents
  <2>2. /\ q \in DOMAIN ledger /\ ledger[q].of = <<"capsule", k>>
        /\ ledger[q].at = LatestCapsuleCausalAt(k)
        /\ \A j \in DOMAIN ledger : ledger[j].of = <<"capsule", k>> => j <= q
    BY <2>1, NewestIsLatest DEF LatestCapsuleCausalAt, CausalAt
  <2>3. q \in DOMAIN ledger' /\ ledger'[q] = ledger[q] /\ q < m + i
    BY <1>4, <1>5, <2>2 DEF LedgerKept
  <2>4. ASSUME NEW j \in DOMAIN ledger', ledger'[j].of = <<"capsule", k>>
        PROVE  j <= q
    <3>1. CASE j \in DOMAIN ledger
      BY <1>5, <2>2, <2>4, <3>1 DEF LedgerKept
    <3>2. CASE j \notin DOMAIN ledger
      <4>1. PICK l \in 1..Len(drafts) : j = m + l
        BY <3>2, OldOrNew
      <4>2. ledger'[j].of = drafts[l].of
        BY <4>1, NewEvent
      <4> QED BY <2>4, <4>2
    <3> QED BY <3>1, <3>2
  <2>5. \/ ledger[q].at <= at
        \/ drafts[i].type = "capsule.adopted" /\ ledger[q].type = "capsule.feedback_recorded"
    <3>1. CASE drafts[i].type = "capsule.rejected"
      <4>1. ledger[q].at \in Nat /\ at >= ledger[q].at
        BY <2>2, <3>1, TimesAreNat DEF Typed, LedgerTyped
      <4> QED BY <1>0, <4>1
    <3>2. CASE drafts[i].type # "capsule.rejected"
      <4>1. drafts[i].type = "capsule.adopted" /\ ~Retracted(k)
        BY <3>2 DEF Terminals
      <4>2. \/ ledger[q].type = "capsule.feedback_recorded"
            \/ ledger[q].at = LastTransitionAt(k)
        BY <2>2, <4>1, NewestOfActive
      <4> QED BY <1>1, <4>1, <4>2
    <3> QED BY <3>1, <3>2
  <2> QED BY <1>4, <2>2, <2>3, <2>4, <2>5 DEF EndSaid
<1>8. ledger'[m + i].of[2] = x /\ x[1] = k /\ x = <<k, a>>
  BY <1>4
<1>9. drafts[i].type \in LoneTypes => Len(drafts) = 1
  BY DEF LoneTypes, Terminals
<1>10. ledger'[m + i].type \in Terminals /\ ledger'[m + i].of[2][1] = k
  BY <1>4, <1>8
<1>11. ledger'[m + i].type \in LoneTypes => Single(m + i)'
  BY <1>3, <1>4, <1>9
<1> QED BY <1>3, <1>4, <1>6, <1>7, <1>8, <1>10, <1>11, KindTypes DEF Said, Terminals

\* The drafts of a command that ends a route: events of one experience, and
\* the end.
EndsRoute(drafts, i, x, e) ==
  /\ i \in 1..Len(drafts) /\ drafts[i].type \in Terminals
  /\ drafts[i].of = <<"inbox_item", x>>
  /\ \A j \in 1..Len(drafts) : j # i => OfExperience(drafts[j], e)

MayEnd(type, n, k, x, at) ==
  /\ x \in DOMAIN inbox /\ inbox[x].state = "pending" /\ at >= RouteLatestCausalAt(k, x[2])
  /\ IF type = "capsule.rejected" THEN n = 1 /\ at >= LatestCapsuleCausalAt(k)
     ELSE ~Retracted(k)

LEMMA EndedGraph ==
  ASSUME Typed, Kept, Kept', Graph, NEW p \in Readings, NEW drafts, Issued(drafts, p[1]),
         CommandAt(p, p[1]), NEW i, NEW k \in DOMAIN capsules, NEW a, NEW x, x = <<k, a>>,
         NEW e, EndsRoute(drafts, i, x, e), MayEnd(drafts[i].type, Len(drafts), k, x, p[1]),
         Len(drafts) # 1 => e \in DOMAIN experiences' /\ NoneLater(e, p[1]),
         ExperiencesGrow, VersionsSaid',
         UNCHANGED <<topics, subscriptions, capsules, statuses, reputation>>,
         NEW y, y.state # "pending", inbox' = [inbox EXCEPT ![x] = y]
  PROVE  Graph'
<1> PICK m : m = Len(ledger)
  OBVIOUS
<1> PICK at : at = p[1]
  OBVIOUS
<1>1. SourcesGrow
  BY DEF SourcesGrow, TopicsGrow, CapsulesRemembered
<1>2. /\ x \in DOMAIN inbox /\ inbox[x].state = "pending" /\ x[2] = a
      /\ p[1] >= RouteLatestCausalAt(k, a)
      /\ IF drafts[i].type = "capsule.rejected"
           THEN Len(drafts) = 1 /\ p[1] >= LatestCapsuleCausalAt(k) ELSE ~Retracted(k)
  BY DEF MayEnd
<1>3. /\ i \in 1..Len(drafts) /\ drafts[i].type \in Terminals
      /\ drafts[i].of = <<"inbox_item", x>> /\ drafts[i].of[2] = x
      /\ \A j \in 1..Len(drafts) : j # i => OfExperience(drafts[j], e)
  BY DEF EndsRoute
<1>4. \A j \in 1..Len(drafts) : drafts[j].of # <<"capsule", k>>
  <2> TAKE j \in 1..Len(drafts)
  <2>1. CASE j = i
    BY <1>3, <2>1
  <2>2. CASE j # i
    BY <1>3, <2>2 DEF OfExperience
  <2> QED BY <2>1, <2>2
<1>5. Said(m + i)'
  BY <1>2, <1>3, <1>4, TerminalSaid
<1>6. ASSUME NEW j \in 1..Len(drafts), j # i
      PROVE  Said(m + j)'
  <2>1. Len(drafts) # 1
    BY <1>3, <1>6
  <2>2. e \in DOMAIN experiences' /\ NoneLater(e, at) /\ OfExperience(drafts[j], e)
    BY <1>3, <1>6, <2>1
  <2>3. CommandAt(p, at) /\ Issued(drafts, at)
    OBVIOUS
  <2> QED BY <2>2, <2>3, ExperienceEventSaid
<1>7. \A n \in DOMAIN ledger' : Said(n)'
  <2>1. \A j \in 1..Len(drafts) : Said(m + j)'
    BY <1>5, <1>6
  <2> QED BY <1>1, <2>1, AllSaid
<1>8. \A j \in 1..Len(drafts) : j # i =>
        drafts[j].type \notin {"topic.created", "subscription.created", "capsule.published",
            "capsule.retracted", "capsule.received", "capsule.adopted", "capsule.rejected"}
  BY <1>3, KindTypes DEF OfExperience
<1>9. \A j \in 1..Len(drafts) :
        /\ drafts[j].type \notin {"topic.created", "subscription.created", "capsule.published"}
        /\ drafts[j].type # "capsule.retracted" /\ drafts[j].type # "capsule.received"
        /\ drafts[j].type \in Terminals => j = i
  BY <1>3, <1>8 DEF Terminals
<1>10. /\ DOMAIN inbox' = DOMAIN inbox /\ inbox'[x] = y
       /\ \A z \in DOMAIN inbox : z # x => inbox'[z] = inbox[z]
  BY <1>2
<1>11. OneEach(Terminals, Ends)'
  <2> PICK D, types : D = Ends /\ types = Terminals
    OBVIOUS
  <2>1. x \notin D /\ D \cup {x} = Ends'
    <3>1. \A z : z \in Ends' <=> z \in Ends \/ z = x
      BY <1>2, <1>10 DEF Ends
    <3>2. x \notin Ends
      BY <1>2 DEF Ends
    <3> QED BY <3>1, <3>2
  <2>2. OneEach(types, D \cup {x})'
    <3>1. OneEach(types, D) /\ Issued(drafts, at)
      BY DEF Graph, OnceEach
    <3>2. /\ i \in 1..Len(drafts) /\ drafts[i].type \in types /\ drafts[i].of[2] = x
          /\ x \notin D /\ \A j \in 1..Len(drafts) : drafts[j].type \in types => j = i
      BY <1>3, <1>9, <2>1
    <3> QED BY <3>1, <3>2, OneEachOnce
  <2> QED BY <2>1, <2>2 DEF OneEach, Terminals
<1>12. OnceEach'
  <2>1. OneEach({"capsule.received"}, Routes)'
    BY <1>9, <1>10, RoutesPartKept
  <2>2. OneEach({"capsule.retracted"}, Retractions)'
    BY <1>9, RetractionsPartKept
  <2>3. /\ OneEach({"topic.created"}, DOMAIN topics)'
        /\ OneEach({"subscription.created"}, DOMAIN subscriptions)'
        /\ OneEach({"capsule.published"}, DOMAIN capsules)'
    BY <1>9, FirstPartsKept
  <2> QED BY <1>11, <2>1, <2>2, <2>3 DEF OnceEach
<1>13. LedgerKept
  BY IssuedKeeps
<1>14. ASSUME NEW j \in DOMAIN capsules
       PROVE  CapsuleSaid(j)' /\ StateSaid(j)' /\ Delivered(j)'
  <2>1. CapsuleSaid(j)'
    BY <1>1, CapsulesSaidKept
  <2>2. StateSaid(j)'
    BY <1>13, StatesKept
  <2>3. \A b \in Agents : <<j, b>> \in Routes' <=> <<j, b>> \in Routes
    BY <1>10 DEF Routes
  <2>4. Delivered(j)'
    BY <1>1, <2>3, DeliveredKept
  <2> QED BY <2>1, <2>2, <2>4
<1>15. ASSUME NEW z \in DOMAIN inbox
       PROVE  RouteSaid(z)'
  <2>1. CASE z = x
    BY <1>10, <2>1 DEF RouteSaid
  <2>2. CASE z # x
    BY <1>10, <1>13, <2>2, RouteKept
  <2> QED BY <2>1, <2>2
<1>16. CountsSaid'
  BY <1>13, CountsKept
<1> QED BY <1>7, <1>10, <1>12, <1>14, <1>15, <1>16 DEF Graph

LEMMA RejectGraph ==
  ASSUME Typed, Kept, Kept', Graph, NEW k, NEW a, <<k, a>> \in DOMAIN inbox,
         NEW p \in Readings, Rejectable(k, a, p[1]), ReducibleRejection(k, a, p[1]),
         EndByRejection(k, a, p)
  PROVE  Graph'
<1> PICK x, d : x = <<k, a>> /\ d = Draft("capsule.rejected", "inbox_item", <<k, a>>, {})
  OBVIOUS
<1>1. d.type = "capsule.rejected" /\ d.of = <<"inbox_item", x>>
  BY DEF Draft
<1> PICK drafts : drafts = <<d>>
  OBVIOUS
<1> PICK y : y = [state |-> "rejected", event |-> Len(ledger) + Len(drafts)]
  OBVIOUS
<1>0. Commit(p[1], p[2], p[1], <<d>>)
  BY DEF EndByRejection
<1>2. /\ UNCHANGED <<topics, subscriptions, experiences, capsules, statuses, reputation>>
      /\ inbox' = [inbox EXCEPT ![x] = y] /\ y.state # "pending"
  BY DEF EndByRejection, Terminal
<1>3. /\ Issued(drafts, p[1]) /\ CommandAt(p, p[1]) /\ Len(drafts) = 1 /\ drafts[1] = d
      /\ 1 \in 1..Len(drafts) /\ \A i \in 1..Len(drafts) : i = 1
  BY <1>0, OneIssued
<1> PICK i : i = 1
  OBVIOUS
<1>4. k \in DOMAIN capsules
  BY RouteOf
<1>5. EndsRoute(drafts, i, x, 0)
  BY <1>1, <1>3 DEF EndsRoute, Terminals
<1>6. MayEnd(drafts[i].type, Len(drafts), k, x, p[1])
  <2>1. x \in DOMAIN inbox /\ inbox[x].state = "pending" /\ p[1] >= RouteLatestCausalAt(k, a)
        /\ x[2] = a
    BY DEF Rejectable
  <2>2. p[1] >= LatestCapsuleCausalAt(k) /\ Len(drafts) = 1 /\ drafts[i].type = "capsule.rejected"
    BY <1>1, <1>3 DEF ReducibleRejection
  <2> QED BY <2>1, <2>2 DEF MayEnd
<1>7. ExperiencesGrow /\ VersionsSaid'
  <2>1. ExperiencesGrow
    BY <1>2 DEF ExperiencesGrow
  <2>2. VersionsSaid'
    BY <1>2, <1>3, IssuedKeeps, VersionKept DEF Graph, VersionsSaid
  <2> QED BY <2>1, <2>2
<1> QED BY <1>2, <1>3, <1>4, <1>5, <1>6, <1>7, EndedGraph

\* The drafts of the two adoptions.
LEMMA NewAdoptionEnds ==
  ASSUME NEW k, NEW a, NEW e, NEW content, NEW drafts,
         drafts = NewAdoptionDrafts(k, a, e, content)
  PROVE  /\ IsLog(drafts) /\ Len(drafts) = 3 /\ drafts[3].type = "capsule.adopted"
         /\ EndsRoute(drafts, 3, <<k, a>>, e) /\ OfExperience(drafts[1], e)
<1> PICK t, x : t = CreationDrafts(e, content) /\ x = Adopted(k, a, e, TRUE, FALSE)
  OBVIOUS
<1>1. /\ IsLog(t) /\ Len(t) = 2 /\ OfExperience(t[1], e) /\ OfExperience(t[2], e)
  BY CreationFacts
<1>2. x.type = "capsule.adopted" /\ x.of = <<"inbox_item", <<k, a>>>>
  BY DEF Adopted, Draft
<1>3. drafts = t \o <<x>>
  BY DEF NewAdoptionDrafts
<1>4. IsTriple(drafts, t[1], t[2], x)
  <2>1. IsLog(t) /\ Len(t) \in {2}
    BY <1>1
  <2>2. IsTriple(t \o <<x>>, t[1], t[2], x)
    BY <2>1, LogTriple
  <2> QED BY <1>3, <2>2
<1>5. IsLog(drafts) /\ Len(drafts) = 3
      /\ drafts[1] = t[1] /\ drafts[2] = t[2] /\ drafts[3] = x
  BY <1>4 DEF IsTriple
<1>6. \A j \in 1..3 : j # 3 => OfExperience(drafts[j], e)
  <2>1. \A j \in 1..3 : j # 3 => j = 1 \/ j = 2
    OBVIOUS
  <2> QED BY <1>1, <1>5, <2>1
<1> PICK z : z = <<k, a>>
  OBVIOUS
<1>7. drafts[3].type = "capsule.adopted" /\ drafts[3].of = <<"inbox_item", z>>
  BY <1>2, <1>5
<1>8. \A j \in 1..Len(drafts) : j # 3 => OfExperience(drafts[j], e)
  BY <1>5, <1>6
<1>9. 3 \in 1..Len(drafts)
  BY <1>5
<1>10. EndsRoute(drafts, 3, z, e)
  BY <1>7, <1>8, <1>9 DEF EndsRoute, Terminals
<1>11. OfExperience(drafts[1], e)
  BY <1>1, <1>5
<1> QED BY <1>5, <1>7, <1>10, <1>11

LEMMA CorroborationOf ==
  ASSUME NEW e, NEW k, NEW t, t = CorroborateFromCapsule(e, k)
  PROVE  IsLog(t) /\ Len(t) \in 1..2 /\ \A i \in 1..Len(t) : OfExperience(t[i], e)
<1> DEFINE before == Snapshot(e)
           p == Draft("experience.corroborated", "experience", e,
                      [before |-> before, after |-> before, capsule |-> k])
           q == Draft("experience.temperature_changed", "experience", e,
                      [before |-> before, after |-> [before EXCEPT !.temperature = "active"]])
<1>1. OfExperience(p, e) /\ OfExperience(q, e)
  BY DEF OfExperience, AggregateType, Draft
<1>2. CASE temperature[e] # "cold"
  <2>1. PICK x : t = <<x>> /\ OfExperience(x, e)
    <3>1. t = <<p>> \o <<>>
      BY <1>2 DEF CorroborateFromCapsule
    <3> HIDE DEF p
    <3>2. t = <<p>>
      BY <3>1
    <3> QED BY <1>1, <3>2
  <2>2. IsLog(t) /\ Len(t) = 1 /\ t[1] = x
    BY <2>1, LogOne
  <2> QED BY <2>1, <2>2
<1>3. CASE temperature[e] = "cold"
  <2>1. PICK x, y : t = <<x>> \o <<y>> /\ OfExperience(x, e) /\ OfExperience(y, e)
    <3>1. t = <<p>> \o <<q>>
      BY <1>3 DEF CorroborateFromCapsule
    <3> QED BY <1>1, <3>1
  <2>2. IsLog(t) /\ Len(t) = 2 /\ t[1] = x /\ t[2] = y
    BY <2>1, LogPair
  <2>3. OfExperience(x, e) /\ OfExperience(y, e)
    BY <2>1
  <2>4. \A i \in 1..2 : i = 1 \/ i = 2
    OBVIOUS
  <2>5. \A i \in 1..2 : OfExperience(t[i], e)
    BY <2>2, <2>3, <2>4
  <2> QED BY <2>2, <2>5
<1> QED BY <1>2, <1>3

LEMMA EquivalentEnds ==
  ASSUME NEW k, NEW a, NEW e, NEW drafts, drafts = EquivalentDrafts(k, a, e)
  PROVE  /\ IsLog(drafts) /\ Len(drafts) \in 1..3 /\ drafts[Len(drafts)].type = "capsule.adopted"
         /\ EndsRoute(drafts, Len(drafts), <<k, a>>, e)
<1>1. PICK t, x : /\ drafts = Append(t, x) /\ x.type = "capsule.adopted"
                  /\ x.of = <<"inbox_item", <<k, a>>>>
                  /\ IsLog(t) /\ Len(t) \in 0..2 /\ \A i \in 1..Len(t) : OfExperience(t[i], e)
  <2> DEFINE corroborates == ~RootIsRepresented(e, capsules[k].root)
             u == IF corroborates THEN CorroborateFromCapsule(e, k) ELSE <<>>
             y == Adopted(k, a, e, FALSE, corroborates)
  <2>1. drafts = Append(u, y) /\ y.type = "capsule.adopted" /\ y.of = <<"inbox_item", <<k, a>>>>
    BY DEF EquivalentDrafts, Adopted, Draft
  <2>2. IsLog(u) /\ Len(u) \in 0..2 /\ \A i \in 1..Len(u) : OfExperience(u[i], e)
    <3>1. CASE corroborates
      <4>1. IsLog(u) /\ Len(u) \in 1..2 /\ \A i \in 1..Len(u) : OfExperience(u[i], e)
        BY <3>1, CorroborationOf
      <4> QED BY <4>1
    <3>2. CASE ~corroborates
      <4>1. u = <<>>
        BY <3>2
      <4>2. <<>> \in Seq({1})
        OBVIOUS
      <4>3. IsLog(u) /\ Len(u) = 0
        BY <4>1, <4>2, LogOf
      <4> QED BY <4>3
    <3> QED BY <3>1, <3>2
  <2> HIDE DEF u, y
  <2> QED BY <2>1, <2>2
<1> PICK n \in 0..2 : n = Len(t)
  BY <1>1
<1>2. /\ IsLog(drafts) /\ Len(drafts) = n + 1 /\ drafts[n + 1] = x
      /\ \A i \in 1..n : drafts[i] = t[i]
  <2>1. IsLog(t)
    BY <1>1
  <2>2. /\ IsLog(Append(t, x)) /\ Len(Append(t, x)) = Len(t) + 1
        /\ \A i \in 1..Len(t) : Append(t, x)[i] = t[i]
        /\ Append(t, x)[Len(t) + 1] = x
    BY <2>1, LogAppend
  <2> QED BY <1>1, <2>2
<1>3. \A j \in 1..n + 1 : j # n + 1 => OfExperience(drafts[j], e)
  <2> TAKE j \in 1..n + 1
  <2> HAVE j # n + 1
  <2>1. j \in 1..n
    OBVIOUS
  <2> QED BY <1>1, <1>2, <2>1
<1>4. n + 1 \in 1..n + 1 /\ n + 1 \in 1..3
  OBVIOUS
<1> QED BY <1>1, <1>2, <1>3, <1>4 DEF EndsRoute, Terminals

LEMMA AdoptAsNewGraph ==
  ASSUME Typed, Kept, Kept', Graph, NEW k, NEW a, <<k, a>> \in DOMAIN inbox, NEW p \in Readings,
         Available(k, a, p[1]), AdoptAsNew(k, a, p),
         UNCHANGED <<topics, subscriptions, capsules, statuses, feedback, reputation>>
  PROVE  Graph'
<1> PICK n \in Nat : n = Len(experiences)
  BY DEF Typed, ExperiencesTyped
<1> PICK x, e, content, at : /\ x = <<k, a>> /\ e = n + 1 /\ content = capsules[k].content
                             /\ at = p[1]
  OBVIOUS
<1> PICK drafts : drafts = NewAdoptionDrafts(k, a, e, content)
  OBVIOUS
<1> PICK y : y = [state |-> "adopted", event |-> Len(ledger) + Len(drafts)]
  OBVIOUS
<1>1. /\ e <= MaxExperiences /\ Creation(a, "adopted_capsule", content, at)
      /\ inbox' = [inbox EXCEPT ![x] = y] /\ Commit(p[1], p[2], p[1], drafts)
  BY DEF AdoptAsNew, NewAdoptionDrafts, Complete, Terminal
<1>2. /\ IsLog(drafts) /\ Len(drafts) = 3 /\ drafts[3].type = "capsule.adopted"
      /\ EndsRoute(drafts, 3, x, e) /\ OfExperience(drafts[1], e)
  BY NewAdoptionEnds
<1>3. Issued(drafts, p[1]) /\ CommandAt(p, p[1])
  BY <1>1, <1>2, CommitIssues DEF CommandAt
<1>4. k \in DOMAIN capsules /\ a \in Agents /\ content \in Contents /\ at \in Times
  BY RouteOf, ReadingTyped DEF Capsule
<1>5. Created(e, a, "adopted_capsule", content, at)
  <2>1. "adopted_capsule" \in Origins /\ Len(experiences) < MaxExperiences
    BY <1>1, SharingBounds DEF Origins
  <2>2. 1 \in 1..Len(drafts) /\ Issued(drafts, at)
    BY <1>2, <1>3
  <2> QED BY <1>1, <1>2, <1>4, <2>1, <2>2, CreationVersions
<1>6. ExperiencesGrow /\ VersionsSaid' /\ e \notin DOMAIN experiences /\ e \in DOMAIN experiences'
  BY <1>5 DEF Created
<1>7. NoneLater(e, p[1])
  BY <1>6, NoEventsYet
<1>8. MayEnd(drafts[3].type, Len(drafts), k, x, p[1])
  BY <1>2 DEF MayEnd, Available
<1>9. y.state # "pending"
  OBVIOUS
<1> QED BY <1>1, <1>2, <1>3, <1>4, <1>6, <1>7, <1>8, <1>9, EndedGraph

LEMMA AdoptEquivalentGraph ==
  ASSUME Typed, Kept, Kept', Graph, NEW k, NEW a, <<k, a>> \in DOMAIN inbox, NEW p \in Readings,
         NEW e \in DOMAIN experiences, Available(k, a, p[1]), AdoptEquivalent(k, a, e, p),
         UNCHANGED <<topics, subscriptions, capsules, statuses, feedback, reputation>>
  PROVE  Graph'
<1> PICK x : x = <<k, a>>
  OBVIOUS
<1> PICK drafts : drafts = EquivalentDrafts(k, a, e)
  OBVIOUS
<1> PICK y : y = [state |-> "adopted", event |-> Len(ledger) + Len(drafts)]
  OBVIOUS
<1> PICK i : i = Len(drafts)
  OBVIOUS
<1>1. /\ UNCHANGED experiences /\ p[1] >= CausalAt("experience", e)
      /\ inbox' = [inbox EXCEPT ![x] = y] /\ Commit(p[1], p[2], p[1], drafts)
  BY DEF AdoptEquivalent, EquivalentDrafts, Complete, Terminal
<1>2. /\ IsLog(drafts) /\ i \in 1..3 /\ drafts[i].type = "capsule.adopted"
      /\ EndsRoute(drafts, i, x, e)
  BY EquivalentEnds
<1>3. Issued(drafts, p[1]) /\ CommandAt(p, p[1])
  BY <1>1, <1>2, CommitIssues DEF CommandAt
<1>4. k \in DOMAIN capsules /\ p[1] \in Times
  BY RouteOf, ReadingTyped
<1>5. ExperiencesGrow /\ VersionsSaid' /\ e \in DOMAIN experiences'
  <2>1. ExperiencesGrow
    BY <1>1 DEF ExperiencesGrow
  <2>2. VersionsSaid'
    BY <1>1, <1>3, IssuedKeeps, VersionKept DEF Graph, VersionsSaid
  <2> QED BY <1>1, <2>1, <2>2
<1>6. NoneLater(e, p[1])
  BY <1>1, <1>4, NotBefore
<1>7. MayEnd(drafts[i].type, Len(drafts), k, x, p[1])
  BY <1>2 DEF MayEnd, Available
<1>8. y.state # "pending"
  OBVIOUS
<1> QED BY <1>1, <1>2, <1>3, <1>4, <1>5, <1>6, <1>7, <1>8, EndedGraph

LEMMA AdoptGraph ==
  ASSUME Typed, Kept, Kept', Graph, NEW k, NEW a, <<k, a>> \in DOMAIN inbox, AdoptCapsule(k, a)
  PROVE  Graph'
<1>1. UNCHANGED <<topics, subscriptions, capsules, statuses, feedback, reputation>>
  BY DEF AdoptCapsule
<1> PICK p \in Readings :
      /\ Available(k, a, p[1])
      /\ \/ AdoptAsNew(k, a, p)
         \/ \E e \in CurrentEquivalents(a, capsules[k].content) : AdoptEquivalent(k, a, e, p)
  BY DEF AdoptCapsule
<1>2. CASE AdoptAsNew(k, a, p)
  BY <1>1, <1>2, AdoptAsNewGraph
<1>3. ASSUME NEW e \in CurrentEquivalents(a, capsules[k].content), AdoptEquivalent(k, a, e, p)
      PROVE  Graph'
  <2>1. e \in DOMAIN experiences
    BY DEF CurrentEquivalents, Owned
  <2> QED BY <1>1, <1>3, <2>1, AdoptEquivalentGraph
<1> QED BY <1>2, <1>3
-----------------------------------------------------------------------------
(* Publications: one event, and one for everybody who had subscribed.      *)

\* Who receives a publication, once each.
Recipients(recipients, n, t, a) ==
  /\ recipients \in [1..n -> Agents]
  /\ \A i \in 1..n, j \in 1..n : recipients[i] = recipients[j] => i = j
  /\ \A b : b \in EligibleSubscribers(t, a) <=> \E i \in 1..n : recipients[i] = b

LEMMA RecipientsOrdered ==
  ASSUME Typed, NEW t, NEW a, NEW recipients, recipients = SetToSeq(EligibleSubscribers(t, a))
  PROVE  \E n \in Nat : Recipients(recipients, n, t, a)
<1> PICK S : S = EligibleSubscribers(t, a)
  OBVIOUS
<1>1. IsFiniteSet(S) /\ S \subseteq Agents
  BY SubscribersFinite
<1> PICK n : n = Cardinality(S)
  OBVIOUS
<1>2. n \in Nat /\ recipients \in Injection(1..n, S) /\ recipients \in Surjection(1..n, S)
  BY <1>1, SetListed
<1>3. recipients \in [1..n -> S] /\ DOMAIN recipients = 1..n
  BY <1>2 DEF Injection
<1>4. \A i \in 1..n, j \in 1..n : recipients[i] = recipients[j] => i = j
  BY <1>2, <1>3 DEF Injection, IsInjective
<1>5. \A b \in S : \E i \in 1..n : recipients[i] = b
  BY <1>2, <1>3 DEF Surjection
<1>6. recipients \in [1..n -> Agents] /\ \A i \in 1..n : recipients[i] \in S
  BY <1>1, <1>3
<1> QED BY <1>2, <1>4, <1>5, <1>6 DEF Recipients

DraftsOf(drafts, k, recipients, n) ==
  /\ IsLog(drafts) /\ Len(drafts) = 1 + n
  /\ drafts[1].type = "capsule.published" /\ drafts[1].of = <<"capsule", k>>
  /\ \A i \in 1..n : /\ drafts[1 + i].type = "capsule.received"
                     /\ drafts[1 + i].of = <<"inbox_item", <<k, recipients[i]>>>>

LEMMA PublicationDraftsOf ==
  ASSUME NEW k, NEW n \in Nat, NEW recipients \in [1..n -> Agents],
         NEW drafts, drafts = PublicationDrafts(k, recipients)
  PROVE  DraftsOf(drafts, k, recipients, n)
<1> PICK x : x = Draft("capsule.published", "capsule", k, {})
  OBVIOUS
<1> PICK t : t = DeliverToSubscribers(k, recipients)
  OBVIOUS
<1>1. x.type = "capsule.published" /\ x.of = <<"capsule", k>>
  BY DEF Draft
<1>2. IsLog(<<x>>) /\ Len(<<x>>) = 1 /\ <<x>>[1] = x
  BY LogOne
<1>3. /\ DOMAIN t = 1..n /\ t \in [1..n -> {t[i] : i \in 1..n}]
      /\ \A i \in 1..n : /\ t[i].type = "capsule.received"
                         /\ t[i].of = <<"inbox_item", <<k, recipients[i]>>>>
  BY DEF DeliverToSubscribers, Draft
<1>4. IsLog(t) /\ Len(t) = n
  <2>1. t \in Seq({t[i] : i \in 1..n})
    <3>1. [1..n -> {t[i] : i \in 1..n}] \subseteq Seq({t[i] : i \in 1..n})
      BY SeqDef
    <3> QED BY <1>3, <3>1
  <2>2. IsLog(t) /\ Len(t) \in Nat /\ DOMAIN t = 1..Len(t)
    BY <2>1, LogOf
  <2> QED BY <1>3, <2>2
<1> PICK u : u = <<x>>
  OBVIOUS
<1>5. drafts = u \o t
  BY DEF PublicationDrafts
<1>6. /\ IsLog(u \o t) /\ Len(u \o t) = Len(u) + Len(t)
      /\ \A i \in 1..Len(u) : (u \o t)[i] = u[i]
      /\ \A i \in 1..Len(t) : (u \o t)[Len(u) + i] = t[i]
  BY <1>2, <1>4, LogConcat
<1>7. /\ IsLog(drafts) /\ Len(drafts) = 1 + n /\ drafts[1] = x
      /\ \A i \in 1..n : drafts[1 + i] = t[i]
  BY <1>2, <1>4, <1>5, <1>6
<1>8. ASSUME NEW i \in 1..n
      PROVE  /\ drafts[1 + i].type = "capsule.received"
             /\ drafts[1 + i].of = <<"inbox_item", <<k, recipients[i]>>>>
  BY <1>3, <1>7
<1> QED BY <1>1, <1>7, <1>8 DEF DraftsOf

\* The rows of a publication.
PublishedRows(k, x, m, recipients, n) ==
  /\ k \notin DOMAIN capsules /\ DOMAIN capsules' = DOMAIN capsules \cup {k}
  /\ capsules'[k] = x /\ \A j \in DOMAIN capsules : capsules'[j] = capsules[j]
  /\ statuses'[k] = [status |-> "active", event |-> m + 1]
  /\ \A j \in DOMAIN capsules : statuses'[j] = statuses[j]
  /\ DOMAIN inbox' = DOMAIN inbox \cup {<<k, recipients[i]>> : i \in 1..n}
  /\ \A y \in DOMAIN inbox : inbox'[y] = inbox[y]
  /\ \A i \in 1..n : /\ <<k, recipients[i]>> \notin DOMAIN inbox
                     /\ inbox'[<<k, recipients[i]>>] = [state |-> "pending", event |-> m + 1 + i]

CapsuleRows(k, x, y) ==
  /\ k \notin DOMAIN capsules /\ DOMAIN capsules' = DOMAIN capsules \cup {k}
  /\ capsules'[k] = x /\ \A j \in DOMAIN capsules : capsules'[j] = capsules[j]
  /\ statuses'[k] = y /\ \A j \in DOMAIN capsules : statuses'[j] = statuses[j]

LEMMA CapsulesAppended ==
  ASSUME Typed, NEW x \in Capsule, NEW y, capsules' = Append(capsules, x),
         statuses' = Append(statuses, y), NEW k, k = Len(capsules) + 1
  PROVE  CapsuleRows(k, x, y)
<1> PICK c \in Nat : c = Len(capsules) /\ DOMAIN capsules = 1..c
  BY DEF Typed, CapsulesTyped
<1>1. /\ DOMAIN capsules' = 1..c + 1 /\ capsules'[c + 1] = x
      /\ \A j \in 1..c : capsules'[j] = capsules[j]
  BY DEF Typed, CapsulesTyped
<1>2. /\ statuses'[c + 1] = y /\ \A j \in 1..c : statuses'[j] = statuses[j]
  <2>1. statuses \in [1..c -> CapsuleState]
    BY DEF Typed, CapsulesTyped
  <2>2. statuses \in Seq(CapsuleState) /\ Len(statuses) = c
    <3>1. [1..c -> CapsuleState] \subseteq Seq(CapsuleState)
      BY SeqDef
    <3>2. statuses \in Seq(CapsuleState)
      BY <2>1, <3>1
    <3> QED BY <2>1, <3>2, LenProperties
  <2>3. IsLog(statuses) /\ Len(statuses) = c
    BY <2>2, LogOf
  <2>4. /\ \A j \in 1..Len(statuses) : Append(statuses, y)[j] = statuses[j]
        /\ Append(statuses, y)[Len(statuses) + 1] = y
    <3>1. IsLog(statuses)
      BY <2>3
    <3> QED BY <3>1, LogAppend
  <2> QED BY <2>3, <2>4
<1>3. k = c + 1 /\ k \notin 1..c /\ 1..c + 1 = 1..c \cup {k}
  OBVIOUS
<1> QED BY <1>1, <1>2, <1>3 DEF CapsuleRows

LEMMA RowsPublished ==
  ASSUME Typed, NEW m \in Nat, m = Len(ledger), NEW t, NEW a, NEW n \in Nat,
         NEW recipients, Recipients(recipients, n, t, a), NEW x \in Capsule,
         NEW k, k = Len(capsules) + 1, capsules' = Append(capsules, x),
         statuses' = Append(statuses, [status |-> "active", event |-> m + 1]),
         inbox' = Pending(k, recipients)
  PROVE  PublishedRows(k, x, m, recipients, n)
<1>1. /\ k \notin DOMAIN capsules /\ DOMAIN capsules' = DOMAIN capsules \cup {k}
      /\ capsules'[k] = x /\ \A j \in DOMAIN capsules : capsules'[j] = capsules[j]
      /\ statuses'[k] = [status |-> "active", event |-> m + 1]
      /\ \A j \in DOMAIN capsules : statuses'[j] = statuses[j]
  <2> PICK y : y = [status |-> "active", event |-> m + 1]
    OBVIOUS
  <2>1. statuses' = Append(statuses, y)
    OBVIOUS
  <2>2. CapsuleRows(k, x, y)
    BY <2>1, CapsulesAppended
  <2> QED BY <2>2 DEF CapsuleRows
<1>2. /\ DOMAIN recipients = 1..n
      /\ \A i \in 1..n, j \in 1..n : recipients[i] = recipients[j] => i = j
  BY DEF Recipients
<1>3. \A i \in 1..n : <<k, recipients[i]>> \notin DOMAIN inbox
  BY <1>1 DEF Typed, RoutesTyped
<1> PICK g : g = inbox'
  OBVIOUS
<1> PICK E : E = {<<k, recipients[i]>> : i \in 1..n}
  OBVIOUS
<1>4. g = [y \in DOMAIN inbox \cup E |->
             IF y \in DOMAIN inbox THEN inbox[y]
             ELSE [state |-> "pending",
                   event |-> m + 1 + (CHOOSE i \in 1..n : recipients[i] = y[2])]]
  BY <1>2 DEF Pending
<1>5. DOMAIN g = DOMAIN inbox \cup E /\ \A y \in DOMAIN inbox : g[y] = inbox[y]
  BY <1>4
<1>7. \A y \in DOMAIN inbox \cup E : y \notin DOMAIN inbox =>
        g[y] = [state |-> "pending",
                event |-> m + 1 + (CHOOSE i \in 1..n : recipients[i] = y[2])]
  BY <1>4
<1>6. ASSUME NEW i \in 1..n
      PROVE  g[<<k, recipients[i]>>] = [state |-> "pending", event |-> m + 1 + i]
  <2> PICK y : y = <<k, recipients[i]>>
    OBVIOUS
  <2>1. y \in E /\ y \notin DOMAIN inbox /\ y[2] = recipients[i]
    BY <1>3
  <2> PICK j : j = (CHOOSE q \in 1..n : recipients[q] = y[2])
    OBVIOUS
  <2>2. j \in 1..n /\ recipients[j] = recipients[i]
    BY <2>1
  <2>3. j = i
    BY <1>2, <2>2
  <2>4. y \in DOMAIN inbox \cup E /\ y \notin DOMAIN inbox
    BY <2>1
  <2>5. g[y] = [state |-> "pending", event |-> m + 1 + j]
    BY <1>7, <2>4, Zenon
  <2> QED BY <2>3, <2>5
<1> QED BY <1>1, <1>3, <1>5, <1>6 DEF PublishedRows

\* What a publication says of its source, from what its handler asked.
SaysItsSource(x, a, t, e, v) ==
  /\ x.publisher = a /\ x.topic = t /\ x.source = e /\ x.version = v /\ x.at = clock
  /\ Len(x.chain) <= MaxHops /\ x.expires > x.at /\ MatchesItsSource(x)

LEMMA PublishedSaid ==
  ASSUME Typed, Kept, Graph, NEW a \in Agents, NEW t \in Topics, NEW e \in DOMAIN experiences,
         a = experiences[e].owner, NEW v \in DOMAIN experiences[e].versions,
         NEW parents \in {{}} \cup {{r} : r \in Parents(a, e)},
         NEW lifetime \in Lifetimes, PublishCapsule(a, t, e, v, parents, lifetime),
         NEW x, x = Published(a, t, e, v, parents, lifetime)
  PROVE  SaysItsSource(x, a, t, e, v)
<1> PICK w : w = experiences[e].versions
  OBVIOUS
<1> PICK content : content = w[v].content
  OBVIOUS
<1>1. /\ x.publisher = a /\ x.topic = t /\ x.source = e /\ x.version = v /\ x.at = clock
      /\ x.content = content /\ x.chain = ChainFor(parents) /\ x.expires = clock + lifetime
      /\ x.root = RootFor(a, content, parents)
  BY DEF Published
<1>2. /\ experiences[e].origin # "adopted_passport"
      /\ clock >= CausalAt("experience", e)
      /\ parents = {} => experiences[e].origin # "adopted_capsule"
      /\ Len(ChainFor(parents)) <= MaxHops
  BY DEF PublishCapsule
<1>3. clock \in Times /\ clock \in Nat /\ lifetime \in Nat \ {0}
  BY LifetimeAssumption, TimesAreNat DEF Typed
<1>4. x.expires > x.at
  BY <1>1, <1>3
<1>5. \A j \in DOMAIN ledger : ledger[j].of = <<"experience", e>> => ledger[j].at <= clock
  <2>1. NoneLater(e, clock)
    BY <1>2, <1>3, NotBefore
  <2> QED BY <2>1 DEF NoneLater
<1>6. 1 \in DOMAIN w
  <2>1. experiences[e] \in Experience /\ Len(w) \in 1..MaxVersions
    BY DEF Typed, ExperiencesTyped
  <2>2. w \in Seq([content : Contents, at : Times])
    BY <2>1 DEF Experience
  <2> QED BY <2>1, <2>2, SharingBounds
<1>7. \A u \in DOMAIN w : w[u].at <= clock
  BY <1>5 DEF Graph, VersionsSaid, VersionSaid
<1>8. /\ experiences[e].origin = "adopted_capsule" => x.chain # <<>>
      /\ x.chain = <<>> => x.root = OwnRoot(a, content)
  <2>1. CASE parents = {}
    BY <1>1, <1>2, <2>1 DEF RootFor
  <2>2. CASE parents # {}
    <3>1. PICK r \in adoptions : parents = {r}
      BY <2>2 DEF Parents
    <3>2. ChainFor(parents) = r.chain
      <4>1. (CHOOSE q \in parents : TRUE) = r
        BY <3>1
      <4> QED BY <2>2, <4>1 DEF ChainFor
    <3> PICK k : k = r.capsule
      OBVIOUS
    <3>3. r.chain = Append(capsules[k].chain, k) /\ k \in DOMAIN capsules
      BY DEF Kept, AdoptionsKept, Ended
    <3> PICK s : s = capsules[k].chain
      OBVIOUS
    <3>4. s \in Seq(1..MaxCapsules)
      <4>1. capsules[k] \in Capsule
        BY <3>3 DEF Typed, CapsulesTyped
      <4> QED BY <4>1 DEF Capsule
    <3>5. IsLog(Append(s, k)) /\ Len(Append(s, k)) = Len(s) + 1 /\ Len(s) \in Nat
      BY <3>4, LogOf, LogAppend
    <3>6. x.chain # <<>>
      <4>1. Len(x.chain) # 0
        BY <1>1, <3>2, <3>3, <3>5
      <4>2. Len(<<>>) = 0
        OBVIOUS
      <4> QED BY <4>1, <4>2
    <3> QED BY <3>6
  <2> QED BY <2>1, <2>2
<1>9. MatchesItsSource(x)
  BY <1>1, <1>2, <1>6, <1>7, <1>8 DEF MatchesItsSource
<1> QED BY <1>1, <1>2, <1>4, <1>9 DEF SaysItsSource

\* No event is of a capsule, or of a route, that is not there yet.
LEMMA NoCapsuleYet ==
  ASSUME Typed, Graph, NEW k, k \notin DOMAIN capsules, NEW j \in DOMAIN ledger
  PROVE  ledger[j].of # <<"capsule", k>> /\ \A a : ledger[j].of # <<"inbox_item", <<k, a>>>>
<1>1. ASSUME ledger[j].of = <<"capsule", k>>
      PROVE  FALSE
  <2>1. /\ ledger[j].type \in {"capsule.published", "capsule.retracted",
                               "capsule.feedback_recorded"}
        /\ ledger[j].of[2] = k
    BY <1>1, OfKind, KindTypes
  <2>2. ledger[j].type \notin {"capsule.published"}
    BY <2>1 DEF Graph, OnceEach, OneEach
  <2>3. \E n \in DOMAIN ledger : ledger[n].type = "capsule.published" /\ ledger[n].of[2] = k
    BY <2>1, <2>2 DEF Graph, Said, Earlier
  <2> QED BY <2>3 DEF Graph, OnceEach, OneEach
<1>2. ASSUME NEW a, ledger[j].of = <<"inbox_item", <<k, a>>>>
      PROVE  FALSE
  <2> PICK x : x = <<k, a>>
    OBVIOUS
  <2>1. /\ ledger[j].type \in {"capsule.received", "capsule.adopted", "capsule.rejected"}
        /\ ledger[j].of[2] = x
    BY <1>2, OfKind, KindTypes
  <2>2. x \in DOMAIN inbox
    <3>1. CASE ledger[j].type = "capsule.received"
      BY <2>1, <3>1 DEF Graph, OnceEach, OneEach, Routes
    <3>2. CASE ledger[j].type \in Terminals
      BY <2>1, <3>2 DEF Graph, OnceEach, OneEach, Ends
    <3> QED BY <2>1, <3>1, <3>2 DEF Terminals
  <2>3. DOMAIN inbox \subseteq (DOMAIN capsules) \X Agents
    BY DEF Typed, RoutesTyped
  <2> QED BY <2>2, <2>3
<1> QED BY <1>1, <1>2

\* The events of a publication in the ledger.
PublicationIssues(k, m, recipients, n) ==
  /\ m \in Nat /\ n \in Nat /\ DOMAIN ledger = 1..m /\ DOMAIN ledger' = 1..m + (1 + n)
  /\ LedgerKept
  /\ ledger'[m + 1].type = "capsule.published" /\ ledger'[m + 1].of = <<"capsule", k>>
  /\ ledger'[m + 1].at = clock /\ ledger'[m + 1].by = Len(receipts) + 1
  /\ \A i \in 1..n : /\ ledger'[m + (1 + i)].type = "capsule.received"
                     /\ ledger'[m + (1 + i)].of = <<"inbox_item", <<k, recipients[i]>>>>
                     /\ ledger'[m + (1 + i)].at = clock
                     /\ ledger'[m + (1 + i)].by = Len(receipts) + 1
  /\ \A j \in 1..m : ledger[j].by # Len(receipts) + 1

LEMMA PublicationIssued ==
  ASSUME Typed, NEW drafts, Issued(drafts, clock), NEW m, m = Len(ledger),
         NEW k, NEW n \in Nat, NEW recipients, DraftsOf(drafts, k, recipients, n)
  PROVE  PublicationIssues(k, m, recipients, n)
<1> PICK at : at = clock
  OBVIOUS
<1>1. Issued(drafts, at)
  OBVIOUS
<1>2. Len(drafts) = 1 + n /\ m \in Nat
  BY DEF DraftsOf, Issued
<1>3. DOMAIN ledger = 1..m /\ DOMAIN ledger' = 1..m + (1 + n) /\ LedgerKept
  BY <1>1, <1>2, IssuedKeeps DEF Issued
<1>4. 1 \in 1..Len(drafts) /\ \A i \in 1..n : 1 + i \in 1..Len(drafts)
  BY <1>2
<1>5. \A i \in 1..Len(drafts) :
        /\ ledger'[m + i].type = drafts[i].type /\ ledger'[m + i].of = drafts[i].of
        /\ ledger'[m + i].at = at /\ ledger'[m + i].by = Len(receipts) + 1
  BY <1>1, NewEvent, ZenonT(60)
<1>6. /\ ledger'[m + 1].type = "capsule.published" /\ ledger'[m + 1].of = <<"capsule", k>>
      /\ ledger'[m + 1].at = clock /\ ledger'[m + 1].by = Len(receipts) + 1
  BY <1>4, <1>5 DEF DraftsOf
<1>7. ASSUME NEW i \in 1..n
      PROVE  /\ ledger'[m + (1 + i)].type = "capsule.received"
             /\ ledger'[m + (1 + i)].of = <<"inbox_item", <<k, recipients[i]>>>>
             /\ ledger'[m + (1 + i)].at = clock
             /\ ledger'[m + (1 + i)].by = Len(receipts) + 1
  <2>1. /\ drafts[1 + i].type = "capsule.received"
        /\ drafts[1 + i].of = <<"inbox_item", <<k, recipients[i]>>>>
    BY DEF DraftsOf
  <2> QED BY <1>4, <1>5, <2>1
<1>8. ASSUME NEW j \in 1..m
      PROVE  ledger[j].by # Len(receipts) + 1
  <2> PICK r \in Nat : r = Len(receipts) /\ DOMAIN receipts = 1..r
    BY DEF Issued
  <2>1. ledger[j].by \in 1..r
    BY <1>3 DEF Typed, LedgerTyped
  <2> QED BY <2>1
<1> QED BY <1>2, <1>3, <1>6, <1>7, <1>8 DEF PublicationIssues

OldOrPublished(j, m, n) ==
  \/ j \in DOMAIN ledger /\ ledger'[j] = ledger[j]
  \/ j = m + 1
  \/ \E i \in 1..n : j = m + (1 + i)

LEMMA PublicationOldOrNew ==
  ASSUME NEW k, NEW m, NEW recipients, NEW n, PublicationIssues(k, m, recipients, n),
         NEW j \in DOMAIN ledger'
  PROVE  OldOrPublished(j, m, n)
<1> USE DEF OldOrPublished
<1>1. m \in Nat /\ n \in Nat /\ DOMAIN ledger = 1..m /\ j \in 1..m + (1 + n) /\ LedgerKept
  BY DEF PublicationIssues
<1>2. CASE j \in 1..m
  BY <1>1, <1>2 DEF LedgerKept
<1>3. CASE j \notin 1..m /\ j # m + 1
  <2>1. j - (m + 1) \in 1..n /\ j = m + (1 + (j - (m + 1)))
    BY <1>1, <1>3
  <2> QED BY <2>1
<1> QED BY <1>2, <1>3

\* The first event speaks of the new capsule, on a topic that was there.
LEMMA PublicationEventSaid ==
  ASSUME Typed, Graph, NEW p, CommandAt(p, clock), NEW drafts, Issued(drafts, clock),
         NEW m, m = Len(ledger), NEW k, k \notin DOMAIN capsules,
         NEW n \in Nat, NEW recipients, DraftsOf(drafts, k, recipients, n),
         NEW t \in DOMAIN topics, clock >= topics[t],
         capsules'[k].at = clock, capsules'[k].topic = t
  PROVE  Said(m + 1)'
<1>1. PublicationIssues(k, m, recipients, n)
  BY PublicationIssued
<1>2. /\ m \in Nat /\ DOMAIN ledger = 1..m
      /\ ledger'[m + 1].type = "capsule.published" /\ ledger'[m + 1].of = <<"capsule", k>>
      /\ ledger'[m + 1].at = clock /\ ledger'[m + 1].by = Len(receipts) + 1
  BY <1>1 DEF PublicationIssues
<1>3. Filed(m + 1)' /\ NotOlder(m + 1)' /\ Spanned(m + 1)'
  <2> PICK at, i : at = clock /\ i = 1
    OBVIOUS
  <2>1. i \in 1..Len(drafts) /\ drafts[i].of = <<"capsule", k>> /\ drafts[i].type = "capsule.published"
    BY DEF DraftsOf
  <2>2. drafts[i].of = <<AggregateType(drafts[i].type), drafts[i].of[2]>>
    BY <2>1 DEF AggregateType
  <2>3. \A j \in DOMAIN ledger : ledger[j].of = drafts[i].of => ledger[j].at <= at
    BY <2>1, NoCapsuleYet
  <2>4. CommandAt(p, at) /\ Issued(drafts, at)
    OBVIOUS
  <2>5. Filed(m + i)' /\ NotOlder(m + i)' /\ Spanned(m + i)'
    BY <2>1, <2>2, <2>3, <2>4, CommonSaid
  <2> QED BY <2>5
<1>4. TopicBefore(m + 1, t)'
  <2> PICK j \in DOMAIN ledger : ledger[j].type = "topic.created" /\ ledger[j].of[2] = t
    BY DEF Graph, OnceEach, OneEach
  <2>1. ledger[j].at = topics[t]
    BY DEF Graph, Said
  <2>2. topics[t] \in Nat /\ clock \in Nat
    BY TimesAreNat DEF Typed, TopicsTyped
  <2>3. j \in DOMAIN ledger' /\ ledger'[j] = ledger[j] /\ j < m + 1
    BY <1>1, <1>2 DEF PublicationIssues, LedgerKept
  <2> QED BY <1>2, <2>1, <2>2, <2>3 DEF TopicBefore
<1>5. \A j \in DOMAIN ledger' :
        ledger'[j].by = ledger'[m + 1].by
          => j = m + 1 \/ (ledger'[j].type = "capsule.received" /\ ledger'[j].of[2][1] = k)
  <2> SUFFICES ASSUME NEW j \in DOMAIN ledger', ledger'[j].by = ledger'[m + 1].by, j # m + 1
               PROVE  ledger'[j].type = "capsule.received" /\ ledger'[j].of[2][1] = k
    OBVIOUS
  <2>1. ~(j \in DOMAIN ledger /\ ledger'[j] = ledger[j])
    BY <1>1, <1>2 DEF PublicationIssues
  <2>2. OldOrPublished(j, m, n)
    BY <1>1, PublicationOldOrNew
  <2> PICK i \in 1..n : j = m + (1 + i)
    BY <2>1, <2>2 DEF OldOrPublished
  <2> PICK y : y = <<k, recipients[i]>>
    OBVIOUS
  <2>3. ledger'[j].type = "capsule.received" /\ ledger'[j].of = <<"inbox_item", y>>
    BY <1>1 DEF PublicationIssues
  <2>4. y[1] = k
    OBVIOUS
  <2> QED BY <2>3, <2>4
<1>6. PublicationSaid(m + 1, k)'
  BY <1>2, <1>4, <1>5 DEF PublicationSaid
<1>7. ledger'[m + 1].of[2] = k
  BY <1>2
<1> QED BY <1>2, <1>3, <1>6, <1>7 DEF Said, LoneTypes, Terminals, AggregateType

\* The others were delivered by its command.
LEMMA DeliveryEventSaid ==
  ASSUME Typed, Graph, NEW p, CommandAt(p, clock), NEW drafts, Issued(drafts, clock),
         NEW m, m = Len(ledger), NEW k, k \notin DOMAIN capsules,
         NEW n \in Nat, NEW recipients, DraftsOf(drafts, k, recipients, n), NEW i \in 1..n
  PROVE  Said(m + (1 + i))'
<1>1. PublicationIssues(k, m, recipients, n)
  BY PublicationIssued
<1> PICK q, y : q = m + (1 + i) /\ y = <<k, recipients[i]>>
  OBVIOUS
<1>2. /\ m \in Nat /\ DOMAIN ledger' = 1..m + (1 + n)
      /\ ledger'[m + 1].type = "capsule.published" /\ ledger'[m + 1].of = <<"capsule", k>>
      /\ ledger'[m + 1].at = clock /\ ledger'[m + 1].by = Len(receipts) + 1
      /\ ledger'[q].type = "capsule.received" /\ ledger'[q].of = <<"inbox_item", y>>
      /\ ledger'[q].at = clock /\ ledger'[q].by = Len(receipts) + 1
  BY <1>1 DEF PublicationIssues
<1>3. Filed(q)' /\ NotOlder(q)' /\ Spanned(q)'
  <2> PICK at, l : at = clock /\ l = 1 + i
    OBVIOUS
  <2>1. /\ l \in 1..Len(drafts) /\ drafts[l].of = <<"inbox_item", y>>
        /\ drafts[l].type = "capsule.received"
    BY DEF DraftsOf
  <2>2. drafts[l].of = <<AggregateType(drafts[l].type), drafts[l].of[2]>>
    BY <2>1 DEF AggregateType
  <2>3. \A j \in DOMAIN ledger : ledger[j].of = drafts[l].of => ledger[j].at <= at
    BY <2>1, NoCapsuleYet
  <2>4. CommandAt(p, at) /\ Issued(drafts, at)
    OBVIOUS
  <2>5. Filed(m + l)' /\ NotOlder(m + l)' /\ Spanned(m + l)'
    BY <2>1, <2>2, <2>3, <2>4, CommonSaid
  <2> QED BY <2>5
<1>4. DeliverySaid(q, k)'
  <2>1. m + 1 \in DOMAIN ledger' /\ m + 1 < q /\ ledger'[m + 1].of[2] = k
    BY <1>2
  <2> QED BY <1>2, <2>1 DEF DeliverySaid
<1>5. ledger'[q].of[2] = y /\ y[1] = k
  BY <1>2
<1>6. Said(q)'
  BY <1>2, <1>3, <1>4, <1>5 DEF Said, LoneTypes, Terminals, AggregateType
<1> QED BY <1>6

LEMMA PublicationOnce ==
  ASSUME Typed, Graph, NEW drafts, Issued(drafts, clock), UNCHANGED <<topics, subscriptions>>,
         NEW k, NEW x, NEW m, NEW n \in Nat, NEW recipients, NEW t, NEW a,
         DraftsOf(drafts, k, recipients, n), Recipients(recipients, n, t, a),
         PublishedRows(k, x, m, recipients, n)
  PROVE  OnceEach'
<1> PICK at : at = clock
  OBVIOUS
<1>1. Issued(drafts, at) /\ Len(drafts) = 1 + n /\ 1 \in 1..Len(drafts)
  BY DEF DraftsOf
<1>2. drafts[1].type = "capsule.published" /\ drafts[1].of = <<"capsule", k>>
  BY DEF DraftsOf
<1>3. ASSUME NEW i \in 1..Len(drafts), i # 1
      PROVE  \E j \in 1..n : /\ i = 1 + j /\ drafts[i].type = "capsule.received"
                             /\ drafts[i].of = <<"inbox_item", <<k, recipients[j]>>>>
  <2>1. i - 1 \in 1..n /\ i = 1 + (i - 1)
    BY <1>1, <1>3
  <2> PICK j \in 1..n : i = 1 + j
    BY <2>1
  <2> QED BY DEF DraftsOf
<1>4. \A i \in 1..Len(drafts) :
        /\ drafts[i].type \notin {"topic.created"} /\ drafts[i].type \notin {"subscription.created"}
        /\ drafts[i].type \notin {"capsule.retracted"} /\ drafts[i].type \notin Terminals
        /\ drafts[i].type \in {"capsule.published"} => i = 1
  BY <1>2, <1>3 DEF Terminals
<1> PICK T, S, C, R, I, E : /\ T = DOMAIN topics /\ S = DOMAIN subscriptions
                            /\ C = DOMAIN capsules /\ R = Retractions
                            /\ I = Routes /\ E = Ends
  OBVIOUS
<1>5. /\ OneEach({"topic.created"}, T) /\ OneEach({"subscription.created"}, S)
      /\ OneEach({"capsule.published"}, C) /\ OneEach({"capsule.retracted"}, R)
      /\ OneEach({"capsule.received"}, I) /\ OneEach(Terminals, E)
  BY DEF Graph, OnceEach
<1> PICK new : new = {<<k, recipients[i]>> : i \in 1..n}
  OBVIOUS
<1>6. /\ k \notin C /\ DOMAIN capsules' = C \cup {k}
      /\ statuses'[k].status = "active" /\ \A j \in C : statuses'[j] = statuses[j]
  BY DEF PublishedRows
<1>7. /\ DOMAIN inbox' = I \cup new /\ \A y \in I : inbox'[y] = inbox[y]
      /\ \A y \in new : y \notin I /\ inbox'[y].state = "pending"
  <2>1. /\ I = DOMAIN inbox /\ DOMAIN inbox' = I \cup new
        /\ \A y \in I : inbox'[y] = inbox[y]
    BY DEF PublishedRows, Routes
  <2>2. ASSUME NEW y \in new
        PROVE  y \notin I /\ inbox'[y].state = "pending"
    <3> PICK i \in 1..n : y = <<k, recipients[i]>>
      BY <2>2
    <3>1. y \notin DOMAIN inbox /\ inbox'[y] = [state |-> "pending", event |-> m + 1 + i]
      BY DEF PublishedRows
    <3> QED BY <2>1, <3>1
  <2> QED BY <2>1, <2>2
<1>8. R = Retractions' /\ E = Ends'
  <2>1. R = Retractions'
    BY <1>6 DEF Retractions, Retracted
  <2>2. \A y \in DOMAIN inbox' : y \in E <=> inbox'[y].state # "pending"
    BY <1>7 DEF Ends, Routes
  <2>3. E \subseteq DOMAIN inbox'
    BY <1>7 DEF Ends, Routes
  <2>4. E = Ends'
    BY <2>2, <2>3 DEF Ends
  <2> QED BY <2>1, <2>4
<1>9. OneEach({"topic.created"}, T)' /\ OneEach({"subscription.created"}, S)'
      /\ OneEach({"capsule.retracted"}, R)'
  BY <1>1, <1>4, <1>5, OneEachKept
<1>10. OneEach(Terminals, E)'
  <2> PICK types : types = Terminals
    OBVIOUS
  <2>1. OneEach(types, E) /\ \A i \in 1..Len(drafts) : drafts[i].type \notin types
    BY <1>4, <1>5
  <2>2. OneEach(types, E)'
    BY <1>1, <2>1, OneEachKept
  <2> QED BY <2>2 DEF OneEach, Terminals
<1>11. OneEach({"capsule.published"}, C \cup {k})'
  <2>1. drafts[1].type \in {"capsule.published"} /\ drafts[1].of[2] = k
    BY <1>2
  <2> QED BY <1>1, <1>4, <1>5, <1>6, <2>1, OneEachOnce
<1>12. OneEach({"capsule.received"}, I \cup new)'
  <2> PICK types : types = {"capsule.received"}
    OBVIOUS
  <2>1. \A i \in 1..Len(drafts) : drafts[i].type \in types => i # 1
    BY <1>2
  <2>2. \A i \in 1..Len(drafts) :
          drafts[i].type \in types => drafts[i].of[2] \in new /\ drafts[i].of[2] \notin I
    BY <1>3, <1>7, <2>1
  <2>3. ASSUME NEW i \in 1..Len(drafts), NEW j \in 1..Len(drafts),
               drafts[i].type \in types, drafts[j].type \in types,
               drafts[i].of[2] = drafts[j].of[2]
        PROVE  i = j
    <3> PICK g \in 1..n : i = 1 + g /\ drafts[i].of = <<"inbox_item", <<k, recipients[g]>>>>
      BY <1>3, <2>1, <2>3
    <3> PICK h \in 1..n : j = 1 + h /\ drafts[j].of = <<"inbox_item", <<k, recipients[h]>>>>
      BY <1>3, <2>1, <2>3
    <3>1. <<k, recipients[g]>> = <<k, recipients[h]>>
      BY <2>3
    <3>2. recipients[g] = recipients[h]
      BY <3>1
    <3> QED BY <3>2 DEF Recipients
  <2>4. ASSUME NEW y \in new
        PROVE  \E i \in 1..Len(drafts) : drafts[i].type \in types /\ drafts[i].of[2] = y
    <3> PICK i \in 1..n : y = <<k, recipients[i]>>
      OBVIOUS
    <3>1. /\ 1 + i \in 1..Len(drafts) /\ drafts[1 + i].type \in types
          /\ drafts[1 + i].of = <<"inbox_item", y>>
      BY <1>1 DEF DraftsOf
    <3> QED BY <3>1
  <2>5. Adds(drafts, types, I, new)
    BY <2>2, <2>3, <2>4 DEF Adds
  <2>6. OneEach(types, I \cup new)'
    BY <1>1, <1>5, <2>5, OneEachGrows
  <2> QED BY <2>6
<1>13. /\ OneEach({"topic.created"}, DOMAIN topics)'
       /\ OneEach({"subscription.created"}, DOMAIN subscriptions)'
       /\ OneEach({"capsule.retracted"}, Retractions)' /\ OneEach(Terminals, Ends)'
  <2>1. T = DOMAIN topics' /\ S = DOMAIN subscriptions'
    OBVIOUS
  <2> QED BY <1>8, <1>9, <1>10, <2>1 DEF OneEach, Terminals
<1>14. OneEach({"capsule.published"}, DOMAIN capsules)' /\ OneEach({"capsule.received"}, Routes)'
  BY <1>6, <1>7, <1>11, <1>12 DEF OneEach, Routes
<1> QED BY <1>13, <1>14 DEF OnceEach

\* The capsule is made from its source, which the command leaves alone.
LEMMA PublishedCapsuleSaid ==
  ASSUME NEW a, NEW t, NEW e \in DOMAIN experiences, NEW v \in DOMAIN experiences[e].versions,
         NEW x, SaysItsSource(x, a, t, e, v), NEW k, capsules'[k] = x, UNCHANGED experiences
  PROVE  CapsuleSaid(k)'
<1>1. MatchesItsSource(x)'
  BY DEF SaysItsSource, MatchesItsSource
<1>2. x.source = e /\ x.version = v /\ Len(x.chain) <= MaxHops /\ x.expires > x.at
  BY DEF SaysItsSource
<1> QED BY <1>1, <1>2 DEF CapsuleSaid

\* It went to everybody whose subscription was there.
LEMMA PublishedDelivered ==
  ASSUME Typed, Kept', UNCHANGED subscriptions,
         NEW k, NEW x, NEW m, NEW n \in Nat, NEW recipients, NEW t, NEW a,
         x.publisher = a, x.topic = t,
         PublicationIssues(k, m, recipients, n), Recipients(recipients, n, t, a),
         PublishedRows(k, x, m, recipients, n)
  PROVE  Delivered(k)'
<1>1. /\ m \in Nat /\ DOMAIN ledger = 1..m /\ DOMAIN ledger' = 1..m + (1 + n)
      /\ ledger'[m + 1].type = "capsule.published" /\ ledger'[m + 1].of = <<"capsule", k>>
  BY DEF PublicationIssues
<1>2. /\ k \notin DOMAIN capsules /\ capsules'[k] = x
      /\ DOMAIN inbox' = DOMAIN inbox \cup {<<k, recipients[i]>> : i \in 1..n}
  BY DEF PublishedRows
<1>3. EventOf("capsule.published", k)' = m + 1
  <2> PICK q : q = m + 1
    OBVIOUS
  <2>1. q \in PublicationEvents' /\ ledger'[q].of[2] = k
    BY <1>1 DEF PublicationEvents, OfType
  <2>2. PublicationsKept'
    BY DEF Kept
  <2>3. EventOf("capsule.published", k)' = q
    BY <2>1, <2>2, NewEventOf
  <2> QED BY <2>3
<1> SUFFICES ASSUME NEW b \in Agents
             PROVE  <<k, b>> \in Routes' <=> Subscribed(k, b)'
  BY DEF Delivered
<1>4. <<k, b>> \in Routes' <=> b \in EligibleSubscribers(t, a)
  <2>1. <<k, b>> \notin DOMAIN inbox
    BY <1>2 DEF Typed, RoutesTyped
  <2>2. <<k, b>> \in Routes' <=> \E i \in 1..n : <<k, b>> = <<k, recipients[i]>>
    BY <1>2, <2>1 DEF Routes
  <2>3. \A i \in 1..n : <<k, b>> = <<k, recipients[i]>> <=> recipients[i] = b
    OBVIOUS
  <2>4. b \in EligibleSubscribers(t, a) <=> \E i \in 1..n : recipients[i] = b
    BY DEF Recipients
  <2> QED BY <2>2, <2>3, <2>4
<1>5. <<b, t>> \in DOMAIN subscriptions => subscriptions[<<b, t>>].event < m + 1
  <2> SUFFICES ASSUME <<b, t>> \in DOMAIN subscriptions
               PROVE  subscriptions[<<b, t>>].event < m + 1
    OBVIOUS
  <2>1. subscriptions[<<b, t>>] \in [event : 1..m, at : Times]
    BY <1>1 DEF Typed, TopicsTyped
  <2>2. subscriptions[<<b, t>>].event \in 1..m
    BY <2>1
  <2> QED BY <1>1, <2>2
<1>6. Subscribed(k, b)' <=> b # a /\ <<b, t>> \in DOMAIN subscriptions
  BY <1>2, <1>3, <1>5 DEF Subscribed
<1> QED BY <1>4, <1>6 DEF EligibleSubscribers

LEMMA PublishGraph ==
  ASSUME Typed, Kept, Kept', Graph, NEW a \in Agents, NEW t \in Topics, NEW e \in DOMAIN experiences,
         a = experiences[e].owner, NEW v \in DOMAIN experiences[e].versions,
         NEW parents \in {{}} \cup {{r} : r \in Parents(a, e)},
         NEW lifetime \in Lifetimes, PublishCapsule(a, t, e, v, parents, lifetime)
  PROVE  Graph'
<1> PICK k, x, m, recipients :
      /\ k = Len(capsules) + 1 /\ x = Published(a, t, e, v, parents, lifetime)
      /\ m = Len(ledger) /\ recipients = SetToSeq(EligibleSubscribers(t, a))
  OBVIOUS
<1> PICK n \in Nat : Recipients(recipients, n, t, a)
  BY RecipientsOrdered
<1> PICK drafts : drafts = PublicationDrafts(k, recipients)
  OBVIOUS
<1>1. DraftsOf(drafts, k, recipients, n)
  BY PublicationDraftsOf DEF Recipients
<1>2. /\ capsules' = Append(capsules, x) /\ inbox' = Pending(k, recipients)
      /\ statuses' = Append(statuses, [status |-> "active", event |-> m + 1])
      /\ t \in DOMAIN topics /\ clock >= topics[t]
      /\ UNCHANGED <<topics, subscriptions, experiences, reputation>>
  BY DEF PublishCapsule
<1>3. PICK p \in Readings : Commit(p[1], p[2], clock, drafts)
  BY DEF PublishCapsule, PublicationDrafts
<1>4. Issued(drafts, clock) /\ CommandAt(p, clock)
  <2> PICK h, c, at : h = p[1] /\ c = p[2] /\ at = clock
    OBVIOUS
  <2>1. Commit(h, c, at, drafts) /\ IsLog(drafts)
    BY <1>1, <1>3 DEF DraftsOf
  <2>2. Issued(drafts, at) /\ clock' = c /\ Witnessed(h, c)
    BY <2>1, CommitIssues
  <2> QED BY <2>2 DEF CommandAt
<1>5. PublicationIssues(k, m, recipients, n) /\ m \in Nat
  <2>1. Typed /\ Issued(drafts, clock) /\ m = Len(ledger)
    BY <1>4
  <2>2. PublicationIssues(k, m, recipients, n)
    BY <1>1, <2>1, PublicationIssued
  <2> QED BY <2>2 DEF PublicationIssues
<1>6. x \in Capsule
  BY PublishedTyped
<1>7. PublishedRows(k, x, m, recipients, n)
  BY <1>2, <1>5, <1>6, RowsPublished
<1>8. SaysItsSource(x, a, t, e, v)
  BY PublishedSaid
<1>9. /\ k \notin DOMAIN capsules /\ DOMAIN capsules' = DOMAIN capsules \cup {k}
      /\ capsules'[k] = x /\ \A j \in DOMAIN capsules : capsules'[j] = capsules[j]
      /\ x.at = clock /\ x.topic = t /\ x.publisher = a
  BY <1>7, <1>8 DEF PublishedRows, SaysItsSource
<1>10. SourcesGrow
  BY <1>2, <1>9 DEF SourcesGrow, TopicsGrow, ExperiencesGrow, CapsulesRemembered
<1>11. LedgerKept
  BY <1>5 DEF PublicationIssues
<1>12. \A j \in DOMAIN ledger' : Said(j)'
  <2>1. Said(m + 1)'
    BY <1>1, <1>2, <1>4, <1>9, PublicationEventSaid
  <2>2. \A i \in 1..n : Said(m + (1 + i))'
    BY <1>1, <1>4, <1>9, DeliveryEventSaid
  <2>3. ASSUME NEW j \in DOMAIN ledger'
        PROVE  Said(j)'
    <3>1. CASE j \in DOMAIN ledger
      <4> PICK at : at = clock
        OBVIOUS
      <4>1. Issued(drafts, at) /\ OnceEach /\ Said(j)
        BY <1>4, <3>1 DEF Graph
      <4> QED BY <1>10, <3>1, <4>1, SaidKept
    <3>2. CASE j = m + 1
      BY <2>1, <3>2
    <3>3. ASSUME NEW i \in 1..n, j = m + (1 + i)
          PROVE  Said(j)'
      BY <2>2, <3>3
    <3>4. OldOrPublished(j, m, n)
      BY <1>5, PublicationOldOrNew
    <3> QED BY <3>1, <3>2, <3>3, <3>4 DEF OldOrPublished
  <2> QED BY <2>3
<1>13. OnceEach'
  BY <1>1, <1>2, <1>4, <1>7, PublicationOnce
<1>14. VersionsSaid'
  BY <1>2, <1>11, VersionKept DEF Graph, VersionsSaid
<1>15. CountsSaid'
  BY <1>2, <1>11, CountsKept
<1>16. CapsuleSaid(k)' /\ StateSaid(k)' /\ Delivered(k)'
  <2>1. CapsuleSaid(k)'
    BY <1>2, <1>8, <1>9, PublishedCapsuleSaid
  <2>2. StateSaid(k)'
    <3>1. statuses'[k].event = m + 1 /\ ~Retracted(k)'
      BY <1>7 DEF PublishedRows, Retracted
    <3>2. ledger'[m + 1].type = "capsule.published" /\ ledger'[m + 1].of[2] = k
      BY <1>5 DEF PublicationIssues
    <3> QED BY <3>1, <3>2 DEF StateSaid
  <2>3. Delivered(k)'
    BY <1>2, <1>5, <1>7, <1>9, PublishedDelivered
  <2> QED BY <2>1, <2>2, <2>3
<1>17. ASSUME NEW j \in DOMAIN capsules
       PROVE  CapsuleSaid(j)' /\ StateSaid(j)' /\ Delivered(j)'
  <2>1. CapsuleSaid(j)'
    BY <1>10, CapsulesSaidKept
  <2>2. StateSaid(j)'
    <3>1. statuses'[j] = statuses[j]
      BY <1>7 DEF PublishedRows
    <3> QED BY <1>11, <3>1, StatesKept
  <2>3. Delivered(j)'
    <3> PICK at : at = clock
      OBVIOUS
    <3>1. Issued(drafts, at)
      BY <1>4
    <3>2. \A b \in Agents : <<j, b>> \in Routes' <=> <<j, b>> \in Routes
      <4>1. DOMAIN inbox' = DOMAIN inbox \cup {<<k, recipients[i]>> : i \in 1..n}
        BY <1>7 DEF PublishedRows
      <4>2. j # k
        BY <1>9
      <4>3. \A b \in Agents, i \in 1..n : <<j, b>> # <<k, recipients[i]>>
        BY <4>2
      <4> QED BY <4>1, <4>3 DEF Routes
    <3>3. \A s \in DOMAIN subscriptions' : s \in DOMAIN subscriptions
      BY <1>2
    <3> QED BY <1>10, <3>1, <3>2, <3>3, DeliveredKept
  <2> QED BY <2>1, <2>2, <2>3
<1>18. ASSUME NEW y \in DOMAIN inbox'
       PROVE  RouteSaid(y)'
  <2>1. CASE y \in DOMAIN inbox
    <3>1. inbox'[y] = inbox[y]
      BY <1>7, <2>1 DEF PublishedRows
    <3> QED BY <1>11, <2>1, <3>1, RouteKept
  <2>2. CASE y \notin DOMAIN inbox
    <3> PICK i \in 1..n : y = <<k, recipients[i]>>
      BY <1>7, <2>2 DEF PublishedRows
    <3> PICK q : q = m + (1 + i)
      OBVIOUS
    <3>1. inbox'[y].event = q
      <4>1. inbox'[y] = [state |-> "pending", event |-> m + 1 + i]
        BY <1>7 DEF PublishedRows
      <4>2. q = m + 1 + i
        BY <1>5
      <4> QED BY <4>1, <4>2
    <3>2. ledger'[q].type = "capsule.received" /\ ledger'[q].of = <<"inbox_item", y>>
      BY <1>5 DEF PublicationIssues
    <3> QED BY <3>1, <3>2 DEF RouteSaid
  <2> QED BY <2>1, <2>2
<1>19. \A j \in DOMAIN capsules' : CapsuleSaid(j)' /\ StateSaid(j)' /\ Delivered(j)'
  BY <1>9, <1>16, <1>17
<1> QED BY <1>12, <1>13, <1>14, <1>15, <1>18, <1>19 DEF Graph
-----------------------------------------------------------------------------
(* The invariant.                                                          *)

LEMMA ClockGraph ==
  ASSUME Graph, UNCHANGED Tables
  PROVE  Graph'
<1>1. UNCHANGED <<ledger, receipts, topics, subscriptions, experiences, capsules, statuses,
                  inbox, reputation>>
  BY DEF Tables
<1>2. \A n \in DOMAIN ledger : Said(n)'
  <2> TAKE n \in DOMAIN ledger
  <2>1. /\ Filed(n)' = Filed(n) /\ NotOlder(n)' = NotOlder(n) /\ Spanned(n)' = Spanned(n)
        /\ Single(n)' = Single(n)
    BY <1>1 DEF Filed, NotOlder, Spanned, SpannedBy, Single
  <2>2. \A s : SubscriptionSaid(n, s)' = SubscriptionSaid(n, s)
    BY <1>1 DEF SubscriptionSaid, TopicBefore
  <2>3. \A k : /\ PublicationSaid(n, k)' = PublicationSaid(n, k)
               /\ DeliverySaid(n, k)' = DeliverySaid(n, k) /\ EndSaid(n, k)' = EndSaid(n, k)
    BY <1>1 DEF PublicationSaid, TopicBefore, DeliverySaid, EndSaid
  <2>4. \A type, id : Earlier(n, type, id)' = Earlier(n, type, id)
    BY <1>1 DEF Earlier
  <2> QED BY <1>1, <2>1, <2>2, <2>3, <2>4 DEF Graph, Said
<1>3. OnceEach'
  BY <1>1 DEF Graph, OnceEach, OneEach, Retractions, Retracted, Routes, Ends, Terminals
<1>4. VersionsSaid' /\ CountsSaid'
  BY <1>1 DEF Graph, VersionsSaid, VersionSaid, CountsSaid
<1>5. \A k \in DOMAIN capsules : CapsuleSaid(k)' /\ StateSaid(k)' /\ Delivered(k)'
  <2> TAKE k \in DOMAIN capsules
  <2>1. CapsuleSaid(k)' = CapsuleSaid(k)
    BY <1>1 DEF CapsuleSaid, MatchesItsSource, OwnRoot
  <2>2. StateSaid(k)' = StateSaid(k)
    BY <1>1 DEF StateSaid, Retracted
  <2>3. EventOf("capsule.published", k)' = EventOf("capsule.published", k)
    BY <1>1 DEF EventOf, OfType
  <2>4. Delivered(k)' = Delivered(k)
    BY <1>1, <2>3 DEF Delivered, Subscribed, Routes
  <2> QED BY <2>1, <2>2, <2>4 DEF Graph
<1>6. \A x \in DOMAIN inbox : RouteSaid(x)'
  BY <1>1 DEF Graph, RouteSaid
<1> QED BY <1>1, <1>2, <1>3, <1>4, <1>5, <1>6 DEF Graph

LEMMA GraphInit == Init => Graph
<1> SUFFICES ASSUME Init
             PROVE  Graph
  OBVIOUS
<1>1. /\ DOMAIN ledger = {} /\ DOMAIN topics = {} /\ DOMAIN subscriptions = {}
      /\ DOMAIN experiences = {} /\ DOMAIN capsules = {} /\ DOMAIN inbox = {}
      /\ DOMAIN reputation = {}
  BY DEF Init
<1>2. OnceEach
  BY <1>1 DEF OnceEach, OneEach, Retractions, Routes, Ends
<1> QED BY <1>1, <1>2 DEF Graph, VersionsSaid, CountsSaid

LEMMA GraphStep ==
  ASSUME Typed, Kept, Graph, [Next]_vars
  PROVE  Graph'
<1>0. Kept'
  BY KeptStep
<1>1. ASSUME TopicCommands
      PROVE  Graph'
  BY <1>0, <1>1, CreateTopicGraph, CreateSubscriptionGraph DEF TopicCommands
<1>2. ASSUME OwnerCommands
      PROVE  Graph'
  BY <1>0, <1>2, CreateExperienceGraph, CreateVersionGraph, ChangeTemperatureGraph
     DEF OwnerCommands
<1>3. ASSUME Publications
      PROVE  Graph'
  <2> PICK t \in Topics, e \in DOMAIN experiences, lifetime \in Lifetimes :
        \E v \in DOMAIN experiences[e].versions,
           parents \in {{}} \cup {{r} : r \in Parents(experiences[e].owner, e)} :
           PublishCapsule(experiences[e].owner, t, e, v, parents, lifetime)
    BY <1>3 DEF Publications
  <2> PICK a : a = experiences[e].owner
    OBVIOUS
  <2> PICK v \in DOMAIN experiences[e].versions,
           parents \in {{}} \cup {{r} : r \in Parents(a, e)} :
        PublishCapsule(a, t, e, v, parents, lifetime)
    OBVIOUS
  <2>1. a \in Agents
    <3>1. experiences[e] \in Experience
      BY DEF Typed, ExperiencesTyped
    <3> QED BY <3>1 DEF Experience
  <2> QED BY <1>0, <2>1, PublishGraph
<1>4. ASSUME RouteCommands
      PROVE  Graph'
  <2> PICK x \in DOMAIN inbox :
        \/ AdoptCapsule(x[1], x[2])
        \/ RejectInboxItem(x[1], x[2])
        \/ \E verdict \in Verdicts : RecordCapsuleFeedback(x[1], x[2], verdict)
    BY <1>4 DEF RouteCommands
  <2> PICK k, a : k = x[1] /\ a = x[2]
    OBVIOUS
  <2>1. <<k, a>> \in DOMAIN inbox
    BY RoutePair
  <2>2. ASSUME AdoptCapsule(k, a)
        PROVE  Graph'
    BY <1>0, <2>1, <2>2, AdoptGraph
  <2>3. ASSUME RejectInboxItem(k, a)
        PROVE  Graph'
    <3> PICK p \in Readings :
          /\ Rejectable(k, a, p[1])
          /\ \/ ReducibleRejection(k, a, p[1]) /\ EndByRejection(k, a, p)
             \/ RejectionDies(k, p[1])
      BY <2>3 DEF RejectInboxItem
    <3>1. ASSUME ReducibleRejection(k, a, p[1]), EndByRejection(k, a, p)
          PROVE  Graph'
      BY <1>0, <2>1, <3>1, RejectGraph
    <3>2. ASSUME RejectionDies(k, p[1])
          PROVE  Graph'
      BY <3>2, ClockGraph DEF RejectionDies
    <3> QED BY <3>1, <3>2
  <2>4. ASSUME NEW verdict \in Verdicts, RecordCapsuleFeedback(k, a, verdict)
        PROVE  Graph'
    BY <1>0, <2>1, <2>4, FeedbackGraph
  <2> QED BY <2>2, <2>3, <2>4
<1>5. ASSUME NEW k \in DOMAIN capsules, RetractCapsule(k)
      PROVE  Graph'
  BY <1>0, <1>5, RetractGraph
<1>6. ASSUME (AdvanceClock \/ StepBack) \/ UNCHANGED vars
      PROVE  Graph'
  <2>1. UNCHANGED Tables
    BY <1>6 DEF AdvanceClock, StepBack, vars, Tables
  <2> QED BY <2>1, ClockGraph
<1> QED BY <1>1, <1>2, <1>3, <1>4, <1>5, <1>6 DEF Next

\* The inductive invariant of the graph: every event says what is true of the
\* events before it and of the sources, each topic, subscription, capsule and
\* route has its one event of each kind, and whoever had subscribed by a
\* publication, and nobody else, has a route to it.
THEOREM GraphInvariance == Spec => [](Typed /\ Kept /\ Graph)
<1>1. Init => Typed /\ Kept /\ Graph
  BY TypedInit, KeptInit, GraphInit
<1>2. (Typed /\ Kept /\ Graph) /\ [Next]_vars => (Typed /\ Kept /\ Graph)'
  BY TypedStep, KeptStep, GraphStep
<1> QED BY <1>1, <1>2, PTL DEF Spec
-----------------------------------------------------------------------------
(* What the validator asks.                                                *)

\* Counting events: one, or two.
LEMMA EventsCounted ==
  ASSUME Typed, NEW S, S \subseteq DOMAIN ledger
  PROVE  /\ IsFiniteSet(S)
         /\ \A n : S = {n} => Cardinality(S) = 1
         /\ \A n, m : S = {n, m} /\ n # m => Cardinality(S) = 2
         /\ \A n \in S, m \in S : n # m => Cardinality(S) >= 2
<1> PICK k \in Nat : DOMAIN ledger = 1..k
  BY LogLength DEF Typed, LedgerTyped
<1>1. IsFiniteSet(S)
  <2>1. IsFiniteSet(1..k)
    BY FS_Interval
  <2> QED BY <2>1, FS_Subset
<1>2. \A n : S = {n} => Cardinality(S) = 1
  BY FS_Singleton
<1>3. \A n, m : n # m => IsFiniteSet({n, m}) /\ Cardinality({n, m}) = 2
  <2> TAKE n, m
  <2> HAVE n # m
  <2> PICK T : T = {n}
    OBVIOUS
  <2> PICK U : U = T \cup {m}
    OBVIOUS
  <2>1. IsFiniteSet(T) /\ Cardinality(T) = 1 /\ m \notin T
    BY FS_Singleton
  <2>2. IsFiniteSet(U) /\ Cardinality(U) = Cardinality(T) + 1
    BY <2>1, FS_AddElement
  <2>3. U = {n, m}
    OBVIOUS
  <2>4. IsFiniteSet({n, m}) /\ Cardinality({n, m}) = 1 + 1
    BY <2>1, <2>2, <2>3, Zenon
  <2>5. 1 + 1 = 2
    OBVIOUS
  <2> QED BY <2>4, <2>5, Zenon
<1>4. ASSUME NEW n \in S, NEW m \in S, n # m
      PROVE  Cardinality(S) >= 2
  <2> PICK T : T = {n, m}
    OBVIOUS
  <2>1. Cardinality(T) = 2 /\ T \in SUBSET S
    BY <1>3, <1>4
  <2>2. Cardinality(T) <= Cardinality(S) /\ Cardinality(S) \in Nat
    BY <1>1, <2>1, FS_Subset, FS_CardinalityType
  <2> QED BY <2>1, <2>2
<1> QED BY <1>1, <1>2, <1>3, <1>4

LEMMA AggregateIs ==
  ASSUME Graph, NEW n \in DOMAIN ledger
  PROVE  /\ Aggregate(n) = {m \in DOMAIN ledger : ledger[m].of = ledger[n].of}
         /\ ledger[n].of[1] = AggregateType(ledger[n].type)
<1>1. ledger[n].of = <<AggregateType(ledger[n].type), ledger[n].of[2]>>
  BY DEF Graph, Said, Filed
<1> PICK kind, id : kind = AggregateType(ledger[n].type) /\ id = ledger[n].of[2]
  OBVIOUS
<1>2. ledger[n].of = <<kind, id>> /\ ledger[n].of[1] = kind
  BY <1>1
<1> QED BY <1>2 DEF Aggregate, EventsOf

\* The first event of an aggregate.
LEMMA FirstOfItsAggregate ==
  ASSUME Typed, Graph, NEW n \in DOMAIN ledger,
         \A m \in DOMAIN ledger : ledger[m].of = ledger[n].of => n <= m
  PROVE  Sequence(n) = 1
<1> PICK k \in Nat : DOMAIN ledger = 1..k
  BY LogLength DEF Typed, LedgerTyped
<1> PICK S : S = Before(n + 1, Aggregate(n))
  OBVIOUS
<1>1. S = {n}
  BY AggregateIs DEF Before
<1>2. Cardinality(S) = 1
  BY <1>1, EventsCounted
<1> QED BY <1>2 DEF Sequence

\* What the validator finds of a type.
LEMMA OneEventFound ==
  ASSUME Typed, NEW type, NEW D, OneEach({type}, D)
  PROVE  /\ Identities(type) = D
         /\ \A x \in D : /\ OneEvent(type, x) /\ EventOf(type, x) \in DOMAIN ledger
                         /\ ledger[EventOf(type, x)].type = type
                         /\ ledger[EventOf(type, x)].of[2] = x
         /\ \A n \in DOMAIN ledger :
               ledger[n].type = type => /\ ledger[n].of[2] \in D
                                        /\ n = EventOf(type, ledger[n].of[2])
<1>1. Identities(type) = D
  BY DEF OneEach, Identities, OfType
<1>2. ASSUME NEW x \in D
      PROVE  /\ OneEvent(type, x) /\ EventOf(type, x) \in DOMAIN ledger
             /\ ledger[EventOf(type, x)].type = type
             /\ ledger[EventOf(type, x)].of[2] = x
  <2> PICK n \in DOMAIN ledger : ledger[n].type = type /\ ledger[n].of[2] = x
    BY DEF OneEach
  <2> PICK S : S = {m \in OfType({type}) : ledger[m].of[2] = x}
    OBVIOUS
  <2>1. S = {n} /\ S \subseteq DOMAIN ledger
    BY DEF OneEach, OfType
  <2>2. Cardinality(S) = 1
    BY <2>1, EventsCounted
  <2>3. EventOf(type, x) \in OfType({type}) /\ ledger[EventOf(type, x)].of[2] = x
    BY DEF EventOf, OfType
  <2> QED BY <2>2, <2>3 DEF OneEvent, OfType
<1>3. ASSUME NEW n \in DOMAIN ledger, ledger[n].type = type
      PROVE  ledger[n].of[2] \in D /\ n = EventOf(type, ledger[n].of[2])
  <2>1. ledger[n].of[2] \in D
    BY <1>3 DEF OneEach
  <2> QED BY <1>2, <1>3, <2>1 DEF OneEach
<1> QED BY <1>1, <1>2, <1>3

\* The first events.
LEMMA FirstEvents ==
  ASSUME Typed, Graph, NEW n \in DOMAIN ledger,
         ledger[n].type \in {"topic.created", "subscription.created", "capsule.published",
                             "capsule.received"}
  PROVE  Sequence(n) = 1
<1> SUFFICES ASSUME NEW m \in DOMAIN ledger, ledger[m].of = ledger[n].of
             PROVE  n <= m
  BY FirstOfItsAggregate
<1> PICK k \in Nat : DOMAIN ledger = 1..k
  BY LogLength DEF Typed, LedgerTyped
<1> PICK x : x = ledger[n].of[2]
  OBVIOUS
<1>1. AggregateType(ledger[m].type) = AggregateType(ledger[n].type) /\ ledger[m].of[2] = x
  <2>1. ledger[m].of = <<AggregateType(ledger[n].type), x>>
    BY DEF Graph, Said, Filed
  <2> QED BY <2>1, OfKind
<1>2. ASSUME NEW type, ledger[n].type = type, ledger[m].type = type,
             \E D : OneEach({type}, D)
      PROVE  n <= m
  <2>1. n = m
    BY <1>1, <1>2 DEF OneEach
  <2> QED BY <2>1
<1>3. ASSUME NEW type, ledger[n].type = type, Earlier(m, type, x), \E D : OneEach({type}, D)
      PROVE  n <= m
  <2> PICK j \in DOMAIN ledger : j < m /\ ledger[j].type = type /\ ledger[j].of[2] = x
    BY <1>3 DEF Earlier
  <2>1. n = j
    BY <1>3 DEF OneEach
  <2> QED BY <2>1
<1>4. \A type \in {"topic.created", "subscription.created", "capsule.published",
                   "capsule.received"} : \E D : OneEach({type}, D)
  BY DEF Graph, OnceEach
<1>5. CASE ledger[n].type = "topic.created"
  <2>1. ledger[m].type = "topic.created"
    BY <1>1, <1>5, KindTypes
  <2> QED BY <1>2, <1>4, <1>5, <2>1
<1>6. CASE ledger[n].type = "subscription.created"
  <2>1. ledger[m].type = "subscription.created"
    BY <1>1, <1>6, KindTypes
  <2> QED BY <1>2, <1>4, <1>6, <2>1
<1>7. CASE ledger[n].type = "capsule.published"
  <2>1. ledger[m].type \in {"capsule.published", "capsule.retracted",
                            "capsule.feedback_recorded"}
    <3>1. AggregateType(ledger[n].type) = "capsule"
      BY <1>7, KindTypes
    <3> QED BY <1>1, <3>1, KindTypes
  <2>2. CASE ledger[m].type = "capsule.published"
    BY <1>2, <1>4, <1>7, <2>2
  <2>3. CASE ledger[m].type \in {"capsule.retracted", "capsule.feedback_recorded"}
    <3>1. Earlier(m, "capsule.published", x)
      BY <1>1, <2>3 DEF Graph, Said
    <3> QED BY <1>3, <1>4, <1>7, <3>1
  <2> QED BY <2>1, <2>2, <2>3
<1>8. CASE ledger[n].type = "capsule.received"
  <2>1. ledger[m].type \in {"capsule.received", "capsule.adopted", "capsule.rejected"}
    <3>1. AggregateType(ledger[n].type) = "inbox_item"
      BY <1>8, KindTypes
    <3> QED BY <1>1, <3>1, KindTypes
  <2>2. CASE ledger[m].type = "capsule.received"
    BY <1>2, <1>4, <1>8, <2>2
  <2>3. CASE ledger[m].type \in Terminals
    <3>1. Earlier(m, "capsule.received", x)
      BY <1>1, <2>3 DEF Graph, Said
    <3> QED BY <1>3, <1>4, <1>8, <3>1
  <2> QED BY <2>1, <2>2, <2>3 DEF Terminals
<1> QED BY <1>5, <1>6, <1>7, <1>8

LEMMA GraphAlone ==
  ASSUME Graph, NEW n \in DOMAIN ledger, ledger[n].type \in LoneTypes
  PROVE  Alone(n)
BY DEF Graph, Said, Single, Alone

LEMMA LedgerPartsValid ==
  ASSUME Typed, Graph
  PROVE  AggregateNamespaceValid /\ AggregateClocksValid
<1>1. AggregateNamespaceValid
  BY AggregateIs DEF AggregateNamespaceValid
<1>2. AggregateClocksValid
  <2> SUFFICES ASSUME NEW n \in SharingEvents, NEW m \in Aggregate(n), m < n
               PROVE  ledger[m].at <= ledger[n].at
    BY DEF AggregateClocksValid
  <2>1. n \in DOMAIN ledger
    BY DEF SharingEvents
  <2>2. m \in DOMAIN ledger /\ ledger[m].of = ledger[n].of
    BY <2>1, AggregateIs
  <2> QED BY <2>1, <2>2 DEF Graph, Said, NotOlder
<1> QED BY <1>1, <1>2

LEMMA GraphTopicsValid ==
  ASSUME Typed, Graph
  PROVE  TopicsValid
<1>1. OneEach({"topic.created"}, DOMAIN topics)
  BY DEF Graph, OnceEach
<1>2. ASSUME NEW t \in DOMAIN topics, NEW n, n = EventOf("topic.created", t)
      PROVE  OneEvent("topic.created", t) /\ Sequence(n) = 1 /\ ledger[n].at = topics[t]
  <2>1. /\ OneEvent("topic.created", t) /\ n \in DOMAIN ledger
        /\ ledger[n].type = "topic.created" /\ ledger[n].of[2] = t
    BY <1>1, <1>2, OneEventFound
  <2>2. Sequence(n) = 1
    BY <2>1, FirstEvents
  <2> QED BY <2>1, <2>2 DEF Graph, Said
<1>3. Identities("topic.created") = DOMAIN topics
  BY <1>1, OneEventFound
<1> QED BY <1>2, <1>3 DEF TopicsValid

\* A topic that was there by an event.
LEMMA TopicWasThere ==
  ASSUME Typed, Graph, NEW n \in DOMAIN ledger, NEW t, TopicBefore(n, t)
  PROVE  /\ t \in DOMAIN topics /\ topics[t] <= ledger[n].at
         /\ EventOf("topic.created", t) < n
<1> PICK m \in DOMAIN ledger : /\ m < n /\ ledger[m].type = "topic.created"
                               /\ ledger[m].of[2] = t /\ ledger[m].at <= ledger[n].at
  BY DEF TopicBefore
<1>1. OneEach({"topic.created"}, DOMAIN topics)
  BY DEF Graph, OnceEach
<1>2. t \in DOMAIN topics /\ m = EventOf("topic.created", t)
  BY <1>1, OneEventFound
<1>3. ledger[m].at = topics[t]
  BY DEF Graph, Said
<1> QED BY <1>2, <1>3

LEMMA GraphSubscriptionsValid ==
  ASSUME Typed, Graph
  PROVE  SubscriptionsValid
<1>1. OneEach({"subscription.created"}, DOMAIN subscriptions)
  BY DEF Graph, OnceEach
<1>2. ASSUME NEW s \in DOMAIN subscriptions, NEW n, n = EventOf("subscription.created", s)
      PROVE  /\ OneEvent("subscription.created", s)
             /\ s[2] \in DOMAIN topics /\ topics[s[2]] <= subscriptions[s].at
             /\ EventOf("topic.created", s[2]) < n /\ n = subscriptions[s].event
             /\ Sequence(n) = 1 /\ ledger[n].at = subscriptions[s].at
  <2>1. /\ OneEvent("subscription.created", s) /\ n \in DOMAIN ledger
        /\ ledger[n].type = "subscription.created" /\ ledger[n].of[2] = s
    BY <1>1, <1>2, OneEventFound
  <2>2. Sequence(n) = 1
    BY <2>1, FirstEvents
  <2>3. SubscriptionSaid(n, s)
    BY <2>1 DEF Graph, Said
  <2>4. /\ s[2] \in DOMAIN topics /\ topics[s[2]] <= ledger[n].at
        /\ EventOf("topic.created", s[2]) < n
    BY <2>1, <2>3, TopicWasThere DEF SubscriptionSaid
  <2> QED BY <2>1, <2>2, <2>3, <2>4 DEF SubscriptionSaid
<1>3. Identities("subscription.created") = DOMAIN subscriptions
  BY <1>1, OneEventFound
<1> QED BY <1>2, <1>3 DEF SubscriptionsValid

\* The hops of a path differ: each has another path, the one up to it, and
\* none is the capsule it leads to, which is published after them.
LEMMA HopsDiffer ==
  ASSUME Typed, Kept, NEW k \in DOMAIN capsules
  PROVE  /\ k \notin Range(capsules[k].chain)
         /\ Cardinality(Range(capsules[k].chain)) = Len(capsules[k].chain)
<1> PICK c : c = capsules[k].chain
  OBVIOUS
<1>1. c \in Seq(1..MaxCapsules)
  <2>1. capsules[k] \in Capsule
    BY DEF Typed, CapsulesTyped
  <2> QED BY <2>1 DEF Capsule
<1> PICK n \in Nat : n = Len(c) /\ DOMAIN c = 1..n
  BY <1>1
<1>2. \A i \in 1..n : HopKept(k, i)
  BY DEF Kept, PathsKept, PathKept
<1>3. k \notin Range(c)
  <2> SUFFICES ASSUME NEW i \in 1..n, c[i] = k
               PROVE  FALSE
    BY DEF Range
  <2> PICK q : q = EventOf("capsule.published", k)
    OBVIOUS
  <2>1. q < q
    BY <1>2 DEF HopKept
  <2>2. q \in Nat
    <3>1. q \in DOMAIN ledger
      BY EventOfPublication DEF Kept, PublicationEvents, OfType
    <3>2. DOMAIN ledger = 1..Len(ledger) /\ Len(ledger) \in Nat
      BY LogLength DEF Typed, LedgerTyped
    <3> QED BY <3>1, <3>2
  <2> QED BY <2>1, <2>2
<1>4. ASSUME NEW i \in 1..n, NEW j \in 1..n, c[i] = c[j]
      PROVE  i = j
  <2>1. SubSeq(c, 1, i - 1) = SubSeq(c, 1, j - 1)
    BY <1>2, <1>4 DEF HopKept
  <2>2. Len(SubSeq(c, 1, i - 1)) = i - 1 /\ Len(SubSeq(c, 1, j - 1)) = j - 1
    BY <1>1
  <2> QED BY <2>1, <2>2
<1> PICK S : S = Range(c)
  OBVIOUS
<1>5. c \in Bijection(1..n, S)
  <2>1. c \in [1..n -> S] /\ \A y \in S : \E i \in 1..n : c[i] = y
    BY <1>1 DEF Range
  <2>2. IsInjective(c)
    BY <1>4 DEF IsInjective
  <2> QED BY <2>1, <2>2 DEF Bijection, Injection, Surjection
<1>6. Cardinality(S) = n
  BY <1>5, FS_CountingElements DEF ExistsBijection
<1> QED BY <1>3, <1>6

LEMMA GraphCapsulesValid ==
  ASSUME Typed, Kept, Graph
  PROVE  CapsulesValid
<1>1. OneEach({"capsule.published"}, DOMAIN capsules)
  BY DEF Graph, OnceEach
<1>2. ASSUME NEW k \in DOMAIN capsules, NEW n, n = EventOf("capsule.published", k)
      PROVE  /\ OneEvent("capsule.published", k)
             /\ CapsuleFromSource(k) /\ MatchesItsSource(capsules[k])
             /\ capsules[k].topic \in DOMAIN topics /\ topics[capsules[k].topic] <= capsules[k].at
             /\ Sequence(n) = 1 /\ ledger[n].at = capsules[k].at
             /\ EventOf("topic.created", capsules[k].topic) < n
  <2>1. /\ OneEvent("capsule.published", k) /\ n \in DOMAIN ledger
        /\ ledger[n].type = "capsule.published" /\ ledger[n].of[2] = k
    BY <1>1, <1>2, OneEventFound
  <2>2. Sequence(n) = 1
    BY <2>1, FirstEvents
  <2>3. PublicationSaid(n, k)
    BY <2>1 DEF Graph, Said
  <2>4. /\ capsules[k].topic \in DOMAIN topics /\ topics[capsules[k].topic] <= ledger[n].at
        /\ EventOf("topic.created", capsules[k].topic) < n
    BY <2>1, <2>3, TopicWasThere DEF PublicationSaid
  <2>5. CapsuleFromSource(k) /\ MatchesItsSource(capsules[k])
    BY HopsDiffer DEF Graph, CapsuleSaid, CapsuleFromSource
  <2> QED BY <2>1, <2>2, <2>3, <2>4, <2>5 DEF PublicationSaid
<1>3. Identities("capsule.published") = DOMAIN capsules
  BY <1>1, OneEventFound
<1> QED BY <1>2, <1>3 DEF CapsulesValid

\* Who got a capsule is who had subscribed by its publication.
LEMMA DeliveriesAre ==
  ASSUME Typed, Graph, NEW k \in DOMAIN capsules
  PROVE  /\ \A n \in Deliveries(k) :
               /\ n \in DOMAIN ledger /\ ledger[n].of[2][2] \in Agents
               /\ ledger[n].of[2] = <<k, ledger[n].of[2][2]>>
               /\ ledger[n].of[2][2] \in PriorSubscribers(k)
         /\ \A a \in PriorSubscribers(k) :
               \E n \in Deliveries(k) : ledger[n].of[2] = <<k, a>>
<1>1. OneEach({"capsule.received"}, Routes)
  BY DEF Graph, OnceEach
<1>2. ASSUME NEW n \in Deliveries(k)
      PROVE  /\ n \in DOMAIN ledger /\ ledger[n].of[2][2] \in Agents
             /\ ledger[n].of[2] = <<k, ledger[n].of[2][2]>>
             /\ ledger[n].of[2][2] \in PriorSubscribers(k)
  <2>1. n \in DOMAIN ledger /\ ledger[n].type = "capsule.received" /\ ledger[n].of[2][1] = k
    BY DEF Deliveries, OfType
  <2> PICK x : x = ledger[n].of[2]
    OBVIOUS
  <2>2. x \in Routes
    BY <1>1, <2>1 DEF OneEach
  <2>3. x \in (DOMAIN capsules) \X Agents
    BY <2>2 DEF Routes, Typed, RoutesTyped
  <2> PICK a \in Agents : x = <<k, a>>
    BY <2>1, <2>3
  <2> PICK s : s = <<a, capsules[k].topic>>
    OBVIOUS
  <2>4. Subscribed(k, a)
    BY <2>2 DEF Graph, Delivered
  <2>5. s \in DOMAIN subscriptions /\ s[1] = a /\ s[2] = capsules[k].topic
        /\ subscriptions[s].event < EventOf("capsule.published", k)
    BY <2>4 DEF Subscribed
  <2>6. a \in PriorSubscribers(k)
    BY <2>4, <2>5 DEF PriorSubscribers, Subscribed
  <2> QED BY <2>1, <2>6
<1>3. ASSUME NEW a \in PriorSubscribers(k)
      PROVE  \E n \in Deliveries(k) : ledger[n].of[2] = <<k, a>>
  <2> PICK s \in DOMAIN subscriptions :
        /\ s[2] = capsules[k].topic /\ s[1] = a
        /\ subscriptions[s].event < EventOf("capsule.published", k)
    BY DEF PriorSubscribers
  <2>1. a # capsules[k].publisher
    BY DEF PriorSubscribers
  <2>2. a \in Agents /\ s = <<a, capsules[k].topic>>
    BY DEF Typed, TopicsTyped
  <2>3. <<k, a>> \in Routes
    BY <2>1, <2>2 DEF Graph, Delivered, Subscribed
  <2> PICK x : x = <<k, a>>
    OBVIOUS
  <2> PICK n \in DOMAIN ledger : ledger[n].type = "capsule.received" /\ ledger[n].of[2] = x
    BY <1>1, <2>3 DEF OneEach
  <2>4. x[1] = k
    OBVIOUS
  <2>5. n \in Deliveries(k)
    BY <2>4 DEF Deliveries, OfType
  <2> QED BY <2>5
<1> QED BY <1>2, <1>3

LEMMA GraphDeliveriesValid ==
  ASSUME Typed, Kept, Graph
  PROVE  DeliveriesValid
<1> SUFFICES ASSUME NEW k \in DOMAIN capsules,
                    NEW published, published = EventOf("capsule.published", k)
             PROVE  /\ {ledger[n].of[2][2] : n \in Deliveries(k)} = PriorSubscribers(k)
                    /\ Cardinality(Deliveries(k)) = Cardinality(PriorSubscribers(k))
                    /\ \A n \in Deliveries(k) : /\ Sequence(n) = 1 /\ n > published
                                                /\ ledger[n].at = capsules[k].at
                    /\ {m \in DOMAIN ledger : ledger[m].by = ledger[published].by}
                           = {published} \cup Deliveries(k)
  BY DEF DeliveriesValid
<1>1. OneEach({"capsule.published"}, DOMAIN capsules) /\ OneEach({"capsule.received"}, Routes)
  BY DEF Graph, OnceEach
<1>2. /\ published \in DOMAIN ledger /\ ledger[published].type = "capsule.published"
      /\ ledger[published].of[2] = k /\ PublicationSaid(published, k)
  <2>1. /\ published \in DOMAIN ledger /\ ledger[published].type = "capsule.published"
        /\ ledger[published].of[2] = k
    BY <1>1, OneEventFound
  <2> QED BY <2>1 DEF Graph, Said
<1> PICK D, S : D = Deliveries(k) /\ S = PriorSubscribers(k)
  OBVIOUS
<1>3. D \subseteq DOMAIN ledger /\ IsFiniteSet(D)
  <2>1. D \subseteq DOMAIN ledger
    BY DEF Deliveries, OfType
  <2> QED BY <2>1, EventsCounted
<1>4. {ledger[n].of[2][2] : n \in D} = S
  <2>1. \A n \in D : ledger[n].of[2][2] \in S
    BY DeliveriesAre
  <2>2. \A a \in S : \E n \in D : ledger[n].of[2][2] = a
    <3> TAKE a \in S
    <3> PICK n \in D : ledger[n].of[2] = <<k, a>>
      BY DeliveriesAre
    <3> QED OBVIOUS
  <2> QED BY <2>1, <2>2
<1>5. Cardinality(D) = Cardinality(S)
  <2> PICK f : f = [n \in D |-> ledger[n].of[2][2]]
    OBVIOUS
  <2>1. /\ f \in [D -> S] /\ \A a \in S : \E n \in D : f[n] = a
        /\ \A n \in D : f[n] = ledger[n].of[2][2]
    BY <1>4
  <2>2. ASSUME NEW n \in D, NEW m \in D, f[n] = f[m]
        PROVE  n = m
    <3>1. ledger[n].of[2] = <<k, f[n]>> /\ ledger[m].of[2] = <<k, f[m]>>
      BY <2>1, DeliveriesAre
    <3>2. ledger[n].of[2] = ledger[m].of[2]
      BY <2>2, <3>1
    <3>3. ledger[n].type = "capsule.received" /\ ledger[m].type = "capsule.received"
      BY DEF Deliveries, OfType
    <3> QED BY <1>1, <1>3, <3>2, <3>3 DEF OneEach
  <2>3. f \in Bijection(D, S)
    BY <2>1, <2>2 DEF Bijection, Injection, Surjection, IsInjective
  <2> QED BY <1>3, <2>3, FS_Bijection DEF ExistsBijection
<1>6. ASSUME NEW n \in D
      PROVE  /\ Sequence(n) = 1 /\ n > published /\ ledger[n].at = capsules[k].at
             /\ ledger[n].by = ledger[published].by
  <2>1. n \in DOMAIN ledger /\ ledger[n].type = "capsule.received" /\ ledger[n].of[2][1] = k
    BY DEF Deliveries, OfType
  <2>2. Sequence(n) = 1
    BY <2>1, FirstEvents
  <2> PICK m \in DOMAIN ledger :
        /\ m < n /\ ledger[m].type = "capsule.published" /\ ledger[m].of[2] = k
        /\ ledger[m].by = ledger[n].by /\ ledger[m].at = ledger[n].at
    BY <2>1 DEF Graph, Said, DeliverySaid
  <2>3. m = published
    BY <1>1, <1>2 DEF OneEach
  <2>4. n > published
    <3>1. DOMAIN ledger = 1..Len(ledger) /\ Len(ledger) \in Nat
      BY LogLength DEF Typed, LedgerTyped
    <3> QED BY <2>1, <2>3, <3>1
  <2> QED BY <1>2, <2>2, <2>3, <2>4 DEF PublicationSaid
<1>7. {m \in DOMAIN ledger : ledger[m].by = ledger[published].by} = {published} \cup D
  <2>1. ASSUME NEW m \in DOMAIN ledger, ledger[m].by = ledger[published].by, m # published
        PROVE  m \in D
    <3>1. ledger[m].type = "capsule.received" /\ ledger[m].of[2][1] = k
      BY <1>2, <2>1 DEF PublicationSaid
    <3> QED BY <3>1 DEF Deliveries, OfType
  <2> QED BY <1>2, <1>3, <1>6, <2>1
<1> QED BY <1>4, <1>5, <1>6, <1>7

\* The events of a route that has ended.
LEMMA EndedAggregate ==
  ASSUME Typed, Graph, NEW n \in DOMAIN ledger, ledger[n].type \in Terminals
  PROVE  \E r \in DOMAIN ledger : /\ r < n /\ ledger[r].type = "capsule.received"
                                  /\ Aggregate(n) = {r, n}
<1> PICK x : x = ledger[n].of[2]
  OBVIOUS
<1> PICK r \in DOMAIN ledger : r < n /\ ledger[r].type = "capsule.received" /\ ledger[r].of[2] = x
  BY DEF Graph, Said, Earlier
<1>1. OneEach({"capsule.received"}, Routes) /\ OneEach(Terminals, Ends)
  BY DEF Graph, OnceEach
<1>2. ledger[n].of = <<"inbox_item", x>> /\ ledger[r].of = <<"inbox_item", x>>
  BY DEF Graph, Said, Filed, Terminals, AggregateType
<1>3. ASSUME NEW m \in DOMAIN ledger, ledger[m].of = ledger[n].of
      PROVE  m \in {r, n}
  <2>1. /\ ledger[m].type \in {"capsule.received", "capsule.adopted", "capsule.rejected"}
        /\ ledger[m].of[2] = x
    BY <1>2, <1>3, OfKind, KindTypes
  <2>2. CASE ledger[m].type = "capsule.received"
    BY <1>1, <2>1, <2>2 DEF OneEach
  <2>3. CASE ledger[m].type \in Terminals
    BY <1>1, <2>1, <2>3 DEF OneEach
  <2> QED BY <2>1, <2>2, <2>3 DEF Terminals
<1>4. Aggregate(n) = {r, n}
  <2>1. Aggregate(n) = {m \in DOMAIN ledger : ledger[m].of = ledger[n].of}
    BY AggregateIs
  <2>2. ledger[r].of = ledger[n].of
    BY <1>2
  <2> QED BY <1>3, <2>1, <2>2
<1> QED BY <1>4

\* The newest event of a set, and the oldest of two.
LEMMA NewestIs ==
  ASSUME Typed, NEW S, S \subseteq DOMAIN ledger, NEW n \in S, \A m \in S : m <= n
  PROVE  Newest(S) = n
<1> PICK k \in Nat : DOMAIN ledger = 1..k
  BY LogLength DEF Typed, LedgerTyped
<1> PICK m : m = Newest(S)
  OBVIOUS
<1>1. m \in S /\ n <= m
  BY DEF Newest
<1>2. m <= n
  BY <1>1
<1> QED BY <1>1, <1>2

LEMMA OldestIs ==
  ASSUME Typed, NEW r \in DOMAIN ledger, NEW n \in DOMAIN ledger, r < n
  PROVE  Oldest({r, n}) = r
<1> PICK k \in Nat : DOMAIN ledger = 1..k
  BY LogLength DEF Typed, LedgerTyped
<1> PICK m : m = Oldest({r, n})
  OBVIOUS
<1>1. m \in {r, n} /\ m <= r
  <2>1. r \in {r, n} /\ \A j \in {r, n} : r <= j
    OBVIOUS
  <2> QED BY <2>1 DEF Oldest
<1> QED BY <1>1

LEMMA GraphTerminalsValid ==
  ASSUME Typed, Graph
  PROVE  TerminalsValid
<1> SUFFICES ASSUME NEW n \in TerminalEvents, NEW received, received = Oldest(Aggregate(n))
             PROVE  /\ Sequence(n) = 2 /\ Cardinality(Aggregate(n)) = 2
                    /\ ledger[received].type = "capsule.received"
                    /\ ledger[received].at <= ledger[n].at
                    /\ FollowsCapsule(n) \/ AdoptedBehindFeedback(n)
                    /\ ledger[n].type = "capsule.rejected" => Alone(n)
  BY DEF TerminalsValid
<1>1. n \in DOMAIN ledger /\ ledger[n].type \in Terminals
  BY DEF TerminalEvents, OfType, Terminals
<1> PICK r \in DOMAIN ledger :
      r < n /\ ledger[r].type = "capsule.received" /\ Aggregate(n) = {r, n}
  BY <1>1, EndedAggregate
<1> PICK k \in Nat : DOMAIN ledger = 1..k
  BY LogLength DEF Typed, LedgerTyped
<1>2. Cardinality(Aggregate(n)) = 2
  <2> PICK S : S = Aggregate(n)
    OBVIOUS
  <2>1. S \subseteq DOMAIN ledger /\ S = {r, n} /\ r # n
    BY <1>1
  <2>2. Cardinality(S) = 2
    BY <2>1, EventsCounted
  <2> QED BY <2>2
<1>3. Sequence(n) = 2
  <2>1. Before(n + 1, Aggregate(n)) = Aggregate(n)
    BY <1>1 DEF Before
  <2> QED BY <1>2, <2>1 DEF Sequence
<1>4. received = r
  BY <1>1, OldestIs
<1>5. ledger[r].at <= ledger[n].at
  <2>1. ledger[r].of = ledger[n].of
    BY <1>1, AggregateIs
  <2> QED BY <1>1, <2>1 DEF Graph, Said, NotOlder
<1>6. FollowsCapsule(n) \/ AdoptedBehindFeedback(n)
  <2> PICK c : c = ledger[n].of[2][1]
    OBVIOUS
  <2> PICK m \in DOMAIN ledger :
        /\ m < n /\ ledger[m].of = <<"capsule", c>>
        /\ \A j \in DOMAIN ledger : (j < n /\ ledger[j].of = <<"capsule", c>>) => j <= m
        /\ \/ ledger[m].at <= ledger[n].at
           \/ ledger[n].type = "capsule.adopted" /\ ledger[m].type = "capsule.feedback_recorded"
    BY <1>1 DEF Graph, Said, EndSaid
  <2> PICK S : S = Before(n, EventsOf("capsule", c))
    OBVIOUS
  <2>1. S \subseteq DOMAIN ledger /\ m \in S /\ \A j \in S : j <= m
    BY DEF Before, EventsOf
  <2>2. LatestCapsuleEventBefore(n) = m
    BY <2>1, NewestIs DEF LatestCapsuleEventBefore
  <2>3. ledger[m].at \in Nat /\ ledger[n].at \in Nat
    BY <1>1, TimesAreNat DEF Typed, LedgerTyped
  <2> QED BY <2>2, <2>3 DEF FollowsCapsule, AdoptedBehindFeedback
<1>7. ledger[n].type = "capsule.rejected" => Alone(n)
  BY <1>1, GraphAlone DEF LoneTypes
<1> QED BY <1>2, <1>3, <1>4, <1>5, <1>6, <1>7

LEMMA GraphRetractionsValid ==
  ASSUME Typed, Kept, Graph
  PROVE  RetractionsValid
<1> SUFFICES ASSUME NEW n \in DOMAIN ledger, ledger[n].type = "capsule.retracted",
                    NEW k, k = ledger[n].of[2]
             PROVE  /\ k \in DOMAIN capsules /\ OneEvent("capsule.retracted", k)
                    /\ Sequence(n) >= 2 /\ ledger[n].at >= capsules[k].at /\ Alone(n)
  BY DEF RetractionsValid, OfType
<1>1. OneEach({"capsule.retracted"}, Retractions)
  BY DEF Graph, OnceEach
<1>2. k \in Retractions /\ k \in DOMAIN capsules /\ OneEvent("capsule.retracted", k)
  <2>1. k \in Retractions
    BY <1>1 DEF OneEach
  <2>2. OneEvent("capsule.retracted", k)
    BY <1>1, <2>1, OneEventFound
  <2> QED BY <2>1, <2>2 DEF Retractions
<1> PICK p \in DOMAIN ledger : p < n /\ ledger[p].type = "capsule.published" /\ ledger[p].of[2] = k
  BY DEF Graph, Said, Earlier
<1>3. ledger[p].of = ledger[n].of
  BY DEF Graph, Said, Filed, AggregateType
<1> PICK m \in Nat : DOMAIN ledger = 1..m
  BY LogLength DEF Typed, LedgerTyped
<1>4. Sequence(n) >= 2
  <2> PICK S : S = Before(n + 1, Aggregate(n))
    OBVIOUS
  <2>1. S \subseteq DOMAIN ledger /\ p \in S /\ n \in S /\ p # n
    BY <1>3, AggregateIs DEF Before
  <2>2. Cardinality(S) >= 2
    BY <2>1, EventsCounted
  <2> QED BY <2>2 DEF Sequence
<1>5. ledger[n].at >= capsules[k].at
  <2>1. ledger[p].at = capsules[k].at
    BY DEF Graph, Said, PublicationSaid
  <2>2. ledger[p].at <= ledger[n].at
    BY <1>3 DEF Graph, Said, NotOlder
  <2>3. ledger[p].at \in Nat /\ ledger[n].at \in Nat
    BY TimesAreNat DEF Typed, LedgerTyped
  <2> QED BY <2>1, <2>2, <2>3
<1>6. Alone(n)
  BY GraphAlone DEF LoneTypes
<1> QED BY <1>2, <1>4, <1>5, <1>6

LEMMA GraphReceiptsValid ==
  ASSUME Typed, Graph
  PROVE  CommandReceiptsValid
<1> SUFFICES ASSUME NEW n \in SharingEvents, ledger[n].type # "capsule.received"
             PROVE  /\ ledger[n].by \in DOMAIN receipts
                    /\ SpannedBy(receipts[ledger[n].by], n) \/ receipts[ledger[n].by].back
                    /\ ledger[n].type \notin {"capsule.published", "capsule.adopted"} => Alone(n)
  BY DEF CommandReceiptsValid
<1>1. n \in DOMAIN ledger /\ ledger[n].of[1] \in SharingAggregates
  BY DEF SharingEvents
<1>2. ledger[n].by \in DOMAIN receipts
  BY <1>1 DEF Typed, LedgerTyped
<1>3. SpannedBy(receipts[ledger[n].by], n) \/ receipts[ledger[n].by].back
  BY <1>1 DEF Graph, Said, Spanned
<1>4. ledger[n].type \in LoneTypes \cup {"capsule.published", "capsule.adopted"}
  <2>1. AggregateType(ledger[n].type) \in SharingAggregates
    BY <1>1, AggregateIs
  <2> QED BY <2>1, KindTypes DEF SharingAggregates, LoneTypes
<1> QED BY <1>1, <1>2, <1>3, <1>4, GraphAlone

\* After any history of commands, and however the clock steps back between
\* them and inside them, the graph left behind is one that the next startup
\* accepts (sharing/validation.py): the rows of topics, subscriptions and
\* capsules agree with the ledger, every publication was delivered to exactly
\* the agents that had subscribed before it, once each and by its own command,
\* every route ended at most once, behind its delivery, and the receipt of
\* every command spans its events.  Excepted are, by what the rows themselves
\* show, adoptions behind the feedback of another observer and, by what the
\* receipts remember, the receipts of commands inside which the clock stepped
\* back.
THEOREM StoredGraphAccepted == Spec => []GraphValid
<1>1. Typed /\ Kept /\ Graph => GraphValid
  BY LedgerPartsValid, GraphTopicsValid, GraphSubscriptionsValid, GraphCapsulesValid,
     GraphDeliveriesValid, GraphTerminalsValid, GraphRetractionsValid, GraphReceiptsValid
     DEF GraphValid
<1> QED BY <1>1, GraphInvariance, PTL
-----------------------------------------------------------------------------
(* The rejections that die.                                                *)

\* An event of a capsule is feedback, or no newer than its last transition.
LEMMA NotBehindTransition ==
  ASSUME Typed, Kept, Graph, NEW k \in DOMAIN capsules, NEW q \in DOMAIN ledger,
         ledger[q].of = <<"capsule", k>>
  PROVE  \/ ledger[q].type = "capsule.feedback_recorded"
         \/ ledger[q].at <= LastTransitionAt(k)
<1> PICK n : n = statuses[k].event
  OBVIOUS
<1>1. n \in DOMAIN ledger /\ ledger[n].of[2] = k /\ ledger[n].at = LastTransitionAt(k)
  BY DEF Kept, StatusesKept, Graph, StateSaid, LastTransitionAt
<1>2. ledger[q].at \in Nat /\ ledger[n].at \in Nat
  BY <1>1, TimesAreNat DEF Typed, LedgerTyped
<1>3. CASE ~Retracted(k)
  <2>1. ledger[q].type = "capsule.feedback_recorded" \/ ledger[q].at = LastTransitionAt(k)
    BY <1>3, NewestOfActive
  <2> QED BY <1>1, <1>2, <2>1
<1>4. CASE Retracted(k)
  <2>1. ledger[n].type = "capsule.retracted"
    BY <1>4 DEF Graph, StateSaid
  <2>2. ledger[n].of = <<"capsule", k>>
    BY <1>1, <2>1 DEF Graph, Said, Filed, AggregateType
  <2>3. /\ ledger[q].type \in {"capsule.published", "capsule.retracted",
                               "capsule.feedback_recorded"}
        /\ ledger[q].of[2] = k
    BY OfKind, KindTypes
  <2>4. ledger[q].type = "capsule.retracted" => q = n
    BY <1>1, <2>1, <2>3 DEF Graph, OnceEach, OneEach
  <2>5. ASSUME ledger[q].type = "capsule.published"
        PROVE  ledger[q].at <= ledger[n].at
    <3> PICK m \in DOMAIN ledger :
          m < n /\ ledger[m].type = "capsule.published" /\ ledger[m].of[2] = k
      BY <1>1, <2>1 DEF Graph, Said, Earlier
    <3>1. m = q
      BY <2>3, <2>5 DEF Graph, OnceEach, OneEach
    <3> QED BY <1>1, <2>2, <3>1 DEF Graph, Said, NotOlder
  <2> QED BY <1>1, <1>2, <2>3, <2>4, <2>5
<1> QED BY <1>3, <1>4

LEMMA DiesOfFeedback ==
  ASSUME Typed, Kept, Graph, NEW k, NEW a, <<k, a>> \in DOMAIN inbox, NEW h \in Times,
         Rejectable(k, a, h), ~ReducibleRejection(k, a, h)
  PROVE  ledger[NewestOf("capsule", k)].type = "capsule.feedback_recorded"
<1> PICK q : q = NewestOf("capsule", k)
  OBVIOUS
<1>1. k \in DOMAIN capsules
  BY RouteOf
<1>2. q \in DOMAIN ledger /\ ledger[q].of = <<"capsule", k>>
  <2> PICK n \in PublicationEvents : ledger[n].of = <<"capsule", k>>
    BY <1>1 DEF Kept, PublicationsKept
  <2>1. n \in DOMAIN ledger
    BY DEF PublicationEvents, OfType
  <2> QED BY <2>1, NewestIsLatest
<1>3. ~(h >= ledger[q].at)
  BY DEF ReducibleRejection, LatestCapsuleCausalAt, CausalAt
<1>4. LastTransitionAt(k) <= h
  <2>1. /\ inbox[<<k, a>>].event \in DOMAIN ledger /\ statuses[k].event \in DOMAIN ledger
    BY <1>1 DEF Kept, RoutesKept, StatusesKept
  <2>2. ledger[inbox[<<k, a>>].event].at \in Nat /\ LastTransitionAt(k) \in Nat /\ h \in Nat
    BY <2>1, TimesAreNat DEF LastTransitionAt, Typed, LedgerTyped
  <2>3. h >= Larger(ledger[inbox[<<k, a>>].event].at, LastTransitionAt(k))
    BY DEF Rejectable, RouteLatestCausalAt
  <2> QED BY <2>2, <2>3, LargerBounds
<1>5. ledger[q].at \in Nat /\ LastTransitionAt(k) \in Nat /\ h \in Nat
  BY <1>1, <1>2, TimesAreNat DEF Kept, StatusesKept, LastTransitionAt, Typed, LedgerTyped
<1>6. ~(ledger[q].at <= LastTransitionAt(k))
  BY <1>3, <1>4, <1>5
<1> QED BY <1>1, <1>2, <1>6, NotBehindTransition

\* Nothing else refuses anything.
LEMMA OthersRefuseNothing ==
  ASSUME [Next]_vars
  PROVE  \/ UNCHANGED refused
         \/ \E x \in DOMAIN inbox, p \in Readings :
               /\ Rejectable(x[1], x[2], p[1]) /\ ~ReducibleRejection(x[1], x[2], p[1])
               /\ RejectionDies(x[1], p[1])
<1>1. ASSUME TopicCommands
      PROVE  UNCHANGED refused
  BY <1>1 DEF TopicCommands, CreateTopic, CreateSubscription, Commit
<1>2. ASSUME OwnerCommands
      PROVE  UNCHANGED refused
  <2>1. ASSUME NEW a, NEW origin, NEW content, CreateExperience(a, origin, content)
        PROVE  UNCHANGED refused
    BY <2>1 DEF CreateExperience, Commit
  <2>2. ASSUME NEW e, NEW content, CreateVersion(e, content)
        PROVE  UNCHANGED refused
    BY <2>2 DEF CreateVersion, Commit
  <2>3. ASSUME NEW e, ChangeTemperature(e)
        PROVE  UNCHANGED refused
    BY <2>3 DEF ChangeTemperature, Commit
  <2> QED BY <1>2, <2>1, <2>2, <2>3 DEF OwnerCommands
<1>3. ASSUME Publications
      PROVE  UNCHANGED refused
  <2> PICK a, t, e, v, parents, lifetime : PublishCapsule(a, t, e, v, parents, lifetime)
    BY <1>3 DEF Publications
  <2> PICK p \in Readings : \E drafts : Commit(p[1], p[2], clock, drafts)
    BY DEF PublishCapsule
  <2> PICK drafts : Commit(p[1], p[2], clock, drafts)
    OBVIOUS
  <2> QED BY DEF Commit
<1>4. ASSUME NEW k, RetractCapsule(k)
      PROVE  UNCHANGED refused
  BY <1>4 DEF RetractCapsule, Commit
<1>5. ASSUME NEW k, NEW a, AdoptCapsule(k, a)
      PROVE  UNCHANGED refused
  BY <1>5 DEF AdoptCapsule, AdoptAsNew, AdoptEquivalent, Complete, Commit
<1>6. ASSUME NEW k, NEW a, NEW verdict, RecordCapsuleFeedback(k, a, verdict)
      PROVE  UNCHANGED refused
  BY <1>6 DEF RecordCapsuleFeedback, Commit
<1>7. ASSUME (AdvanceClock \/ StepBack) \/ UNCHANGED vars
      PROVE  UNCHANGED refused
  BY <1>7 DEF AdvanceClock, StepBack, vars
<1>8. ASSUME RouteCommands, ~UNCHANGED refused
      PROVE  \E x \in DOMAIN inbox, p \in Readings :
               /\ Rejectable(x[1], x[2], p[1]) /\ ~ReducibleRejection(x[1], x[2], p[1])
               /\ RejectionDies(x[1], p[1])
  <2> PICK x \in DOMAIN inbox : RejectInboxItem(x[1], x[2])
    BY <1>5, <1>6, <1>8 DEF RouteCommands
  <2> PICK p \in Readings :
        /\ Rejectable(x[1], x[2], p[1])
        /\ IF ReducibleRejection(x[1], x[2], p[1])
           THEN EndByRejection(x[1], x[2], p)
           ELSE RejectionDies(x[1], p[1])
    BY DEF RejectInboxItem
  <2>1. ~EndByRejection(x[1], x[2], p)
    BY <1>8 DEF EndByRejection, Commit
  <2> QED BY <2>1
<1> QED BY <1>1, <1>2, <1>3, <1>4, <1>7, <1>8 DEF Next

LEMMA RefusalsStep ==
  ASSUME Typed, Kept, Graph, Refusals, [Next]_vars
  PROVE  Refusals'
<1>1. ASSUME NEW x \in DOMAIN inbox, NEW p \in Readings,
             Rejectable(x[1], x[2], p[1]), ~ReducibleRejection(x[1], x[2], p[1]),
             RejectionDies(x[1], p[1])
      PROVE  Refusals'
  <2> PICK k, a, h : k = x[1] /\ a = x[2] /\ h = p[1]
    OBVIOUS
  <2>1. <<k, a>> \in DOMAIN inbox /\ h \in Times
    BY RoutePair, ReadingTyped
  <2>2. ledger[NewestOf("capsule", k)].type = "capsule.feedback_recorded"
    BY <1>1, <2>1, DiesOfFeedback
  <2>3. refused' = refused \cup {ledger[NewestOf("capsule", k)].type}
    BY <1>1 DEF RejectionDies
  <2> QED BY <2>2, <2>3 DEF Refusals
<1> QED BY <1>1, OthersRefuseNothing DEF Refusals

LEMMA RefusalsInvariance == Spec => []Refusals
<1>1. Init => Refusals
  BY DEF Init, Refusals
<1>2. (Typed /\ Kept /\ Graph) /\ Refusals /\ [Next]_vars => Refusals'
  BY RefusalsStep
<1> QED BY <1>1, <1>2, GraphInvariance, PTL DEF Spec

\* What the run checks as TypeOK, the only rejections that die of their
\* reducer included: those behind the feedback of another observer
\* (sharing/projector.py).
THEOREM SharingTypeCorrect == Spec => []TypeOK
<1>1. Typed /\ Refusals => TypeOK
  BY TypedIsTypeOK
<1> QED BY <1>1, VerdictsAreCounted, RefusalsInvariance, PTL
=============================================================================
