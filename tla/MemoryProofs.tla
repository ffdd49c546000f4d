---------------------------- MODULE MemoryProofs ----------------------------
(***************************************************************************)
(* Proofs about ExperienceMemory, for every set of experiences, agents,    *)
(* contents and relations, every policy of the lifecycle and every bound:  *)
(* types, what the archive takes and spares, the answers of cycles, and    *)
(* the codecs and contents of versions.  The first part shows that a step  *)
(* either leaves every experience alone, or enters one, or revises one, or *)
(* is a command on some, or a cycle over some (StepKinds); the second      *)
(* proves every invariant over these five, without the actions.            *)
(*                                                                         *)
(* The third part is about MemoryReducers and MemoryAudit: no command and  *)
(* no cycle appends an event that the reducer refuses, a rebuild computes  *)
(* the projected state and terms, and the source validator accepts the     *)
(* rows.  Every event of a ledger is accepted where it stands (Taken), and *)
(* goes on being so as the ledger grows; what makes the next one           *)
(* acceptable is kept beside it (Ledgered).                                *)
(***************************************************************************)
EXTENDS MemoryAudit, FiniteSetTheorems, SequenceTheorems, WellFoundedInduction, TLAPS

Drafts == [type : EventTypes, note : Notes, after : States]

\* An experience that was never created has nothing; every other one has a
\* version.
Entered(e) == IF e \in Known THEN Len(versions[e]) >= 1
              ELSE memory[e] = NoState /\ versions[e] = <<>> /\ history[e] = <<>>

\* A pinned experience is hot: no threshold moves it.
PinnedIsHot(e) == memory[e].pinned => memory[e].temperature = "hot"

Base == TypeOK /\ \A e \in Experiences : Entered(e) /\ PinnedIsHot(e)

\* The tables of the state have their types after the step.
TablesTyped ==
    /\ memory' \in [Experiences -> States]
    /\ versions' \in [Experiences -> Seq(Versions)]
    /\ history' \in [Experiences -> Seq(Events)]
-----------------------------------------------------------------------------
(* What a step may do to an experience.                                    *)

Untouched(e) ==
    memory'[e] = memory[e] /\ versions'[e] = versions[e] /\ history'[e] = history[e]

Still == (\A e \in Experiences : Untouched(e)) /\ answers' = answers

\* The events of d were appended at time at, and nothing else to the ledger.
Appended(e, d, at) ==
    /\ Len(history'[e]) = Len(history[e]) + Len(d)
    /\ \A k \in 1..Len(history[e]) : history'[e][k] = history[e][k]
    /\ \A k \in 1..Len(d) :
         /\ history'[e][Len(history[e]) + k].type = d[k].type
         /\ history'[e][Len(history[e]) + k].note = d[k].note
         /\ history'[e][Len(history[e]) + k].at = at

\* The versions say what they said, in the codec of the temperature.
Kept(e) ==
    /\ Len(versions'[e]) = Len(versions[e])
    /\ \A k \in 1..Len(versions[e]) :
         /\ versions'[e][k].content = versions[e][k].content
         /\ versions'[e][k].codec = IF memory'[e].temperature = memory[e].temperature
                                    THEN versions[e][k].codec
                                    ELSE PreferredCodec(memory'[e].temperature)

Told(e, d, at) == Appended(e, d, at) /\ Kept(e) /\ memory'[e] = d[Len(d)].after

\* The demotion that the thresholds of a temperature may ask for.
DemotionOf(temperature) == IF temperature = "hot" THEN "demote_warm" ELSE "demote_cold"

\* What a demotion rests on stays as it was.
SameCount(before, after) ==
    /\ after.counter = before.counter /\ after.evaluatedAt = before.evaluatedAt
    /\ after.temperature = before.temperature

\* What is appended to a cold experience that stays cold.
Quiet == {"version_created", "refuted", "evaluated"}

Enters(e) ==
    /\ e \notin Known /\ memory'[e].temperature \in {"hot", "warm"} /\ ~memory'[e].pinned
    /\ memory'[e].counter = 0
    /\ Len(versions'[e]) = 1 /\ versions'[e][1].codec = "plain"
    /\ \A f \in Known : Owner[f] = Owner[e] => Current(f).content # versions'[e][1].content
    /\ \A k \in 1..Len(history'[e]) :
         history'[e][k].type \in {"created", "version_created"} /\ history'[e][k].note = ""
    /\ \A f \in Experiences \ {e} : Untouched(f)
    /\ answers' = answers

Revises(e) ==
    LET n == Len(versions[e]) IN
    /\ e \in Known
    /\ Appended(e, <<Draft("version_created", "", memory'[e])>>, clock)
    /\ memory'[e].temperature = memory[e].temperature
    /\ memory'[e].pinned = memory[e].pinned /\ memory'[e].movedAt = memory[e].movedAt
    /\ SameCount(memory[e], memory'[e])
    /\ Len(versions'[e]) = n + 1
    /\ \A k \in 1..n : versions'[e][k] = versions[e][k]
    /\ versions'[e][n + 1].codec = PreferredCodec(memory[e].temperature)
    /\ \A f \in Known \ {e} :
         Owner[f] = Owner[e] => Current(f).content # versions'[e][n + 1].content
    /\ \A f \in Experiences \ {e} : Untouched(f)
    /\ answers' = answers

\* A command moves the experience, which clears its counter, or leaves alone
\* what a demotion rests on.
KeepsCount(e, d) ==
    LET after == d[Len(d)].after IN
    \/ after.counter = 0
    \/ SameCount(memory[e], after) /\ \A k \in 1..Len(d) : d[k].type # "moved"

\* The events of a command: no cycle's, and only a refutation leaves a cold
\* experience cold.
Uses(e, d) ==
    LET after == d[Len(d)].after IN
    /\ d \in Seq(Drafts) /\ Len(d) >= 1
    /\ \A k \in 1..Len(d) : /\ d[k].type \notin {"evaluated", "archived"}
                            /\ d[k].note # "lifecycle_demotion"
    /\ after.temperature \in Active
    /\ after.pinned => after.temperature = "hot"
    /\ after.temperature = "cold" =>
         /\ memory[e].temperature = "cold" /\ after.movedAt = memory[e].movedAt
         /\ \A k \in 1..Len(d) : d[k].type \in Quiet
    /\ KeepsCount(e, d)

Commanded(S, d) ==
    /\ \A e \in S : Uses(e, d[e]) /\ Told(e, d[e], clock)
    /\ \A e \in Experiences \ S : Untouched(e)
    /\ answers' = answers

\* An evaluation counts towards the demotion of its temperature, or clears the
\* counter; it demotes when the count is complete.
Counts(e, target, at, d) ==
    LET after == d[Len(d)].after IN
    /\ d[1].note = target
    /\ \A k \in 1..Len(d) : d[k].type = "evaluated" <=> k = 1
    /\ \A k \in 1..Len(d) : d[k].note = "lifecycle_demotion" =>
         /\ k = 2 /\ target = DemotionOf(memory[e].temperature)
         /\ memory[e].counter + 1 >= DemotionCycles
    /\ \/ after.counter = 0
       \/ /\ Len(d) = 1 /\ target = DemotionOf(memory[e].temperature)
          /\ after.counter = memory[e].counter + 1 /\ after.counter < DemotionCycles
          /\ after.evaluatedAt = at /\ after.temperature = memory[e].temperature

\* The events of an evaluation: the archive comes second, and what ends cold
\* was cold or has just been demoted.
Evaluates(e, target, at, d) ==
    LET after == d[Len(d)].after IN
    /\ d \in Seq(Drafts) /\ Len(d) >= 1
    /\ d[1].type = "evaluated"
    /\ \A k \in 1..Len(d) : d[k].type = "archived" <=> target = "archive" /\ k = 2
    /\ target = "archive" =>
         /\ Len(d) >= 2 /\ Moves(e, target)
         /\ memory[e].temperature = "cold" /\ at - memory[e].movedAt >= ArchiveAfter
         /\ e \notin ActiveDependentTargets
    /\ target # "archive" => after.temperature \in Active
    /\ after.temperature # "none"
    /\ after.pinned => after.temperature = "hot"
    /\ after.temperature = "cold" =>
         IF memory[e].temperature = "cold"
         THEN Len(d) = 1 /\ after.movedAt = memory[e].movedAt
         ELSE d[Len(d)].note = "lifecycle_demotion" /\ after.movedAt = at
    /\ Counts(e, target, at, d)

\* The answer of a cycle.
Answer(at, due, target) ==
    [at |-> at,
     evaluated |-> Cardinality(due),
     transitions |-> Cardinality({e \in due : Moves(e, target[e])}),
     archived |-> Cardinality({e \in due : target[e] = "archive"})]

Cycled(at, due, target) ==
    /\ MayRun(at)
    /\ \A e \in due : /\ IsActive(e) /\ Eligible(e, at)
                      /\ Evaluates(e, target[e], at, Evaluation(e, target[e], at))
                      /\ Told(e, Evaluation(e, target[e], at), at)
    /\ \A e \in Experiences \ due : Untouched(e)
    /\ answers' = answers \cup {Answer(at, due, target)}
-----------------------------------------------------------------------------
(* Ledgers and versions grow as ApplyOrderedEvents says.                   *)

\* The two halves of a sequence put together.
LEMMA ConcatFacts ==
  ASSUME NEW T, NEW s \in Seq(T), NEW t \in Seq(T)
  PROVE  /\ s \o t \in Seq(T) /\ Len(s \o t) = Len(s) + Len(t)
         /\ \A k \in 1..Len(s) : (s \o t)[k] = s[k]
         /\ \A k \in 1..Len(t) : (s \o t)[Len(s) + k] = t[k]
<1>1. Len(s) \in Nat /\ Len(t) \in Nat
  BY LenProperties
<1>2. /\ s \o t \in Seq(T) /\ Len(s \o t) = Len(s) + Len(t)
      /\ \A i \in 1..Len(s) + Len(t) :
           (s \o t)[i] = IF i <= Len(s) THEN s[i] ELSE t[i - Len(s)]
  BY ConcatProperties
<1>3. ASSUME NEW k \in 1..Len(s) PROVE (s \o t)[k] = s[k]
  BY <1>1, <1>2
<1>4. ASSUME NEW k \in 1..Len(t) PROVE (s \o t)[Len(s) + k] = t[k]
  <2>1. Len(s) + k \in 1..Len(s) + Len(t) /\ ~(Len(s) + k <= Len(s)) /\ (Len(s) + k) - Len(s) = k
    BY <1>1
  <2>2. QED BY <1>2, <2>1
<1>5. QED BY <1>2, <1>3, <1>4

\* Drafts chained into events are events.
LEMMA ChainedFacts ==
  ASSUME TypeOK, NEW e \in Experiences, NEW d \in Seq(Drafts), NEW at \in Times
  PROVE  /\ Chained(e, d, at) \in Seq(Events)
         /\ Len(Chained(e, d, at)) = Len(d)
         /\ \A k \in 1..Len(d) : /\ Chained(e, d, at)[k].type = d[k].type
                                 /\ Chained(e, d, at)[k].note = d[k].note
                                 /\ Chained(e, d, at)[k].at = at
<1> DEFINE c == Chained(e, d, at)
<1>1. /\ Len(d) \in Nat /\ DOMAIN d = 1..Len(d)
      /\ \A k \in 1..Len(d) : d[k] \in Drafts
  BY LenProperties, ElementOfSeq
<1>2. memory[e] \in States /\ history[e] \in Seq(Events)
  BY DEF TypeOK
<1>3. Len(history[e]) + 1 \in Nat
  BY <1>2
<1>4. ASSUME NEW k \in 1..Len(d) PROVE c[k] \in Events
  <2>1. d[k].type \in EventTypes /\ d[k].note \in Notes /\ d[k].after \in States
    BY <1>1 DEF Drafts
  <2>2. (IF k = 1 THEN memory[e] ELSE d[k - 1].after) \in States
    <3>1. CASE k = 1
      BY <1>2, <3>1
    <3>2. CASE k # 1
      <4>1. k - 1 \in 1..Len(d)
        BY <1>1, <3>2
      <4>2. QED BY <1>1, <3>2, <4>1 DEF Drafts
    <3>3. QED BY <3>1, <3>2
  <2>3. c[k] = [type |-> d[k].type, at |-> at, note |-> d[k].note,
                by |-> Len(history[e]) + 1,
                before |-> IF k = 1 THEN memory[e] ELSE d[k - 1].after,
                after |-> d[k].after]
    BY <1>1 DEF Chained
  <2>4. QED BY <1>3, <2>1, <2>2, <2>3 DEF Events
<1>5. c \in [1..Len(d) -> Events]
  BY <1>1, <1>4 DEF Chained
<1>6. c \in Seq(Events) /\ Len(c) = Len(d)
  BY <1>1, <1>5
<1>7. QED BY <1>1, <1>6 DEF Chained

\* Chained drafts at the end of a ledger.
LEMMA AppendedFacts ==
  ASSUME TypeOK, NEW e \in Experiences, NEW d \in Seq(Drafts), NEW at \in Times,
         history'[e] = history[e] \o Chained(e, d, at)
  PROVE  history'[e] \in Seq(Events) /\ Appended(e, d, at)
<1>1. PICK h \in Seq(Events) : h = history[e]
  BY DEF TypeOK
<1>2. PICK c \in Seq(Events) : c = Chained(e, d, at)
  BY ChainedFacts
<1>3. /\ h \o c \in Seq(Events) /\ Len(h \o c) = Len(h) + Len(c)
      /\ \A k \in 1..Len(h) : (h \o c)[k] = h[k]
      /\ \A k \in 1..Len(c) : (h \o c)[Len(h) + k] = c[k]
  BY ConcatFacts
<1>4. /\ Len(c) = Len(d)
      /\ \A k \in 1..Len(d) : c[k].type = d[k].type /\ c[k].note = d[k].note /\ c[k].at = at
  BY <1>2, ChainedFacts
<1>5. history'[e] = h \o c
  BY <1>1, <1>2
<1>6. QED BY <1>1, <1>3, <1>4, <1>5 DEF Appended

\* Versions in another codec are versions that say the same.
LEMMA RewrittenFacts ==
  ASSUME TypeOK, NEW e \in Experiences, NEW t \in Temperatures
  PROVE  /\ Rewritten(e, t) \in Seq(Versions)
         /\ Len(Rewritten(e, t)) = Len(versions[e])
         /\ \A k \in 1..Len(versions[e]) :
              /\ Rewritten(e, t)[k].content = versions[e][k].content
              /\ Rewritten(e, t)[k].codec = IF t = memory[e].temperature
                                            THEN versions[e][k].codec
                                            ELSE PreferredCodec(t)
<1>1. versions[e] \in Seq(Versions)
  BY DEF TypeOK
<1>2. CASE t = memory[e].temperature
  BY <1>1, <1>2 DEF Rewritten
<1>3. CASE t # memory[e].temperature
  <2>1. /\ Len(versions[e]) \in Nat /\ DOMAIN versions[e] = 1..Len(versions[e])
        /\ \A k \in 1..Len(versions[e]) : versions[e][k] \in Versions
    BY <1>1, LenProperties, ElementOfSeq
  <2>2. PreferredCodec(t) \in Codecs
    BY DEF PreferredCodec, Codecs
  <2>3. ASSUME NEW k \in 1..Len(versions[e])
        PROVE  LET r == Reencoded(versions[e][k], PreferredCodec(t))
               IN  r \in Versions /\ r.content = versions[e][k].content
                   /\ r.codec = PreferredCodec(t)
    BY <2>1, <2>2 DEF Reencoded, Versions
  <2>4. Rewritten(e, t) = [k \in 1..Len(versions[e]) |->
                             Reencoded(versions[e][k], PreferredCodec(t))]
    BY <1>3, <2>1 DEF Rewritten
  <2>5. Rewritten(e, t) \in [1..Len(versions[e]) -> Versions]
    BY <2>3, <2>4
  <2>6. Rewritten(e, t) \in Seq(Versions) /\ Len(Rewritten(e, t)) = Len(versions[e])
    BY <2>1, <2>5
  <2>7. QED BY <1>3, <2>3, <2>4, <2>6
<1>4. QED BY <1>2, <1>3

\* What ApplyOrderedEvents does to the experiences it is about and to the rest.
LEMMA OrderedEvents ==
  ASSUME TypeOK, NEW S \in SUBSET Experiences, NEW d, NEW at \in Times,
         \A e \in S : d[e] \in Seq(Drafts) /\ Len(d[e]) >= 1,
         ApplyOrderedEvents(S, d, at)
  PROVE  /\ TablesTyped
         /\ \A e \in S : Told(e, d[e], at)
         /\ \A e \in Experiences \ S : Untouched(e)
<1> DEFINE last(e) == d[e][Len(d[e])].after
<1>1. /\ memory' = [e \in Experiences |-> IF e \in S THEN last(e) ELSE memory[e]]
      /\ history' = [e \in Experiences |->
            IF e \in S THEN history[e] \o Chained(e, d[e], at) ELSE history[e]]
      /\ versions' = [e \in Experiences |->
            IF e \in S THEN Rewritten(e, last(e).temperature) ELSE versions[e]]
  BY DEF ApplyOrderedEvents
<1>2. ASSUME NEW e \in S PROVE last(e) \in States
  <2>1. Len(d[e]) \in 1..Len(d[e])
    BY LenProperties
  <2>2. d[e][Len(d[e])] \in Drafts
    BY <2>1, ElementOfSeq
  <2>3. QED BY <2>2 DEF Drafts
<1>3. ASSUME NEW e \in S PROVE last(e).temperature \in Temperatures
  BY <1>2 DEF States
<1>4. \A e \in Experiences :
        memory[e] \in States /\ versions[e] \in Seq(Versions) /\ history[e] \in Seq(Events)
  BY DEF TypeOK
<1>5. ASSUME NEW e \in S
      PROVE  /\ history'[e] \in Seq(Events) /\ Appended(e, d[e], at)
             /\ versions'[e] \in Seq(Versions) /\ Kept(e)
             /\ memory'[e] = last(e)
  <2>1. /\ memory'[e] = last(e) /\ history'[e] = history[e] \o Chained(e, d[e], at)
        /\ versions'[e] = Rewritten(e, last(e).temperature)
    BY <1>1
  <2>8. history'[e] \in Seq(Events) /\ Appended(e, d[e], at)
    BY <2>1, AppendedFacts
  <2>9. versions'[e] \in Seq(Versions) /\ Kept(e)
    BY <1>3, <2>1, RewrittenFacts DEF Kept
  <2>10. QED BY <2>1, <2>8, <2>9
<1>6. \A e \in Experiences \ S : Untouched(e)
  BY <1>1 DEF Untouched
<1>7. TablesTyped
  BY <1>1, <1>2, <1>4, <1>5 DEF TablesTyped
<1>8. QED BY <1>5, <1>6, <1>7 DEF Told
-----------------------------------------------------------------------------
(* Every action is one of the five kinds of step.                          *)

\* One draft, or one draft and a move.
LEMMA OneOrTwo ==
  ASSUME NEW a \in Drafts, NEW b \in Drafts
  PROVE  /\ <<a>> \o <<>> \in Seq(Drafts) /\ Len(<<a>> \o <<>>) = 1 /\ (<<a>> \o <<>>)[1] = a
         /\ <<a>> \o <<b>> \in Seq(Drafts) /\ Len(<<a>> \o <<b>>) = 2
         /\ (<<a>> \o <<b>>)[1] = a /\ (<<a>> \o <<b>>)[2] = b
OBVIOUS

\* Two drafts, and one followed by two.
LEMMA TwoOrThree ==
  ASSUME NEW a \in Drafts, NEW b \in Drafts, NEW c \in Drafts
  PROVE  /\ <<a, b>> \in Seq(Drafts) /\ Len(<<a, b>>) = 2
         /\ <<a, b>>[1] = a /\ <<a, b>>[2] = b
         /\ <<a>> \o <<b, c>> \in Seq(Drafts) /\ Len(<<a>> \o <<b, c>>) = 3
         /\ (<<a>> \o <<b, c>>)[1] = a /\ (<<a>> \o <<b, c>>)[2] = b
         /\ (<<a>> \o <<b, c>>)[3] = c
OBVIOUS

\* A state with another pin.
LEMMA PinFacts ==
  ASSUME NEW state \in States, NEW pinned \in BOOLEAN
  PROVE  LET s == [state EXCEPT !.pinned = pinned]
         IN  /\ s \in States /\ s.pinned = pinned
             /\ s.temperature = state.temperature /\ s.movedAt = state.movedAt
             /\ SameCount(state, s)
BY DEF States, SameCount

\* A moved state is a state.
LEMMA MovedFacts ==
  ASSUME NEW state \in States, NEW to \in Temperatures, NEW at \in Times
  PROVE  LET m == Moved(state, to, at)
         IN  /\ m \in States /\ m.temperature = to /\ m.pinned = state.pinned
             /\ m.movedAt = at /\ m.counter = 0
BY DEF Moved, States

\* What a draft says.
LEMMA DraftFacts ==
  ASSUME NEW type \in EventTypes, NEW note \in Notes, NEW after \in States
  PROVE  /\ Draft(type, note, after) \in Drafts
         /\ Draft(type, note, after).type = type
         /\ Draft(type, note, after).note = note
         /\ Draft(type, note, after).after = after
BY DEF Draft, Drafts

\* A command on some experiences, whose events are the uses d.
LEMMA CommandFacts ==
  ASSUME TypeOK, NEW S \in SUBSET Known, NEW d, \A e \in S : Uses(e, d[e]),
         ApplyOrderedEvents(S, d, clock), answers' = answers
  PROVE  TablesTyped /\ Commanded(S, d)
<1>1. S \in SUBSET Experiences /\ clock \in Times
  BY DEF Known, TypeOK
<1>2. \A e \in S : d[e] \in Seq(Drafts) /\ Len(d[e]) >= 1
  BY DEF Uses
<1>3. QED BY <1>1, <1>2, OrderedEvents DEF Commanded

\* A command on one experience: the states it may be given, and the moves.
LEMMA MutateFacts ==
  ASSUME Base, NEW e \in Experiences, NEW state \in States,
         NEW type \in CommandEvents, NEW cause \in Notes \ {"lifecycle_demotion"},
         NEW from, NEW to, from = {} \/ to = "hot",
         SameCount(memory[e], state), state.movedAt = memory[e].movedAt,
         state.pinned => state.temperature = "hot" \/ state.temperature \in from,
         state.temperature = "cold" => "cold" \in from \/ type = "refuted",
         Mutate(e, state, type, from, to, cause)
  PROVE  TablesTyped /\ \E S \in SUBSET Known : \E d : Commanded(S, d)
<1> DEFINE a == Draft(type, "", state)
           b == Draft("moved", cause, Moved(state, to, clock))
           w == <<a>> \o IF state.temperature \in from THEN <<b>> ELSE <<>>
           d == [x \in {e} |-> w]
<1>1. clock \in Times /\ IsActive(e) /\ e \in Known /\ state.temperature \in Active
  BY DEF Base, TypeOK, Mutate, IsActive, Active, Known, SameCount
<1>2. a \in Drafts /\ a.type = type /\ a.note = "" /\ a.after = state
  <2>1. type \in EventTypes /\ "" \in Notes
    BY DEF EventTypes, Notes
  <2>2. QED BY <2>1 DEF Draft, Drafts
<1> HIDE DEF a
<1>3. Uses(e, w)
  <2>1. CASE state.temperature \in from
    <3>1. to = "hot" /\ to \in Temperatures
      BY <2>1 DEF Temperatures, Active
    <3>2. PICK m \in States : /\ m = Moved(state, to, clock) /\ m.temperature = "hot"
                              /\ m.counter = 0
      BY <1>1, <3>1, MovedFacts
    <3>3. b \in Drafts /\ b.type = "moved" /\ b.note = cause /\ b.after = m
      BY <3>2, DraftFacts DEF EventTypes
    <3>4. w = <<a>> \o <<b>>
      BY <2>1
    <3> HIDE DEF a, b, w
    <3>5. w \in Seq(Drafts) /\ Len(w) = 2 /\ w[1] = a /\ w[2] = b
      BY <1>2, <3>3, <3>4, OneOrTwo, Zenon
    <3>6. \A k \in 1..Len(w) : k = 1 \/ k = 2
      BY <3>5
    <3>7. type \notin {"evaluated", "archived"} /\ "moved" \notin {"evaluated", "archived"}
      BY DEF CommandEvents
    <3>8. \A k \in 1..Len(w) : /\ w[k].type \notin {"evaluated", "archived"}
                               /\ w[k].note # "lifecycle_demotion"
      BY <1>2, <3>3, <3>5, <3>6, <3>7
    <3>9. w[Len(w)].after = m
      BY <3>3, <3>5
    <3>10. QED BY <3>2, <3>5, <3>8, <3>9 DEF Uses, Active, KeepsCount
  <2>2. CASE state.temperature \notin from
    <3>1. w = <<a>> \o <<>>
      BY <2>2
    <3> HIDE DEF a, b, w
    <3>2. w \in Seq(Drafts) /\ Len(w) = 1 /\ w[1] = a
      BY <1>2, <3>1, OneOrTwo
    <3>3. \A k \in 1..Len(w) : k = 1
      BY <3>2
    <3>4. type \notin {"evaluated", "archived"}
      BY DEF CommandEvents
    <3>5. \A k \in 1..Len(w) : /\ w[k].type \notin {"evaluated", "archived"}
                               /\ w[k].note # "lifecycle_demotion"
      BY <1>2, <3>2, <3>3, <3>4
    <3>6. w[Len(w)].after = state
      BY <1>2, <3>2
    <3>7. state.pinned => state.temperature = "hot"
      BY <2>2
    <3>8. state.temperature = "cold" => \A k \in 1..Len(w) : w[k].type \in Quiet
      BY <1>2, <2>2, <3>2, <3>3 DEF Quiet
    <3>9. KeepsCount(e, w)
      <4>1. type # "moved"
        BY DEF CommandEvents
      <4>2. \A k \in 1..Len(w) : w[k].type # "moved"
        BY <1>2, <3>2, <3>3, <4>1
      <4>3. QED BY <3>6, <4>2 DEF KeepsCount
    <3>10. state.temperature = "cold" => memory[e].temperature = "cold"
      BY DEF SameCount
    <3>11. QED BY <1>1, <3>2, <3>5, <3>6, <3>7, <3>8, <3>9, <3>10 DEF Uses
  <2>3. QED BY <2>1, <2>2
<1>4. ApplyOrderedEvents({e}, d, clock) /\ answers' = answers
  BY DEF Mutate, a
<1>5. \A x \in {e} : Uses(x, d[x])
  BY <1>3
<1>6. {e} \in SUBSET Known
  BY <1>1
<1> HIDE DEF d
<1>7. TablesTyped /\ Commanded({e}, d)
  BY <1>4, <1>5, <1>6, CommandFacts DEF Base
<1>8. QED BY <1>6, <1>7

\* The commands of the owner, but for restore.
LEMMA OwnerCommandFacts ==
  ASSUME Base, NEW e \in Experiences,
         \/ Confirm(e) \/ Corroborate(e) \/ Refute(e) \/ Pin(e) \/ Unpin(e) \/ Get(e)
  PROVE  TablesTyped /\ \E S \in SUBSET Known : \E d : Commanded(S, d)
<1>1. memory[e] \in States /\ memory[e].temperature \in Temperatures
  BY DEF Base, TypeOK, States
<1>2. memory[e].pinned => memory[e].temperature = "hot"
  BY DEF Base, PinnedIsHot
<1>3. /\ {"confirmed", "corroborated", "refuted", "pinned", "unpinned", "accessed"}
           \subseteq CommandEvents
      /\ {"confirmation", "capsule_corroboration", "", "pin"} \subseteq Notes \ {"lifecycle_demotion"}
  BY DEF CommandEvents, Notes
<1>11. SameCount(memory[e], memory[e])
  BY DEF SameCount
<1>4. CASE Confirm(e)
  BY <1>1, <1>2, <1>3, <1>4, <1>11, MutateFacts DEF Confirm
<1>5. CASE Corroborate(e)
  BY <1>1, <1>2, <1>3, <1>5, <1>11, MutateFacts DEF Corroborate
<1>6. CASE Refute(e)
  BY <1>1, <1>2, <1>3, <1>6, <1>11, MutateFacts DEF Refute
<1>7. CASE Pin(e)
  <2>1. PICK state \in States : /\ state = [memory[e] EXCEPT !.pinned = TRUE]
                                /\ state.temperature = memory[e].temperature
                                /\ state.movedAt = memory[e].movedAt
                                /\ SameCount(memory[e], state)
    BY <1>1, PinFacts
  <2>2. IsActive(e)
    BY <1>7 DEF Pin, Mutate
  <2>3. state.temperature = "hot" \/ state.temperature \in {"warm", "cold"}
    BY <2>1, <2>2 DEF IsActive, Active
  <2>4. Mutate(e, state, "pinned", {"warm", "cold"}, "hot", "pin")
    BY <1>7, <2>1 DEF Pin
  <2>5. QED BY <1>3, <2>1, <2>3, <2>4, MutateFacts
<1>8. CASE Unpin(e)
  <2>1. PICK state \in States : /\ state = [memory[e] EXCEPT !.pinned = FALSE]
                                /\ state.temperature = memory[e].temperature
                                /\ state.movedAt = memory[e].movedAt /\ ~state.pinned
                                /\ SameCount(memory[e], state)
    BY <1>1, PinFacts
  <2>2. state.temperature = "hot"
    BY <1>2, <1>8, <2>1 DEF Unpin
  <2>3. Mutate(e, state, "unpinned", {}, "none", "")
    BY <1>8, <2>1 DEF Unpin
  <2>4. QED BY <1>3, <2>1, <2>2, <2>3, MutateFacts
<1>9. CASE Get(e)
  <2>1. memory[e].temperature \in {"hot", "warm"}
        /\ Mutate(e, memory[e], "accessed", {}, "none", "")
    BY <1>9 DEF Get
  <2>2. QED BY <1>1, <1>2, <1>3, <1>11, <2>1, MutateFacts
<1>10. QED BY <1>4, <1>5, <1>6, <1>7, <1>8, <1>9

\* The names of the events and their causes.
LEMMA NamesTyped ==
  /\ "restored" \in EventTypes /\ "accessed" \in EventTypes /\ "reactivated" \in EventTypes
  /\ "moved" \in EventTypes /\ "evaluated" \in EventTypes /\ "archived" \in EventTypes
  /\ "created" \in EventTypes /\ "version_created" \in EventTypes
  /\ "" \in Notes /\ "restore" \in Notes /\ "cold_reactivation" \in Notes
  /\ "lifecycle_activation" \in Notes /\ "policy_archive" \in Notes
  /\ "lifecycle_demotion" \in Notes
BY DEF EventTypes, CommandEvents, Notes

\* There is a draft that says it.
LEMMA NamedDraft ==
  ASSUME NEW type \in EventTypes, NEW note \in Notes, NEW after \in States
  PROVE  \E a \in Drafts : /\ a = Draft(type, note, after)
                           /\ a.type = type /\ a.note = note /\ a.after = after
<1>1. QED BY DraftFacts

\* A restored experience is warm.
LEMMA RestoreFacts ==
  ASSUME Base, NEW e \in Experiences, Restore(e)
  PROVE  TablesTyped /\ \E S \in SUBSET Known : \E d : Commanded(S, d)
<1>1. /\ memory[e] \in States /\ memory[e].temperature = "archived"
      /\ ~memory[e].pinned /\ clock \in Times /\ e \in Known
  BY DEF Base, TypeOK, States, PinnedIsHot, Restore, Known
<1>2. "warm" \in Temperatures
  BY DEF Temperatures, Active
<1>3. PICK m \in States : /\ m = Moved(memory[e], "warm", clock)
                          /\ m.temperature = "warm" /\ ~m.pinned /\ m.counter = 0
  BY <1>1, <1>2, MovedFacts
<1>4. PICK a \in Drafts : /\ a = Draft("restored", "", memory[e])
                          /\ a.type = "restored" /\ a.note = "" /\ a.after = memory[e]
  <2>1. PICK x : x = Draft("restored", "", memory[e])
    OBVIOUS
  <2>2. "restored" \in EventTypes /\ "" \in Notes
    BY NamesTyped
  <2>3. x \in Drafts /\ x.type = "restored" /\ x.note = "" /\ x.after = memory[e]
    BY <1>1, <2>1, <2>2 DEF Draft, Drafts
  <2>4. QED BY <2>1, <2>3
<1>5. PICK b \in Drafts : /\ b = Draft("moved", "restore", m)
                          /\ b.type = "moved" /\ b.note = "restore" /\ b.after = m
  <2>1. "moved" \in EventTypes /\ "restore" \in Notes
    BY NamesTyped
  <2>2. QED BY <2>1, NamedDraft
<1>6. PICK w : w = <<a, b>>
  OBVIOUS
<1>7. w \in Seq(Drafts) /\ Len(w) = 2 /\ w[1] = a /\ w[2] = b
  BY <1>6, TwoOrThree
<1>8. Uses(e, w)
  <2>1. \A k \in 1..Len(w) : k = 1 \/ k = 2
    BY <1>7
  <2>2. \A k \in 1..Len(w) : /\ w[k].type \notin {"evaluated", "archived"}
                             /\ w[k].note # "lifecycle_demotion"
    BY <1>4, <1>5, <1>7, <2>1
  <2>3. w[Len(w)].after = m
    BY <1>5, <1>7
  <2>4. QED BY <1>3, <1>7, <2>2, <2>3 DEF Uses, Active, KeepsCount
<1>9. PICK d : d = [x \in {e} |-> w]
  OBVIOUS
<1>10. ApplyOrderedEvents({e}, d, clock) /\ answers' = answers
  BY <1>3, <1>4, <1>5, <1>6, <1>9 DEF Restore
<1>11. \A x \in {e} : Uses(x, d[x])
  BY <1>8, <1>9
<1>12. {e} \in SUBSET Known /\ TypeOK
  BY <1>1 DEF Base
<1>13. QED BY <1>10, <1>11, <1>12, CommandFacts

\* What a search appends to an experience.
SearchDrafts(e) ==
    <<Draft("accessed", "", memory[e])>> \o
      IF memory[e].temperature = "cold"
      THEN <<Draft("reactivated", "", memory[e]),
             Draft("moved", "cold_reactivation", Moved(memory[e], "warm", clock))>>
      ELSE <<>>

\* What a search appends are uses.
LEMMA SearchUses ==
  ASSUME Base, NEW e \in Experiences, IsActive(e)
  PROVE  Uses(e, SearchDrafts(e))
<1>1. /\ memory[e] \in States /\ memory[e].temperature \in Active /\ clock \in Times
      /\ memory[e].pinned => memory[e].temperature = "hot"
  BY DEF Base, TypeOK, PinnedIsHot, IsActive
<1>2. "warm" \in Temperatures
  BY DEF Temperatures, Active
<1>3. PICK m \in States : /\ m = Moved(memory[e], "warm", clock)
                          /\ m.temperature = "warm" /\ m.pinned = memory[e].pinned
                          /\ m.counter = 0
  BY <1>1, <1>2, MovedFacts
<1>4. PICK a \in Drafts : /\ a = Draft("accessed", "", memory[e])
                          /\ a.type = "accessed" /\ a.note = "" /\ a.after = memory[e]
  <2>1. PICK x : x = Draft("accessed", "", memory[e])
    OBVIOUS
  <2>2. "accessed" \in EventTypes /\ "" \in Notes
    BY NamesTyped
  <2>3. x \in Drafts /\ x.type = "accessed" /\ x.note = "" /\ x.after = memory[e]
    BY <1>1, <2>1, <2>2 DEF Draft, Drafts
  <2>4. QED BY <2>1, <2>3
<1>5. PICK b \in Drafts : /\ b = Draft("reactivated", "", memory[e])
                          /\ b.type = "reactivated" /\ b.note = "" /\ b.after = memory[e]
  <2>1. PICK x : x = Draft("reactivated", "", memory[e])
    OBVIOUS
  <2>2. "reactivated" \in EventTypes /\ "" \in Notes
    BY NamesTyped
  <2>3. x \in Drafts /\ x.type = "reactivated" /\ x.note = "" /\ x.after = memory[e]
    BY <1>1, <2>1, <2>2 DEF Draft, Drafts
  <2>4. QED BY <2>1, <2>3
<1>6. PICK c \in Drafts : /\ c = Draft("moved", "cold_reactivation", m)
                          /\ c.type = "moved" /\ c.note = "cold_reactivation" /\ c.after = m
  <2>1. "moved" \in EventTypes /\ "cold_reactivation" \in Notes
    BY NamesTyped
  <2>2. QED BY <2>1, NamedDraft
<1>7. PICK w : w = SearchDrafts(e)
  OBVIOUS
<1>8. CASE memory[e].temperature = "cold"
  <2>1. w = <<a>> \o <<b, c>>
    BY <1>3, <1>4, <1>5, <1>6, <1>7, <1>8 DEF SearchDrafts
  <2>2. w \in Seq(Drafts) /\ Len(w) = 3 /\ w[1] = a /\ w[2] = b /\ w[3] = c
    BY <2>1, TwoOrThree
  <2>3. \A k \in 1..Len(w) : k = 1 \/ k = 2 \/ k = 3
    BY <2>2
  <2>4. ~m.pinned
    BY <1>1, <1>3, <1>8
  <2>5. \A k \in 1..Len(w) : /\ w[k].type \notin {"evaluated", "archived"}
                             /\ w[k].note # "lifecycle_demotion"
    BY <1>4, <1>5, <1>6, <2>2, <2>3
  <2>6. w[Len(w)].after = m
    BY <1>6, <2>2
  <2>7. Uses(e, w)
    BY <1>3, <2>2, <2>4, <2>5, <2>6 DEF Uses, Active, KeepsCount
  <2>8. QED BY <1>7, <2>7
<1>9. CASE memory[e].temperature # "cold"
  <2>1. w = <<a>> \o <<>>
    BY <1>4, <1>7, <1>9 DEF SearchDrafts
  <2>2. w \in Seq(Drafts) /\ Len(w) = 1 /\ w[1] = a
    BY <2>1, OneOrTwo
  <2>3. \A k \in 1..Len(w) : k = 1
    BY <2>2
  <2>4. \A k \in 1..Len(w) : /\ w[k].type \notin {"evaluated", "archived"}
                             /\ w[k].note # "lifecycle_demotion"
    BY <1>4, <2>2, <2>3
  <2>5. w[Len(w)].after = memory[e]
    BY <1>4, <2>2
  <2>6. Uses(e, w)
    <3>1. \A k \in 1..Len(w) : w[k].type # "moved"
      BY <1>4, <2>2, <2>3
    <3>2. KeepsCount(e, w)
      BY <2>5, <3>1 DEF KeepsCount, SameCount
    <3>3. QED BY <1>1, <1>9, <2>2, <2>4, <2>5, <3>2 DEF Uses
  <2>7. QED BY <1>7, <2>6
<1>10. QED BY <1>8, <1>9

\* A search lifts what it finds cold.
LEMMA SearchFacts ==
  ASSUME Base, NEW agent, NEW S \in SUBSET Experiences, Search(agent, S)
  PROVE  TablesTyped /\ \E T \in SUBSET Known : \E d : Commanded(T, d)
<1>1. S \in SUBSET Known /\ TypeOK
  BY DEF Search, IsActive, Active, Known, Base
<1>2. PICK d : d = [e \in S |-> SearchDrafts(e)]
  OBVIOUS
<1>3. ApplyOrderedEvents(S, d, clock) /\ answers' = answers
  BY <1>2 DEF Search, SearchDrafts
<1>4. \A e \in S : Uses(e, d[e])
  BY <1>2, SearchUses DEF Search
<1>5. QED BY <1>1, <1>3, <1>4, CommandFacts

\* What the thresholds may ask for, by the temperature.
LEMMA TargetFacts ==
  ASSUME NEW e \in Experiences, NEW at, NEW target \in Targets(e, at)
  PROVE  \/ target = "none"
         \/ target = "demote_warm" /\ memory[e].temperature = "hot" /\ ~memory[e].pinned
         \/ target = "promote_hot" /\ memory[e].temperature = "warm"
         \/ target = "demote_cold" /\ memory[e].temperature = "warm" /\ ~memory[e].pinned
         \/ /\ target = "archive" /\ memory[e].temperature = "cold" /\ ~memory[e].pinned
            /\ at - memory[e].movedAt >= ArchiveAfter /\ e \notin ActiveDependentTargets
BY DEF Targets, Target

\* An evaluated state, and the counter it carries.
LEMMA EvaluatedFacts ==
  ASSUME Base, NEW e \in Experiences, NEW target, NEW at \in Times
  PROVE  LET s == Evaluated(e, target, at)
         IN  /\ s \in States /\ s.temperature = memory[e].temperature
             /\ s.pinned = memory[e].pinned /\ s.movedAt = memory[e].movedAt
             /\ s.counter = CounterAfter(e, target) /\ s.evaluatedAt = at
<1>1. PICK m \in States : m = memory[e]
  BY DEF Base, TypeOK
<1>2. CounterAfter(e, target) \in Nat
  BY <1>1 DEF CounterAfter, States
<1>3. QED BY <1>1, <1>2 DEF Evaluated, States

\* Sequences put together from up to three parts.
LEMMA OnePart ==
  ASSUME NEW a \in Drafts, NEW w, w = (<<a>> \o <<>>) \o <<>>
  PROVE  w \in Seq(Drafts) /\ Len(w) = 1 /\ w[1] = a
OBVIOUS

\* Two of them.
LEMMA TwoParts ==
  ASSUME NEW a \in Drafts, NEW c \in Drafts, NEW w, w = (<<a>> \o <<>>) \o <<c>>
  PROVE  w \in Seq(Drafts) /\ Len(w) = 2 /\ w[1] = a /\ w[2] = c
OBVIOUS

\* The first two of three.
LEMMA FirstParts ==
  ASSUME NEW a \in Drafts, NEW b \in Drafts, NEW u, u = <<a>> \o <<b>>
  PROVE  u \in Seq(Drafts) /\ Len(u) = 2 /\ u[1] = a /\ u[2] = b
OBVIOUS

\* All three.
LEMMA ThreeParts ==
  ASSUME NEW u \in Seq(Drafts), NEW c \in Drafts, Len(u) = 2, NEW w, w = u \o <<c>>
  PROVE  w \in Seq(Drafts) /\ Len(w) = 3 /\ w[1] = u[1] /\ w[2] = u[2] /\ w[3] = c
<1>1. PICK t : t = <<c>>
  OBVIOUS
<1>2. t \in Seq(Drafts) /\ Len(t) = 1 /\ t[1] = c
  BY <1>1
<1>3. w = u \o t
  BY <1>1
<1>4. /\ w \in Seq(Drafts) /\ Len(w) = Len(u) + Len(t)
      /\ \A k \in 1..Len(u) : w[k] = u[k]
      /\ \A k \in 1..Len(t) : w[Len(u) + k] = t[k]
  BY <1>2, <1>3, ConcatFacts
<1>5. QED BY <1>2, <1>4

\* What an evaluation appends.
LEMMA EvaluationFacts ==
  ASSUME Base, NEW e \in Experiences, IsActive(e), NEW at \in Times,
         NEW target \in Targets(e, at)
  PROVE  Evaluates(e, target, at, Evaluation(e, target, at))
<1>1. /\ memory[e].temperature \in Active /\ target \in Notes
      /\ memory[e].pinned => memory[e].temperature = "hot"
  <2>1. memory[e].pinned => memory[e].temperature = "hot"
    BY DEF Base, PinnedIsHot
  <2>2. target \in Notes
    BY TargetFacts DEF Notes, Demotions
  <2>3. QED BY <2>1, <2>2 DEF IsActive
<1>2. PICK s \in States : /\ s = Evaluated(e, target, at)
                          /\ s.temperature = memory[e].temperature
                          /\ s.pinned = memory[e].pinned /\ s.movedAt = memory[e].movedAt
                          /\ s.counter = CounterAfter(e, target) /\ s.evaluatedAt = at
  BY EvaluatedFacts
<1>3. PICK to \in Temperatures : to = Destination(e, target)
  BY <1>1 DEF Destination, Temperatures, Active
<1>4. PICK m \in States : /\ m = Moved(s, to, at) /\ m.temperature = to
                          /\ m.pinned = s.pinned /\ m.movedAt = at /\ m.counter = 0
  BY MovedFacts
<1>5. PICK cause \in {"lifecycle_activation", "policy_archive", "lifecycle_demotion"} :
        cause = (CASE target = "promote_hot" -> "lifecycle_activation"
                   [] target = "archive" -> "policy_archive"
                   [] OTHER -> "lifecycle_demotion")
  OBVIOUS
<1>6. PICK a \in Drafts : /\ a = Draft("evaluated", target, s)
                          /\ a.type = "evaluated" /\ a.note = target /\ a.after = s
  <2>1. "evaluated" \in EventTypes
    BY NamesTyped
  <2>2. QED BY <1>1, <2>1, NamedDraft
<1>7. PICK b \in Drafts : /\ b = Draft("archived", "", s) /\ b.type = "archived"
  <2>1. PICK x : x = Draft("archived", "", s)
    OBVIOUS
  <2>2. "archived" \in EventTypes /\ "" \in Notes
    BY NamesTyped
  <2>3. x \in Drafts /\ x.type = "archived"
    BY <2>1, <2>2 DEF Draft, Drafts
  <2>4. QED BY <2>1, <2>3
<1>8. PICK c \in Drafts : /\ c = Draft("moved", cause, m)
                          /\ c.type = "moved" /\ c.note = cause /\ c.after = m
  <2>1. "moved" \in EventTypes /\ cause \in Notes
    BY NamesTyped
  <2>2. QED BY <2>1, NamedDraft
<1>9. PICK w : w = Evaluation(e, target, at)
  OBVIOUS
<1>10. Moves(e, target) <=> to # memory[e].temperature
  BY <1>3 DEF Moves
<1>11. w = (<<a>> \o IF target = "archive" THEN <<b>> ELSE <<>>)
             \o IF Moves(e, target) THEN <<c>> ELSE <<>>
  BY <1>2, <1>3, <1>4, <1>5, <1>6, <1>7, <1>8, <1>9 DEF Evaluation
<1>13. CASE target = "archive"
  <2>1. /\ memory[e].temperature = "cold" /\ at - memory[e].movedAt >= ArchiveAfter
        /\ e \notin ActiveDependentTargets
    BY <1>13, TargetFacts
  <2>2. to = "archived" /\ Moves(e, target) /\ ~m.pinned
    <3>1. to = "archived"
      BY <1>3, <1>13 DEF Destination, Demotions
    <3>2. Moves(e, target)
      BY <1>10, <2>1, <3>1
    <3>3. ~m.pinned
      BY <1>1, <1>2, <1>4, <2>1
    <3>4. QED BY <3>1, <3>2, <3>3
  <2>3. PICK u : u = <<a>> \o <<b>>
    OBVIOUS
  <2>4. w \in Seq(Drafts) /\ Len(w) = 3 /\ w[1] = a /\ w[2] = b /\ w[3] = c
    <3>1. u \in Seq(Drafts) /\ Len(u) = 2 /\ u[1] = a /\ u[2] = b
      BY <2>3, FirstParts
    <3>2. w = u \o <<c>>
      BY <1>11, <1>13, <2>2, <2>3
    <3>3. QED BY <3>1, <3>2, ThreeParts
  <2>5. \A k \in 1..Len(w) : w[k].type = "archived" <=> k = 2
    <3>1. \A k \in 1..Len(w) : k = 1 \/ k = 2 \/ k = 3
      BY <2>4
    <3>2. QED BY <1>6, <1>7, <1>8, <2>4, <3>1
  <2>6. w[Len(w)].after = m
    BY <1>8, <2>4
  <2>7. Evaluates(e, target, at, w)
    <3>1. \A k \in 1..Len(w) : k = 1 \/ k = 2 \/ k = 3
      BY <2>4
    <3>2. target # "lifecycle_demotion" /\ cause # "lifecycle_demotion"
      BY <1>5, <1>13
    <3>3. b.note # "lifecycle_demotion"
      BY <1>7 DEF Draft
    <3>4. \A k \in 1..Len(w) : /\ w[k].note # "lifecycle_demotion"
                               /\ w[k].type = "evaluated" <=> k = 1
      BY <1>6, <1>7, <1>8, <2>4, <3>1, <3>2, <3>3
    <3>5. Counts(e, target, at, w)
      BY <1>4, <1>6, <2>4, <2>6, <3>4 DEF Counts
    <3>6. QED BY <1>4, <1>6, <1>13, <2>1, <2>2, <2>4, <2>5, <2>6, <3>5 DEF Evaluates
  <2>8. QED BY <1>9, <2>7
<1>14. CASE target # "archive" /\ Moves(e, target)
  <2>1. \/ target = "demote_warm" /\ to = "warm" /\ ~memory[e].pinned
        \/ target = "demote_cold" /\ to = "cold" /\ memory[e].temperature = "warm"
             /\ ~memory[e].pinned
        \/ target = "promote_hot" /\ to = "hot"
    BY <1>3, <1>10, <1>14, TargetFacts DEF Destination, Demotions
  <2>2. w = (<<a>> \o <<>>) \o <<c>>
    BY <1>11, <1>14
  <2>3. w \in Seq(Drafts) /\ Len(w) = 2 /\ w[1] = a /\ w[2] = c
    BY <2>2, TwoParts
  <2>4. \A k \in 1..Len(w) : w[k].type # "archived"
    <3>1. \A k \in 1..Len(w) : k = 1 \/ k = 2
      BY <2>3
    <3>2. QED BY <1>6, <1>8, <2>3, <3>1
  <2>5. w[Len(w)].after = m /\ w[Len(w)].note = cause
    BY <1>8, <2>3
  <2>6. /\ m.temperature \in Active /\ m.temperature # "none"
        /\ m.pinned => m.temperature = "hot"
        /\ m.temperature = "cold" =>
             memory[e].temperature # "cold" /\ cause = "lifecycle_demotion" /\ m.movedAt = at
    BY <1>2, <1>4, <1>5, <2>1 DEF Active
  <2>7. Evaluates(e, target, at, w)
    <3>1. \A k \in 1..Len(w) : k = 1 \/ k = 2
      BY <2>3
    <3>2. target # "lifecycle_demotion"
      BY <2>1
    <3>3. cause = "lifecycle_demotion" => /\ target = DemotionOf(memory[e].temperature)
                                          /\ memory[e].counter + 1 >= DemotionCycles
      <4>1. CASE target = "promote_hot"
        BY <1>5, <4>1
      <4>2. CASE target # "promote_hot"
        <5>1. target \in Demotions /\ target = DemotionOf(memory[e].temperature)
          BY <1>14, <4>2, <2>1, TargetFacts DEF Demotions, DemotionOf
        <5>2. CounterAfter(e, target) >= DemotionCycles
          BY <1>3, <1>10, <1>14, <4>2, <5>1 DEF Destination
        <5>3. QED BY <5>1, <5>2 DEF CounterAfter
      <4>3. QED BY <4>1, <4>2
    <3>4. \A k \in 1..Len(w) : w[k].type = "evaluated" <=> k = 1
      BY <1>6, <1>8, <2>3, <3>1
    <3>5. \A k \in 1..Len(w) : w[k].note = "lifecycle_demotion" =>
            /\ k = 2 /\ target = DemotionOf(memory[e].temperature)
            /\ memory[e].counter + 1 >= DemotionCycles
      BY <1>6, <1>8, <2>3, <3>1, <3>2, <3>3
    <3>6. Counts(e, target, at, w)
      BY <1>4, <1>6, <2>3, <2>5, <3>4, <3>5 DEF Counts
    <3>7. QED BY <1>6, <1>14, <2>3, <2>4, <2>5, <2>6, <3>6 DEF Evaluates
  <2>8. QED BY <1>9, <2>7
<1>15. CASE target # "archive" /\ ~Moves(e, target)
  <2>1. w = (<<a>> \o <<>>) \o <<>>
    BY <1>11, <1>15
  <2>2. w \in Seq(Drafts) /\ Len(w) = 1 /\ w[1] = a
    BY <2>1, OnePart
  <2>3. \A k \in 1..Len(w) : w[k].type # "archived"
    <3>1. \A k \in 1..Len(w) : k = 1
      BY <2>2
    <3>2. QED BY <1>6, <2>2, <3>1
  <2>4. w[Len(w)].after = s
    BY <1>6, <2>2
  <2>5. s.temperature # "none" /\ s.temperature \in Active /\ (s.pinned => s.temperature = "hot")
    BY <1>1, <1>2 DEF Active
  <2>6. Evaluates(e, target, at, w)
    <3>1. \A k \in 1..Len(w) : k = 1
      BY <2>2
    <3>2. \/ s.counter = 0
          \/ /\ target = DemotionOf(memory[e].temperature)
             /\ s.counter = memory[e].counter + 1 /\ s.counter < DemotionCycles
      <4>1. CASE target \in Demotions
        <5>1. target = DemotionOf(memory[e].temperature)
          BY <4>1, TargetFacts DEF Demotions, DemotionOf
        <5>2. s.counter = memory[e].counter + 1
          BY <1>2, <4>1 DEF CounterAfter
        <5>3. ~(CounterAfter(e, target) >= DemotionCycles)
          <6>1. SUFFICES ASSUME CounterAfter(e, target) >= DemotionCycles PROVE FALSE
            OBVIOUS
          <6>2. to = IF target = "demote_warm" THEN "warm" ELSE "cold"
            BY <1>3, <4>1, <6>1 DEF Destination, Demotions
          <6>3. to # memory[e].temperature
            BY <4>1, <6>2, TargetFacts DEF Demotions
          <6>4. QED BY <1>10, <1>15, <6>3
        <5>4. s.counter < DemotionCycles
          BY <1>2, <5>3, PolicyAssumption DEF States
        <5>5. QED BY <5>1, <5>2, <5>4
      <4>2. CASE target \notin Demotions
        BY <1>2, <4>2 DEF CounterAfter
      <4>3. QED BY <4>1, <4>2
    <3>3. target # "lifecycle_demotion"
      BY TargetFacts
    <3>4. \A k \in 1..Len(w) : /\ w[k].note # "lifecycle_demotion"
                               /\ w[k].type = "evaluated" <=> k = 1
      BY <1>6, <2>2, <3>1, <3>3
    <3>5. Counts(e, target, at, w)
      BY <1>2, <1>6, <2>2, <2>4, <3>2, <3>4 DEF Counts
    <3>6. QED BY <1>2, <1>6, <1>15, <2>2, <2>3, <2>4, <2>5, <3>5 DEF Evaluates
  <2>7. QED BY <1>9, <2>6
<1>16. QED BY <1>13, <1>14, <1>15

\* A sequence of one version.
LEMMA OneVersion ==
  ASSUME NEW v \in Versions
  PROVE  <<v>> \in Seq(Versions) /\ Len(<<v>>) = 1 /\ <<v>>[1] = v
OBVIOUS

\* Another version at the end.
LEMMA AnotherVersion ==
  ASSUME NEW s \in Seq(Versions), NEW v \in Versions, NEW t, t = Append(s, v)
  PROVE  /\ t \in Seq(Versions) /\ Len(t) = Len(s) + 1 /\ t[Len(s) + 1] = v
         /\ \A k \in 1..Len(s) : t[k] = s[k]
<1>1. Len(s) \in Nat
  BY LenProperties
<1>2. t \in Seq(Versions) /\ Len(t) = Len(s) + 1
      /\ \A k \in 1..Len(s) + 1 : t[k] = IF k = Len(s) + 1 THEN v ELSE s[k]
  BY AppendProperties
<1>3. QED BY <1>1, <1>2

\* The first version of an experience.
LEMMA CreateFacts ==
  ASSUME Base, NEW e \in Experiences, NEW content \in Contents, NEW important \in BOOLEAN,
         NEW links \in LinkSets(e), Create(e, content, important, links)
  PROVE  TablesTyped /\ Enters(e)
<1>1. PICK t \in {"hot", "warm"} : t = IF important THEN "hot" ELSE "warm"
  OBVIOUS
<1>2. clock \in Times /\ e \notin Known /\ links \in SUBSET Links
  BY DEF Base, TypeOK, Create, LinkSets
<1>3. PICK state \in States : /\ state = Fresh(t) /\ state.temperature = t
                               /\ ~state.pinned /\ state.counter = 0
  <2>1. PICK x : x = Fresh(t)
    OBVIOUS
  <2>2. x = [temperature |-> t, pinned |-> FALSE, counter |-> 0, movedAt |-> clock,
             evaluatedAt |-> Never, version |-> 1]
    BY <2>1 DEF Fresh, NoState
  <2>3. t \in Temperatures /\ Never \in Times \cup {Never}
    BY DEF Temperatures, Active
  <2>4. x \in States /\ x.temperature = t /\ ~x.pinned /\ x.counter = 0
    BY <1>2, <2>2, <2>3 DEF States
  <2>5. QED BY <2>1, <2>4
<1>4. PICK v \in Versions : /\ v = [content |-> content, codec |-> PreferredCodec(t),
                                    links |-> links, at |-> clock]
                            /\ v.content = content /\ v.codec = "plain"
  <2>1. PreferredCodec(t) = "plain" /\ "plain" \in Codecs
    BY DEF PreferredCodec, Codecs
  <2>2. PICK x : x = [content |-> content, codec |-> PreferredCodec(t),
                      links |-> links, at |-> clock]
    OBVIOUS
  <2>3. x \in Versions /\ x.content = content /\ x.codec = "plain"
    BY <1>2, <2>1, <2>2 DEF Versions
  <2>4. QED BY <2>2, <2>3
<1>5. PICK a \in Drafts : /\ a = Draft("created", "", state)
                          /\ a.type = "created" /\ a.note = ""
  <2>1. PICK x : x = Draft("created", "", state)
    OBVIOUS
  <2>2. "created" \in EventTypes /\ "" \in Notes
    BY NamesTyped
  <2>3. x \in Drafts /\ x.type = "created" /\ x.note = ""
    BY <2>1, <2>2 DEF Draft, Drafts
  <2>4. QED BY <2>1, <2>3
<1>6. PICK b \in Drafts : /\ b = Draft("version_created", "", state)
                          /\ b.type = "version_created" /\ b.note = ""
  <2>1. PICK x : x = Draft("version_created", "", state)
    OBVIOUS
  <2>2. "version_created" \in EventTypes /\ "" \in Notes
    BY NamesTyped
  <2>3. x \in Drafts /\ x.type = "version_created" /\ x.note = ""
    BY <2>1, <2>2 DEF Draft, Drafts
  <2>4. QED BY <2>1, <2>3
<1>7. PICK d : d = <<a, b>>
  OBVIOUS
<1>8. d \in Seq(Drafts) /\ Len(d) = 2 /\ d[1] = a /\ d[2] = b
  BY <1>7, TwoOrThree
<1>9. PICK h \in Seq(Events) :
        /\ h = Chained(e, d, clock) /\ Len(h) = Len(d)
        /\ \A k \in 1..Len(d) : h[k].type = d[k].type /\ h[k].note = d[k].note
  BY <1>2, <1>8, ChainedFacts DEF Base
<1>10. \A k \in 1..Len(h) : h[k].type \in {"created", "version_created"} /\ h[k].note = ""
  <2>1. \A k \in 1..Len(h) : k = 1 \/ k = 2
    BY <1>8, <1>9
  <2>2. 1 \in 1..Len(d) /\ 2 \in 1..Len(d)
    BY <1>8
  <2>3. /\ h[1].type = d[1].type /\ h[1].note = d[1].note
        /\ h[2].type = d[2].type /\ h[2].note = d[2].note
    BY <1>9, <2>2
  <2>4. d[1].type = "created" /\ d[1].note = ""
    BY <1>5, <1>8
  <2>5. d[2].type = "version_created" /\ d[2].note = ""
    BY <1>6, <1>8
  <2>6. QED BY <2>1, <2>3, <2>4, <2>5
<1>11. PICK s \in Seq(Versions) : s = <<v>> /\ Len(s) = 1 /\ s[1] = v
  BY OneVersion
<1>12. /\ memory' = [memory EXCEPT ![e] = state] /\ versions' = [versions EXCEPT ![e] = s]
       /\ history' = [history EXCEPT ![e] = h] /\ answers' = answers
  <2>1. /\ Fresh(IF important THEN "hot" ELSE "warm") = state
        /\ state.temperature = t
    BY <1>1, <1>3
  <2>2. /\ v = [content |-> content, codec |-> PreferredCodec(t), links |-> links,
                at |-> clock]
        /\ h = Chained(e, <<a, b>>, clock) /\ s = <<v>>
        /\ a = Draft("created", "", state) /\ b = Draft("version_created", "", state)
    BY <1>4, <1>5, <1>6, <1>7, <1>9, <1>11
  <2>3. QED BY <2>1, <2>2 DEF Create
<1>13. memory \in [Experiences -> States] /\ versions \in [Experiences -> Seq(Versions)]
       /\ history \in [Experiences -> Seq(Events)]
  BY DEF Base, TypeOK
<1>14. TablesTyped
  BY <1>12, <1>13 DEF TablesTyped
<1>15. /\ memory'[e] = state /\ versions'[e] = s /\ history'[e] = h
       /\ \A f \in Experiences \ {e} : Untouched(f)
  BY <1>12, <1>13 DEF Untouched
<1>16. \A f \in Known : Owner[f] = Owner[e] => Current(f).content # content
  BY DEF Create, CurrentEquivalents
<1>17. /\ Len(versions'[e]) = 1 /\ versions'[e][1].codec = "plain"
       /\ \A f \in Known : Owner[f] = Owner[e] => Current(f).content # versions'[e][1].content
  BY <1>4, <1>11, <1>15, <1>16
<1>18. \A k \in 1..Len(history'[e]) :
         history'[e][k].type \in {"created", "version_created"} /\ history'[e][k].note = ""
  BY <1>10, <1>15
<1>19. memory'[e].temperature \in {"hot", "warm"} /\ ~memory'[e].pinned /\ memory'[e].counter = 0
  BY <1>1, <1>3, <1>15
<1>20. QED BY <1>2, <1>12, <1>14, <1>15, <1>17, <1>18, <1>19 DEF Enters

\* A new version of an active experience.
LEMMA CreateVersionFacts ==
  ASSUME Base, NEW e \in Experiences, NEW content \in Contents, NEW links \in LinkSets(e),
         CreateVersion(e, content, links)
  PROVE  TablesTyped /\ Revises(e)
<1>1. /\ clock \in Times /\ links \in SUBSET Links /\ e \in Known
      /\ memory[e].temperature \in Active
  <2>1. clock \in Times /\ links \in SUBSET Links
    BY DEF Base, TypeOK, LinkSets
  <2>2. memory[e].temperature \in Active
    BY DEF CreateVersion, IsActive
  <2>3. QED BY <2>1, <2>2 DEF Known, Active
<1>2. PICK m \in States : m = memory[e]
  BY DEF Base, TypeOK
<1>3. PICK state \in States :
        /\ state = [memory[e] EXCEPT !.version = @ + 1]
        /\ state.temperature = memory[e].temperature
        /\ state.pinned = memory[e].pinned /\ state.movedAt = memory[e].movedAt
        /\ SameCount(memory[e], state)
  <2>1. PICK x : x = [memory[e] EXCEPT !.version = @ + 1]
    OBVIOUS
  <2>2. x \in States /\ x.temperature = m.temperature /\ x.pinned = m.pinned
        /\ x.movedAt = m.movedAt /\ SameCount(m, x)
    BY <1>2, <2>1 DEF States, SameCount
  <2>3. QED BY <1>2, <2>1, <2>2
<1>4. PICK v \in Versions :
        /\ v = [content |-> content, codec |-> PreferredCodec(state.temperature),
                links |-> links, at |-> clock]
        /\ v.content = content /\ v.codec = PreferredCodec(memory[e].temperature)
  <2>1. PreferredCodec(state.temperature) \in Codecs
    BY DEF PreferredCodec, Codecs
  <2>2. PICK x : x = [content |-> content, codec |-> PreferredCodec(state.temperature),
                      links |-> links, at |-> clock]
    OBVIOUS
  <2>3. x \in Versions /\ x.content = content /\ x.codec = PreferredCodec(state.temperature)
    BY <1>1, <2>1, <2>2 DEF Versions
  <2>4. QED BY <1>3, <2>2, <2>3
<1>5. PICK a \in Drafts : /\ a = Draft("version_created", "", state)
                          /\ a.type = "version_created" /\ a.note = ""
  <2>1. PICK x : x = Draft("version_created", "", state)
    OBVIOUS
  <2>2. "version_created" \in EventTypes /\ "" \in Notes
    BY NamesTyped
  <2>3. x \in Drafts /\ x.type = "version_created" /\ x.note = ""
    BY <2>1, <2>2 DEF Draft, Drafts
  <2>4. QED BY <2>1, <2>3
<1>6. PICK d \in Seq(Drafts) : d = <<a>> /\ Len(d) = 1 /\ d[1] = a
  <2>1. PICK x : x = <<a>>
    OBVIOUS
  <2>2. x \in Seq(Drafts) /\ Len(x) = 1 /\ x[1] = a
    BY <2>1
  <2>3. QED BY <2>1, <2>2
<1>7. PICK s \in Seq(Versions) : s = versions[e]
  BY DEF Base, TypeOK
<1>8. PICK t \in Seq(Versions) : /\ t = Append(s, v) /\ Len(t) = Len(s) + 1
                                 /\ t[Len(s) + 1] = v
                                 /\ \A k \in 1..Len(s) : t[k] = s[k]
  <2>1. PICK x : x = Append(s, v)
    OBVIOUS
  <2>2. QED BY <2>1, AnotherVersion
<1>9. /\ memory' = [memory EXCEPT ![e] = state] /\ versions' = [versions EXCEPT ![e] = t]
      /\ history' = [history EXCEPT ![e] = history[e] \o Chained(e, d, clock)]
      /\ answers' = answers
  BY <1>3, <1>4, <1>5, <1>6, <1>7, <1>8 DEF CreateVersion
<1>10. memory \in [Experiences -> States] /\ versions \in [Experiences -> Seq(Versions)]
       /\ history \in [Experiences -> Seq(Events)]
  BY DEF Base, TypeOK
<1>11. /\ memory'[e] = state /\ versions'[e] = t
       /\ history'[e] = history[e] \o Chained(e, d, clock)
       /\ \A f \in Experiences \ {e} : Untouched(f)
  BY <1>9, <1>10 DEF Untouched
<1>12. history'[e] \in Seq(Events) /\ Appended(e, d, clock)
  BY <1>1, <1>11, AppendedFacts DEF Base
<1>13. TablesTyped
  BY <1>9, <1>10, <1>11, <1>12 DEF TablesTyped
<1>14. \A f \in Known \ {e} : Owner[f] = Owner[e] => Current(f).content # content
  BY DEF CreateVersion, CurrentEquivalents
<1>15. Appended(e, <<Draft("version_created", "", memory'[e])>>, clock)
  BY <1>5, <1>6, <1>11, <1>12
<1>16. /\ Len(versions'[e]) = Len(versions[e]) + 1
       /\ \A k \in 1..Len(versions[e]) : versions'[e][k] = versions[e][k]
       /\ versions'[e][Len(versions[e]) + 1] = v
  BY <1>7, <1>8, <1>11
<1>17. \A f \in Known \ {e} :
         Owner[f] = Owner[e] => Current(f).content # versions'[e][Len(versions[e]) + 1].content
  BY <1>4, <1>14, <1>16
<1>18. /\ memory'[e].temperature = memory[e].temperature
       /\ memory'[e].pinned = memory[e].pinned /\ memory'[e].movedAt = memory[e].movedAt
       /\ SameCount(memory[e], memory'[e])
  BY <1>3, <1>11
<1>19. QED BY <1>1, <1>4, <1>9, <1>11, <1>13, <1>15, <1>16, <1>17, <1>18 DEF Revises

\* A cycle evaluates what is due.
LEMMA CycleFacts ==
  ASSUME Base, NEW at \in Times, RunCycle(at)
  PROVE  TablesTyped /\ \E due \in SUBSET Known : \E target : Cycled(at, due, target)
<1>1. PICK due : due = {e \in Known : Eligible(e, at)}
  OBVIOUS
<1>2. /\ due \in SUBSET Known /\ due \in SUBSET Experiences
      /\ \A e \in due : IsActive(e)
  BY <1>1 DEF Eligible, Known
<1>3. PICK target : /\ \A e \in due : target[e] \in Targets(e, at)
                    /\ ApplyOrderedEvents(due, [e \in due |-> Evaluation(e, target[e], at)], at)
                    /\ answers' = answers \cup {Answer(at, due, target)}
  BY <1>1 DEF RunCycle, Answer
<1>4. MayRun(at)
  BY DEF RunCycle
<1>5. PICK d : d = [e \in due |-> Evaluation(e, target[e], at)]
  OBVIOUS
<1>6. \A e \in due : Evaluates(e, target[e], at, d[e]) /\ Eligible(e, at)
  BY <1>1, <1>2, <1>3, <1>5, EvaluationFacts
<1>7. \A e \in due : d[e] \in Seq(Drafts) /\ Len(d[e]) >= 1
  BY <1>6 DEF Evaluates
<1>8. /\ TablesTyped /\ \A e \in due : Told(e, d[e], at)
      /\ \A e \in Experiences \ due : Untouched(e)
  BY <1>2, <1>3, <1>5, <1>7, OrderedEvents DEF Base
<1>9. Cycled(at, due, target)
  BY <1>2, <1>3, <1>4, <1>5, <1>6, <1>8 DEF Cycled
<1>10. QED BY <1>2, <1>8, <1>9

\* The five kinds of step.
Kinds ==
    \/ Still
    \/ \E e \in Experiences : Enters(e) \/ Revises(e)
    \/ \E S \in SUBSET Known : \E d : Commanded(S, d)
    \/ \E at \in Times, due \in SUBSET Known : \E target : Cycled(at, due, target)

\* Steps of the clock and of the worker leave the experiences alone.
LEMMA StillFacts ==
  ASSUME Base, UNCHANGED <<memory, versions, history, answers>>
  PROVE  TablesTyped /\ Kinds
BY DEF Base, TypeOK, TablesTyped, Kinds, Still, Untouched

\* Every step is of one of the five kinds, and the clock and the worker's time
\* keep their types.
LEMMA StepKinds ==
  ASSUME Base, [Next]_vars
  PROVE  clock' \in Times /\ tick' \in Times \cup {Never} /\ TablesTyped /\ Kinds
<1>1. clock \in Times /\ tick \in Times \cup {Never}
  BY DEF Base, TypeOK
<1>2. CASE AdvanceClock
  <2>1. clock' \in Times /\ tick' = tick
    BY <1>1, <1>2, BoundAssumption DEF AdvanceClock, Times
  <2>2. UNCHANGED <<memory, versions, history, answers>>
    BY <1>2 DEF AdvanceClock
  <2>3. QED BY <1>1, <2>1, <2>2, StillFacts
<1>3. CASE StepBack
  <2>1. clock' \in Times /\ tick' = tick
    BY <1>1, <1>3, BoundAssumption DEF StepBack, Times
  <2>2. UNCHANGED <<memory, versions, history, answers>>
    BY <1>3 DEF StepBack
  <2>3. QED BY <1>1, <2>1, <2>2, StillFacts
<1>4. CASE WorkerTicks
  <2>1. clock' = clock /\ tick' = clock /\ UNCHANGED <<memory, versions, history, answers>>
    BY <1>4 DEF WorkerTicks
  <2>2. QED BY <1>1, <2>1, StillFacts
<1>5. CASE WorkerGivesUp
  <2>1. clock' = clock /\ tick' = Never /\ UNCHANGED <<memory, versions, history, answers>>
    BY <1>5 DEF WorkerGivesUp
  <2>2. QED BY <1>1, <2>1, StillFacts
<1>6. CASE WorkerRuns
  <2>1. tick' = Never
    BY <1>6 DEF WorkerRuns
  <2>2. CASE RunCycle(tick)
    <3>1. clock' = clock
      BY <2>2 DEF RunCycle
    <3>2. PICK at \in Times : at = tick
      BY <1>1, <1>6 DEF WorkerRuns
    <3>3. TablesTyped /\ \E due \in SUBSET Known : \E target : Cycled(at, due, target)
      BY <2>2, <3>2, CycleFacts
    <3>4. QED BY <1>1, <2>1, <3>1, <3>3 DEF Kinds
  <2>3. CASE clock' = clock /\ UNCHANGED <<memory, versions, history, answers>>
    BY <1>1, <2>1, <2>3, StillFacts
  <2>4. QED BY <1>6, <2>2, <2>3 DEF WorkerRuns
<1>7. ASSUME NEW at \in Times, ManualCycle(at)
      PROVE  clock' \in Times /\ tick' \in Times \cup {Never} /\ TablesTyped /\ Kinds
  <2>1. clock' = clock /\ tick' = tick /\ RunCycle(at)
    BY <1>7 DEF ManualCycle, RunCycle
  <2>2. TablesTyped /\ \E due \in SUBSET Known : \E target : Cycled(at, due, target)
    BY <2>1, CycleFacts
  <2>3. QED BY <1>1, <2>1, <2>2 DEF Kinds
<1>8. ASSUME NEW agent \in Agents, NEW S \in SUBSET Experiences, Search(agent, S)
      PROVE  clock' \in Times /\ tick' \in Times \cup {Never} /\ TablesTyped /\ Kinds
  <2>1. clock' = clock /\ tick' = tick
    BY <1>8 DEF Search
  <2>2. TablesTyped /\ \E T \in SUBSET Known : \E d : Commanded(T, d)
    BY <1>8, SearchFacts
  <2>3. QED BY <1>1, <2>1, <2>2 DEF Kinds
<1>9. ASSUME NEW e \in Experiences,
             \/ Confirm(e) \/ Corroborate(e) \/ Refute(e) \/ Pin(e) \/ Unpin(e) \/ Get(e)
      PROVE  clock' \in Times /\ tick' \in Times \cup {Never} /\ TablesTyped /\ Kinds
  <2>1. clock' = clock /\ tick' = tick
    BY <1>9 DEF Confirm, Corroborate, Refute, Pin, Unpin, Get, Mutate
  <2>2. TablesTyped /\ \E T \in SUBSET Known : \E d : Commanded(T, d)
    BY <1>9, OwnerCommandFacts
  <2>3. QED BY <1>1, <2>1, <2>2 DEF Kinds
<1>10. ASSUME NEW e \in Experiences, Restore(e)
       PROVE  clock' \in Times /\ tick' \in Times \cup {Never} /\ TablesTyped /\ Kinds
  <2>1. clock' = clock /\ tick' = tick
    BY <1>10 DEF Restore
  <2>2. TablesTyped /\ \E T \in SUBSET Known : \E d : Commanded(T, d)
    BY <1>10, RestoreFacts
  <2>3. QED BY <1>1, <2>1, <2>2 DEF Kinds
<1>11. ASSUME NEW e \in Experiences, NEW content \in Contents, NEW links \in LinkSets(e),
              CreateVersion(e, content, links)
       PROVE  clock' \in Times /\ tick' \in Times \cup {Never} /\ TablesTyped /\ Kinds
  <2>1. clock' = clock /\ tick' = tick
    BY <1>11 DEF CreateVersion
  <2>2. TablesTyped /\ Revises(e)
    BY <1>11, CreateVersionFacts
  <2>3. QED BY <1>1, <2>1, <2>2 DEF Kinds
<1>12. ASSUME NEW e \in Experiences, NEW content \in Contents, NEW links \in LinkSets(e),
              NEW important \in BOOLEAN, Create(e, content, important, links)
       PROVE  clock' \in Times /\ tick' \in Times \cup {Never} /\ TablesTyped /\ Kinds
  <2>1. clock' = clock /\ tick' = tick
    BY <1>12 DEF Create
  <2>2. TablesTyped /\ Enters(e)
    BY <1>12, CreateFacts
  <2>3. QED BY <1>1, <2>1, <2>2 DEF Kinds
<1>13. CASE UNCHANGED vars
  <2>1. /\ clock' = clock /\ tick' = tick /\ UNCHANGED <<memory, versions, history, answers>>
    BY <1>13 DEF vars
  <2>2. QED BY <1>1, <2>1, StillFacts
<1>14. QED BY <1>2, <1>3, <1>4, <1>5, <1>6, <1>7, <1>8, <1>9, <1>10, <1>11, <1>12, <1>13
           DEF Next

-----------------------------------------------------------------------------
(* The base of every other invariant.                                      *)

\* Every step leaves the worker's receipts, or adds one for its time.
LEMMA ReceiptsStep ==
  ASSUME Base, [Next]_vars
  PROVE  receipts' \subseteq [at : Times, response : Responses]
<1>1. receipts \subseteq [at : Times, response : Responses] /\ tick \in Times \cup {Never}
  BY DEF Base, TypeOK
<1>2. CASE WorkerRuns
  <2>1. tick \in Times
    BY <1>1, <1>2 DEF WorkerRuns
  <2>2. Response(tick) \in Responses
    BY DEF Response, Responses
  <2>3. receipts' = receipts \/ receipts' = receipts \cup {[at |-> tick, response |-> Response(tick)]}
    BY <1>2 DEF WorkerRuns
  <2>4. QED BY <1>1, <2>1, <2>2, <2>3
<1>3. CASE ~WorkerRuns
  <2>1. CASE AdvanceClock \/ StepBack \/ WorkerTicks \/ WorkerGivesUp \/ UNCHANGED vars
    BY <1>1, <2>1 DEF AdvanceClock, StepBack, WorkerTicks, WorkerGivesUp, vars
  <2>2. ASSUME NEW at \in Times, ManualCycle(at) PROVE receipts' = receipts
    BY <2>2 DEF ManualCycle
  <2>3. ASSUME NEW agent \in Agents, NEW S \in SUBSET Experiences, Search(agent, S)
        PROVE  receipts' = receipts
    BY <2>3 DEF Search
  <2>4. ASSUME NEW e \in Experiences,
               \/ Confirm(e) \/ Corroborate(e) \/ Refute(e) \/ Pin(e) \/ Unpin(e) \/ Get(e)
        PROVE  receipts' = receipts
    BY <2>4 DEF Confirm, Corroborate, Refute, Pin, Unpin, Get, Mutate
  <2>5. ASSUME NEW e \in Experiences, Restore(e) PROVE receipts' = receipts
    BY <2>5 DEF Restore
  <2>6. ASSUME NEW e \in Experiences, NEW content \in Contents, NEW links \in LinkSets(e),
               CreateVersion(e, content, links)
        PROVE  receipts' = receipts
    BY <2>6 DEF CreateVersion
  <2>7. ASSUME NEW e \in Experiences, NEW content \in Contents, NEW links \in LinkSets(e),
               NEW important \in BOOLEAN, Create(e, content, important, links)
        PROVE  receipts' = receipts
    BY <2>7 DEF Create
  <2>8. QED BY <1>1, <1>3, <2>1, <2>2, <2>3, <2>4, <2>5, <2>6, <2>7 DEF Next
<1>4. QED BY <1>2, <1>3

\* The answer of a cycle counts sets that contain one another.
LEMMA AnswerFacts ==
  ASSUME NEW at \in Times, NEW due \in SUBSET Experiences, NEW target,
         \A e \in due : target[e] = "archive" => Moves(e, target[e])
  PROVE  LET a == Answer(at, due, target)
         IN  /\ a \in [at : Times, evaluated : Nat, transitions : Nat, archived : Nat]
             /\ a.at = at /\ a.evaluated = Cardinality(due)
             /\ a.archived = Cardinality({e \in due : target[e] = "archive"})
             /\ a.archived <= a.transitions /\ a.transitions <= a.evaluated
<1>1. PICK moved : moved = {e \in due : Moves(e, target[e])}
  OBVIOUS
<1>2. PICK gone : gone = {e \in due : target[e] = "archive"}
  OBVIOUS
<1>3. IsFiniteSet(due) /\ Cardinality(due) \in Nat
  BY ExperiencesAssumption, FS_Subset, FS_CardinalityType
<1>4. moved \subseteq due /\ gone \subseteq moved
  BY <1>1, <1>2
<1>5. IsFiniteSet(moved) /\ Cardinality(moved) \in Nat /\ Cardinality(moved) <= Cardinality(due)
  BY <1>3, <1>4, FS_Subset, FS_CardinalityType
<1>6. Cardinality(gone) \in Nat /\ Cardinality(gone) <= Cardinality(moved)
  BY <1>4, <1>5, FS_Subset, FS_CardinalityType
<1>7. Answer(at, due, target) = [at |-> at, evaluated |-> Cardinality(due),
                                 transitions |-> Cardinality(moved),
                                 archived |-> Cardinality(gone)]
  BY <1>1, <1>2 DEF Answer
<1>8. QED BY <1>2, <1>3, <1>5, <1>6, <1>7

\* A cycle evaluates existing experiences, and moves what it archives.
LEMMA CycledAnswer ==
  ASSUME NEW at \in Times, NEW due \in SUBSET Known, NEW target, Cycled(at, due, target)
  PROVE  /\ due \in SUBSET Experiences
         /\ \A e \in due : target[e] = "archive" => Moves(e, target[e])
BY DEF Cycled, Evaluates, Known

\* What a step may do to one experience.
Fate(e) ==
    \/ Untouched(e)
    \/ Enters(e)
    \/ Revises(e)
    \/ e \in Known /\ \E d : Uses(e, d) /\ Told(e, d, clock)
    \/ /\ e \in Known /\ IsActive(e)
       /\ \E at \in Times : \E target, d :
            Eligible(e, at) /\ Evaluates(e, target, at, d) /\ Told(e, d, at)

\* Every experience meets one of these in every step.
LEMMA Fates ==
  ASSUME Base, [Next]_vars, NEW e \in Experiences
  PROVE  Fate(e)
<1>1. Kinds
  BY StepKinds
<1>2. CASE Still
  BY <1>2 DEF Still, Fate
<1>3. ASSUME NEW f \in Experiences, Enters(f) PROVE Fate(e)
  BY <1>3 DEF Enters, Fate
<1>4. ASSUME NEW f \in Experiences, Revises(f) PROVE Fate(e)
  BY <1>4 DEF Revises, Fate
<1>5. ASSUME NEW S \in SUBSET Known, NEW d, Commanded(S, d) PROVE Fate(e)
  BY <1>5 DEF Commanded, Fate
<1>6. ASSUME NEW at \in Times, NEW due \in SUBSET Known, NEW target, Cycled(at, due, target)
      PROVE  Fate(e)
  BY <1>6 DEF Cycled, Fate
<1>7. QED BY <1>1, <1>2, <1>3, <1>4, <1>5, <1>6 DEF Kinds

\* Entered experiences stay, and pinned ones are hot.
LEMMA LocalBase ==
  ASSUME Base, NEW e \in Experiences, Fate(e)
  PROVE  Entered(e)' /\ PinnedIsHot(e)' /\ (e \in Known => e \in Known')
<1>1. /\ Entered(e) /\ PinnedIsHot(e) /\ Len(versions[e]) \in Nat
      /\ e \in Known <=> memory[e].temperature # "none"
  BY LenProperties DEF Base, TypeOK, Known
<1>2. e \in Known' <=> memory'[e].temperature # "none"
  BY DEF Known
<1>3. CASE Untouched(e)
  BY <1>1, <1>2, <1>3 DEF Untouched, Entered, PinnedIsHot
<1>4. CASE Enters(e)
  <2>1. /\ memory'[e].temperature \in {"hot", "warm"} /\ ~memory'[e].pinned
        /\ Len(versions'[e]) = 1
    BY <1>4 DEF Enters
  <2>2. e \in Known'
    BY <1>2, <2>1
  <2>3. QED BY <2>1, <2>2 DEF Entered, PinnedIsHot
<1>5. CASE Revises(e)
  <2>1. e \in Known /\ memory'[e].temperature = memory[e].temperature
        /\ memory'[e].pinned = memory[e].pinned /\ Len(versions'[e]) = Len(versions[e]) + 1
    BY <1>5 DEF Revises
  <2>2. QED BY <1>1, <1>2, <2>1 DEF Entered, PinnedIsHot
<1>6. ASSUME e \in Known, NEW d, Uses(e, d), Told(e, d, clock)
      PROVE  Entered(e)' /\ PinnedIsHot(e)' /\ e \in Known'
  <2>1. /\ memory'[e].temperature \in Active
        /\ memory'[e].pinned => memory'[e].temperature = "hot"
        /\ Len(versions'[e]) = Len(versions[e])
    BY <1>6 DEF Uses, Told, Kept
  <2>2. QED BY <1>1, <1>2, <1>6, <2>1 DEF Entered, PinnedIsHot, Active
<1>7. ASSUME e \in Known, NEW at, NEW target, NEW d, Evaluates(e, target, at, d), Told(e, d, at)
      PROVE  Entered(e)' /\ PinnedIsHot(e)' /\ e \in Known'
  <2>1. /\ memory'[e].temperature # "none"
        /\ memory'[e].pinned => memory'[e].temperature = "hot"
        /\ Len(versions'[e]) = Len(versions[e])
    BY <1>7 DEF Evaluates, Told, Kept
  <2>2. QED BY <1>1, <1>2, <1>7, <2>1 DEF Entered, PinnedIsHot
<1>8. QED BY <1>3, <1>4, <1>5, <1>6, <1>7 DEF Fate

\* The base holds in the initial states.
LEMMA BaseInit == Init => Base
<1> SUFFICES ASSUME Init PROVE Base
  OBVIOUS
<1>1. NoState \in States
  BY BoundAssumption DEF NoState, States, Temperatures, Times
<1>2. <<>> \in Seq(Versions) /\ <<>> \in Seq(Events)
  OBVIOUS
<1>3. TypeOK
  BY <1>1, <1>2 DEF Init, TypeOK
<1>4. \A e \in Experiences : Entered(e) /\ PinnedIsHot(e)
  BY DEF Init, Entered, PinnedIsHot, Known, NoState
<1>5. QED BY <1>3, <1>4 DEF Base

\* Every step preserves it.
LEMMA BaseStep == Base /\ [Next]_vars => Base'
<1> SUFFICES ASSUME Base, [Next]_vars PROVE Base'
  OBVIOUS
<1>1. clock' \in Times /\ tick' \in Times \cup {Never} /\ TablesTyped /\ Kinds
  BY StepKinds
<1>2. answers' \subseteq [at : Times, evaluated : Nat, transitions : Nat, archived : Nat]
  <2>1. answers \subseteq [at : Times, evaluated : Nat, transitions : Nat, archived : Nat]
    BY DEF Base, TypeOK
  <2>2. ASSUME NEW at \in Times, NEW due \in SUBSET Known, NEW target, Cycled(at, due, target)
        PROVE  answers' \subseteq [at : Times, evaluated : Nat, transitions : Nat, archived : Nat]
    <3>1. Answer(at, due, target) \in
            [at : Times, evaluated : Nat, transitions : Nat, archived : Nat]
      BY <2>2, CycledAnswer, AnswerFacts
    <3>2. answers' = answers \cup {Answer(at, due, target)}
      BY <2>2 DEF Cycled
    <3>3. QED BY <2>1, <3>1, <3>2
  <2>3. answers' = answers \/ \E at \in Times, due \in SUBSET Known : \E target :
                                Cycled(at, due, target)
    BY <1>1 DEF Kinds, Still, Enters, Revises, Commanded
  <2>4. QED BY <2>1, <2>2, <2>3
<1>3. TypeOK'
  BY <1>1, <1>2, ReceiptsStep DEF TypeOK, TablesTyped
<1>4. \A e \in Experiences : Entered(e)' /\ PinnedIsHot(e)'
  BY Fates, LocalBase
<1>5. QED BY <1>3, <1>4 DEF Base

\* The variables keep the shapes of the tables of the source, whatever the
\* agents, the policy and the bounds are.
THEOREM MemoryTypeCorrect == Spec => []TypeOK
<1>1. Base => TypeOK
  BY DEF Base
<1>2. QED BY <1>1, BaseInit, BaseStep, PTL DEF Spec
-----------------------------------------------------------------------------
(* Codecs and current contents.                                            *)

\* The versions of one experience are in the codec of its temperature.
CodecsMatch(e) ==
    e \in Known => \A k \in 1..Len(versions[e]) :
        versions[e][k].codec = PreferredCodec(memory[e].temperature)

\* No two experiences of an owner have the same content now.
UniqueContent ==
    \A e, f \in Known :
        e # f /\ Owner[e] = Owner[f] => Current(e).content # Current(f).content

\* A step leaves or brings the versions of an experience in the codec of its
\* temperature.
LEMMA CodecsStep ==
  ASSUME Base, NEW e \in Experiences, Fate(e), CodecsMatch(e)
  PROVE  CodecsMatch(e)'
<1>1. /\ e \in Known <=> memory[e].temperature # "none"
      /\ e \in Known' <=> memory'[e].temperature # "none"
      /\ Len(versions[e]) \in Nat
  BY LenProperties DEF Base, TypeOK, Known
<1>2. CASE Untouched(e)
  BY <1>1, <1>2 DEF Untouched, CodecsMatch
<1>3. CASE Enters(e)
  <2>1. /\ memory'[e].temperature \in {"hot", "warm"}
        /\ Len(versions'[e]) = 1 /\ versions'[e][1].codec = "plain"
    BY <1>3 DEF Enters
  <2>2. \A k \in 1..Len(versions'[e]) : k = 1
    BY <2>1
  <2>3. QED BY <2>1, <2>2 DEF CodecsMatch, PreferredCodec
<1>4. CASE Revises(e)
  <2>1. /\ e \in Known /\ memory'[e].temperature = memory[e].temperature
        /\ Len(versions'[e]) = Len(versions[e]) + 1
        /\ \A k \in 1..Len(versions[e]) : versions'[e][k] = versions[e][k]
        /\ versions'[e][Len(versions[e]) + 1].codec = PreferredCodec(memory[e].temperature)
    BY <1>4 DEF Revises
  <2>2. ASSUME NEW k \in 1..Len(versions'[e])
        PROVE  versions'[e][k].codec = PreferredCodec(memory[e].temperature)
    <3>1. k \in 1..Len(versions[e]) \/ k = Len(versions[e]) + 1
      BY <1>1, <2>1
    <3>2. QED BY <2>1, <3>1 DEF CodecsMatch
  <2>3. QED BY <2>1, <2>2 DEF CodecsMatch
<1>5. ASSUME e \in Known, Kept(e) PROVE CodecsMatch(e)'
  BY <1>5 DEF Kept, CodecsMatch
<1>6. QED BY <1>2, <1>3, <1>4, <1>5 DEF Fate, Told

\* A step leaves an experience the content it has, or gives it one that no
\* other experience of the owner has.
LEMMA ContentStep ==
  ASSUME Base, UniqueContent, [Next]_vars
  PROVE  UniqueContent'
<1>1. \A e \in Experiences : Fate(e) /\ Entered(e) /\ (e \in Known => e \in Known')
  BY Fates, LocalBase DEF Base
<1>2. ASSUME NEW e \in Experiences, e \in Known', ~Enters(e), ~Revises(e)
      PROVE  e \in Known /\ Current(e)'.content = Current(e).content
  <2>1. CASE Untouched(e)
    BY <1>2, <2>1 DEF Untouched, Known, Current
  <2>2. CASE e \in Known /\ Kept(e)
    <3>1. Len(versions[e]) \in 1..Len(versions[e])
      BY <1>1, <2>2, LenProperties DEF Base, TypeOK, Entered
    <3>2. QED BY <2>2, <3>1 DEF Kept, Current
  <2>3. QED BY <1>1, <1>2, <2>1, <2>2 DEF Fate, Told
<1>3. ASSUME NEW e \in Experiences, Enters(e) \/ Revises(e), NEW f \in Known', f # e,
             Owner[f] = Owner[e]
      PROVE  Current(f)'.content # Current(e)'.content
  <2>1. f \in Experiences /\ Untouched(f)
    BY <1>3 DEF Enters, Revises, Known
  <2>2. f \in Known /\ Current(f)' = Current(f)
    BY <1>3, <2>1 DEF Untouched, Known, Current
  <2>3. QED BY <1>3, <2>2 DEF Enters, Revises, Current
<1>4. ASSUME NEW e \in Known', NEW f \in Known', e # f, Owner[e] = Owner[f]
      PROVE  Current(e)'.content # Current(f)'.content
  <2>1. e \in Experiences /\ f \in Experiences
    BY <1>4 DEF Known
  <2>2. CASE Enters(e) \/ Revises(e)
    BY <1>3, <1>4, <2>1, <2>2
  <2>3. CASE Enters(f) \/ Revises(f)
    BY <1>3, <1>4, <2>1, <2>3
  <2>4. CASE ~Enters(e) /\ ~Revises(e) /\ ~Enters(f) /\ ~Revises(f)
    BY <1>2, <1>4, <2>1, <2>4 DEF UniqueContent
  <2>5. QED BY <2>2, <2>3, <2>4
<1>5. QED BY <1>4 DEF UniqueContent

\* Every version is stored the way the temperature of its experience asks for,
\* and no two experiences of an owner have the same content now: the table has
\* a unique index for it, which no command ever meets.
THEOREM CodecsAndContents == Spec => [](CodecMatchesTemperature /\ UniqueContent)
<1> DEFINE Inv == Base /\ (\A e \in Experiences : CodecsMatch(e)) /\ UniqueContent
<1>1. Init => Inv
  BY BaseInit DEF Init, CodecsMatch, UniqueContent, Known, NoState
<1>2. Inv /\ [Next]_vars => Inv'
  <2> SUFFICES ASSUME Inv, [Next]_vars PROVE Inv'
    OBVIOUS
  <2>1. \A e \in Experiences : CodecsMatch(e)'
    BY Fates, CodecsStep
  <2>2. QED BY <2>1, BaseStep, ContentStep
<1>3. Inv => CodecMatchesTemperature /\ UniqueContent
  BY LenProperties DEF CodecMatchesTemperature, CodecsMatch, Known, Base, TypeOK
<1>4. QED BY <1>1, <1>2, <1>3, PTL DEF Spec
-----------------------------------------------------------------------------
(* What the archive takes.                                                 *)

\* What is cold was demoted when it last moved, and what happened to it since
\* is no use.
ColdSince(e) ==
    memory[e].temperature = "cold" =>
        \E j \in 1..Len(history[e]) :
            /\ history[e][j].note = "lifecycle_demotion"
            /\ history[e][j].at = memory[e].movedAt
            /\ \A i \in (j + 1)..Len(history[e]) : history[e][i].type \in Quiet

\* ForgottenOnlyUnused, of one experience.
Forgotten(e) ==
    \A k \in 1..Len(history[e]) :
        history[e][k].type = "archived" =>
            \E j \in 1..(k - 1) :
                /\ history[e][j].note = "lifecycle_demotion"
                /\ history[e][k].at - history[e][j].at >= ArchiveAfter
                /\ \A i \in (j + 1)..(k - 1) : history[e][i].type \in Quiet

\* A new end of a ledger that archives nothing forgets nothing.
LEMMA ForgottenKept ==
  ASSUME Base, NEW e \in Experiences, Forgotten(e), NEW d, NEW at, Len(d) \in Nat,
         Appended(e, d, at), \A k \in 1..Len(d) : d[k].type # "archived"
  PROVE  Forgotten(e)'
<1>1. Len(history[e]) \in Nat
  BY LenProperties DEF Base, TypeOK
<1>2. ASSUME NEW k \in 1..Len(history'[e]), history'[e][k].type = "archived"
      PROVE  \E j \in 1..(k - 1) :
                /\ history'[e][j].note = "lifecycle_demotion"
                /\ history'[e][k].at - history'[e][j].at >= ArchiveAfter
                /\ \A i \in (j + 1)..(k - 1) : history'[e][i].type \in Quiet
  <2>1. k \in 1..Len(history[e])
    <3>1. Len(history'[e]) = Len(history[e]) + Len(d)
      BY DEF Appended
    <3>2. CASE k > Len(history[e])
      <4>1. PICK m \in 1..Len(d) : k = Len(history[e]) + m
        <5>1. k - Len(history[e]) \in 1..Len(d) /\ k = Len(history[e]) + (k - Len(history[e]))
          BY <1>1, <3>1, <3>2
        <5>2. QED BY <5>1
      <4>2. history'[e][k].type = d[m].type
        BY <4>1 DEF Appended
      <4>3. QED BY <1>2, <4>2
    <3>3. QED BY <1>1, <3>1, <3>2
  <2>2. \A i \in 1..k : history'[e][i] = history[e][i]
    <3>1. \A i \in 1..k : i \in 1..Len(history[e])
      BY <1>1, <2>1
    <3>2. QED BY <3>1 DEF Appended
  <2>3. history'[e][k] = history[e][k]
    BY <2>1 DEF Appended
  <2>4. PICK j \in 1..(k - 1) :
                /\ history[e][j].note = "lifecycle_demotion"
                /\ history[e][k].at - history[e][j].at >= ArchiveAfter
                /\ \A i \in (j + 1)..(k - 1) : history[e][i].type \in Quiet
    BY <1>2, <2>1, <2>3 DEF Forgotten
  <2>5. history'[e][j] = history[e][j]
    BY <1>1, <2>1, <2>2
  <2>6. \A i \in (j + 1)..(k - 1) : history'[e][i].type \in Quiet
    <3>1. \A i \in (j + 1)..(k - 1) : i \in 1..k
      BY <1>1, <2>1
    <3>2. QED BY <2>2, <2>4, <3>1
  <2>7. QED BY <2>3, <2>4, <2>5, <2>6
<1>3. QED BY <1>2 DEF Forgotten

\* Events that are no use leave a cold experience cold since then.
LEMMA ColdKept ==
  ASSUME Base, NEW e \in Experiences, ColdSince(e), NEW d, NEW at, Len(d) \in Nat,
         Appended(e, d, at), \A k \in 1..Len(d) : d[k].type \in Quiet,
         memory[e].temperature = "cold", memory'[e].movedAt = memory[e].movedAt
  PROVE  ColdSince(e)'
<1>1. Len(history[e]) \in Nat /\ Len(history'[e]) = Len(history[e]) + Len(d)
  BY LenProperties DEF Base, TypeOK, Appended
<1>2. PICK j \in 1..Len(history[e]) :
        /\ history[e][j].note = "lifecycle_demotion"
        /\ history[e][j].at = memory[e].movedAt
        /\ \A i \in (j + 1)..Len(history[e]) : history[e][i].type \in Quiet
  BY DEF ColdSince
<1>3. history'[e][j] = history[e][j] /\ j \in 1..Len(history'[e])
  BY <1>1, <1>2 DEF Appended
<1>4. ASSUME NEW i \in (j + 1)..Len(history'[e]) PROVE history'[e][i].type \in Quiet
  <2>1. CASE i <= Len(history[e])
    <3>1. i \in (j + 1)..Len(history[e]) /\ i \in 1..Len(history[e])
      BY <1>1, <2>1
    <3>2. history'[e][i] = history[e][i]
      BY <3>1 DEF Appended
    <3>3. QED BY <1>2, <3>1, <3>2
  <2>2. CASE i > Len(history[e])
    <3>1. i - Len(history[e]) \in 1..Len(d) /\ i = Len(history[e]) + (i - Len(history[e]))
      BY <1>1, <2>2
    <3>2. PICK m \in 1..Len(d) : i = Len(history[e]) + m
      BY <3>1
    <3>3. history'[e][i].type = d[m].type
      BY <3>2 DEF Appended
    <3>4. QED BY <3>3
  <2>3. QED BY <1>1, <2>1, <2>2
<1>5. QED BY <1>2, <1>3, <1>4 DEF ColdSince

\* A step keeps what is known of cold experiences.
LEMMA ColdStep ==
  ASSUME Base, NEW e \in Experiences, Fate(e), ColdSince(e)
  PROVE  ColdSince(e)'
<1>1. Len(history[e]) \in Nat
  BY LenProperties DEF Base, TypeOK
<1>2. SUFFICES ASSUME memory'[e].temperature = "cold" PROVE ColdSince(e)'
  BY DEF ColdSince
<1>3. CASE Untouched(e)
  BY <1>3 DEF Untouched, ColdSince
<1>4. CASE Enters(e)
  BY <1>2, <1>4 DEF Enters
<1>5. CASE Revises(e)
  <2>1. PICK d : d = <<Draft("version_created", "", memory'[e])>>
    OBVIOUS
  <2>2. Len(d) \in Nat /\ \A k \in 1..Len(d) : d[k].type \in Quiet
    <3>1. Len(d) = 1 /\ d[1].type = "version_created"
      BY <2>1 DEF Draft
    <3>2. \A k \in 1..Len(d) : k = 1
      BY <3>1
    <3>3. QED BY <3>1, <3>2 DEF Quiet
  <2>3. /\ Appended(e, d, clock) /\ memory[e].temperature = "cold"
        /\ memory'[e].movedAt = memory[e].movedAt
    BY <1>2, <1>5, <2>1 DEF Revises
  <2>4. QED BY <2>2, <2>3, ColdKept
<1>6. ASSUME NEW d, Uses(e, d), Told(e, d, clock) PROVE ColdSince(e)'
  <2>1. Len(d) \in Nat
    BY <1>6, LenProperties DEF Uses
  <2>2. /\ memory[e].temperature = "cold" /\ memory'[e].movedAt = memory[e].movedAt
        /\ \A k \in 1..Len(d) : d[k].type \in Quiet /\ Appended(e, d, clock)
    BY <1>2, <1>6 DEF Uses, Told
  <2>3. Appended(e, d, clock)
    BY <1>6 DEF Told
  <2>4. QED BY <2>1, <2>2, <2>3, ColdKept
<1>7. ASSUME NEW at \in Times, NEW target, NEW d, Evaluates(e, target, at, d), Told(e, d, at)
      PROVE  ColdSince(e)'
  <2>1. Len(d) \in Nat /\ Len(d) >= 1 /\ Appended(e, d, at)
        /\ memory'[e] = d[Len(d)].after
    BY <1>7, LenProperties DEF Evaluates, Told
  <2>2. CASE memory[e].temperature = "cold"
    <3>1. Len(d) = 1 /\ memory'[e].movedAt = memory[e].movedAt /\ d[1].type = "evaluated"
      BY <1>2, <1>7, <2>1, <2>2 DEF Evaluates
    <3>2. \A k \in 1..Len(d) : k = 1
      BY <3>1
    <3>3. \A k \in 1..Len(d) : d[k].type \in Quiet
      BY <3>1, <3>2 DEF Quiet
    <3>4. QED BY <2>1, <2>2, <3>1, <3>3, ColdKept
  <2>3. CASE memory[e].temperature # "cold"
    <3>1. d[Len(d)].note = "lifecycle_demotion" /\ memory'[e].movedAt = at
      BY <1>2, <1>7, <2>1, <2>3 DEF Evaluates
    <3>2. PICK j : j = Len(history[e]) + Len(d)
      OBVIOUS
    <3>3. /\ j \in 1..Len(history'[e])
          /\ history'[e][j].note = "lifecycle_demotion" /\ history'[e][j].at = at
      <4>1. Len(d) \in 1..Len(d) /\ Len(history'[e]) = j
        BY <2>1, <3>2 DEF Appended
      <4>2. j \in 1..Len(history'[e])
        BY <1>1, <2>1, <3>2, <4>1
      <4>3. QED BY <2>1, <3>1, <3>2, <4>1, <4>2 DEF Appended
    <3>4. \A i \in (j + 1)..Len(history'[e]) : FALSE
      BY <1>1, <2>1, <3>2 DEF Appended
    <3>5. QED BY <3>1, <3>3, <3>4 DEF ColdSince
  <2>4. QED BY <2>2, <2>3
<1>8. QED BY <1>3, <1>4, <1>5, <1>6, <1>7 DEF Fate

\* What an evaluation archives was forgotten.
LEMMA ArchiveForgets ==
  ASSUME Base, NEW e \in Experiences, Forgotten(e), ColdSince(e), NEW at \in Times, NEW d,
         Evaluates(e, "archive", at, d), Appended(e, d, at)
  PROVE  Forgotten(e)'
<1>1. /\ Len(history[e]) \in Nat /\ Len(d) \in Nat /\ Len(d) >= 2
      /\ Len(history'[e]) = Len(history[e]) + Len(d)
  BY LenProperties DEF Base, TypeOK, Evaluates, Appended
<1>2. /\ d[1].type = "evaluated" /\ memory[e].temperature = "cold"
      /\ at - memory[e].movedAt >= ArchiveAfter
      /\ \A k \in 1..Len(d) : d[k].type = "archived" <=> k = 2
  BY DEF Evaluates
<1>3. PICK j \in 1..Len(history[e]) :
        /\ history[e][j].note = "lifecycle_demotion"
        /\ history[e][j].at = memory[e].movedAt
        /\ \A i \in (j + 1)..Len(history[e]) : history[e][i].type \in Quiet
  BY <1>2 DEF ColdSince
<1>4. \A i \in 1..Len(history[e]) : history'[e][i] = history[e][i]
  BY DEF Appended
<1>5. history'[e][Len(history[e]) + 1].type = "evaluated"
  <2>1. 1 \in 1..Len(d)
    BY <1>1
  <2>2. QED BY <1>2, <2>1 DEF Appended
<1>6. history'[e][Len(history[e]) + 2].at = at
  <2>1. 2 \in 1..Len(d)
    BY <1>1
  <2>2. QED BY <2>1 DEF Appended
<1>7. ASSUME NEW k \in 1..Len(history'[e]), history'[e][k].type = "archived"
      PROVE  \E i \in 1..(k - 1) :
                /\ history'[e][i].note = "lifecycle_demotion"
                /\ history'[e][k].at - history'[e][i].at >= ArchiveAfter
                /\ \A l \in (i + 1)..(k - 1) : history'[e][l].type \in Quiet
  <2>1. CASE k <= Len(history[e])
    <3>1. k \in 1..Len(history[e]) /\ history'[e][k] = history[e][k]
      BY <1>1, <1>4, <2>1
    <3>2. PICK i \in 1..(k - 1) :
                /\ history[e][i].note = "lifecycle_demotion"
                /\ history[e][k].at - history[e][i].at >= ArchiveAfter
                /\ \A l \in (i + 1)..(k - 1) : history[e][l].type \in Quiet
      BY <1>7, <3>1 DEF Forgotten
    <3>3. \A l \in (i + 1)..(k - 1) : l \in 1..Len(history[e])
      BY <1>1, <3>1
    <3>4. i \in 1..Len(history[e])
      BY <1>1, <3>1
    <3>5. \A l \in (i + 1)..(k - 1) : history'[e][l].type \in Quiet
      BY <1>4, <3>2, <3>3
    <3>6. QED BY <1>4, <3>1, <3>2, <3>4, <3>5
  <2>2. CASE k > Len(history[e])
    <3>1. k = Len(history[e]) + 2
      <4>1. k - Len(history[e]) \in 1..Len(d) /\ k = Len(history[e]) + (k - Len(history[e]))
        BY <1>1, <2>2
      <4>2. PICK m \in 1..Len(d) : k = Len(history[e]) + m
        BY <4>1
      <4>3. history'[e][k].type = d[m].type
        BY <4>2 DEF Appended
      <4>4. QED BY <1>2, <1>7, <4>2, <4>3
    <3>2. j \in 1..(k - 1) /\ history'[e][j] = history[e][j]
      BY <1>1, <1>4, <3>1
    <3>3. history'[e][k].at - history'[e][j].at >= ArchiveAfter
      BY <1>2, <1>3, <1>6, <3>1, <3>2
    <3>4. ASSUME NEW l \in (j + 1)..(k - 1) PROVE history'[e][l].type \in Quiet
      <4>1. l \in (j + 1)..Len(history[e]) \/ l = Len(history[e]) + 1
        BY <1>1, <3>1
      <4>2. CASE l \in (j + 1)..Len(history[e])
        <5>1. l \in 1..Len(history[e])
          BY <1>1, <4>2
        <5>2. QED BY <1>3, <1>4, <4>2, <5>1
      <4>3. CASE l = Len(history[e]) + 1
        BY <1>5, <4>3 DEF Quiet
      <4>4. QED BY <4>1, <4>2, <4>3
    <3>5. QED BY <1>3, <3>2, <3>3, <3>4
  <2>3. QED BY <1>1, <2>1, <2>2
<1>8. QED BY <1>7 DEF Forgotten

\* Every step archives only what was forgotten.
LEMMA ForgottenStep ==
  ASSUME Base, NEW e \in Experiences, Fate(e), Forgotten(e), ColdSince(e)
  PROVE  Forgotten(e)'
<1>1. CASE Untouched(e)
  BY <1>1 DEF Untouched, Forgotten
<1>2. CASE Enters(e)
  BY <1>2 DEF Enters, Forgotten
<1>3. CASE Revises(e)
  <2>1. PICK d : d = <<Draft("version_created", "", memory'[e])>>
    OBVIOUS
  <2>2. Len(d) = 1 /\ d[1].type = "version_created"
    BY <2>1 DEF Draft
  <2>3. \A k \in 1..Len(d) : k = 1
    BY <2>2
  <2>4. Len(d) \in Nat /\ \A k \in 1..Len(d) : d[k].type # "archived"
    BY <2>2, <2>3
  <2>5. Appended(e, d, clock)
    BY <1>3, <2>1 DEF Revises
  <2>6. QED BY <2>4, <2>5, ForgottenKept
<1>4. ASSUME NEW d, Uses(e, d), Told(e, d, clock) PROVE Forgotten(e)'
  <2>1. /\ Len(d) \in Nat /\ Appended(e, d, clock)
        /\ \A k \in 1..Len(d) : d[k].type # "archived"
    BY <1>4, LenProperties DEF Uses, Told
  <2>2. QED BY <2>1, ForgottenKept
<1>5. ASSUME NEW at \in Times, NEW target, NEW d, Evaluates(e, target, at, d), Told(e, d, at)
      PROVE  Forgotten(e)'
  <2>1. Len(d) \in Nat /\ Appended(e, d, at)
    BY <1>5, LenProperties DEF Evaluates, Told
  <2>2. CASE target = "archive"
    BY <1>5, <2>1, <2>2, ArchiveForgets
  <2>3. CASE target # "archive"
    <3>1. \A k \in 1..Len(d) : d[k].type # "archived"
      BY <1>5, <2>3 DEF Evaluates
    <3>2. QED BY <2>1, <3>1, ForgottenKept
  <2>4. QED BY <2>2, <2>3
<1>6. QED BY <1>1, <1>2, <1>3, <1>4, <1>5 DEF Fate

\* What a cycle archives went cold at least ArchiveAfter before, by a demotion
\* of an earlier cycle, and was not used since, whatever the clock, the owner
\* and the worker did.
THEOREM ArchiveTakesTheForgotten == Spec => []ForgottenOnlyUnused
<1> DEFINE Inv == Base /\ \A e \in Experiences : Forgotten(e) /\ ColdSince(e)
<1>1. Init => Inv
  BY BaseInit DEF Init, Forgotten, ColdSince, NoState
<1>2. Inv /\ [Next]_vars => Inv'
  <2> SUFFICES ASSUME Inv, [Next]_vars PROVE Inv'
    OBVIOUS
  <2>1. \A e \in Experiences : Forgotten(e)' /\ ColdSince(e)'
    BY Fates, ForgottenStep, ColdStep
  <2>2. QED BY <2>1, BaseStep
<1>3. Inv => ForgottenOnlyUnused
  <2> SUFFICES ASSUME Inv PROVE ForgottenOnlyUnused
    OBVIOUS
  <2>1. \A e \in Experiences : DOMAIN history[e] = 1..Len(history[e])
    BY LenProperties DEF Base, TypeOK
  <2>2. QED BY <2>1 DEF ForgottenOnlyUnused, Forgotten, Quiet
<1>4. QED BY <1>1, <1>2, <1>3, PTL DEF Spec

\* A step archives only what no current version of an active experience rests
\* on.
LEMMA ArchiveStep ==
  ASSUME Base, [Next]_vars, NEW e \in Known, memory'[e].temperature = "archived", IsActive(e),
         NEW s \in Known, memory'[s].temperature \in Active, NEW l \in Current(s).links,
         l.target = e
  PROVE  l.relation = "contradicts"
<1>1. e \in Experiences /\ s \in Experiences /\ memory[e].temperature # "archived"
  BY DEF Known, IsActive, Active
<1>2. PICK at \in Times, due \in SUBSET Known : \E target : Cycled(at, due, target)
  <2>1. ~Untouched(e)
    BY <1>1 DEF Untouched
  <2>2. \A f \in Experiences : ~Enters(f) /\ ~Revises(f)
    BY <1>1, <2>1 DEF Enters, Revises
  <2>3. ASSUME NEW S \in SUBSET Known, NEW d PROVE ~Commanded(S, d)
    <3>1. ASSUME Commanded(S, d) PROVE FALSE
      <4>1. e \in S
        BY <1>1, <2>1, <3>1 DEF Commanded
      <4>2. memory'[e].temperature \in Active
        BY <3>1, <4>1 DEF Commanded, Uses, Told
      <4>3. QED BY <4>2 DEF Active
    <3>2. QED BY <3>1
  <2>4. ~Still
    BY <1>1, <2>1 DEF Still
  <2>5. Kinds
    BY StepKinds
  <2>6. QED BY <2>2, <2>3, <2>4, <2>5 DEF Kinds
<1>3. PICK target : Cycled(at, due, target)
  BY <1>2
<1>4. e \notin ActiveDependentTargets
  <2>1. e \in due
    BY <1>1, <1>3 DEF Cycled, Untouched
  <2>2. PICK d : Evaluates(e, target[e], at, d) /\ Told(e, d, at)
    BY <1>3, <2>1 DEF Cycled
  <2>3. target[e] = "archive"
    <3>1. target[e] # "archive" => memory'[e].temperature \in Active
      BY <2>2 DEF Evaluates, Told
    <3>2. QED BY <3>1 DEF Active
  <2>4. QED BY <2>2, <2>3 DEF Evaluates
<1>5. IsActive(s)
  <2>1. CASE s \in due
    BY <1>3, <2>1 DEF Cycled
  <2>2. CASE s \notin due
    BY <1>1, <1>3, <2>2 DEF Cycled, Untouched, IsActive
  <2>3. QED BY <2>1, <2>2
<1>6. l.relation \in Relations
  <2>1. versions[s] \in Seq(Versions) /\ Len(versions[s]) >= 1
    BY <1>1 DEF Base, TypeOK, Entered
  <2>2. Len(versions[s]) \in 1..Len(versions[s])
    BY <2>1, LenProperties
  <2>3. Current(s) \in Versions
    BY <2>1, <2>2, ElementOfSeq DEF Current
  <2>4. QED BY <2>3 DEF Versions, Links
<1>7. l.relation \notin Dependencies
  BY <1>4, <1>5 DEF ActiveDependentTargets
<1>8. QED BY <1>6, <1>7, RelationAssumption DEF Dependencies

\* No cycle archives what the current version of an experience that stays
\* active rests on, in whatever order the links were written and the cycles
\* run.
THEOREM CyclesSpareDependents == Spec => ArchiveSparesDependents
<1> DEFINE Spared ==
      \A e \in Known :
         (memory'[e].temperature = "archived" /\ IsActive(e)) =>
             \A s \in Known : memory'[s].temperature \in Active =>
                 \A l \in Current(s).links :
                     l.target = e => l.relation = "contradicts"
<1>1. Base /\ [Next]_vars => [Spared]_vars
  BY ArchiveStep
<1>2. QED BY <1>1, BaseInit, BaseStep, PTL DEF Spec, ArchiveSparesDependents
-----------------------------------------------------------------------------
(* The answers of cycles.                                                  *)

Marked(e, type, t) ==
    \E k \in DOMAIN history[e] : history[e][k].at = t /\ history[e][k].type = type

MarkedAll(type, t) == {e \in Experiences : Marked(e, type, t)}

\* What cycles alone append.
CycleMarks == {"evaluated", "archived"}

\* CyclesAnswerOnce, and no evaluation without the answer of its cycle.
Answered ==
    /\ \A e \in Experiences, type \in CycleMarks, t \in Times :
         Marked(e, type, t) => \E a \in answers : a.at = t
    /\ \A a, b \in answers : a.at = b.at => a = b
    /\ \A a \in answers :
         /\ a.evaluated = Cardinality(MarkedAll("evaluated", a.at))
         /\ a.archived = Cardinality(MarkedAll("archived", a.at))
         /\ a.archived <= a.transitions /\ a.transitions <= a.evaluated

\* What a new end of a ledger marks.
LEMMA MarksAppended ==
  ASSUME Base, NEW e \in Experiences, history'[e] \in Seq(Events), NEW d, NEW at,
         Len(d) \in Nat, Appended(e, d, at), NEW type, NEW t
  PROVE  Marked(e, type, t)' <=> \/ Marked(e, type, t)
                                 \/ t = at /\ \E k \in 1..Len(d) : d[k].type = type
<1>1. /\ DOMAIN history[e] = 1..Len(history[e]) /\ Len(history[e]) \in Nat
      /\ DOMAIN history'[e] = 1..Len(history'[e])
      /\ Len(history'[e]) = Len(history[e]) + Len(d)
  BY LenProperties DEF Base, TypeOK, Appended
<1>2. Marked(e, type, t) => Marked(e, type, t)'
  <2>1. \A k \in 1..Len(history[e]) : k \in 1..Len(history'[e]) /\ history'[e][k] = history[e][k]
    BY <1>1 DEF Appended
  <2>2. QED BY <1>1, <2>1 DEF Marked
<1>3. ASSUME t = at, NEW k \in 1..Len(d), d[k].type = type PROVE Marked(e, type, t)'
  <2>1. Len(history[e]) + k \in 1..Len(history'[e])
    BY <1>1
  <2>2. history'[e][Len(history[e]) + k].type = type /\ history'[e][Len(history[e]) + k].at = t
    BY <1>3 DEF Appended
  <2>3. QED BY <1>1, <2>1, <2>2 DEF Marked
<1>4. ASSUME NEW k \in 1..Len(history'[e]), history'[e][k].at = t, history'[e][k].type = type
      PROVE  \/ Marked(e, type, t)
             \/ t = at /\ \E m \in 1..Len(d) : d[m].type = type
  <2>1. CASE k <= Len(history[e])
    <3>1. k \in 1..Len(history[e]) /\ history'[e][k] = history[e][k]
      BY <1>1, <2>1 DEF Appended
    <3>2. QED BY <1>1, <1>4, <3>1 DEF Marked
  <2>2. CASE k > Len(history[e])
    <3>1. k - Len(history[e]) \in 1..Len(d) /\ k = Len(history[e]) + (k - Len(history[e]))
      BY <1>1, <2>2
    <3>2. PICK m \in 1..Len(d) : k = Len(history[e]) + m
      BY <3>1
    <3>3. history'[e][k].at = at /\ history'[e][k].type = d[m].type
      BY <3>2 DEF Appended
    <3>4. QED BY <1>4, <3>3
  <2>3. QED BY <1>1, <2>1, <2>2
<1>5. Marked(e, type, t)' => \/ Marked(e, type, t)
                             \/ t = at /\ \E m \in 1..Len(d) : d[m].type = type
  BY <1>1, <1>4 DEF Marked
<1>6. QED BY <1>2, <1>3, <1>5

\* Outside cycles nothing is marked as evaluated or archived.
LEMMA MarksOfCommands ==
  ASSUME Base, TablesTyped, NEW e \in Experiences, NEW type \in CycleMarks, NEW t,
         \/ Untouched(e) \/ Enters(e) \/ Revises(e)
         \/ \E d : Uses(e, d) /\ Told(e, d, clock)
  PROVE  Marked(e, type, t)' <=> Marked(e, type, t)
<1>1. history'[e] \in Seq(Events)
  BY DEF TablesTyped
<1>2. CASE Untouched(e)
  BY <1>2 DEF Untouched, Marked
<1>3. CASE Enters(e)
  <2>1. ~Marked(e, type, t)
    <3>1. history[e] = <<>>
      BY <1>3 DEF Enters, Base, Entered
    <3>2. QED BY <3>1 DEF Marked
  <2>2. ~Marked(e, type, t)'
    <3>1. DOMAIN history'[e] = 1..Len(history'[e])
      BY <1>1, LenProperties
    <3>2. \A k \in 1..Len(history'[e]) : history'[e][k].type \in {"created", "version_created"}
      BY <1>3 DEF Enters
    <3>3. type \notin {"created", "version_created"}
      BY DEF CycleMarks
    <3>4. QED BY <3>1, <3>2, <3>3 DEF Marked
  <2>3. QED BY <2>1, <2>2
<1>4. CASE Revises(e)
  <2>1. PICK d : d = <<Draft("version_created", "", memory'[e])>>
    OBVIOUS
  <2>2. Len(d) = 1 /\ d[1].type = "version_created"
    BY <2>1 DEF Draft
  <2>3. \A k \in 1..Len(d) : k = 1
    BY <2>2
  <2>4. Len(d) \in Nat /\ \A k \in 1..Len(d) : d[k].type # type
    BY <2>2, <2>3 DEF CycleMarks
  <2>5. Appended(e, d, clock)
    BY <1>4, <2>1 DEF Revises
  <2>6. QED BY <1>1, <2>4, <2>5, MarksAppended
<1>5. ASSUME NEW d, Uses(e, d), Told(e, d, clock)
      PROVE  Marked(e, type, t)' <=> Marked(e, type, t)
  <2>1. Len(d) \in Nat /\ Appended(e, d, clock)
    BY <1>5, LenProperties DEF Uses, Told
  <2>2. \A k \in 1..Len(d) : d[k].type # type
    BY <1>5 DEF Uses, CycleMarks
  <2>3. QED BY <1>1, <2>1, <2>2, MarksAppended
<1>6. QED BY <1>2, <1>3, <1>4, <1>5

\* A cycle marks what is due as evaluated, and what it archives as archived.
LEMMA MarksOfCycles ==
  ASSUME Base, TablesTyped, NEW at \in Times, NEW due \in SUBSET Known, NEW target,
         Cycled(at, due, target), NEW e \in Experiences, NEW t
  PROVE  /\ Marked(e, "evaluated", t)' <=> Marked(e, "evaluated", t) \/ (t = at /\ e \in due)
         /\ Marked(e, "archived", t)' <=>
              Marked(e, "archived", t) \/ (t = at /\ e \in due /\ target[e] = "archive")
<1>1. history'[e] \in Seq(Events)
  BY DEF TablesTyped
<1>2. CASE e \notin due
  BY <1>2 DEF Cycled, Untouched, Marked
<1>3. CASE e \in due
  <2>1. PICK d : Evaluates(e, target[e], at, d) /\ Told(e, d, at)
    BY <1>3 DEF Cycled
  <2>2. Len(d) \in Nat /\ Len(d) >= 1 /\ Appended(e, d, at) /\ d[1].type = "evaluated"
    BY <2>1, LenProperties DEF Evaluates, Told
  <2>3. \E k \in 1..Len(d) : d[k].type = "evaluated"
    <3>1. 1 \in 1..Len(d)
      BY <2>2
    <3>2. QED BY <2>2, <3>1
  <2>4. (\E k \in 1..Len(d) : d[k].type = "archived") <=> target[e] = "archive"
    <3>1. \A k \in 1..Len(d) : d[k].type = "archived" <=> target[e] = "archive" /\ k = 2
      BY <2>1 DEF Evaluates
    <3>2. target[e] = "archive" => 2 \in 1..Len(d)
      BY <2>1, <2>2 DEF Evaluates
    <3>3. QED BY <3>1, <3>2
  <2>5. QED BY <1>1, <1>3, <2>2, <2>3, <2>4, MarksAppended
<1>4. QED BY <1>2, <1>3

\* Where no cycle runs, the answers and what they count stay.
LEMMA AnsweredStill ==
  ASSUME Answered, answers' = answers,
         \A e \in Experiences, type \in CycleMarks, t \in Times :
             Marked(e, type, t)' <=> Marked(e, type, t),
         \A a \in answers : a.at \in Times
  PROVE  Answered'
<1>1. \A type \in CycleMarks, t \in Times : MarkedAll(type, t)' = MarkedAll(type, t)
  BY DEF MarkedAll
<1>2. "evaluated" \in CycleMarks /\ "archived" \in CycleMarks
  BY DEF CycleMarks
<1>3. \A a \in answers : /\ MarkedAll("evaluated", a.at)' = MarkedAll("evaluated", a.at)
                         /\ MarkedAll("archived", a.at)' = MarkedAll("archived", a.at)
  BY <1>1, <1>2
<1>4. \A e \in Experiences, type \in CycleMarks, t \in Times :
         Marked(e, type, t)' => \E a \in answers' : a.at = t
  BY DEF Answered
<1>5. \A a, b \in answers' : a.at = b.at => a = b
  BY DEF Answered
<1>6. ASSUME NEW a \in answers'
      PROVE  /\ a.evaluated = Cardinality(MarkedAll("evaluated", a.at)')
             /\ a.archived = Cardinality(MarkedAll("archived", a.at)')
             /\ a.archived <= a.transitions /\ a.transitions <= a.evaluated
  <2>1. a \in answers
    OBVIOUS
  <2>2. /\ a.evaluated = Cardinality(MarkedAll("evaluated", a.at))
        /\ a.archived = Cardinality(MarkedAll("archived", a.at))
        /\ a.archived <= a.transitions /\ a.transitions <= a.evaluated
    BY <2>1 DEF Answered
  <2>3. QED BY <1>3, <2>1, <2>2
<1>7. QED BY <1>4, <1>5, <1>6 DEF Answered

\* A cycle gives the first answer at its time, and it counts what it appends.
LEMMA AnsweredCycle ==
  ASSUME Base, TablesTyped, Answered, NEW at \in Times, NEW due \in SUBSET Known, NEW target,
         Cycled(at, due, target)
  PROVE  Answered'
<1>1. \A a \in answers : a.at # at /\ a.at \in Times
  BY DEF Cycled, MayRun, CompletedCycle, Base, TypeOK
<1>2. PICK new : /\ new = Answer(at, due, target) /\ new.at = at
                 /\ new.evaluated = Cardinality(due)
                 /\ new.archived = Cardinality({e \in due : target[e] = "archive"})
                 /\ new.archived <= new.transitions /\ new.transitions <= new.evaluated
  BY CycledAnswer, AnswerFacts
<1>3. answers' = answers \cup {new}
  BY <1>2 DEF Cycled
<1>4. \A e \in Experiences, type \in CycleMarks : ~Marked(e, type, at)
  BY <1>1 DEF Answered
<1>5. \A e \in Experiences, type \in CycleMarks, t \in Times \ {at} :
        Marked(e, type, t)' <=> Marked(e, type, t)
  BY MarksOfCycles DEF CycleMarks
<1>6. MarkedAll("evaluated", at)' = due
  <2>1. \A e \in Experiences : Marked(e, "evaluated", at)' <=> e \in due
    BY <1>4, MarksOfCycles DEF CycleMarks
  <2>2. due \subseteq Experiences
    BY CycledAnswer
  <2>3. QED BY <2>1, <2>2 DEF MarkedAll
<1>7. MarkedAll("archived", at)' = {e \in due : target[e] = "archive"}
  <2>1. \A e \in Experiences : Marked(e, "archived", at)' <=> e \in due /\ target[e] = "archive"
    BY <1>4, MarksOfCycles DEF CycleMarks
  <2>2. due \subseteq Experiences
    BY CycledAnswer
  <2>3. QED BY <2>1, <2>2 DEF MarkedAll
<1>8. ASSUME NEW e \in Experiences, NEW type \in CycleMarks, NEW t \in Times, Marked(e, type, t)'
      PROVE  \E a \in answers' : a.at = t
  <2>1. CASE t = at
    BY <1>2, <1>3, <2>1
  <2>2. CASE t # at
    BY <1>3, <1>5, <1>8, <2>2 DEF Answered
  <2>3. QED BY <2>1, <2>2
<1>9. \A a, b \in answers' : a.at = b.at => a = b
  BY <1>1, <1>2, <1>3 DEF Answered
<1>10. ASSUME NEW a \in answers'
       PROVE  /\ a.evaluated = Cardinality(MarkedAll("evaluated", a.at)')
              /\ a.archived = Cardinality(MarkedAll("archived", a.at)')
              /\ a.archived <= a.transitions /\ a.transitions <= a.evaluated
  <2>1. CASE a = new
    BY <1>2, <1>6, <1>7, <2>1
  <2>2. CASE a # new
    <3>1. a \in answers /\ a.at \in Times \ {at}
      BY <1>1, <1>3, <2>2
    <3>2. \A type \in CycleMarks : MarkedAll(type, a.at)' = MarkedAll(type, a.at)
      BY <1>5, <3>1 DEF MarkedAll
    <3>3. /\ MarkedAll("evaluated", a.at)' = MarkedAll("evaluated", a.at)
          /\ MarkedAll("archived", a.at)' = MarkedAll("archived", a.at)
      BY <3>2 DEF CycleMarks
    <3>4. QED BY <3>1, <3>3 DEF Answered
  <2>3. QED BY <2>1, <2>2
<1>11. QED BY <1>8, <1>9, <1>10 DEF Answered

\* Every step keeps the answers right.
LEMMA AnsweredStep ==
  ASSUME Base, [Next]_vars, Answered
  PROVE  Answered'
<1>1. TablesTyped /\ Kinds
  BY StepKinds
<1>2. \A a \in answers : a.at \in Times
  BY DEF Base, TypeOK
<1>3. CASE Still
  BY <1>1, <1>2, <1>3, MarksOfCommands, AnsweredStill DEF Still
<1>4. ASSUME NEW f \in Experiences, Enters(f) PROVE Answered'
  <2>1. answers' = answers /\ \A e \in Experiences : Untouched(e) \/ Enters(e)
    BY <1>4 DEF Enters
  <2>2. QED BY <1>1, <1>2, <2>1, MarksOfCommands, AnsweredStill
<1>5. ASSUME NEW f \in Experiences, Revises(f) PROVE Answered'
  <2>1. answers' = answers /\ \A e \in Experiences : Untouched(e) \/ Revises(e)
    BY <1>5 DEF Revises
  <2>2. QED BY <1>1, <1>2, <2>1, MarksOfCommands, AnsweredStill
<1>6. ASSUME NEW S \in SUBSET Known, NEW d, Commanded(S, d) PROVE Answered'
  <2>1. ASSUME NEW e \in Experiences
        PROVE  Untouched(e) \/ \E x : Uses(e, x) /\ Told(e, x, clock)
    <3>1. CASE e \in S
      BY <1>6, <3>1 DEF Commanded
    <3>2. CASE e \notin S
      BY <1>6, <3>2 DEF Commanded
    <3>3. QED BY <3>1, <3>2
  <2>2. answers' = answers
    BY <1>6 DEF Commanded
  <2>3. QED BY <1>1, <1>2, <2>1, <2>2, MarksOfCommands, AnsweredStill
<1>7. ASSUME NEW at \in Times, NEW due \in SUBSET Known, NEW target, Cycled(at, due, target)
      PROVE  Answered'
  BY <1>1, <1>7, AnsweredCycle
<1>8. QED BY <1>1, <1>3, <1>4, <1>5, <1>6, <1>7 DEF Kinds

\* A cycle is answered once, by the worker or by hand, and its answer counts
\* the evaluations and archives the ledger has at its time, in every later
\* state.
THEOREM AnswersCount == Spec => []CyclesAnswerOnce
<1>1. Init => Base /\ Answered
  <2> SUFFICES ASSUME Init PROVE Base /\ Answered
    OBVIOUS
  <2>1. \A e \in Experiences, type \in CycleMarks, t \in Times : ~Marked(e, type, t)
    BY DEF Init, Marked
  <2>2. answers = {}
    BY DEF Init
  <2>3. QED BY BaseInit, <2>1, <2>2 DEF Answered
<1>2. (Base /\ Answered) /\ [Next]_vars => (Base /\ Answered)'
  BY BaseStep, AnsweredStep
<1>3. Base /\ Answered => CyclesAnswerOnce
  BY DEF Answered, CyclesAnswerOnce, MarkedAll, Marked
<1>4. QED BY <1>1, <1>2, <1>3, PTL DEF Spec
-----------------------------------------------------------------------------
(* What a demotion rests on.                                               *)

Evaluations(h, first, last) == {j \in first..last : h[j].type = "evaluated"}

\* The events first..last of a ledger hold n evaluations, which all ask for the
\* same demotion and keep the interval, and no move.
Consecutive(h, first, last, n, note) ==
    LET run == Evaluations(h, first, last) IN
    /\ Cardinality(run) = n
    /\ \A j \in run : h[j].note = note
    /\ \A i, j \in run : i < j => h[j].at - h[i].at >= MinInterval
    /\ \A j \in first..last : h[j].type # "moved"

\* The counter of an experience counts the evaluations since some event; the
\* demotion comes before the count is complete twice.
Counting(e) ==
    LET h == history[e] IN
    /\ memory[e].counter < DemotionCycles
    /\ memory[e].counter # 0 =>
         \E first \in 1..Len(h) :
            /\ Consecutive(h, first, Len(h), memory[e].counter,
                           DemotionOf(memory[e].temperature))
            /\ \A j \in Evaluations(h, first, Len(h)) : h[j].at <= memory[e].evaluatedAt

\* Hysteresis, of one experience.
Demoted(e) ==
    \A k \in 1..Len(history[e]) :
        history[e][k].note = "lifecycle_demotion" =>
            \E first \in 1..(k - 1) : \E note \in Demotions :
                Consecutive(history[e], first, k - 1, DemotionCycles, note)

\* The ledger g, of length m, is h, of length n, with no evaluation after it.
Prolongs(g, m, h, n) ==
    /\ n \in Nat /\ m \in Nat /\ n <= m
    /\ \A k \in 1..n : g[k] = h[k]
    /\ \A k \in (n + 1)..m : g[k].type # "evaluated"

\* Events appended to a ledger change nothing before them, and add nothing to
\* the evaluations if they are none.
LEMMA EvaluationsKept ==
  ASSUME NEW h, NEW g, NEW n, NEW m, Prolongs(g, m, h, n), NEW first \in 1..n
  PROVE  Evaluations(g, first, m) = Evaluations(h, first, n)
<1> USE DEF Prolongs
<1>1. ASSUME NEW j \in first..m, g[j].type = "evaluated" PROVE j \in first..n
  <2>1. j \in (n + 1)..m \/ j \in first..n
    OBVIOUS
  <2>2. QED BY <1>1, <2>1
<1>2. \A j \in first..n : j \in first..m /\ g[j] = h[j]
  OBVIOUS
<1>3. QED BY <1>1, <1>2 DEF Evaluations

\* The same of consecutive evaluations, if nothing moves either.
LEMMA ConsecutiveKept ==
  ASSUME NEW h, NEW g, NEW n \in Nat, NEW m \in Nat, n <= m,
         \A k \in 1..n : g[k] = h[k],
         \A k \in (n + 1)..m : g[k].type \notin {"evaluated", "moved"},
         NEW first \in 1..n, NEW c, NEW note, Consecutive(h, first, n, c, note)
  PROVE  Consecutive(g, first, m, c, note)
<1>1. PICK run : run = Evaluations(h, first, n)
  OBVIOUS
<1>2. Evaluations(g, first, m) = run
  <2>1. Prolongs(g, m, h, n)
    BY DEF Prolongs
  <2>2. Evaluations(g, first, m) = Evaluations(h, first, n)
    BY <2>1, EvaluationsKept
  <2>3. QED BY <1>1, <2>2
<1>3. \A j \in run : g[j] = h[j]
  BY <1>1 DEF Evaluations
<1>4. \A j \in first..m : g[j].type # "moved"
  <2>1. \A j \in first..n : h[j].type # "moved" /\ g[j] = h[j]
    BY DEF Consecutive
  <2>2. \A j \in first..m : j \in first..n \/ j \in (n + 1)..m
    OBVIOUS
  <2>3. QED BY <2>1, <2>2
<1>5. QED BY <1>1, <1>2, <1>3, <1>4 DEF Consecutive

\* The evaluations of a stretch of a ledger are finitely many.
LEMMA EvaluationsFinite ==
  ASSUME NEW h, NEW first \in Int, NEW last \in Int
  PROVE  IsFiniteSet(Evaluations(h, first, last))
<1>1. IsFiniteSet(first..last)
  BY FS_Interval
<1>2. QED BY <1>1, FS_Subset DEF Evaluations

\* One more evaluation, MinInterval after the last one, that asks for the same
\* demotion.
LEMMA OneMore ==
  ASSUME Base, NEW e \in Experiences, Counting(e), NEW at \in Times, Eligible(e, at),
         NEW d, Len(d) \in Nat, Len(d) >= 1, Appended(e, d, at), d[1].type = "evaluated",
         d[1].note = DemotionOf(memory[e].temperature)
  PROVE  LET n == Len(history[e])
             g == history'[e]
         IN  \E first \in 1..(n + 1) :
               /\ Consecutive(g, first, n + 1, memory[e].counter + 1,
                              DemotionOf(memory[e].temperature))
               /\ \A j \in Evaluations(g, first, n + 1) : g[j].at <= at
<1>1. PICK h \in Seq(Events) : h = history[e]
  BY DEF Base, TypeOK
<1>2. PICK n \in Nat : n = Len(h)
  BY <1>1, LenProperties
<1>3. PICK g : g = history'[e]
  OBVIOUS
<1>4. PICK m \in States : m = memory[e]
  BY DEF Base, TypeOK
<1>5. PICK note : note = DemotionOf(m.temperature)
  OBVIOUS
<1>6. /\ \A k \in 1..n : g[k] = h[k]
      /\ g[n + 1].type = "evaluated" /\ g[n + 1].note = note /\ g[n + 1].at = at
  <2>1. 1 \in 1..Len(d)
    OBVIOUS
  <2>2. QED BY <1>1, <1>2, <1>3, <1>4, <1>5, <2>1 DEF Appended
<1>7. \A k \in 1..n : h[k].at \in Times
  <2>1. \A k \in 1..n : h[k] \in Events
    BY <1>2, ElementOfSeq
  <2>2. QED BY <2>1 DEF Events
<1>8. m.counter \in Nat /\ m.evaluatedAt \in Times \cup {Never}
  BY DEF States
<1> HIDE DEF Times
<1>9. CASE m.counter = 0
  <2>1. Evaluations(g, n + 1, n + 1) = {n + 1}
    BY <1>6 DEF Evaluations
  <2>2. Cardinality({n + 1}) = m.counter + 1
    <3>1. Cardinality({n + 1}) = 1
      BY FS_Singleton
    <3>2. QED BY <1>9, <3>1
  <2>3. Consecutive(g, n + 1, n + 1, m.counter + 1, note)
    <3>1. \A j \in (n + 1)..(n + 1) : j = n + 1
      OBVIOUS
    <3>2. \A i, j \in {n + 1} : ~(i < j)
      OBVIOUS
    <3>3. \A j \in (n + 1)..(n + 1) : g[j].type # "moved"
      BY <1>6, <3>1
    <3>4. \A j \in {n + 1} : g[j].note = note
      BY <1>6
    <3>5. QED BY <2>1, <2>2, <3>2, <3>3, <3>4 DEF Consecutive
  <2>4. \A j \in Evaluations(g, n + 1, n + 1) : g[j].at <= at
    BY <1>6, <2>1 DEF Times
  <2>5. n + 1 \in 1..(n + 1)
    OBVIOUS
  <2>6. QED BY <1>1, <1>2, <1>3, <1>4, <1>5, <2>3, <2>4, <2>5
<1>10. CASE m.counter # 0
  <2>1. PICK first \in 1..n :
          /\ Consecutive(h, first, n, m.counter, note)
          /\ \A j \in Evaluations(h, first, n) : h[j].at <= m.evaluatedAt
    BY <1>1, <1>2, <1>4, <1>5, <1>10 DEF Counting
  <2>2. PICK run : run = Evaluations(h, first, n)
    OBVIOUS
  <2>3. IsFiniteSet(run) /\ Cardinality(run) = m.counter /\ run \subseteq first..n
    BY <2>1, <2>2, EvaluationsFinite DEF Consecutive, Evaluations
  <2>4. Evaluations(g, first, n + 1) = run \cup {n + 1}
    <3>1. \A j \in first..(n + 1) : j \in first..n \/ j = n + 1
      OBVIOUS
    <3>2. \A j \in first..n : g[j] = h[j] /\ j \in first..(n + 1)
      BY <1>6
    <3>3. n + 1 \in first..(n + 1)
      OBVIOUS
    <3>4. QED BY <1>6, <2>2, <3>1, <3>2, <3>3 DEF Evaluations
  <2>5. Cardinality(run \cup {n + 1}) = m.counter + 1
    <3>1. n + 1 \notin run
      BY <2>3
    <3>2. QED BY <2>3, <3>1, FS_AddElement
  <2>6. \A j \in run : /\ g[j] = h[j] /\ h[j].note = note /\ j < n + 1
                       /\ h[j].at \in Times /\ h[j].at <= m.evaluatedAt
    BY <1>6, <1>7, <2>1, <2>2, <2>3 DEF Consecutive
  <2>7. m.evaluatedAt \in Times /\ at - m.evaluatedAt >= MinInterval
    <3>1. PICK j \in run : TRUE
      BY <1>8, <1>10, <2>3, FS_EmptySet
    <3>2. m.evaluatedAt # Never
      BY <1>8, <2>6, <3>1, BoundAssumption DEF Times, Never
    <3>3. QED BY <1>4, <1>8, <3>2 DEF Eligible
  <2>8. \A j \in run : at - h[j].at >= MinInterval
    BY <2>6, <2>7, PolicyAssumption, BoundAssumption DEF Times
  <2>9. \A i, j \in run \cup {n + 1} : i < j => g[j].at - g[i].at >= MinInterval
    <3>1. \A i, j \in run : i < j => h[j].at - h[i].at >= MinInterval
      BY <2>1, <2>2 DEF Consecutive
    <3>2. ASSUME NEW i \in run \cup {n + 1}, NEW j \in run \cup {n + 1}, i < j
          PROVE  g[j].at - g[i].at >= MinInterval
      <4>1. i \in run
        BY <2>3, <3>2
      <4>2. CASE j \in run
        BY <2>6, <3>1, <3>2, <4>1, <4>2
      <4>3. CASE j = n + 1
        BY <1>6, <2>6, <2>8, <4>1, <4>3
      <4>4. QED BY <4>2, <4>3
    <3>3. QED BY <3>2
  <2>10. \A j \in first..(n + 1) : g[j].type # "moved"
    <3>1. \A j \in first..n : h[j].type # "moved" /\ g[j] = h[j]
      BY <1>6, <2>1 DEF Consecutive
    <3>2. \A j \in first..(n + 1) : j \in first..n \/ j = n + 1
      OBVIOUS
    <3>3. QED BY <1>6, <3>1, <3>2
  <2>11. Consecutive(g, first, n + 1, m.counter + 1, note)
    BY <1>6, <2>4, <2>5, <2>6, <2>9, <2>10 DEF Consecutive
  <2>12. \A j \in Evaluations(g, first, n + 1) : g[j].at <= at
    <3>1. \A j \in run : g[j].at <= at
      BY <2>6, <2>8, PolicyAssumption, BoundAssumption, SMTT(30) DEF Times
    <3>2. g[n + 1].at <= at
      BY <1>6, BoundAssumption DEF Times
    <3>3. QED BY <2>4, <3>1, <3>2
  <2>13. first \in 1..(n + 1)
    OBVIOUS
  <2>14. QED BY <1>1, <1>2, <1>3, <1>4, <1>5, <2>11, <2>12, <2>13
<1>11. QED BY <1>9, <1>10

\* A step keeps the count.
LEMMA CountingStep ==
  ASSUME Base, NEW e \in Experiences, Fate(e), Counting(e)
  PROVE  Counting(e)'
<1>1. Len(history[e]) \in Nat /\ memory[e].counter < DemotionCycles
  BY LenProperties DEF Base, TypeOK, Counting
<1>2. CASE memory'[e].counter = 0
  BY <1>2, PolicyAssumption DEF Counting
<1>3. ASSUME SameCount(memory[e], memory'[e]), memory'[e].counter # 0,
             NEW d, NEW at, Len(d) \in Nat, Appended(e, d, at),
             \A k \in 1..Len(d) : d[k].type \notin {"evaluated", "moved"}
      PROVE  Counting(e)'
  <2>1. PICK h : h = history[e]
    OBVIOUS
  <2>2. PICK g : g = history'[e]
    OBVIOUS
  <2>3. PICK n \in Nat : n = Len(h)
    BY <1>1, <2>1
  <2>4. PICK m \in Nat : m = Len(g) /\ n <= m
    BY <1>3, <2>1, <2>2, <2>3 DEF Appended
  <2>5. \A k \in 1..n : g[k] = h[k]
    BY <1>3, <2>1, <2>2, <2>3 DEF Appended
  <2>6. ASSUME NEW k \in (n + 1)..m PROVE g[k].type \notin {"evaluated", "moved"}
    <3>1. m = n + Len(d)
      BY <1>3, <2>1, <2>2, <2>3, <2>4 DEF Appended
    <3>2. k - n \in 1..Len(d) /\ k = n + (k - n)
      BY <1>3, <3>1
    <3>3. PICK i \in 1..Len(d) : k = n + i
      BY <3>2
    <3>4. g[k].type = d[i].type
      BY <1>3, <2>1, <2>2, <2>3, <3>3 DEF Appended
    <3>5. QED BY <1>3, <3>4
  <2>7. PICK first \in 1..n :
          /\ Consecutive(h, first, n, memory[e].counter, DemotionOf(memory[e].temperature))
          /\ \A j \in Evaluations(h, first, n) : h[j].at <= memory[e].evaluatedAt
    BY <1>3, <2>1, <2>3 DEF Counting, SameCount
  <2>8. Consecutive(g, first, m, memory[e].counter, DemotionOf(memory[e].temperature))
    <3>1. PICK c : c = memory[e].counter
      OBVIOUS
    <3>2. PICK note : note = DemotionOf(memory[e].temperature)
      OBVIOUS
    <3>3. Consecutive(h, first, n, c, note)
      BY <2>7, <3>1, <3>2
    <3>4. Consecutive(g, first, m, c, note)
      BY <2>4, <2>5, <2>6, <3>3, ConsecutiveKept
    <3>5. QED BY <3>1, <3>2, <3>4
  <2>9. \A j \in Evaluations(g, first, m) : g[j].at <= memory[e].evaluatedAt
    <3>1. Prolongs(g, m, h, n)
      BY <2>4, <2>5, <2>6 DEF Prolongs
    <3>2. Evaluations(g, first, m) = Evaluations(h, first, n)
      BY <3>1, EvaluationsKept
    <3>3. \A j \in Evaluations(h, first, n) : g[j] = h[j]
      BY <2>5 DEF Evaluations
    <3>4. QED BY <2>7, <3>2, <3>3
  <2>10. first \in 1..m
    BY <2>4
  <2>11. /\ memory'[e].counter = memory[e].counter
         /\ memory'[e].evaluatedAt = memory[e].evaluatedAt
         /\ memory'[e].temperature = memory[e].temperature
    BY <1>3 DEF SameCount
  <2>12. QED BY <1>1, <2>2, <2>4, <2>8, <2>9, <2>10, <2>11 DEF Counting
<1>4. CASE Untouched(e)
  BY <1>4 DEF Untouched, Counting
<1>5. CASE Enters(e)
  BY <1>2, <1>5 DEF Enters
<1>6. CASE Revises(e)
  <2>1. PICK d : d = <<Draft("version_created", "", memory'[e])>>
    OBVIOUS
  <2>2. Len(d) \in Nat /\ \A k \in 1..Len(d) : d[k].type \notin {"evaluated", "moved"}
    <3>1. Len(d) = 1 /\ d[1].type = "version_created"
      BY <2>1 DEF Draft
    <3>2. \A k \in 1..Len(d) : k = 1
      BY <3>1
    <3>3. QED BY <3>1, <3>2
  <2>3. Appended(e, d, clock) /\ SameCount(memory[e], memory'[e])
    BY <1>6, <2>1 DEF Revises
  <2>4. QED BY <1>2, <1>3, <2>2, <2>3
<1>7. ASSUME NEW d, Uses(e, d), Told(e, d, clock) PROVE Counting(e)'
  <2>1. Len(d) \in Nat /\ Appended(e, d, clock) /\ memory'[e] = d[Len(d)].after
    BY <1>7, LenProperties DEF Uses, Told
  <2>2. CASE memory'[e].counter # 0
    <3>1. SameCount(memory[e], memory'[e]) /\ \A k \in 1..Len(d) : d[k].type # "moved"
      BY <1>7, <2>1, <2>2 DEF Uses, KeepsCount
    <3>2. \A k \in 1..Len(d) : d[k].type # "evaluated"
      BY <1>7 DEF Uses
    <3>3. QED BY <1>3, <2>1, <2>2, <3>1, <3>2
  <2>3. QED BY <1>2, <2>2
<1>8. ASSUME NEW at \in Times, NEW target, NEW d, Eligible(e, at),
             Evaluates(e, target, at, d), Told(e, d, at)
      PROVE  Counting(e)'
  <2>1. /\ Len(d) \in Nat /\ Len(d) >= 1 /\ Appended(e, d, at)
        /\ memory'[e] = d[Len(d)].after
    BY <1>8, LenProperties DEF Evaluates, Told
  <2>2. Counts(e, target, at, d) /\ d[1].type = "evaluated"
    BY <1>8 DEF Evaluates
  <2>3. CASE memory'[e].counter # 0
    <3>1. /\ Len(d) = 1 /\ target = DemotionOf(memory[e].temperature)
          /\ memory'[e].counter = memory[e].counter + 1
          /\ memory'[e].counter < DemotionCycles
          /\ memory'[e].evaluatedAt = at
          /\ memory'[e].temperature = memory[e].temperature
      BY <2>1, <2>2, <2>3 DEF Counts
    <3>2. d[1].note = DemotionOf(memory[e].temperature)
      BY <2>2, <3>1 DEF Counts
    <3>3. Len(history'[e]) = Len(history[e]) + 1
      BY <2>1, <3>1 DEF Appended
    <3>4. PICK first \in 1..(Len(history[e]) + 1) :
            /\ Consecutive(history'[e], first, Len(history[e]) + 1,
                           memory[e].counter + 1, DemotionOf(memory[e].temperature))
            /\ \A j \in Evaluations(history'[e], first, Len(history[e]) + 1) :
                 history'[e][j].at <= at
      BY <1>8, <2>1, <2>2, <3>2, OneMore
    <3>5. QED BY <3>1, <3>3, <3>4 DEF Counting
  <2>4. QED BY <1>2, <2>3
<1>9. QED BY <1>4, <1>5, <1>6, <1>7, <1>8 DEF Fate

\* A step demotes what the count says.
LEMMA DemotedStep ==
  ASSUME Base, NEW e \in Experiences, Fate(e), Counting(e), Demoted(e)
  PROVE  Demoted(e)'
<1>1. Len(history[e]) \in Nat
  BY LenProperties DEF Base, TypeOK
<1>2. CASE Untouched(e)
  BY <1>2 DEF Untouched, Demoted
<1>3. CASE Enters(e)
  <2>1. \A k \in 1..Len(history'[e]) : history'[e][k].note = ""
    BY <1>3 DEF Enters
  <2>2. \A k \in 1..Len(history'[e]) : history'[e][k].note # "lifecycle_demotion"
    BY <2>1
  <2>3. QED BY <2>2 DEF Demoted
<1>4. ASSUME NEW d, NEW at, Len(d) \in Nat, Appended(e, d, at),
             NEW k \in 1..Len(history'[e]),
             history'[e][k].note = "lifecycle_demotion",
             ~\E i \in 1..Len(d) : k = Len(history[e]) + i /\ d[i].note = "lifecycle_demotion"
      PROVE  \E first \in 1..(k - 1) : \E note \in Demotions :
               Consecutive(history'[e], first, k - 1, DemotionCycles, note)
  <2>1. PICK h : h = history[e]
    OBVIOUS
  <2>2. PICK g : g = history'[e]
    OBVIOUS
  <2>3. PICK n \in Nat : n = Len(h)
    BY <1>1, <2>1
  <2>4. k \in 1..n
    <3>1. Len(g) = n + Len(d)
      BY <1>4, <2>1, <2>2, <2>3 DEF Appended
    <3>2. CASE k > n
      <4>1. k - n \in 1..Len(d) /\ k = n + (k - n)
        BY <1>4, <2>2, <3>1, <3>2
      <4>2. PICK i \in 1..Len(d) : k = n + i
        BY <4>1
      <4>3. g[k].note = d[i].note
        BY <1>4, <2>1, <2>2, <2>3, <4>2 DEF Appended
      <4>4. QED BY <1>4, <2>1, <2>2, <2>3, <4>2, <4>3
    <3>3. QED BY <1>4, <2>2, <3>1, <3>2
  <2>5. \A i \in 1..n : g[i] = h[i]
    BY <1>4, <2>1, <2>2, <2>3 DEF Appended
  <2>6. PICK first \in 1..(k - 1) : \E note \in Demotions :
          Consecutive(h, first, k - 1, DemotionCycles, note)
    BY <1>4, <2>1, <2>2, <2>3, <2>4, <2>5 DEF Demoted
  <2>7. PICK note \in Demotions : Consecutive(h, first, k - 1, DemotionCycles, note)
    BY <2>6
  <2>8. /\ k - 1 \in Nat /\ \A i \in 1..(k - 1) : g[i] = h[i]
        /\ \A i \in ((k - 1) + 1)..(k - 1) : g[i].type \notin {"evaluated", "moved"}
    BY <2>4, <2>5
  <2>9. Consecutive(g, first, k - 1, DemotionCycles, note)
    BY <2>7, <2>8, ConsecutiveKept
  <2>10. QED BY <2>2, <2>9
<1>5. CASE Revises(e)
  <2>1. PICK d : d = <<Draft("version_created", "", memory'[e])>>
    OBVIOUS
  <2>2. Len(d) \in Nat /\ \A i \in 1..Len(d) : d[i].note # "lifecycle_demotion"
    <3>1. Len(d) = 1 /\ d[1].note # "lifecycle_demotion"
      BY <2>1 DEF Draft
    <3>2. \A i \in 1..Len(d) : i = 1
      BY <3>1
    <3>3. QED BY <3>1, <3>2
  <2>3. Appended(e, d, clock)
    BY <1>5, <2>1 DEF Revises
  <2>4. QED BY <1>4, <2>2, <2>3 DEF Demoted
<1>6. ASSUME NEW d, Uses(e, d), Told(e, d, clock) PROVE Demoted(e)'
  <2>1. Len(d) \in Nat /\ Appended(e, d, clock)
    BY <1>6, LenProperties DEF Uses, Told
  <2>2. \A i \in 1..Len(d) : d[i].note # "lifecycle_demotion"
    BY <1>6 DEF Uses
  <2>3. QED BY <1>4, <2>1, <2>2 DEF Demoted
<1>7. ASSUME NEW at \in Times, NEW target, NEW d, Eligible(e, at),
             Evaluates(e, target, at, d), Told(e, d, at)
      PROVE  Demoted(e)'
  <2>1. /\ Len(d) \in Nat /\ Len(d) >= 1 /\ Appended(e, d, at)
    BY <1>7, LenProperties DEF Evaluates, Told
  <2>2. Counts(e, target, at, d) /\ d[1].type = "evaluated"
    BY <1>7 DEF Evaluates
  <2>3. SUFFICES ASSUME NEW k \in 1..Len(history'[e]),
                        history'[e][k].note = "lifecycle_demotion"
                 PROVE  \E first \in 1..(k - 1) : \E note \in Demotions :
                          Consecutive(history'[e], first, k - 1, DemotionCycles, note)
    BY DEF Demoted
  <2>4. CASE ~\E i \in 1..Len(d) : k = Len(history[e]) + i /\ d[i].note = "lifecycle_demotion"
    BY <1>4, <2>1, <2>3, <2>4
  <2>5. ASSUME NEW i \in 1..Len(d), k = Len(history[e]) + i,
               d[i].note = "lifecycle_demotion"
        PROVE  \E first \in 1..(k - 1) : \E note \in Demotions :
                 Consecutive(history'[e], first, k - 1, DemotionCycles, note)
    <3>1. /\ i = 2 /\ d[1].note = DemotionOf(memory[e].temperature)
          /\ memory[e].counter + 1 >= DemotionCycles
      BY <2>2, <2>5 DEF Counts
    <3>2. k - 1 = Len(history[e]) + 1
      BY <1>1, <2>5, <3>1
    <3>3. memory[e].counter + 1 = DemotionCycles
      <4>1. memory[e].counter \in Nat /\ memory[e].counter < DemotionCycles
        BY DEF Base, TypeOK, States, Counting
      <4>2. QED BY <3>1, <4>1, PolicyAssumption
    <3>4. PICK first \in 1..(Len(history[e]) + 1) :
            Consecutive(history'[e], first, Len(history[e]) + 1,
                        memory[e].counter + 1, DemotionOf(memory[e].temperature))
      BY <1>7, <2>1, <2>2, <3>1, OneMore
    <3>5. DemotionOf(memory[e].temperature) \in Demotions
      BY DEF DemotionOf, Demotions
    <3>6. QED BY <3>2, <3>3, <3>4, <3>5
  <2>6. QED BY <2>4, <2>5
<1>8. QED BY <1>2, <1>3, <1>5, <1>6, <1>7 DEF Fate

\* lifecycle/policy.py: a demotion rests on DemotionCycles consecutive
\* evaluations that all asked for it, MinInterval apart, with no move between.
THEOREM DemotionsAreEarned == Spec => []Hysteresis
<1> DEFINE Inv == Base /\ \A e \in Experiences : Counting(e) /\ Demoted(e)
<1>1. Init => Inv
  <2>1. ASSUME Init, NEW e \in Experiences PROVE Counting(e) /\ Demoted(e)
    <3>1. memory[e].counter = 0 /\ history[e] = <<>>
      BY <2>1 DEF Init, NoState
    <3>2. \A k \in 1..Len(history[e]) : FALSE
      BY <3>1
    <3>3. QED BY <3>1, <3>2, PolicyAssumption DEF Counting, Demoted
  <2>2. QED BY <2>1, BaseInit
<1>2. Inv /\ [Next]_vars => Inv'
  <2> SUFFICES ASSUME Inv, [Next]_vars PROVE Inv'
    OBVIOUS
  <2>1. \A e \in Experiences : Counting(e)' /\ Demoted(e)'
    BY Fates, CountingStep, DemotedStep
  <2>2. QED BY <2>1, BaseStep
<1>3. Inv => Hysteresis
  <2> SUFFICES ASSUME Inv, NEW e \in Experiences, NEW k \in DOMAIN history[e],
                      history[e][k].note = "lifecycle_demotion"
               PROVE  \E first \in 1..(k - 1) :
                        LET run == {j \in first..(k - 1) : history[e][j].type = "evaluated"}
                        IN  /\ Cardinality(run) = DemotionCycles
                            /\ \A i, j \in run :
                                 /\ history[e][j].note \in Demotions
                                 /\ history[e][i].note = history[e][j].note
                                 /\ i < j => history[e][j].at - history[e][i].at >= MinInterval
                            /\ \A j \in first..(k - 1) : history[e][j].type # "moved"
    BY DEF Hysteresis
  <2>1. k \in 1..Len(history[e])
    BY LenProperties DEF Base, TypeOK
  <2>2. PICK first \in 1..(k - 1) : \E note \in Demotions :
          Consecutive(history[e], first, k - 1, DemotionCycles, note)
    BY <2>1 DEF Demoted
  <2>3. QED BY <2>2 DEF Consecutive, Evaluations
<1>4. QED BY <1>1, <1>2, <1>3, PTL DEF Spec

-----------------------------------------------------------------------------
(* The inductive invariant.                                                *)

Final(s) == s[Len(s)]

\* What is projected before the event k.
Preceding(h, k) == IF k = 1 THEN NoState ELSE h[k - 1].after

\* Every event goes on from the one before it, and the reducer accepts it.
Taken(h, rows) ==
    \A k \in 1..Len(h) : /\ h[k].before = Preceding(h, k)
                         /\ Accepts(h, rows, Preceding(h, k), k)

\* A time that is not before the ledger is not before the state and the versions.
Anchored(e) ==
    \A at \in Times : NotBefore(e, at) =>
        /\ memory[e].movedAt <= at /\ memory[e].evaluatedAt <= at
        /\ \A v \in 1..Len(versions[e]) : versions[e][v].at <= at

\* What the next event of an experience rests on.
Ready(e) ==
    /\ Len(history[e]) >= 2
    /\ Final(history[e]).after = memory[e]
    /\ memory[e].version = Len(versions[e])
    /\ memory[e].temperature = "archived" =>
         Final(history[e]).type = "moved" /\ Final(history[e]).note = "policy_archive"
    /\ Anchored(e)

Ledgered(e) == Taken(history[e], versions[e]) /\ (e \in Known => Ready(e))

-----------------------------------------------------------------------------
(* A ledger that the reducer accepts, it goes on accepting.                *)

\* The ledger g, with the versions more, is h and rows and what came later.
Grown(h, rows, g, more) ==
    /\ Len(h) \in Nat /\ Len(g) \in Nat /\ Len(h) <= Len(g)
    /\ \A k \in 1..Len(h) : g[k] = h[k]
    /\ DOMAIN rows = 1..Len(rows) /\ DOMAIN more = 1..Len(more)
    /\ Len(rows) \in Nat \ {0} /\ Len(more) \in Nat /\ Len(rows) <= Len(more)
    /\ \A v \in 1..Len(rows) : more[v].at = rows[v].at

\* What an event is accepted by does not change.
LEMMA AcceptedStill ==
  ASSUME NEW h, NEW rows, NEW g, NEW more, Grown(h, rows, g, more),
         NEW k \in 1..Len(h), NEW state, Accepts(h, rows, state, k)
  PROVE  Accepts(g, more, state, k)
<1> USE DEF Grown
<1>1. /\ g[k] = h[k] /\ more[1].at = rows[1].at
      /\ DOMAIN rows \subseteq DOMAIN more
      /\ \A v \in DOMAIN rows : more[v].at = rows[v].at
  OBVIOUS
<1>2. k >= 3 => g[k - 1] = h[k - 1] /\ g[1] = h[1]
  OBVIOUS
<1>3. CASE h[k].type = "created"
  BY <1>1, <1>3 DEF Accepts, CreatedAgrees
<1>4. CASE h[k].type = "version_created"
  <2>1. VersionAgrees(h, rows, state, k)
    BY <1>4 DEF Accepts
  <2>2. VersionAgrees(g, more, state, k)
    <3>1. CASE h[k].after.version = 1
      BY <1>1, <2>1, <3>1 DEF VersionAgrees
    <3>2. CASE h[k].after.version # 1
      <4>1. /\ k > 2 /\ h[k].after.version \in 1..Len(rows)
            /\ h[k].after.version - 1 \in 1..Len(rows)
        BY <2>1, <3>2 DEF VersionAgrees
      <4>2. more[h[k].after.version - 1].at = rows[h[k].after.version - 1].at
        BY <4>1
      <4>3. k >= 3
        BY <4>1
      <4>4. CausalAnchors(g[k - 1], state, g[1], more[h[k].after.version - 1])
              = CausalAnchors(h[k - 1], state, h[1], rows[h[k].after.version - 1])
        BY <1>2, <4>2, <4>3 DEF CausalAnchors
      <4>5. QED BY <1>1, <2>1, <3>2, <4>1, <4>4 DEF VersionAgrees
    <3>3. QED BY <3>1, <3>2
  <2>3. QED BY <1>1, <1>4, <2>2 DEF Accepts
<1>5. CASE h[k].type \notin {"created", "version_created"}
  <2>1. StateEventAgrees(h, rows, state, k)
    BY <1>5 DEF Accepts
  <2>2. k >= 3 /\ state.version \in DOMAIN rows
    BY <2>1 DEF StateEventAgrees, InContext
  <2>3. CausalAnchors(g[k - 1], state, g[1], more[state.version])
          = CausalAnchors(h[k - 1], state, h[1], rows[state.version])
    BY <1>1, <1>2, <2>2 DEF CausalAnchors
  <2>4. StateEventAgrees(g, more, state, k)
    BY <1>1, <1>2, <2>1, <2>2, <2>3 DEF StateEventAgrees, InContext
  <2>5. QED BY <1>1, <1>5, <2>4 DEF Accepts
<1>6. QED BY <1>3, <1>4, <1>5

\* So a ledger is taken if it was, and its new events are.
LEMMA TakenStill ==
  ASSUME NEW h, NEW rows, NEW g, NEW more, Grown(h, rows, g, more), Taken(h, rows),
         \A k \in (Len(h) + 1)..Len(g) : /\ g[k].before = Preceding(g, k)
                                         /\ Accepts(g, more, Preceding(g, k), k)
  PROVE  Taken(g, more)
<1>1. ASSUME NEW k \in 1..Len(h)
      PROVE  g[k].before = Preceding(g, k) /\ Accepts(g, more, Preceding(g, k), k)
  <2>1. h[k].before = Preceding(h, k) /\ Accepts(h, rows, Preceding(h, k), k)
    BY DEF Taken
  <2>2. g[k] = h[k] /\ (k # 1 => g[k - 1] = h[k - 1])
    BY DEF Grown
  <2>3. Preceding(g, k) = Preceding(h, k)
    BY <2>2 DEF Preceding
  <2>4. QED BY <2>1, <2>2, <2>3, AcceptedStill
<1>2. \A k \in 1..Len(g) : k \in 1..Len(h) \/ k \in (Len(h) + 1)..Len(g)
  BY DEF Grown
<1>3. QED BY <1>1, <1>2 DEF Taken
-----------------------------------------------------------------------------
(* Events that the reducer accepts after the event prior.                  *)

Succeeds(prior, event) ==
    /\ event.type \notin {"created", "version_created"}
    /\ WellFormed(event) /\ EventAgrees(prior, event)

\* What changes nothing needs only an experience that is not archived.
LEMMA PlainSucceeds ==
  ASSUME NEW prior, NEW event \in Events,
         event.type \in {"accessed", "confirmed", "corroborated", "refuted"},
         event.after = event.before, event.before.temperature # "archived"
  PROVE  Succeeds(prior, event)
<1>1. ChangedFields(event) = {}
  BY DEF ChangedFields
<1>2. WellFormed(event)
  BY <1>1 DEF WellFormed
<1>3. EventAgrees(prior, event)
  BY DEF EventAgrees, AccessedAgrees, ConfirmedAgrees, CorroboratedAgrees, RefutedAgrees
<1>4. QED BY <1>2, <1>3 DEF Succeeds

\* A pin and an unpin change the pin.
LEMMA PinSucceeds ==
  ASSUME NEW prior, NEW event \in Events, NEW pinned \in BOOLEAN,
         event.type = IF pinned THEN "pinned" ELSE "unpinned",
         event.before.pinned # pinned, event.after = [event.before EXCEPT !.pinned = pinned],
         event.before.temperature # "archived"
  PROVE  Succeeds(prior, event)
<1>1. event.before \in States /\ event.after \in States
  BY DEF Events
<1>2. /\ event.after.temperature = event.before.temperature
      /\ event.after.counter = event.before.counter
      /\ event.after.movedAt = event.before.movedAt
      /\ event.after.evaluatedAt = event.before.evaluatedAt
      /\ event.after.version = event.before.version
      /\ event.after.pinned = pinned
  BY <1>1 DEF States
<1>3. ChangedFields(event) \subseteq {"pinned"}
  BY <1>1, <1>2 DEF ChangedFields, States
<1>4. event.before.pinned \in BOOLEAN
  BY <1>1 DEF States
<1>5. AllowedFields(event.type) = {"pinned"}
  BY DEF AllowedFields
<1>6. WellFormed(event)
  BY <1>2, <1>3, <1>4, <1>5 DEF WellFormed
<1>7. EventAgrees(prior, event)
  BY DEF EventAgrees, PinnedAgrees, UnpinnedAgrees
<1>8. QED BY <1>6, <1>7 DEF Succeeds

\* A reactivation follows the access to a cold experience.
LEMMA ReactivatedSucceeds ==
  ASSUME NEW prior, NEW event \in Events, event.type = "reactivated",
         event.after = event.before, event.before.temperature = "cold",
         prior.type = "accessed", Paired(prior, event)
  PROVE  Succeeds(prior, event)
<1>1. ChangedFields(event) = {}
  BY DEF ChangedFields
<1>2. WellFormed(event)
  BY <1>1 DEF WellFormed
<1>3. EventAgrees(prior, event)
  BY DEF EventAgrees, ReactivatedAgrees
<1>4. QED BY <1>2, <1>3 DEF Succeeds

\* A restore follows the move to the archive.
LEMMA RestoredSucceeds ==
  ASSUME NEW prior, NEW event \in Events, event.type = "restored",
         event.after = event.before, event.before.temperature = "archived",
         Follows(prior, "moved", event), prior.note = "policy_archive"
  PROVE  Succeeds(prior, event)
<1>1. ChangedFields(event) = {}
  BY DEF ChangedFields
<1>2. WellFormed(event)
  BY <1>1 DEF WellFormed
<1>3. EventAgrees(prior, event)
  BY DEF EventAgrees, RestoredAgrees
<1>4. QED BY <1>2, <1>3 DEF Succeeds

\* The archive follows the evaluation that asked for it.
LEMMA ArchivedSucceeds ==
  ASSUME NEW prior, NEW event \in Events, event.type = "archived",
         event.after = event.before, event.before.temperature = "cold",
         Follows(prior, "evaluated", event), prior.note = "archive", Paired(prior, event)
  PROVE  Succeeds(prior, event)
<1>1. ChangedFields(event) = {}
  BY DEF ChangedFields
<1>2. WellFormed(event)
  BY <1>1 DEF WellFormed
<1>3. EventAgrees(prior, event)
  BY DEF EventAgrees, ArchivedAgrees
<1>4. QED BY <1>2, <1>3 DEF Succeeds

\* The least of two numbers.
LEMMA LeastOfTwo ==
  ASSUME NEW a \in Nat, NEW b \in Nat, a >= b
  PROVE  Min({a, b}) = b
<1>1. \A x \in {a, b} : (\A y \in {a, b} : x <= y) <=> x = b
  OBVIOUS
<1>2. QED BY <1>1 DEF Min

\* An evaluation keeps the interval, asks for a target its state permits, and
\* goes on counting or starts again.
LEMMA EvaluatedSucceeds ==
  ASSUME NEW prior, NEW event \in Events, event.type = "evaluated",
         NEW counter \in Nat, counter <= DemotionCycles,
         event.after = [event.before EXCEPT !.evaluatedAt = event.at, !.counter = counter],
         event.before.temperature # "archived",
         event.before.evaluatedAt # Never =>
             event.at - event.before.evaluatedAt >= MinInterval,
         TargetPermitted(event),
         counter = IF event.note \in Demotions THEN event.before.counter + 1 ELSE 0
  PROVE  Succeeds(prior, event)
<1>1. event.before \in States /\ event.after \in States
  BY DEF Events
<1>2. /\ event.after.temperature = event.before.temperature
      /\ event.after.pinned = event.before.pinned
      /\ event.after.movedAt = event.before.movedAt
      /\ event.after.version = event.before.version
      /\ event.after.evaluatedAt = event.at /\ event.after.counter = counter
  BY <1>1 DEF States
<1>3. ChangedFields(event) \subseteq {"evaluatedAt", "counter"}
  BY <1>1, <1>2 DEF ChangedFields, States
<1>4. AllowedFields(event.type) = {"evaluatedAt", "counter"}
  BY DEF AllowedFields
<1>5. WellFormed(event)
  BY <1>2, <1>3, <1>4 DEF WellFormed
<1>6. event.note \in Demotions => Min({DemotionCycles, event.before.counter + 1}) = counter
  BY LeastOfTwo, PolicyAssumption
<1>7. EvaluatedAgrees(event)
  BY <1>2, <1>6 DEF EvaluatedAgrees
<1>8. EventAgrees(prior, event)
  BY <1>7 DEF EventAgrees
<1>9. QED BY <1>5, <1>8 DEF Succeeds

\* The events that explain a move from one temperature to another.
Explains(prior, cause, from, to) ==
    \/ cause = "confirmation" /\ prior.type = "confirmed"
         /\ from \in {"warm", "cold"} /\ to = "hot"
    \/ cause = "pin" /\ prior.type = "pinned" /\ from \in {"warm", "cold"} /\ to = "hot"
    \/ cause = "capsule_corroboration" /\ prior.type = "corroborated"
         /\ from = "cold" /\ to = "hot"
    \/ cause = "cold_reactivation" /\ prior.type = "reactivated"
         /\ from = "cold" /\ to = "warm"
    \/ cause = "restore" /\ prior.type = "restored" /\ from = "archived" /\ to = "warm"
    \/ cause = "policy_archive" /\ prior.type = "archived"
         /\ from = "cold" /\ to = "archived"
    \/ cause = "lifecycle_activation" /\ prior.type = "evaluated"
         /\ prior.note = "promote_hot" /\ from = "warm" /\ to = "hot"
    \/ /\ cause = "lifecycle_demotion" /\ prior.type = "evaluated"
       /\ prior.after.counter >= DemotionCycles
       /\ \/ prior.note = "demote_warm" /\ from = "hot" /\ to = "warm"
          \/ prior.note = "demote_cold" /\ from = "warm" /\ to = "cold"

\* A move follows the event that explains it, and clears the counter.
LEMMA MovedSucceeds ==
  ASSUME NEW prior, NEW event \in Events, event.type = "moved", NEW to \in Temperatures,
         event.after = Moved(event.before, to, event.at),
         prior.after = event.before, Paired(prior, event),
         Explains(prior, event.note, event.before.temperature, to)
  PROVE  Succeeds(prior, event)
<1>1. event.before \in States /\ event.after \in States
  BY DEF Events
<1>2. /\ event.after.temperature = to /\ event.after.pinned = event.before.pinned
      /\ event.after.evaluatedAt = event.before.evaluatedAt
      /\ event.after.version = event.before.version
      /\ event.after.movedAt = event.at /\ event.after.counter = 0
  BY <1>1 DEF Moved, States
<1>3. ChangedFields(event) \subseteq {"temperature", "movedAt", "counter"}
  BY <1>1, <1>2 DEF ChangedFields, States
<1>4. AllowedFields(event.type) = {"temperature", "movedAt", "counter"}
  BY DEF AllowedFields
<1>5. <<event.before.temperature, to>> \in Transitions(event.note)
  BY DEF Explains, Transitions
<1>6. WellFormed(event)
  BY <1>2, <1>3, <1>4, <1>5 DEF WellFormed
<1>7. MovedAgrees(prior, event)
  BY <1>2 DEF MovedAgrees, Explains, Follows
<1>8. EventAgrees(prior, event)
  BY <1>7 DEF EventAgrees
<1>9. QED BY <1>6, <1>8 DEF Succeeds
-----------------------------------------------------------------------------
(* A ledger and the events of one command or cycle.                        *)

\* The versions more are rows, perhaps in another codec.
SameRows(rows, more) ==
    /\ Len(more) = Len(rows)
    /\ \A v \in 1..Len(rows) : more[v].at = rows[v].at /\ more[v].links = rows[v].links

\* No time of the ledger h, its versions and its state m is after at.
Past(h, rows, m, at) ==
    /\ \A k \in 1..Len(h) : h[k].at <= at
    /\ \A v \in 1..Len(rows) : rows[v].at <= at
    /\ m.movedAt <= at /\ m.evaluatedAt <= at

\* The events c, at time at, go on from the ledger h and its state m, each from
\* the one before it.
Continues(h, c, m, at) ==
    \A j \in 1..Len(c) :
        /\ c[j].at = at
        /\ c[j].before = IF j = 1 THEN m ELSE c[j - 1].after
        /\ Succeeds(IF j = 1 THEN Final(h) ELSE c[j - 1], c[j])
        /\ c[j].after.version = m.version
        /\ c[j].after.movedAt <= at /\ c[j].after.evaluatedAt <= at

\* The reducer accepts events that go on from the ledger.
LEMMA ContinuedTaken ==
  ASSUME NEW h \in Seq(Events), NEW c \in Seq(Events), Len(h) >= 2,
         NEW rows \in Seq(Versions), NEW more \in Seq(Versions), Len(rows) >= 1,
         SameRows(rows, more), Taken(h, rows), NEW m \in States, NEW at \in Times,
         Past(h, rows, m, at), Final(h).after = m, m.version = Len(rows),
         Continues(h, c, m, at)
  PROVE  Taken(h \o c, more)
<1>1. PICK n \in Nat : n = Len(h) /\ n >= 2 /\ DOMAIN h = 1..n
  BY LenProperties
<1>2. PICK g \in Seq(Events) :
        /\ g = h \o c /\ Len(g) = n + Len(c)
        /\ \A k \in 1..n : g[k] = h[k]
        /\ \A j \in 1..Len(c) : g[n + j] = c[j]
  <2>1. /\ h \o c \in Seq(Events) /\ Len(h \o c) = Len(h) + Len(c)
        /\ \A k \in 1..Len(h) : (h \o c)[k] = h[k]
        /\ \A k \in 1..Len(c) : (h \o c)[Len(h) + k] = c[k]
    BY ConcatFacts
  <2>2. QED BY <1>1, <2>1
<1>3. /\ Len(c) \in Nat /\ Len(rows) \in Nat /\ Len(more) = Len(rows)
      /\ DOMAIN rows = 1..Len(rows) /\ DOMAIN more = 1..Len(rows)
      /\ \A v \in 1..Len(rows) : more[v].at = rows[v].at
  BY LenProperties DEF SameRows
<1>4. Grown(h, rows, g, more)
  BY <1>1, <1>2, <1>3 DEF Grown
<1>5. ASSUME NEW k \in (n + 1)..Len(g)
      PROVE  g[k].before = Preceding(g, k) /\ Accepts(g, more, Preceding(g, k), k)
  <2>1. PICK j \in 1..Len(c) : k = n + j
    <3>1. k - n \in 1..Len(c) /\ k = n + (k - n)
      BY <1>1, <1>2, <1>3
    <3>2. QED BY <3>1
  <2>2. PICK s : s = Preceding(g, k)
    OBVIOUS
  <2>3. PICK prior : prior = IF j = 1 THEN Final(h) ELSE c[j - 1]
    OBVIOUS
  <2>4. g[k] = c[j] /\ g[k - 1] = prior /\ g[1] = h[1] /\ k >= 3
    <3>1. g[k] = c[j] /\ g[1] = h[1] /\ k >= 3
      BY <1>1, <1>2, <2>1
    <3>2. CASE j = 1
      <4>1. k - 1 = n /\ n \in 1..n
        BY <1>1, <2>1, <3>2
      <4>2. QED BY <1>1, <1>2, <2>3, <3>1, <3>2, <4>1 DEF Final
    <3>3. CASE j # 1
      <4>1. j - 1 \in 1..Len(c) /\ k - 1 = n + (j - 1)
        <5>1. j \in Nat /\ j >= 1 /\ j <= Len(c) /\ Len(c) \in Nat
          BY <1>3
        <5>2. QED BY <1>1, <2>1, <3>3, <5>1
      <4>2. QED BY <1>2, <2>3, <3>1, <3>3, <4>1
    <3>4. QED BY <3>2, <3>3
  <2>5. s = prior.after
    BY <2>2, <2>4 DEF Preceding
  <2>6. /\ c[j].before = s /\ Succeeds(prior, c[j]) /\ c[j].at = at
    BY <2>3, <2>5 DEF Continues
  <2>7. /\ s \in States /\ s.version = Len(rows)
        /\ s.movedAt <= at /\ s.evaluatedAt <= at /\ prior.at <= at
    <3>1. CASE j = 1
      <4>1. s = m /\ prior = h[n]
        BY <1>1, <2>3, <2>5, <3>1 DEF Final
      <4>2. h[n].at <= at
        BY <1>1 DEF Past
      <4>3. QED BY <4>1, <4>2 DEF Past
    <3>2. CASE j # 1
      <4>1. j - 1 \in 1..Len(c) /\ prior = c[j - 1]
        BY <1>3, <2>3, <3>2
      <4>2. /\ prior.at = at /\ s.version = Len(rows)
            /\ s.movedAt <= at /\ s.evaluatedAt <= at
        BY <2>5, <4>1 DEF Continues
      <4>3. c[j - 1] \in Events
        BY <4>1, ElementOfSeq
      <4>4. s \in States
        BY <2>5, <4>1, <4>3 DEF Events
      <4>5. at <= at
        BY DEF Times
      <4>6. QED BY <4>2, <4>4, <4>5
    <3>3. QED BY <3>1, <3>2
  <2>8. s # Refused
    <3>1. s.temperature # "refused"
      BY <2>7 DEF States, Temperatures, Active
    <3>2. Refused.temperature = "refused"
      BY DEF Refused, NoState
    <3>3. QED BY <3>1, <3>2
  <2>9. InContext(g, more, s, k)
    <3>1. h[1].at <= at /\ more[s.version].at <= at /\ s.version \in DOMAIN more
      <4>1. s.version \in 1..Len(rows) /\ 1 \in 1..Len(h)
        BY <1>1, <1>3, <2>7
      <4>2. rows[s.version].at <= at /\ h[1].at <= at
        BY <4>1 DEF Past
      <4>3. QED BY <1>3, <4>1, <4>2
    <3>2. \A t \in CausalAnchors(prior, s, h[1], more[s.version]) : t <= at
      BY <2>7, <3>1 DEF CausalAnchors
    <3>3. QED BY <2>4, <2>6, <3>1, <3>2 DEF InContext
  <2>10. Accepts(g, more, s, k)
    <3>1. StateEventAgrees(g, more, s, k)
      BY <2>4, <2>6, <2>9 DEF StateEventAgrees, Succeeds
    <3>2. QED BY <2>4, <2>6, <2>8, <3>1 DEF Accepts, Succeeds
  <2>11. QED BY <2>2, <2>4, <2>6, <2>10
<1>6. Taken(g, more)
  BY <1>1, <1>4, <1>5, TakenStill
<1>7. QED BY <1>2, <1>6

\* An event on its own terms, of those appended by one command.
LEMMA ChainedIs ==
  ASSUME TypeOK, NEW e \in Experiences, NEW d \in Seq(Drafts), NEW at \in Times
  PROVE  /\ Chained(e, d, at) \in Seq(Events) /\ Len(Chained(e, d, at)) = Len(d)
         /\ \A j \in 1..Len(d) :
              /\ Chained(e, d, at)[j] \in Events
              /\ Chained(e, d, at)[j].type = d[j].type
              /\ Chained(e, d, at)[j].note = d[j].note
              /\ Chained(e, d, at)[j].at = at
              /\ Chained(e, d, at)[j].by = Len(history[e]) + 1
              /\ Chained(e, d, at)[j].before = IF j = 1 THEN memory[e] ELSE d[j - 1].after
              /\ Chained(e, d, at)[j].after = d[j].after
<1>1. PICK c \in Seq(Events) : c = Chained(e, d, at) /\ Len(c) = Len(d)
  BY ChainedFacts
<1>2. DOMAIN d = 1..Len(d)
  BY LenProperties
<1>3. ASSUME NEW j \in 1..Len(d)
      PROVE  c[j] = [type |-> d[j].type, at |-> at, note |-> d[j].note,
                     by |-> Len(history[e]) + 1,
                     before |-> IF j = 1 THEN memory[e] ELSE d[j - 1].after,
                     after |-> d[j].after]
  BY <1>1, <1>2 DEF Chained
<1>4. \A j \in 1..Len(d) : c[j] \in Events
  BY <1>1, ElementOfSeq
<1>5. ASSUME NEW j \in 1..Len(d)
      PROVE  /\ c[j].type = d[j].type /\ c[j].note = d[j].note /\ c[j].at = at
             /\ c[j].by = Len(history[e]) + 1
             /\ c[j].before = IF j = 1 THEN memory[e] ELSE d[j - 1].after
             /\ c[j].after = d[j].after
  <2>1. PICK b : b = IF j = 1 THEN memory[e] ELSE d[j - 1].after
    OBVIOUS
  <2>2. c[j] = [type |-> d[j].type, at |-> at, note |-> d[j].note,
                by |-> Len(history[e]) + 1, before |-> b, after |-> d[j].after]
    BY <1>3, <2>1
  <2>3. c[j].before = b
    BY <2>2
  <2>4. QED BY <2>1, <2>2, <2>3
<1>6. QED BY <1>1, <1>4, <1>5
-----------------------------------------------------------------------------
(* A step that appends the events of a command or a cycle.                 *)

\* The drafts d were appended to an experience at time at, and its versions
\* say what they said.
Grows(e, d, at) ==
    /\ e \in Known /\ NotBefore(e, at)
    /\ d \in Seq(Drafts) /\ Len(d) >= 1
    /\ history'[e] = history[e] \o Chained(e, d, at)
    /\ memory'[e] = Final(d).after
    /\ SameRows(versions[e], versions'[e])

\* The drafts go on from what the experience is, and the archive is a move.
Lawful(e, d, at) ==
    /\ Continues(history[e], Chained(e, d, at), memory[e], at)
    /\ Final(d).after.temperature = "archived" =>
         Final(d).type = "moved" /\ Final(d).note = "policy_archive"

\* What NotBefore says of an experience that is ready.
LEMMA PastAnchors ==
  ASSUME Base, NEW e \in Known, Ready(e), NEW at \in Times, NotBefore(e, at)
  PROVE  Past(history[e], versions[e], memory[e], at)
<1>1. DOMAIN history[e] = 1..Len(history[e])
  BY LenProperties DEF Base, TypeOK, Known
<1>2. QED BY <1>1 DEF Past, NotBefore, Ready, Anchored

\* It leaves the ledger as the next event needs it.
LEMMA GrownLedger ==
  ASSUME Base, TablesTyped, NEW e \in Experiences, Ledgered(e), NEW d, NEW at \in Times,
         Grows(e, d, at), Lawful(e, d, at)
  PROVE  Ledgered(e)'
<1>1. /\ e \in Known /\ Taken(history[e], versions[e]) /\ Ready(e)
      /\ Past(history[e], versions[e], memory[e], at)
  BY PastAnchors DEF Ledgered, Grows
<1>2. PICK h \in Seq(Events) : h = history[e]
  BY DEF Base, TypeOK
<1>3. PICK rows \in Seq(Versions) : rows = versions[e] /\ Len(rows) >= 1
  BY <1>1 DEF Base, TypeOK, Entered
<1>4. PICK m \in States : m = memory[e]
  BY DEF Base, TypeOK
<1>5. PICK more \in Seq(Versions) : more = versions'[e]
  BY DEF TablesTyped
<1>6. PICK next \in States : next = memory'[e]
  BY DEF TablesTyped
<1>7. d \in Seq(Drafts) /\ Len(d) >= 1 /\ Len(d) \in Nat
  BY LenProperties DEF Grows
<1>8. PICK c \in Seq(Events) :
        /\ c = Chained(e, d, at) /\ Len(c) = Len(d)
        /\ \A j \in 1..Len(d) : c[j].type = d[j].type /\ c[j].note = d[j].note
                                /\ c[j].at = at /\ c[j].after = d[j].after
  BY <1>7, ChainedIs DEF Base
<1>9. PICK g \in Seq(Events) :
        /\ g = h \o c /\ Len(g) = Len(h) + Len(c)
        /\ \A k \in 1..Len(h) : g[k] = h[k]
        /\ \A j \in 1..Len(c) : g[Len(h) + j] = c[j]
  <2>1. /\ h \o c \in Seq(Events) /\ Len(h \o c) = Len(h) + Len(c)
        /\ \A k \in 1..Len(h) : (h \o c)[k] = h[k]
        /\ \A k \in 1..Len(c) : (h \o c)[Len(h) + k] = c[k]
    BY ConcatFacts
  <2>2. QED BY <2>1
<1>10. /\ history'[e] = g /\ next = Final(d).after /\ SameRows(rows, more)
  BY <1>2, <1>3, <1>5, <1>6, <1>8, <1>9 DEF Grows
<1>11. /\ Taken(h, rows) /\ Past(h, rows, m, at) /\ Len(h) >= 2
       /\ Final(h).after = m /\ m.version = Len(rows) /\ Continues(h, c, m, at)
  BY <1>1, <1>2, <1>3, <1>4, <1>8 DEF Ready, Lawful
<1>12. Taken(g, more)
  BY <1>3, <1>9, <1>10, <1>11, ContinuedTaken
<1>13. Final(g) = Final(c) /\ Len(g) >= 2 /\ Len(c) \in 1..Len(c)
  <2>1. Len(c) \in 1..Len(c) /\ Len(h) \in Nat
    BY <1>7, <1>8, LenProperties
  <2>2. g[Len(g)] = c[Len(c)]
    BY <1>9, <2>1
  <2>3. Len(g) >= 2
    BY <1>9, <1>11, <2>1
  <2>4. QED BY <2>1, <2>2, <2>3 DEF Final
<1>14. /\ Final(c).after = next /\ Final(c).type = Final(d).type
       /\ Final(c).note = Final(d).note /\ Final(c).at = at
       /\ next.version = m.version /\ next.movedAt <= at /\ next.evaluatedAt <= at
  <2>1. /\ c[Len(c)].type = d[Len(d)].type /\ c[Len(c)].note = d[Len(d)].note
        /\ c[Len(c)].at = at /\ c[Len(c)].after = d[Len(d)].after
    BY <1>8, <1>13
  <2>2. /\ c[Len(c)].after.version = m.version /\ c[Len(c)].after.movedAt <= at
        /\ c[Len(c)].after.evaluatedAt <= at
    BY <1>11, <1>13 DEF Continues
  <2>3. QED BY <1>10, <2>1, <2>2 DEF Final
<1>15. next.version = Len(more)
  BY <1>10, <1>11, <1>14 DEF SameRows
<1>16. next.temperature = "archived" => Final(g).type = "moved" /\ Final(g).note = "policy_archive"
  BY <1>10, <1>13, <1>14 DEF Lawful
<1>17. ASSUME NEW t \in Times, NotBefore(e, t)'
       PROVE  /\ next.movedAt <= t /\ next.evaluatedAt <= t
              /\ \A v \in 1..Len(more) : more[v].at <= t
  <2>1. at <= t
    <3>1. Len(g) \in DOMAIN g /\ g[Len(g)].at = at
      BY <1>13, <1>14, LenProperties DEF Final
    <3>2. \A k \in DOMAIN g : g[k].at <= t
      BY <1>10, <1>17 DEF NotBefore
    <3>3. QED BY <3>1, <3>2
  <2>2. /\ at \in Int /\ t \in Int /\ next.movedAt \in Int /\ next.evaluatedAt \in Int
    BY BoundAssumption DEF States, Times, Never
  <2>3. next.movedAt <= t /\ next.evaluatedAt <= t
    BY <1>14, <2>1, <2>2
  <2>4. ASSUME NEW v \in 1..Len(more) PROVE more[v].at <= t
    <3>1. v \in 1..Len(rows) /\ more[v].at = rows[v].at
      BY <1>10 DEF SameRows
    <3>2. rows[v].at <= at
      BY <1>11, <3>1 DEF Past
    <3>3. rows[v] \in Versions
      BY <3>1, ElementOfSeq
    <3>4. rows[v].at \in Int
      BY <3>3 DEF Versions, Times
    <3>5. QED BY <2>1, <2>2, <3>1, <3>2, <3>4
  <2>5. QED BY <2>3, <2>4
<1>18. Anchored(e)'
  BY <1>5, <1>6, <1>17 DEF Anchored
<1>19. Ready(e)'
  BY <1>5, <1>6, <1>10, <1>13, <1>14, <1>15, <1>16, <1>18 DEF Ready
<1>20. QED BY <1>5, <1>10, <1>12, <1>19 DEF Ledgered
-----------------------------------------------------------------------------
(* What commands append is lawful.                                         *)

\* A state that goes on from that of an experience at time at.
Keeps(e, state, at) ==
    state.version = memory[e].version /\ state.movedAt <= at /\ state.evaluatedAt <= at

\* The event before the draft j of those appended to an experience.
Prior(e, c, j) == IF j = 1 THEN Final(history[e]) ELSE c[j - 1]

\* Drafts are lawful when each of their events succeeds the one before.
LEMMA LawfulDrafts ==
  ASSUME TypeOK, NEW e \in Experiences, NEW at \in Times, NEW d \in Seq(Drafts),
         \A j \in 1..Len(d) :
             /\ Succeeds(Prior(e, Chained(e, d, at), j), Chained(e, d, at)[j])
             /\ Keeps(e, d[j].after, at),
         Final(d).after.temperature = "archived" =>
             Final(d).type = "moved" /\ Final(d).note = "policy_archive"
  PROVE  Lawful(e, d, at)
<1>1. PICK c : /\ c = Chained(e, d, at) /\ Len(c) = Len(d)
               /\ \A j \in 1..Len(d) :
                    /\ c[j].at = at /\ c[j].after = d[j].after
                    /\ c[j].before = IF j = 1 THEN memory[e] ELSE d[j - 1].after
  BY ChainedIs
<1>2. ASSUME NEW j \in 1..Len(c)
      PROVE  /\ c[j].at = at
             /\ c[j].before = IF j = 1 THEN memory[e] ELSE c[j - 1].after
             /\ Succeeds(IF j = 1 THEN Final(history[e]) ELSE c[j - 1], c[j])
             /\ c[j].after.version = memory[e].version
             /\ c[j].after.movedAt <= at /\ c[j].after.evaluatedAt <= at
  <2>1. j \in 1..Len(d) /\ (j # 1 => j - 1 \in 1..Len(d))
    BY <1>1, LenProperties
  <2>2. c[j].at = at /\ c[j].before = IF j = 1 THEN memory[e] ELSE c[j - 1].after
    BY <1>1, <2>1
  <2>3. Succeeds(IF j = 1 THEN Final(history[e]) ELSE c[j - 1], c[j])
    BY <1>1, <2>1 DEF Prior
  <2>4. Keeps(e, c[j].after, at)
    BY <1>1, <2>1
  <2>5. QED BY <2>2, <2>3, <2>4 DEF Keeps
<1>3. Continues(history[e], c, memory[e], at)
  BY <1>2 DEF Continues
<1>4. QED BY <1>1, <1>3 DEF Lawful

\* Versions in another codec keep their dates and links.
LEMMA RewrittenRows ==
  ASSUME TypeOK, NEW e \in Experiences, NEW t \in Temperatures
  PROVE  SameRows(versions[e], Rewritten(e, t))
<1>1. versions[e] \in Seq(Versions)
  BY DEF TypeOK
<1>2. CASE t = memory[e].temperature
  BY <1>2 DEF Rewritten, SameRows
<1>3. CASE t # memory[e].temperature
  <2>1. /\ Len(versions[e]) \in Nat /\ DOMAIN versions[e] = 1..Len(versions[e])
        /\ \A k \in 1..Len(versions[e]) : versions[e][k] \in Versions
    BY <1>1, LenProperties, ElementOfSeq
  <2>2. \A k \in 1..Len(versions[e]) :
          LET row == Reencoded(versions[e][k], PreferredCodec(t))
          IN  row.at = versions[e][k].at /\ row.links = versions[e][k].links
    BY <2>1 DEF Reencoded, Versions
  <2>3. Rewritten(e, t) = [k \in 1..Len(versions[e]) |->
                             Reencoded(versions[e][k], PreferredCodec(t))]
    BY <1>3, <2>1 DEF Rewritten
  <2>4. Len(Rewritten(e, t)) = Len(versions[e])
    BY <1>1, RewrittenFacts
  <2>5. QED BY <2>2, <2>3, <2>4 DEF SameRows
<1>4. QED BY <1>2, <1>3

\* ApplyOrderedEvents appends to the experiences it is about.
LEMMA OrderedGrows ==
  ASSUME TypeOK, NEW S \in SUBSET Known, NEW d, NEW at \in Times,
         \A e \in S : d[e] \in Seq(Drafts) /\ Len(d[e]) >= 1 /\ NotBefore(e, at),
         ApplyOrderedEvents(S, d, at)
  PROVE  /\ \A e \in S : Grows(e, d[e], at)
         /\ \A e \in Experiences \ S : Untouched(e)
<1>1. S \in SUBSET Experiences
  BY DEF Known
<1>2. \A e \in Experiences \ S : Untouched(e)
  BY <1>1, OrderedEvents
<1>3. ASSUME NEW e \in S PROVE Grows(e, d[e], at)
  <2>1. /\ memory'[e] = d[e][Len(d[e])].after
        /\ history'[e] = history[e] \o Chained(e, d[e], at)
        /\ versions'[e] = Rewritten(e, d[e][Len(d[e])].after.temperature)
    BY <1>1 DEF ApplyOrderedEvents
  <2>2. d[e][Len(d[e])].after \in States
    <3>1. Len(d[e]) \in 1..Len(d[e])
      BY LenProperties
    <3>2. d[e][Len(d[e])] \in Drafts
      BY <3>1, ElementOfSeq
    <3>3. QED BY <3>2 DEF Drafts
  <2>3. d[e][Len(d[e])].after.temperature \in Temperatures
    BY <2>2 DEF States
  <2>4. SameRows(versions[e], versions'[e])
    BY <1>1, <2>1, <2>3, RewrittenRows
  <2>5. QED BY <2>1, <2>4 DEF Grows, Final
<1>4. QED BY <1>2, <1>3
-----------------------------------------------------------------------------
(* What a step may do to the ledger of an experience.                      *)

\* Links that the audit accepts go to other experiences of the owner.
Linked(known, e, links) == \A l \in links : l.target \in known \ {e} /\ Owner[l.target] = Owner[e]

\* Its first two events.
Begins(e) ==
    /\ e \notin Known
    /\ \E t \in {"hot", "warm"} : memory'[e] = Fresh(t)
    /\ Len(versions'[e]) = 1 /\ versions'[e][1].at = clock
    /\ Linked(Known, e, versions'[e][1].links)
    /\ history'[e] = Chained(e, <<Draft("created", "", memory'[e]),
                                  Draft("version_created", "", memory'[e])>>, clock)

\* One more version.
Renews(e) ==
    /\ e \in Known /\ NotBefore(e, clock)
    /\ memory[e].temperature # "archived"
    /\ memory'[e] = [memory[e] EXCEPT !.version = @ + 1]
    /\ history'[e] = history[e] \o Chained(e, <<Draft("version_created", "", memory'[e])>>, clock)
    /\ Len(versions'[e]) = Len(versions[e]) + 1
    /\ \A v \in 1..Len(versions[e]) : versions'[e][v] = versions[e][v]
    /\ versions'[e][Len(versions[e]) + 1].at = clock
    /\ Linked(Known, e, versions'[e][Len(versions[e]) + 1].links)

Advances(e) ==
    \/ Untouched(e) \/ Begins(e) \/ Renews(e)
    \/ \E at \in Times : \E d : Grows(e, d, at) /\ Lawful(e, d, at)

AllReady == \A e \in Known : Ready(e)

\* The event that a command is named for, and the state it leaves.
Heads(e, type, state) ==
    \/ type \in {"accessed", "confirmed", "corroborated", "refuted"} /\ state = memory[e]
    \/ \E pinned \in BOOLEAN :
         /\ type = IF pinned THEN "pinned" ELSE "unpinned"
         /\ memory[e].pinned # pinned /\ state = [memory[e] EXCEPT !.pinned = pinned]

\* The moves that such events cause.
Causes(type, from, to, cause) ==
    \/ from = {}
    \/ type = "confirmed" /\ cause = "confirmation" /\ from = {"warm", "cold"} /\ to = "hot"
    \/ type = "pinned" /\ cause = "pin" /\ from = {"warm", "cold"} /\ to = "hot"
    \/ type = "corroborated" /\ cause = "capsule_corroboration" /\ from = {"cold"} /\ to = "hot"

\* The times of a ready experience are not after a time that is not before it.
LEMMA MemoryKeeps ==
  ASSUME NEW e \in Known, Ready(e), NEW at \in Times, NotBefore(e, at)
  PROVE  Keeps(e, memory[e], at)
BY DEF Keeps, Ready, Anchored

LEMMA HeadKeeps ==
  ASSUME Base, NEW e \in Experiences, NEW at, Keeps(e, memory[e], at),
         NEW type, NEW state, Heads(e, type, state)
  PROVE  /\ state \in States /\ Keeps(e, state, at)
         /\ state.temperature = memory[e].temperature
<1>1. PICK m \in States : m = memory[e]
  BY DEF Base, TypeOK
<1>2. CASE state = memory[e]
  BY <1>1, <1>2
<1>3. ASSUME NEW pinned \in BOOLEAN, state = [memory[e] EXCEPT !.pinned = pinned]
      PROVE  /\ state \in States /\ Keeps(e, state, at)
             /\ state.temperature = memory[e].temperature
  <2>1. state = [m EXCEPT !.pinned = pinned]
    BY <1>1, <1>3
  <2>2. /\ state \in States /\ state.temperature = m.temperature
        /\ state.version = m.version /\ state.movedAt = m.movedAt
        /\ state.evaluatedAt = m.evaluatedAt
    BY <2>1 DEF States
  <2>3. QED BY <1>1, <2>2 DEF Keeps
<1>4. QED BY <1>2, <1>3 DEF Heads

\* A move keeps the version and the evaluation, at its own time.
LEMMA MovedKeeps ==
  ASSUME NEW e, NEW state \in States, NEW at \in Times, Keeps(e, state, at),
         NEW to \in Temperatures
  PROVE  /\ Moved(state, to, at) \in States /\ Keeps(e, Moved(state, to, at), at)
         /\ Moved(state, to, at).temperature = to
<1>1. at <= at
  BY BoundAssumption DEF Times
<1>2. PICK x : x = Moved(state, to, at)
  OBVIOUS
<1>3. /\ x \in States /\ x.temperature = to /\ x.version = state.version
      /\ x.movedAt = at /\ x.evaluatedAt = state.evaluatedAt
  BY <1>2 DEF Moved, States
<1>4. QED BY <1>1, <1>2, <1>3 DEF Keeps

LEMMA HeadSucceeds ==
  ASSUME NEW e, memory[e].temperature # "archived", NEW type, NEW state,
         Heads(e, type, state), NEW prior, NEW event \in Events, event.type = type,
         event.before = memory[e], event.after = state
  PROVE  Succeeds(prior, event)
<1>1. CASE type \in {"accessed", "confirmed", "corroborated", "refuted"} /\ state = memory[e]
  BY <1>1, PlainSucceeds
<1>2. ASSUME NEW pinned \in BOOLEAN, type = IF pinned THEN "pinned" ELSE "unpinned",
             memory[e].pinned # pinned, state = [memory[e] EXCEPT !.pinned = pinned]
      PROVE  Succeeds(prior, event)
  BY <1>2, PinSucceeds
<1>3. QED BY <1>1, <1>2 DEF Heads
-----------------------------------------------------------------------------
(* Commands and cycles are lawful.                                         *)

\* The event of a draft, but for the state before it.
Renders(e, event, draft, at) ==
    /\ event \in Events /\ event.type = draft.type /\ event.note = draft.note
    /\ event.after = draft.after /\ event.at = at /\ event.by = Len(history[e]) + 1

\* Every event of the draft b succeeds every event of the draft a before it.
Leads(e, a, b, at) ==
    \A prior, event :
        Renders(e, prior, a, at) /\ Renders(e, event, b, at) /\ event.before = a.after
            => Succeeds(prior, event)

\* Every event of the draft a succeeds the last one of the ledger.
Opens(e, a, at) ==
    \A event : Renders(e, event, a, at) /\ event.before = memory[e]
                   => Succeeds(Final(history[e]), event)

LEMMA LawfulSteps ==
  ASSUME TypeOK, NEW e \in Experiences, NEW at \in Times, NEW d \in Seq(Drafts), Len(d) >= 1,
         Opens(e, d[1], at), \A j \in 2..Len(d) : Leads(e, d[j - 1], d[j], at),
         \A j \in 1..Len(d) : Keeps(e, d[j].after, at),
         Final(d).after.temperature = "archived" =>
             Final(d).type = "moved" /\ Final(d).note = "policy_archive"
  PROVE  Lawful(e, d, at)
<1>1. PICK c : /\ c = Chained(e, d, at)
               /\ \A j \in 1..Len(d) :
                    /\ Renders(e, c[j], d[j], at)
                    /\ c[j].before = IF j = 1 THEN memory[e] ELSE d[j - 1].after
  BY ChainedIs DEF Renders
<1>2. Len(d) \in Nat
  BY LenProperties
<1>3. ASSUME NEW j \in 1..Len(d)
      PROVE  Succeeds(Prior(e, c, j), c[j])
  <2>1. CASE j = 1
    BY <1>1, <2>1 DEF Opens, Prior
  <2>2. CASE j # 1
    <3>1. j \in 2..Len(d) /\ j - 1 \in 1..Len(d)
      BY <1>2, <2>2
    <3>2. /\ Leads(e, d[j - 1], d[j], at) /\ Renders(e, c[j - 1], d[j - 1], at)
          /\ Renders(e, c[j], d[j], at) /\ c[j].before = d[j - 1].after
      BY <1>1, <2>2, <3>1
    <3>3. Succeeds(c[j - 1], c[j])
      BY <3>2 DEF Leads
    <3>4. QED BY <2>2, <3>3 DEF Prior
  <2>3. QED BY <2>1, <2>2
<1>4. QED BY <1>1, <1>3, LawfulDrafts

\* A draft on its own, two of them, and three.
LEMMA OneLawful ==
  ASSUME TypeOK, NEW e \in Experiences, NEW at \in Times, NEW d \in Seq(Drafts), Len(d) = 1,
         Opens(e, d[1], at), Keeps(e, d[1].after, at), d[1].after.temperature # "archived"
  PROVE  Lawful(e, d, at)
<1>1. /\ \A j \in 2..Len(d) : FALSE
      /\ \A j \in 1..Len(d) : j = 1
  OBVIOUS
<1>2. /\ \A j \in 2..Len(d) : Leads(e, d[j - 1], d[j], at)
      /\ \A j \in 1..Len(d) : Keeps(e, d[j].after, at)
  BY <1>1
<1>3. Final(d).after.temperature # "archived" /\ Len(d) >= 1
  BY DEF Final
<1>4. QED BY <1>2, <1>3, LawfulSteps

LEMMA TwoLawful ==
  ASSUME TypeOK, NEW e \in Experiences, NEW at \in Times, NEW d \in Seq(Drafts), Len(d) = 2,
         Opens(e, d[1], at), Leads(e, d[1], d[2], at),
         Keeps(e, d[1].after, at), Keeps(e, d[2].after, at),
         d[2].after.temperature # "archived"
  PROVE  Lawful(e, d, at)
<1>1. /\ \A j \in 2..Len(d) : j = 2 /\ j - 1 = 1
      /\ \A j \in 1..Len(d) : j = 1 \/ j = 2
  OBVIOUS
<1>2. /\ \A j \in 2..Len(d) : Leads(e, d[j - 1], d[j], at)
      /\ \A j \in 1..Len(d) : Keeps(e, d[j].after, at)
  BY <1>1
<1>3. Final(d) = d[2]
  BY DEF Final
<1>4. QED BY <1>2, <1>3, LawfulSteps

LEMMA ThreeLawful ==
  ASSUME TypeOK, NEW e \in Experiences, NEW at \in Times, NEW d \in Seq(Drafts), Len(d) = 3,
         Opens(e, d[1], at), Leads(e, d[1], d[2], at), Leads(e, d[2], d[3], at),
         Keeps(e, d[1].after, at), Keeps(e, d[2].after, at), Keeps(e, d[3].after, at),
         d[3].after.temperature = "archived" =>
             d[3].type = "moved" /\ d[3].note = "policy_archive"
  PROVE  Lawful(e, d, at)
<1>1. /\ \A j \in 2..Len(d) : (j = 2 /\ j - 1 = 1) \/ (j = 3 /\ j - 1 = 2)
      /\ \A j \in 1..Len(d) : j = 1 \/ j = 2 \/ j = 3
  OBVIOUS
<1>2. /\ \A j \in 2..Len(d) : Leads(e, d[j - 1], d[j], at)
      /\ \A j \in 1..Len(d) : Keeps(e, d[j].after, at)
  BY <1>1
<1>3. Final(d) = d[3]
  BY DEF Final
<1>4. QED BY <1>2, <1>3, LawfulSteps

\* An explained move.
LEMMA MoveLeads ==
  ASSUME NEW e, NEW at, NEW a, NEW b, NEW to \in Temperatures, b.type = "moved",
         b.after = Moved(a.after, to, at), Explains(a, b.note, a.after.temperature, to)
  PROVE  Leads(e, a, b, at)
<1>1. ASSUME NEW prior, NEW event, Renders(e, prior, a, at), Renders(e, event, b, at),
             event.before = a.after
      PROVE  Succeeds(prior, event)
  <2>1. /\ event \in Events /\ event.type = "moved" /\ prior.after = event.before
        /\ event.after = Moved(event.before, to, event.at) /\ Paired(prior, event)
    BY <1>1 DEF Renders, Paired
  <2>2. Explains(prior, event.note, event.before.temperature, to)
    BY <1>1 DEF Explains, Renders
  <2>3. QED BY <2>1, <2>2, MovedSucceeds
<1>2. QED BY <1>1 DEF Leads

\* A command on one experience.
LEMMA MutateAdvances ==
  ASSUME Base, AllReady, NEW e \in Experiences, NEW type \in CommandEvents, NEW cause \in Notes,
         NEW from, NEW to, NEW state, Heads(e, type, state), Causes(type, from, to, cause),
         Mutate(e, state, type, from, to, cause)
  PROVE  \A x \in Experiences : Advances(x)
<1>1. /\ clock \in Times /\ e \in Known /\ memory[e].temperature \in Active
      /\ memory[e].temperature # "archived" /\ NotBefore(e, clock)
  BY DEF Base, TypeOK, Mutate, IsActive, Active, Known
<1>2. Keeps(e, memory[e], clock)
  BY <1>1, MemoryKeeps DEF AllReady
<1>3. /\ state \in States /\ Keeps(e, state, clock)
      /\ state.temperature = memory[e].temperature
  BY <1>2, HeadKeeps
<1>4. PICK a \in Drafts : /\ a = Draft(type, "", state)
                          /\ a.type = type /\ a.note = "" /\ a.after = state
  <2>1. type \in EventTypes /\ "" \in Notes
    BY DEF EventTypes, Notes
  <2>2. PICK x : x = Draft(type, "", state)
    OBVIOUS
  <2>3. x \in Drafts /\ x.type = type /\ x.note = "" /\ x.after = state
    BY <1>3, <2>1, <2>2 DEF Draft, Drafts
  <2>4. QED BY <2>2, <2>3
<1>5. Opens(e, a, clock)
  <2>1. ASSUME NEW event, Renders(e, event, a, clock), event.before = memory[e]
        PROVE  Succeeds(Final(history[e]), event)
    BY <1>1, <1>4, <2>1, HeadSucceeds DEF Renders
  <2>2. QED BY <2>1 DEF Opens
<1>6. PICK w : w = <<a>> \o IF state.temperature \in from
                            THEN <<Draft("moved", cause, Moved(state, to, clock))>> ELSE <<>>
  OBVIOUS
<1>7. w \in Seq(Drafts) /\ Len(w) >= 1 /\ Lawful(e, w, clock)
  <2>1. CASE state.temperature \in from
    <3>1. to = "hot" /\ to \in Temperatures /\ from # {}
      BY <2>1 DEF Causes, Temperatures, Active
    <3>2. PICK m \in States : /\ m = Moved(state, to, clock) /\ Keeps(e, m, clock)
                              /\ m.temperature = to
      BY <1>1, <1>3, <3>1, MovedKeeps
    <3>3. PICK b \in Drafts : /\ b = Draft("moved", cause, m)
                              /\ b.type = "moved" /\ b.note = cause /\ b.after = m
      <4>1. PICK x : x = Draft("moved", cause, m)
        OBVIOUS
      <4>2. x \in Drafts /\ x.type = "moved" /\ x.note = cause /\ x.after = m
        BY <3>2, <4>1, NamesTyped DEF Draft, Drafts
      <4>3. QED BY <4>1, <4>2
    <3>4. w = <<a>> \o <<b>>
      BY <1>6, <2>1, <3>2, <3>3
    <3>5. w \in Seq(Drafts) /\ Len(w) = 2 /\ w[1] = a /\ w[2] = b
      BY <3>4, OneOrTwo
    <3>6. Explains(a, cause, state.temperature, to)
      BY <1>4, <2>1, <3>1 DEF Causes, Explains
    <3>7. Leads(e, a, b, clock)
      BY <1>4, <3>1, <3>2, <3>3, <3>6, MoveLeads
    <3>8. /\ Opens(e, w[1], clock) /\ Leads(e, w[1], w[2], clock)
          /\ Keeps(e, w[1].after, clock) /\ Keeps(e, w[2].after, clock)
          /\ w[2].after.temperature # "archived"
      BY <1>3, <1>4, <1>5, <3>1, <3>2, <3>3, <3>5, <3>7
    <3>9. Lawful(e, w, clock)
      BY <1>1, <3>5, <3>8, TwoLawful DEF Base
    <3>10. QED BY <3>5, <3>9
  <2>2. CASE state.temperature \notin from
    <3>1. w = <<a>> \o <<>>
      BY <1>6, <2>2
    <3>2. w \in Seq(Drafts) /\ Len(w) = 1 /\ w[1] = a
      BY <3>1, OneOrTwo
    <3>3. /\ Opens(e, w[1], clock) /\ Keeps(e, w[1].after, clock)
          /\ w[1].after.temperature # "archived"
      BY <1>1, <1>3, <1>4, <1>5, <3>2
    <3>4. Lawful(e, w, clock)
      BY <1>1, <3>2, <3>3, OneLawful DEF Base
    <3>5. QED BY <3>2, <3>4
  <2>3. QED BY <2>1, <2>2
<1>8. PICK d : d = [x \in {e} |-> w]
  OBVIOUS
<1>9. ApplyOrderedEvents({e}, d, clock)
  BY <1>4, <1>6, <1>8 DEF Mutate
<1>10. /\ {e} \in SUBSET Known
       /\ \A x \in {e} : d[x] \in Seq(Drafts) /\ Len(d[x]) >= 1 /\ NotBefore(x, clock)
  BY <1>1, <1>7, <1>8
<1>11. Grows(e, d[e], clock) /\ \A x \in Experiences \ {e} : Untouched(x)
  BY <1>1, <1>9, <1>10, OrderedGrows DEF Base
<1>12. Lawful(e, d[e], clock)
  BY <1>7, <1>8
<1>13. QED BY <1>1, <1>11, <1>12 DEF Advances
\* The commands of the owner, but for restore.
LEMMA OwnerCommandAdvances ==
  ASSUME Base, AllReady, NEW e \in Experiences,
         \/ Confirm(e) \/ Corroborate(e) \/ Refute(e) \/ Pin(e) \/ Unpin(e) \/ Get(e)
  PROVE  \A x \in Experiences : Advances(x)
<1>1. /\ {"confirmed", "corroborated", "refuted", "pinned", "unpinned", "accessed"}
           \subseteq CommandEvents
      /\ {"confirmation", "capsule_corroboration", "", "pin"} \subseteq Notes
  BY DEF CommandEvents, Notes
<1>2. memory[e].pinned \in BOOLEAN
  BY DEF Base, TypeOK, States
<1>3. CASE Confirm(e)
  <2>1. /\ Heads(e, "confirmed", memory[e])
        /\ Causes("confirmed", {"warm", "cold"}, "hot", "confirmation")
    BY DEF Heads, Causes
  <2>2. QED BY <1>1, <1>3, <2>1, MutateAdvances DEF Confirm
<1>4. CASE Corroborate(e)
  <2>1. /\ Heads(e, "corroborated", memory[e])
        /\ Causes("corroborated", {"cold"}, "hot", "capsule_corroboration")
    BY DEF Heads, Causes
  <2>2. QED BY <1>1, <1>4, <2>1, MutateAdvances DEF Corroborate
<1>5. CASE Refute(e)
  <2>1. Heads(e, "refuted", memory[e]) /\ Causes("refuted", {}, "none", "")
    BY DEF Heads, Causes
  <2>2. QED BY <1>1, <1>5, <2>1, MutateAdvances DEF Refute
<1>6. CASE Pin(e)
  <2>1. PICK state : state = [memory[e] EXCEPT !.pinned = TRUE]
    OBVIOUS
  <2>2. memory[e].pinned # TRUE /\ Mutate(e, state, "pinned", {"warm", "cold"}, "hot", "pin")
    BY <1>6, <2>1 DEF Pin
  <2>3. Heads(e, "pinned", state) /\ Causes("pinned", {"warm", "cold"}, "hot", "pin")
    BY <2>1, <2>2 DEF Heads, Causes
  <2>4. QED BY <1>1, <2>2, <2>3, MutateAdvances
<1>7. CASE Unpin(e)
  <2>1. PICK state : state = [memory[e] EXCEPT !.pinned = FALSE]
    OBVIOUS
  <2>2. memory[e].pinned # FALSE /\ Mutate(e, state, "unpinned", {}, "none", "")
    BY <1>7, <2>1 DEF Unpin
  <2>3. Heads(e, "unpinned", state) /\ Causes("unpinned", {}, "none", "")
    BY <2>1, <2>2 DEF Heads, Causes
  <2>4. QED BY <1>1, <2>2, <2>3, MutateAdvances
<1>8. CASE Get(e)
  <2>1. Heads(e, "accessed", memory[e]) /\ Causes("accessed", {}, "none", "")
    BY DEF Heads, Causes
  <2>2. QED BY <1>1, <1>8, <2>1, MutateAdvances DEF Get
<1>9. QED BY <1>3, <1>4, <1>5, <1>6, <1>7, <1>8

\* A restore comes right after the move to the archive.
LEMMA RestoreAdvances ==
  ASSUME Base, AllReady, NEW e \in Experiences, Restore(e)
  PROVE  \A x \in Experiences : Advances(x)
<1>1. /\ clock \in Times /\ e \in Known /\ memory[e] \in States
      /\ memory[e].temperature = "archived" /\ NotBefore(e, clock)
  BY DEF Base, TypeOK, Restore, Known
<1>2. Keeps(e, memory[e], clock)
  BY <1>1, MemoryKeeps DEF AllReady
<1>3. PICK m \in States : /\ m = Moved(memory[e], "warm", clock) /\ Keeps(e, m, clock)
                          /\ m.temperature = "warm"
  <2>1. "warm" \in Temperatures
    BY DEF Temperatures, Active
  <2>2. QED BY <1>1, <1>2, <2>1, MovedKeeps
<1>4. PICK a \in Drafts : /\ a = Draft("restored", "", memory[e])
                          /\ a.type = "restored" /\ a.note = "" /\ a.after = memory[e]
  <2>1. PICK x : x = Draft("restored", "", memory[e])
    OBVIOUS
  <2>2. x \in Drafts /\ x.type = "restored" /\ x.note = "" /\ x.after = memory[e]
    BY <1>1, <2>1, NamesTyped DEF Draft, Drafts
  <2>3. QED BY <2>1, <2>2
<1>5. PICK b \in Drafts : /\ b = Draft("moved", "restore", m)
                          /\ b.type = "moved" /\ b.note = "restore" /\ b.after = m
  <2>1. PICK x : x = Draft("moved", "restore", m)
    OBVIOUS
  <2>2. x \in Drafts /\ x.type = "moved" /\ x.note = "restore" /\ x.after = m
    BY <2>1, NamesTyped DEF Draft, Drafts
  <2>3. QED BY <2>1, <2>2
<1>6. PICK w : w = <<a, b>>
  OBVIOUS
<1>7. w \in Seq(Drafts) /\ Len(w) = 2 /\ w[1] = a /\ w[2] = b
  BY <1>6, TwoOrThree
<1>8. Opens(e, a, clock)
  <2>1. PICK prior : prior = Final(history[e])
    OBVIOUS
  <2>2. prior.type = "moved" /\ prior.note = "policy_archive" /\ prior.after = memory[e]
    BY <1>1, <2>1 DEF AllReady, Ready
  <2>3. ASSUME NEW event, Renders(e, event, a, clock), event.before = memory[e]
        PROVE  Succeeds(prior, event)
    BY <1>1, <1>4, <2>2, <2>3, RestoredSucceeds DEF Renders, Follows
  <2>4. QED BY <2>1, <2>3 DEF Opens
<1>9. Leads(e, a, b, clock)
  <2>1. "warm" \in Temperatures
    BY DEF Temperatures, Active
  <2>2. Explains(a, b.note, a.after.temperature, "warm")
    BY <1>1, <1>4, <1>5 DEF Explains
  <2>3. QED BY <1>3, <1>4, <1>5, <2>1, <2>2, MoveLeads
<1>10. Lawful(e, w, clock)
  <2>1. /\ Opens(e, w[1], clock) /\ Leads(e, w[1], w[2], clock)
        /\ Keeps(e, w[1].after, clock) /\ Keeps(e, w[2].after, clock)
        /\ w[2].after.temperature # "archived"
    BY <1>2, <1>3, <1>4, <1>5, <1>7, <1>8, <1>9
  <2>2. QED BY <1>1, <1>7, <2>1, TwoLawful DEF Base
<1>11. PICK d : d = [x \in {e} |-> w]
  OBVIOUS
<1>12. ApplyOrderedEvents({e}, d, clock)
  BY <1>3, <1>4, <1>5, <1>6, <1>11 DEF Restore
<1>13. /\ {e} \in SUBSET Known
       /\ \A x \in {e} : d[x] \in Seq(Drafts) /\ Len(d[x]) >= 1 /\ NotBefore(x, clock)
  <2>1. d[e] = w /\ Len(w) >= 1
    BY <1>7, <1>11
  <2>2. QED BY <1>1, <1>7, <2>1
<1>14. Grows(e, d[e], clock) /\ \A x \in Experiences \ {e} : Untouched(x)
  BY <1>1, <1>12, <1>13, OrderedGrows DEF Base
<1>15. Lawful(e, d[e], clock)
  BY <1>10, <1>11
<1>16. QED BY <1>1, <1>14, <1>15 DEF Advances

\* What a search appends is lawful.
LEMMA SearchLawful ==
  ASSUME Base, AllReady, NEW e \in Experiences, IsActive(e), NotBefore(e, clock)
  PROVE  SearchDrafts(e) \in Seq(Drafts) /\ Len(SearchDrafts(e)) >= 1
         /\ Lawful(e, SearchDrafts(e), clock)
<1>1. /\ clock \in Times /\ e \in Known /\ memory[e] \in States
      /\ memory[e].temperature # "archived"
  BY DEF Base, TypeOK, IsActive, Active, Known
<1>2. Keeps(e, memory[e], clock)
  BY <1>1, MemoryKeeps DEF AllReady
<1>3. PICK m \in States : /\ m = Moved(memory[e], "warm", clock) /\ Keeps(e, m, clock)
                          /\ m.temperature = "warm"
  <2>1. "warm" \in Temperatures
    BY DEF Temperatures, Active
  <2>2. QED BY <1>1, <1>2, <2>1, MovedKeeps
<1>4. PICK a \in Drafts : /\ a = Draft("accessed", "", memory[e])
                          /\ a.type = "accessed" /\ a.note = "" /\ a.after = memory[e]
  <2>1. PICK x : x = Draft("accessed", "", memory[e])
    OBVIOUS
  <2>2. x \in Drafts /\ x.type = "accessed" /\ x.note = "" /\ x.after = memory[e]
    BY <1>1, <2>1, NamesTyped DEF Draft, Drafts
  <2>3. QED BY <2>1, <2>2
<1>5. PICK b \in Drafts : /\ b = Draft("reactivated", "", memory[e])
                          /\ b.type = "reactivated" /\ b.note = "" /\ b.after = memory[e]
  <2>1. PICK x : x = Draft("reactivated", "", memory[e])
    OBVIOUS
  <2>2. x \in Drafts /\ x.type = "reactivated" /\ x.note = "" /\ x.after = memory[e]
    BY <1>1, <2>1, NamesTyped DEF Draft, Drafts
  <2>3. QED BY <2>1, <2>2
<1>6. PICK c \in Drafts : /\ c = Draft("moved", "cold_reactivation", m)
                          /\ c.type = "moved" /\ c.note = "cold_reactivation" /\ c.after = m
  <2>1. PICK x : x = Draft("moved", "cold_reactivation", m)
    OBVIOUS
  <2>2. x \in Drafts /\ x.type = "moved" /\ x.note = "cold_reactivation" /\ x.after = m
    BY <2>1, NamesTyped DEF Draft, Drafts
  <2>3. QED BY <2>1, <2>2
<1>7. PICK w : w = SearchDrafts(e)
  OBVIOUS
<1>8. Opens(e, a, clock)
  <2>1. ASSUME NEW event, Renders(e, event, a, clock), event.before = memory[e]
        PROVE  Succeeds(Final(history[e]), event)
    BY <1>1, <1>4, <2>1, PlainSucceeds DEF Renders
  <2>2. QED BY <2>1 DEF Opens
<1>9. CASE memory[e].temperature = "cold"
  <2>1. w = <<a>> \o <<b, c>>
    BY <1>3, <1>4, <1>5, <1>6, <1>7, <1>9 DEF SearchDrafts
  <2>2. w \in Seq(Drafts) /\ Len(w) = 3 /\ w[1] = a /\ w[2] = b /\ w[3] = c
    BY <2>1, TwoOrThree
  <2>3. Leads(e, a, b, clock)
    <3>1. ASSUME NEW prior, NEW event, Renders(e, prior, a, clock), Renders(e, event, b, clock),
                 event.before = a.after
          PROVE  Succeeds(prior, event)
      BY <1>4, <1>5, <1>9, <3>1, ReactivatedSucceeds, ZenonT(60) DEF Renders, Paired
    <3>2. QED BY <3>1 DEF Leads
  <2>4. Leads(e, b, c, clock)
    <3>1. "warm" \in Temperatures
      BY DEF Temperatures, Active
    <3>2. Explains(b, c.note, b.after.temperature, "warm")
      BY <1>5, <1>6, <1>9 DEF Explains
    <3>3. QED BY <1>3, <1>5, <1>6, <3>1, <3>2, MoveLeads
  <2>5. /\ Opens(e, w[1], clock) /\ Leads(e, w[1], w[2], clock) /\ Leads(e, w[2], w[3], clock)
        /\ Keeps(e, w[1].after, clock) /\ Keeps(e, w[2].after, clock)
        /\ Keeps(e, w[3].after, clock) /\ w[3].after.temperature # "archived"
    BY <1>2, <1>3, <1>4, <1>5, <1>6, <1>8, <2>2, <2>3, <2>4
  <2>6. Lawful(e, w, clock)
    BY <1>1, <2>2, <2>5, ThreeLawful DEF Base
  <2>7. QED BY <1>7, <2>2, <2>6
<1>10. CASE memory[e].temperature # "cold"
  <2>1. w = <<a>> \o <<>>
    BY <1>4, <1>7, <1>10 DEF SearchDrafts
  <2>2. w \in Seq(Drafts) /\ Len(w) = 1 /\ w[1] = a
    BY <2>1, OneOrTwo
  <2>3. /\ Opens(e, w[1], clock) /\ Keeps(e, w[1].after, clock)
        /\ w[1].after.temperature # "archived"
    BY <1>1, <1>2, <1>4, <1>8, <2>2
  <2>4. Lawful(e, w, clock)
    BY <1>1, <2>2, <2>3, OneLawful DEF Base
  <2>5. QED BY <1>7, <2>2, <2>4
<1>11. QED BY <1>9, <1>10

\* A search.
LEMMA SearchAdvances ==
  ASSUME Base, AllReady, NEW agent, NEW S \in SUBSET Experiences, Search(agent, S)
  PROVE  \A x \in Experiences : Advances(x)
<1>1. /\ S \in SUBSET Known /\ TypeOK /\ clock \in Times
      /\ \A e \in S : IsActive(e) /\ NotBefore(e, clock)
  BY DEF Search, IsActive, Active, Known, Base, TypeOK
<1>2. PICK d : d = [e \in S |-> SearchDrafts(e)]
  OBVIOUS
<1>3. ApplyOrderedEvents(S, d, clock)
  BY <1>2 DEF Search, SearchDrafts
<1>4. \A e \in S : /\ d[e] \in Seq(Drafts) /\ Len(d[e]) >= 1 /\ NotBefore(e, clock)
                   /\ Lawful(e, d[e], clock)
  BY <1>1, <1>2, SearchLawful
<1>5. /\ \A e \in S : Grows(e, d[e], clock)
      /\ \A e \in Experiences \ S : Untouched(e)
  BY <1>1, <1>3, <1>4, OrderedGrows
<1>6. QED BY <1>1, <1>4, <1>5 DEF Advances
\* What a cycle asks for, its evaluation may record.
LEMMA TargetIsPermitted ==
  ASSUME Base, NEW e \in Experiences, NEW at \in Times, NEW target \in Targets(e, at),
         NEW event, event.note = target, event.at = at, event.before = memory[e]
  PROVE  TargetPermitted(event)
<1>1. memory[e] \in States /\ (memory[e].pinned => memory[e].temperature = "hot")
  BY DEF Base, TypeOK, PinnedIsHot
<1>2. \/ target = "none"
      \/ target = "demote_warm" /\ memory[e].temperature = "hot" /\ ~memory[e].pinned
      \/ target = "promote_hot" /\ memory[e].temperature = "warm"
      \/ target = "demote_cold" /\ memory[e].temperature = "warm" /\ ~memory[e].pinned
      \/ /\ target = "archive" /\ memory[e].temperature = "cold" /\ ~memory[e].pinned
         /\ at - memory[e].movedAt >= ArchiveAfter
  BY TargetFacts
<1>3. QED BY <1>1, <1>2 DEF TargetPermitted

\* An evaluation is lawful: its record, the archive, and the move.
LEMMA EvaluationLawful ==
  ASSUME Base, AllReady, NEW e \in Experiences, Counting(e), NEW at \in Times,
         IsActive(e), Eligible(e, at), NotBefore(e, at), NEW target \in Targets(e, at)
  PROVE  /\ Evaluation(e, target, at) \in Seq(Drafts) /\ Len(Evaluation(e, target, at)) >= 1
         /\ Lawful(e, Evaluation(e, target, at), at)
<1>1. /\ e \in Known /\ memory[e] \in States /\ memory[e].temperature \in Active
      /\ memory[e].temperature # "archived" /\ target \in Notes
      /\ memory[e].pinned => memory[e].temperature = "hot"
  <2>1. memory[e].pinned => memory[e].temperature = "hot"
    BY DEF Base, PinnedIsHot
  <2>2. target \in Notes
    BY TargetFacts DEF Notes, Demotions
  <2>3. QED BY <2>1, <2>2 DEF Base, TypeOK, IsActive, Active, Known
<1>2. Keeps(e, memory[e], at)
  BY <1>1, MemoryKeeps DEF AllReady
<1>3. PICK s \in States : /\ s = Evaluated(e, target, at)
                          /\ s.temperature = memory[e].temperature
                          /\ s.counter = CounterAfter(e, target) /\ Keeps(e, s, at)
  <2>1. PICK x : x = Evaluated(e, target, at)
    OBVIOUS
  <2>2. PICK m \in States : m = memory[e]
    BY <1>1
  <2>3. PICK n \in Nat : n = CounterAfter(e, target)
    BY <1>1 DEF CounterAfter, States
  <2>4. x = [m EXCEPT !.evaluatedAt = at, !.counter = n]
    BY <2>1, <2>2, <2>3 DEF Evaluated
  <2>5. /\ x \in States /\ x.temperature = m.temperature /\ x.counter = n
        /\ x.version = m.version /\ x.movedAt = m.movedAt /\ x.evaluatedAt = at
    BY <2>4 DEF States
  <2>6. at <= at
    BY BoundAssumption DEF Times
  <2>7. Keeps(e, x, at)
    BY <1>2, <2>2, <2>5, <2>6 DEF Keeps
  <2>8. QED BY <2>1, <2>2, <2>3, <2>5, <2>7
<1>4. PICK to \in Temperatures : to = Destination(e, target)
  BY <1>1 DEF Destination, Temperatures, Active
<1>5. PICK m \in States : /\ m = Moved(s, to, at) /\ Keeps(e, m, at) /\ m.temperature = to
  BY <1>3, MovedKeeps
<1>6. PICK cause \in {"lifecycle_activation", "policy_archive", "lifecycle_demotion"} :
        cause = (CASE target = "promote_hot" -> "lifecycle_activation"
                   [] target = "archive" -> "policy_archive"
                   [] OTHER -> "lifecycle_demotion")
  OBVIOUS
<1>7. PICK a \in Drafts : /\ a = Draft("evaluated", target, s)
                          /\ a.type = "evaluated" /\ a.note = target /\ a.after = s
  <2>1. PICK x : x = Draft("evaluated", target, s)
    OBVIOUS
  <2>2. x \in Drafts /\ x.type = "evaluated" /\ x.note = target /\ x.after = s
    BY <1>1, <2>1, NamesTyped DEF Draft, Drafts
  <2>3. QED BY <2>1, <2>2
<1>8. PICK b \in Drafts : /\ b = Draft("archived", "", s)
                          /\ b.type = "archived" /\ b.note = "" /\ b.after = s
  <2>1. PICK x : x = Draft("archived", "", s)
    OBVIOUS
  <2>2. x \in Drafts /\ x.type = "archived" /\ x.note = "" /\ x.after = s
    BY <2>1, NamesTyped DEF Draft, Drafts
  <2>3. QED BY <2>1, <2>2
<1>9. PICK c \in Drafts : /\ c = Draft("moved", cause, m)
                          /\ c.type = "moved" /\ c.note = cause /\ c.after = m
  <2>1. PICK x : x = Draft("moved", cause, m)
    OBVIOUS
  <2>2. cause \in Notes
    BY NamesTyped
  <2>3. x \in Drafts /\ x.type = "moved" /\ x.note = cause /\ x.after = m
    BY <2>1, <2>2, NamesTyped DEF Draft, Drafts
  <2>4. QED BY <2>1, <2>3
<1>10. Opens(e, a, at)
  <2>1. PICK n \in Nat : n = CounterAfter(e, target) /\ n <= DemotionCycles
    <3>1. memory[e].counter \in Nat /\ memory[e].counter < DemotionCycles
      BY <1>1 DEF Counting, States
    <3>2. QED BY <3>1, PolicyAssumption DEF CounterAfter
  <2>2. ASSUME NEW event, Renders(e, event, a, at), event.before = memory[e]
        PROVE  Succeeds(Final(history[e]), event)
    <3>1. TargetPermitted(event)
      BY <1>7, <2>2, TargetIsPermitted DEF Renders
    <3>2. event.after = [event.before EXCEPT !.evaluatedAt = event.at, !.counter = n]
      BY <1>3, <1>7, <2>1, <2>2 DEF Renders, Evaluated
    <3>3. n = IF event.note \in Demotions THEN event.before.counter + 1 ELSE 0
      BY <1>7, <2>1, <2>2 DEF Renders, CounterAfter
    <3>4. event.before.evaluatedAt # Never =>
             event.at - event.before.evaluatedAt >= MinInterval
      BY <2>2 DEF Renders, Eligible
    <3>5. event \in Events /\ event.type = "evaluated" /\ event.before.temperature # "archived"
      BY <1>1, <1>7, <2>2 DEF Renders
    <3>6. QED BY <2>1, <3>1, <3>2, <3>3, <3>4, <3>5, EvaluatedSucceeds
  <2>3. QED BY <2>2 DEF Opens
<1>11. PICK w : w = Evaluation(e, target, at)
  OBVIOUS
<1>12. Moves(e, target) <=> to # memory[e].temperature
  BY <1>4 DEF Moves
<1>13. w = (<<a>> \o IF target = "archive" THEN <<b>> ELSE <<>>)
             \o IF Moves(e, target) THEN <<c>> ELSE <<>>
  BY <1>3, <1>4, <1>5, <1>6, <1>7, <1>8, <1>9, <1>11 DEF Evaluation
<1>14. CASE target = "archive"
  <2>1. memory[e].temperature = "cold" /\ to = "archived" /\ Moves(e, target)
        /\ cause = "policy_archive"
    <3>1. memory[e].temperature = "cold"
      BY <1>14, TargetFacts
    <3>2. to = "archived"
      BY <1>4, <1>14 DEF Destination, Demotions
    <3>3. QED BY <1>6, <1>12, <1>14, <3>1, <3>2
  <2>2. w \in Seq(Drafts) /\ Len(w) = 3 /\ w[1] = a /\ w[2] = b /\ w[3] = c
    <3>1. PICK u : u = <<a>> \o <<b>>
      OBVIOUS
    <3>2. u \in Seq(Drafts) /\ Len(u) = 2 /\ u[1] = a /\ u[2] = b
      BY <3>1, FirstParts
    <3>3. w = u \o <<c>>
      BY <1>13, <1>14, <2>1, <3>1
    <3>4. QED BY <3>2, <3>3, ThreeParts
  <2>3. Leads(e, a, b, at)
    <3>1. ASSUME NEW prior, NEW event, Renders(e, prior, a, at), Renders(e, event, b, at),
                 event.before = a.after
          PROVE  Succeeds(prior, event)
      <4>1. /\ event \in Events /\ event.type = "archived" /\ event.after = event.before
            /\ event.before.temperature = "cold"
        BY <1>3, <1>7, <1>8, <2>1, <3>1 DEF Renders
      <4>2. /\ Follows(prior, "evaluated", event) /\ prior.note = "archive"
            /\ Paired(prior, event)
        BY <1>7, <1>14, <3>1 DEF Renders, Follows, Paired
      <4>3. QED BY <4>1, <4>2, ArchivedSucceeds
    <3>2. QED BY <3>1 DEF Leads
  <2>4. Leads(e, b, c, at)
    <3>1. Explains(b, c.note, b.after.temperature, to)
      BY <1>3, <1>8, <1>9, <2>1 DEF Explains
    <3>2. QED BY <1>5, <1>8, <1>9, <3>1, MoveLeads
  <2>5. /\ Opens(e, w[1], at) /\ Leads(e, w[1], w[2], at) /\ Leads(e, w[2], w[3], at)
        /\ Keeps(e, w[1].after, at) /\ Keeps(e, w[2].after, at) /\ Keeps(e, w[3].after, at)
        /\ w[3].type = "moved" /\ w[3].note = "policy_archive"
    BY <1>3, <1>5, <1>7, <1>8, <1>9, <1>10, <2>1, <2>2, <2>3, <2>4
  <2>6. Lawful(e, w, at)
    BY <1>1, <2>2, <2>5, ThreeLawful DEF Base
  <2>7. QED BY <1>11, <2>2, <2>6
<1>15. CASE target # "archive" /\ Moves(e, target)
  <2>1. \/ target = "demote_warm" /\ to = "warm" /\ memory[e].temperature = "hot"
        \/ target = "demote_cold" /\ to = "cold" /\ memory[e].temperature = "warm"
        \/ target = "promote_hot" /\ to = "hot" /\ memory[e].temperature = "warm"
    BY <1>4, <1>12, <1>15, TargetFacts DEF Destination, Demotions
  <2>2. target \in Demotions => s.counter >= DemotionCycles
    BY <1>3, <1>4, <1>12, <1>15 DEF Destination, Demotions
  <2>3. Explains(a, cause, s.temperature, to)
    BY <1>3, <1>6, <1>7, <2>1, <2>2 DEF Explains, Demotions
  <2>4. w \in Seq(Drafts) /\ Len(w) = 2 /\ w[1] = a /\ w[2] = c
    <3>1. w = (<<a>> \o <<>>) \o <<c>>
      BY <1>13, <1>15
    <3>2. QED BY <3>1, TwoParts
  <2>5. Leads(e, a, c, at)
    BY <1>5, <1>7, <1>9, <2>3, MoveLeads
  <2>6. /\ Opens(e, w[1], at) /\ Leads(e, w[1], w[2], at)
        /\ Keeps(e, w[1].after, at) /\ Keeps(e, w[2].after, at)
        /\ w[2].after.temperature # "archived"
    BY <1>3, <1>5, <1>7, <1>9, <1>10, <2>1, <2>4, <2>5
  <2>7. Lawful(e, w, at)
    BY <1>1, <2>4, <2>6, TwoLawful DEF Base
  <2>8. QED BY <1>11, <2>4, <2>7
<1>16. CASE target # "archive" /\ ~Moves(e, target)
  <2>1. w = (<<a>> \o <<>>) \o <<>>
    BY <1>13, <1>16
  <2>2. w \in Seq(Drafts) /\ Len(w) = 1 /\ w[1] = a
    BY <2>1, OnePart
  <2>3. /\ Opens(e, w[1], at) /\ Keeps(e, w[1].after, at)
        /\ w[1].after.temperature # "archived"
    BY <1>1, <1>3, <1>7, <1>10, <2>2
  <2>4. Lawful(e, w, at)
    BY <1>1, <2>2, <2>3, OneLawful DEF Base
  <2>5. QED BY <1>11, <2>2, <2>4
<1>17. QED BY <1>14, <1>15, <1>16

\* A cycle.
LEMMA CycleAdvances ==
  ASSUME Base, AllReady, \A e \in Experiences : Counting(e), NEW at \in Times, RunCycle(at)
  PROVE  \A x \in Experiences : Advances(x)
<1>1. PICK due : due = {e \in Known : Eligible(e, at)}
  OBVIOUS
<1>2. /\ due \in SUBSET Known /\ due \in SUBSET Experiences
      /\ \A e \in due : IsActive(e) /\ Eligible(e, at) /\ NotBefore(e, at)
  BY <1>1 DEF Eligible, Known, RunCycle, MayRun
<1>3. PICK target : /\ \A e \in due : target[e] \in Targets(e, at)
                    /\ ApplyOrderedEvents(due, [e \in due |-> Evaluation(e, target[e], at)], at)
  BY <1>1 DEF RunCycle
<1>4. PICK d : d = [e \in due |-> Evaluation(e, target[e], at)]
  OBVIOUS
<1>5. \A e \in due : /\ d[e] \in Seq(Drafts) /\ Len(d[e]) >= 1 /\ NotBefore(e, at)
                     /\ Lawful(e, d[e], at)
  BY <1>2, <1>3, <1>4, EvaluationLawful
<1>6. /\ \A e \in due : Grows(e, d[e], at)
      /\ \A e \in Experiences \ due : Untouched(e)
  BY <1>2, <1>3, <1>4, <1>5, OrderedGrows DEF Base
<1>7. QED BY <1>2, <1>5, <1>6 DEF Advances
-----------------------------------------------------------------------------
(* New experiences and new versions.                                       *)

LEMMA CreateAdvances ==
  ASSUME Base, NEW e \in Experiences, NEW content \in Contents, NEW important \in BOOLEAN,
         NEW links \in LinkSets(e), Create(e, content, important, links)
  PROVE  \A x \in Experiences : Advances(x)
<1>1. PICK t \in {"hot", "warm"} : t = IF important THEN "hot" ELSE "warm"
  OBVIOUS
<1>2. PICK state : state = Fresh(t)
  OBVIOUS
<1>3. PICK v : v = [content |-> content, codec |-> PreferredCodec(state.temperature),
                    links |-> links, at |-> clock]
  OBVIOUS
<1>4. PICK s : s = <<v>>
  OBVIOUS
<1>5. v.at = clock /\ Linked(Known, e, v.links) /\ Len(s) = 1 /\ s[1] = v
  <2>1. v.at = clock /\ v.links = links /\ Len(s) = 1 /\ s[1] = v
    BY <1>3, <1>4
  <2>2. Linked(Known, e, links)
    BY DEF LinkSets, Linked
  <2>3. QED BY <2>1, <2>2
<1>6. PICK h : h = Chained(e, <<Draft("created", "", state),
                                Draft("version_created", "", state)>>, clock)
  OBVIOUS
<1>7. /\ e \notin Known /\ memory' = [memory EXCEPT ![e] = state]
      /\ versions' = [versions EXCEPT ![e] = s]
      /\ history' = [history EXCEPT ![e] = h]
  <2>1. Fresh(IF important THEN "hot" ELSE "warm") = state
    BY <1>1, <1>2
  <2>2. QED BY <1>3, <1>4, <1>6, <2>1 DEF Create
<1>8. memory \in [Experiences -> States] /\ versions \in [Experiences -> Seq(Versions)]
      /\ history \in [Experiences -> Seq(Events)]
  BY DEF Base, TypeOK
<1>9. /\ memory'[e] = state /\ versions'[e] = s /\ history'[e] = h
      /\ \A f \in Experiences \ {e} : Untouched(f)
  BY <1>7, <1>8 DEF Untouched
<1>10. Begins(e)
  <2>1. \E x \in {"hot", "warm"} : memory'[e] = Fresh(x)
    BY <1>2, <1>9
  <2>2. /\ Len(versions'[e]) = 1 /\ versions'[e][1].at = clock
        /\ Linked(Known, e, versions'[e][1].links)
    BY <1>5, <1>9
  <2>3. history'[e] = Chained(e, <<Draft("created", "", memory'[e]),
                                   Draft("version_created", "", memory'[e])>>, clock)
    BY <1>6, <1>9
  <2>4. QED BY <1>7, <2>1, <2>2, <2>3 DEF Begins
<1>11. QED BY <1>9, <1>10 DEF Advances

LEMMA CreateVersionAdvances ==
  ASSUME Base, NEW e \in Experiences, NEW content \in Contents, NEW links \in LinkSets(e),
         CreateVersion(e, content, links)
  PROVE  \A x \in Experiences : Advances(x)
<1>1. PICK state : state = [memory[e] EXCEPT !.version = @ + 1]
  OBVIOUS
<1>2. PICK v : v = [content |-> content, codec |-> PreferredCodec(state.temperature),
                    links |-> links, at |-> clock]
  OBVIOUS
<1>3. v.at = clock /\ Linked(Known, e, v.links)
  <2>1. v.at = clock /\ v.links = links
    BY <1>2
  <2>2. Linked(Known, e, links)
    BY DEF LinkSets, Linked
  <2>3. QED BY <2>1, <2>2
<1>4. PICK w : w = <<Draft("version_created", "", state)>>
  OBVIOUS
<1>5. /\ memory' = [memory EXCEPT ![e] = state]
      /\ versions' = [versions EXCEPT ![e] = Append(versions[e], v)]
      /\ history' = [history EXCEPT ![e] = history[e] \o Chained(e, w, clock)]
      /\ NotBefore(e, clock) /\ memory[e].temperature \in Active
  BY <1>1, <1>2, <1>4 DEF CreateVersion, IsActive
<1>6. memory \in [Experiences -> States] /\ versions \in [Experiences -> Seq(Versions)]
      /\ history \in [Experiences -> Seq(Events)]
  BY DEF Base, TypeOK
<1>7. /\ memory'[e] = state /\ versions'[e] = Append(versions[e], v)
      /\ history'[e] = history[e] \o Chained(e, w, clock)
      /\ \A f \in Experiences \ {e} : Untouched(f)
  BY <1>5, <1>6 DEF Untouched
<1>8. PICK s \in Seq(Versions) : s = versions[e]
  BY <1>6
<1>9. v \in Versions
  <2>1. PreferredCodec(state.temperature) \in Codecs
    BY DEF PreferredCodec, Codecs
  <2>2. links \in SUBSET Links /\ clock \in Times
    BY DEF LinkSets, Base, TypeOK
  <2>3. QED BY <1>2, <2>1, <2>2 DEF Versions
<1>10. PICK r : /\ r = Append(s, v) /\ Len(r) = Len(s) + 1 /\ r[Len(s) + 1] = v
                /\ \A k \in 1..Len(s) : r[k] = s[k]
  <2>1. PICK x : x = Append(s, v)
    OBVIOUS
  <2>2. QED BY <1>9, <2>1, AnotherVersion
<1>11. /\ Len(versions'[e]) = Len(versions[e]) + 1
       /\ \A k \in 1..Len(versions[e]) : versions'[e][k] = versions[e][k]
       /\ versions'[e][Len(versions[e]) + 1].at = clock
       /\ Linked(Known, e, versions'[e][Len(versions[e]) + 1].links)
  BY <1>3, <1>7, <1>8, <1>10
<1>12. history'[e] = history[e] \o Chained(e, <<Draft("version_created", "", memory'[e])>>, clock)
  BY <1>4, <1>7
<1>13. Renews(e)
  <2>1. e \in Known /\ memory[e].temperature # "archived"
    BY <1>5 DEF Known, Active
  <2>2. memory'[e] = [memory[e] EXCEPT !.version = @ + 1]
    BY <1>1, <1>7
  <2>3. QED BY <1>5, <1>11, <1>12, <2>1, <2>2 DEF Renews
<1>14. QED BY <1>7, <1>13 DEF Advances

\* Every step is one of these, for every experience.
LEMMA StepAdvances ==
  ASSUME Base, AllReady, \A e \in Experiences : Counting(e), [Next]_vars, NEW x \in Experiences
  PROVE  Advances(x)
<1>1. ASSUME UNCHANGED <<memory, versions, history>> PROVE Advances(x)
  BY <1>1 DEF Advances, Untouched
<1>2. CASE AdvanceClock \/ StepBack \/ WorkerTicks \/ WorkerGivesUp \/ UNCHANGED vars
  BY <1>1, <1>2 DEF AdvanceClock, StepBack, WorkerTicks, WorkerGivesUp, vars
<1>3. CASE WorkerRuns
  <2>1. CASE RunCycle(tick)
    <3>1. PICK at \in Times : at = tick
      BY <1>3 DEF Base, TypeOK, WorkerRuns
    <3>2. QED BY <2>1, <3>1, CycleAdvances
  <2>2. QED BY <1>1, <1>3, <2>1 DEF WorkerRuns
<1>4. ASSUME NEW at \in Times, ManualCycle(at) PROVE Advances(x)
  BY <1>4, CycleAdvances DEF ManualCycle
<1>5. ASSUME NEW agent \in Agents, NEW S \in SUBSET Experiences, Search(agent, S)
      PROVE  Advances(x)
  BY <1>5, SearchAdvances
<1>6. ASSUME NEW e \in Experiences,
             \/ Confirm(e) \/ Corroborate(e) \/ Refute(e) \/ Pin(e) \/ Unpin(e) \/ Get(e)
      PROVE  Advances(x)
  BY <1>6, OwnerCommandAdvances
<1>7. ASSUME NEW e \in Experiences, Restore(e) PROVE Advances(x)
  BY <1>7, RestoreAdvances
<1>8. ASSUME NEW e \in Experiences, NEW content \in Contents, NEW links \in LinkSets(e),
             CreateVersion(e, content, links)
      PROVE  Advances(x)
  BY <1>8, CreateVersionAdvances
<1>9. ASSUME NEW e \in Experiences, NEW content \in Contents, NEW links \in LinkSets(e),
             NEW important \in BOOLEAN, Create(e, content, important, links)
      PROVE  Advances(x)
  BY <1>9, CreateAdvances
<1>10. QED BY <1>2, <1>3, <1>4, <1>5, <1>6, <1>7, <1>8, <1>9 DEF Next

\* The first two events are taken, whatever the clock shows.
LEMMA BegunLedger ==
  ASSUME Base, TablesTyped, NEW e \in Experiences, Begins(e)
  PROVE  Ledgered(e)'
<1>1. PICK t \in {"hot", "warm"} : memory'[e] = Fresh(t)
  BY DEF Begins
<1>2. PICK m \in States : m = memory'[e]
  BY DEF TablesTyped
<1>3. m = [temperature |-> t, pinned |-> FALSE, counter |-> 0, movedAt |-> clock,
           evaluatedAt |-> Never, version |-> 1]
  BY <1>1, <1>2 DEF Fresh, NoState
<1>4. m.temperature = t /\ m.movedAt = clock /\ m.evaluatedAt = Never /\ m.version = 1
  BY <1>3
<1>5. /\ clock \in Times /\ memory[e] = NoState
  BY DEF Base, TypeOK, Entered, Begins
<1>6. PICK a \in Drafts : /\ a = Draft("created", "", m)
                          /\ a.type = "created" /\ a.after = m
  <2>1. PICK x : x = Draft("created", "", m)
    OBVIOUS
  <2>2. x \in Drafts /\ x.type = "created" /\ x.after = m
    BY <2>1, NamesTyped DEF Draft, Drafts
  <2>3. QED BY <2>1, <2>2
<1>7. PICK b \in Drafts : /\ b = Draft("version_created", "", m)
                          /\ b.type = "version_created" /\ b.after = m
  <2>1. PICK x : x = Draft("version_created", "", m)
    OBVIOUS
  <2>2. x \in Drafts /\ x.type = "version_created" /\ x.after = m
    BY <2>1, NamesTyped DEF Draft, Drafts
  <2>3. QED BY <2>1, <2>2
<1>8. PICK d : d = <<a, b>>
  OBVIOUS
<1>9. d \in Seq(Drafts) /\ Len(d) = 2 /\ d[1] = a /\ d[2] = b
  BY <1>8, TwoOrThree
<1>10. PICK h \in Seq(Events) :
         /\ h = Chained(e, d, clock) /\ Len(h) = 2
         /\ h[1].type = "created" /\ h[1].before = NoState /\ h[1].after = m
         /\ h[2].type = "version_created" /\ h[2].before = m /\ h[2].after = m
         /\ h[1].at = clock /\ h[2].at = clock
  <2>1. PICK h \in Seq(Events) :
          /\ h = Chained(e, d, clock) /\ Len(h) = Len(d)
          /\ \A j \in 1..Len(d) :
               /\ h[j].type = d[j].type /\ h[j].at = clock /\ h[j].after = d[j].after
               /\ h[j].before = IF j = 1 THEN memory[e] ELSE d[j - 1].after
    BY <1>5, <1>9, ChainedIs DEF Base
  <2>2. 1 \in 1..Len(d) /\ 2 \in 1..Len(d)
    BY <1>9
  <2>3. h[1].type = a.type /\ h[1].at = clock /\ h[1].after = a.after /\ h[1].before = memory[e]
    BY <1>9, <2>1, <2>2
  <2>4. h[2].type = b.type /\ h[2].at = clock /\ h[2].after = b.after /\ h[2].before = a.after
    BY <1>9, <2>1, <2>2
  <2>5. QED BY <1>5, <1>6, <1>7, <1>9, <2>1, <2>3, <2>4, ZenonT(60)
<1>11. history'[e] = h
  BY <1>2, <1>6, <1>7, <1>8, <1>10 DEF Begins
<1>12. PICK rows \in Seq(Versions) : rows = versions'[e] /\ Len(rows) = 1 /\ rows[1].at = clock
  BY DEF TablesTyped, Begins
<1>13. NoState # Refused /\ m # Refused
  <2>1. NoState.temperature = "none" /\ Refused.temperature = "refused"
    BY DEF NoState, Refused
  <2>2. QED BY <1>4, <2>1
<1>14. Accepts(h, rows, NoState, 1)
  <2>1. m = [NoState EXCEPT !.temperature = m.temperature, !.movedAt = clock, !.version = 1]
    BY <1>1, <1>2, <1>4 DEF Fresh
  <2>2. CreatedAgrees(h[1], rows, NoState, 1)
    BY <1>10, <1>12, <2>1 DEF CreatedAgrees
  <2>3. QED BY <1>10, <1>13, <2>2 DEF Accepts, WellFormed
<1>15. Accepts(h, rows, m, 2)
  <2>1. ChangedFields(h[2]) = {}
    BY <1>10 DEF ChangedFields
  <2>2. WellFormed(h[2])
    BY <1>10, <2>1 DEF WellFormed
  <2>3. 1 \in DOMAIN rows
    BY <1>12, LenProperties
  <2>4. VersionAgrees(h, rows, m, 2)
    BY <1>4, <1>10, <1>12, <2>3 DEF VersionAgrees
  <2>5. QED BY <1>10, <1>13, <2>2, <2>4 DEF Accepts
<1>16. Taken(h, rows)
  <2>1. \A k \in 1..Len(h) : k = 1 \/ k = 2
    BY <1>10
  <2>2. Preceding(h, 1) = NoState /\ Preceding(h, 2) = m
    BY <1>10 DEF Preceding
  <2>3. QED BY <1>10, <1>14, <1>15, <2>1, <2>2 DEF Taken
<1>17. Anchored(e)'
  <2>1. ASSUME NEW at \in Times, NotBefore(e, at)'
        PROVE  /\ m.movedAt <= at /\ m.evaluatedAt <= at
               /\ \A v \in 1..Len(rows) : rows[v].at <= at
    <3>1. 1 \in DOMAIN h
      BY <1>10, LenProperties
    <3>2. clock <= at
      BY <1>10, <1>11, <2>1, <3>1 DEF NotBefore
    <3>3. \A v \in 1..Len(rows) : v = 1
      BY <1>12
    <3>4. Never <= at
      BY BoundAssumption DEF Never, Times
    <3>5. QED BY <1>4, <1>12, <3>2, <3>3, <3>4
  <2>2. QED BY <1>2, <1>12, <2>1 DEF Anchored
<1>18. Ready(e)'
  <2>1. Final(h).after = m /\ Len(h) >= 2
    BY <1>10 DEF Final
  <2>2. m.version = Len(rows) /\ m.temperature # "archived"
    BY <1>4, <1>12
  <2>3. QED BY <1>2, <1>11, <1>12, <1>17, <2>1, <2>2 DEF Ready
<1>19. QED BY <1>11, <1>12, <1>16, <1>18 DEF Ledgered

\* A new version is taken after whatever came before it.
LEMMA RenewedLedger ==
  ASSUME Base, TablesTyped, NEW e \in Experiences, Ledgered(e), Renews(e)
  PROVE  Ledgered(e)'
<1>1. /\ e \in Known /\ Taken(history[e], versions[e]) /\ Ready(e) /\ clock \in Times
      /\ Past(history[e], versions[e], memory[e], clock)
  BY PastAnchors DEF Ledgered, Renews, Base, TypeOK
<1>2. PICK h \in Seq(Events) : h = history[e]
  BY DEF Base, TypeOK
<1>3. PICK rows \in Seq(Versions) : rows = versions[e] /\ Len(rows) >= 1
  BY <1>1 DEF Base, TypeOK, Entered
<1>4. PICK m \in States : m = memory[e]
  BY DEF Base, TypeOK
<1>5. PICK more \in Seq(Versions) : more = versions'[e]
  BY DEF TablesTyped
<1>6. PICK next \in States : next = memory'[e]
  BY DEF TablesTyped
<1>7. next = [m EXCEPT !.version = @ + 1] /\ m.temperature # "archived"
  BY <1>4, <1>6 DEF Renews
<1>8. /\ next.temperature = m.temperature /\ next.pinned = m.pinned
      /\ next.counter = m.counter /\ next.movedAt = m.movedAt
      /\ next.evaluatedAt = m.evaluatedAt /\ next.version = m.version + 1
  BY <1>7 DEF States
<1>9. PICK a \in Drafts : /\ a = Draft("version_created", "", next)
                          /\ a.type = "version_created" /\ a.after = next
  <2>1. PICK x : x = Draft("version_created", "", next)
    OBVIOUS
  <2>2. x \in Drafts /\ x.type = "version_created" /\ x.after = next
    BY <2>1, NamesTyped DEF Draft, Drafts
  <2>3. QED BY <2>1, <2>2
<1>10. PICK d \in Seq(Drafts) : d = <<a>> /\ Len(d) = 1 /\ d[1] = a
  <2>1. PICK x : x = <<a>>
    OBVIOUS
  <2>2. x \in Seq(Drafts) /\ Len(x) = 1 /\ x[1] = a
    BY <2>1
  <2>3. QED BY <2>1, <2>2
<1>11. PICK c \in Seq(Events) :
         /\ c = Chained(e, d, clock) /\ Len(c) = 1
         /\ c[1] \in Events /\ c[1].type = "version_created" /\ c[1].at = clock
         /\ c[1].before = m /\ c[1].after = next
  <2>1. PICK c \in Seq(Events) :
          /\ c = Chained(e, d, clock) /\ Len(c) = Len(d)
          /\ \A j \in 1..Len(d) :
               /\ c[j] \in Events /\ c[j].type = d[j].type /\ c[j].at = clock
               /\ c[j].after = d[j].after
               /\ c[j].before = IF j = 1 THEN memory[e] ELSE d[j - 1].after
    BY <1>1, ChainedIs DEF Base
  <2>2. 1 \in 1..Len(d)
    BY <1>10
  <2>3. /\ c[1] \in Events /\ c[1].type = a.type /\ c[1].at = clock
        /\ c[1].after = a.after /\ c[1].before = memory[e]
    BY <1>10, <2>1, <2>2
  <2>4. Len(c) = 1
    BY <1>10, <2>1
  <2>5. QED BY <1>4, <1>9, <2>1, <2>3, <2>4
<1>12. PICK n \in Nat : n = Len(h) /\ n >= 2 /\ DOMAIN h = 1..n
  BY <1>1, <1>2, LenProperties DEF Ready
<1>13. PICK g \in Seq(Events) :
         /\ g = h \o c /\ Len(g) = n + 1 /\ g[n + 1] = c[1]
         /\ \A k \in 1..n : g[k] = h[k]
  <2>1. /\ h \o c \in Seq(Events) /\ Len(h \o c) = Len(h) + Len(c)
        /\ \A k \in 1..Len(h) : (h \o c)[k] = h[k]
        /\ \A k \in 1..Len(c) : (h \o c)[Len(h) + k] = c[k]
    BY ConcatFacts
  <2>2. Len(h) = n /\ Len(c) = 1 /\ 1 \in 1..Len(c)
    BY <1>11, <1>12
  <2>3. Len(h \o c) = n + 1 /\ (h \o c)[n + 1] = c[1]
    BY <2>1, <2>2
  <2>4. QED BY <2>1, <2>2, <2>3
<1>14. history'[e] = g
  BY <1>2, <1>6, <1>9, <1>10, <1>11, <1>13 DEF Renews
<1>15. PICK r \in Nat : /\ r = Len(rows) /\ r >= 1 /\ DOMAIN rows = 1..r
                        /\ Len(more) = r + 1 /\ DOMAIN more = 1..(r + 1)
                        /\ \A v \in 1..r : more[v].at = rows[v].at
                        /\ more[r + 1].at = clock
  <2>1. /\ Len(rows) \in Nat /\ DOMAIN rows = 1..Len(rows) /\ DOMAIN more = 1..Len(more)
    BY LenProperties
  <2>2. /\ Len(more) = Len(rows) + 1 /\ more[Len(rows) + 1].at = clock
        /\ \A v \in 1..Len(rows) : more[v] = rows[v]
    BY <1>3, <1>5 DEF Renews
  <2>3. QED BY <1>3, <2>1, <2>2
<1>16. /\ Taken(h, rows) /\ Past(h, rows, m, clock)
       /\ Final(h).after = m /\ m.version = r
  BY <1>1, <1>2, <1>3, <1>4, <1>15 DEF Ready
<1>17. Grown(h, rows, g, more)
  BY <1>12, <1>13, <1>15 DEF Grown
<1>18. Accepts(g, more, m, n + 1)
  <2>1. ChangedFields(c[1]) \subseteq {"version"}
    BY <1>8, <1>11 DEF ChangedFields, States
  <2>2. WellFormed(c[1])
    BY <1>11, <2>1 DEF WellFormed, AllowedFields
  <2>3. m # Refused
    <3>1. m.temperature # "refused"
      BY DEF States, Temperatures, Active
    <3>2. Refused.temperature = "refused"
      BY DEF Refused, NoState
    <3>3. QED BY <3>1, <3>2
  <2>4. VersionAgrees(g, more, m, n + 1)
    <3>1. PICK prior : prior = h[n]
      OBVIOUS
    <3>2. g[n] = prior /\ g[1] = h[1] /\ (n + 1) - 1 = n /\ n + 1 > 2
      BY <1>12, <1>13, <3>1
    <3>3. prior.at <= clock /\ h[1].at <= clock /\ more[r].at <= clock
      <4>1. n \in 1..Len(h) /\ 1 \in 1..Len(h) /\ r \in 1..Len(rows)
        BY <1>12, <1>15
      <4>2. h[n].at <= clock /\ h[1].at <= clock /\ rows[r].at <= clock
        BY <1>16, <4>1 DEF Past
      <4>3. QED BY <1>15, <3>1, <4>1, <4>2
    <3>4. \A t \in CausalAnchors(prior, m, h[1], more[r]) : t <= clock
      BY <1>16, <3>3 DEF CausalAnchors, Past
    <3>5. next.version = r + 1 /\ r + 1 \in DOMAIN more /\ (r + 1) - 1 = r /\ r + 1 # 1
      BY <1>8, <1>15, <1>16
    <3>6. QED BY <1>11, <1>13, <1>15, <1>16, <3>2, <3>4, <3>5, ZenonT(60) DEF VersionAgrees
  <2>5. QED BY <1>11, <1>13, <2>2, <2>3, <2>4 DEF Accepts
<1>19. Taken(g, more)
  <2>1. Preceding(g, n + 1) = m
    <3>1. g[n] = h[n] /\ h[n] = Final(h) /\ n + 1 # 1 /\ (n + 1) - 1 = n
      BY <1>12, <1>13 DEF Final
    <3>2. QED BY <1>16, <3>1 DEF Preceding
  <2>2. ASSUME NEW k \in (Len(h) + 1)..Len(g)
        PROVE  g[k].before = Preceding(g, k) /\ Accepts(g, more, Preceding(g, k), k)
    <3>1. k = n + 1
      BY <1>12, <1>13
    <3>2. QED BY <1>11, <1>13, <1>18, <2>1, <3>1
  <2>3. QED BY <1>16, <1>17, <2>2, TakenStill
<1>20. Anchored(e)'
  <2>1. ASSUME NEW at \in Times, NotBefore(e, at)'
        PROVE  /\ next.movedAt <= at /\ next.evaluatedAt <= at
               /\ \A v \in 1..Len(more) : more[v].at <= at
    <3>1. NotBefore(e, at)
      <4>1. \A k \in DOMAIN g : g[k].at <= at
        BY <1>14, <2>1 DEF NotBefore
      <4>2. \A k \in 1..n : k \in DOMAIN g /\ g[k] = h[k]
        BY <1>12, <1>13, LenProperties
      <4>3. QED BY <1>2, <1>12, <4>1, <4>2 DEF NotBefore
    <3>2. clock <= at
      <4>1. n + 1 \in DOMAIN g
        BY <1>13, LenProperties
      <4>2. g[n + 1].at <= at
        BY <1>14, <2>1, <4>1 DEF NotBefore
      <4>3. QED BY <1>11, <1>13, <4>2
    <3>3. /\ m.movedAt <= at /\ m.evaluatedAt <= at
          /\ \A v \in 1..Len(rows) : rows[v].at <= at
      BY <1>1, <1>3, <1>4, <3>1 DEF Ready, Anchored
    <3>4. \A v \in 1..Len(more) : v \in 1..r \/ v = r + 1
      BY <1>15
    <3>5. QED BY <1>8, <1>15, <3>2, <3>3, <3>4
  <2>2. QED BY <1>5, <1>6, <2>1 DEF Anchored
<1>21. Ready(e)'
  <2>1. Final(g).after = next /\ Len(g) >= 2
    BY <1>11, <1>12, <1>13 DEF Final
  <2>2. next.version = Len(more) /\ next.temperature # "archived"
    BY <1>7, <1>8, <1>15, <1>16
  <2>3. QED BY <1>5, <1>6, <1>14, <1>20, <2>1, <2>2 DEF Ready
<1>22. QED BY <1>5, <1>14, <1>19, <1>21 DEF Ledgered
-----------------------------------------------------------------------------
(* What a rebuild computes.                                                *)

\* Functions that start alike and stay alike from step to step are alike.
Tracks(f, g, n) == f[0] = g[0] /\ \A k \in 1..n : f[k - 1] = g[k - 1] => f[k] = g[k]

LEMMA StepByStep ==
  ASSUME NEW n \in Nat, NEW f, NEW g, Tracks(f, g, n)
  PROVE  \A k \in 0..n : f[k] = g[k]
<1>1. PICK D : D = {k \in Nat : k \in 0..n /\ f[k] # g[k]}
  OBVIOUS
<1>2. SUFFICES ASSUME D # {} PROVE FALSE
  BY <1>1
<1>3. PICK k \in D : \A j \in D : ~(<<j, k>> \in OpToRel(<, Nat))
  <2>1. D \subseteq Nat
    BY <1>1
  <2>2. QED BY <1>2, <2>1, WFMin, NatLessThanWellFounded
<1>4. k \in 1..n
  BY <1>1 DEF Tracks
<1>5. k - 1 \notin D /\ k - 1 \in 0..n /\ k - 1 \in Nat
  <2>1. \A j \in D : ~(j < k)
    BY <1>1, <1>3 DEF OpToRel
  <2>2. k - 1 \in 0..n /\ k - 1 \in Nat /\ k - 1 < k
    BY <1>4
  <2>3. QED BY <2>1, <2>2
<1>6. f[k - 1] = g[k - 1]
  BY <1>1, <1>5
<1>7. QED BY <1>1, <1>4, <1>6 DEF Tracks

\* The states of a rebuild of a ledger that is taken.
LEMMA RebuiltState ==
  ASSUME NEW e, NEW n \in Nat, Len(history[e]) = n, Taken(history[e], versions[e])
  PROVE  Rebuild(e) = IF n = 0 THEN NoState ELSE history[e][n].after
<1>1. PICK h : h = history[e]
  OBVIOUS
<1>2. PICK rows : rows = versions[e]
  OBVIOUS
<1>3. PICK f : f = [k \in 0..n |-> IF k = 0 THEN NoState ELSE h[k].after]
  OBVIOUS
<1>4. f[0] = NoState /\ \A k \in 1..n : f[k] = h[k].after /\ f[k - 1] = Preceding(h, k)
  BY <1>3 DEF Preceding
<1>5. ASSUME NEW k \in 1..n PROVE f[k] = Apply(h, rows, f[k - 1], k)
  <2>1. Accepts(h, rows, Preceding(h, k), k)
    BY <1>1, <1>2 DEF Taken
  <2>2. QED BY <1>4, <2>1 DEF Apply
<1>6. ASSUME NEW g, g = [k \in 0..n |-> IF k = 0 THEN NoState ELSE Apply(h, rows, g[k - 1], k)]
      PROVE  g = f
  <2>1. g[0] = NoState /\ \A k \in 1..n : g[k] = Apply(h, rows, g[k - 1], k)
    BY <1>6
  <2>2. Tracks(f, g, n)
    BY <1>4, <1>5, <2>1 DEF Tracks
  <2>3. \A k \in 0..n : f[k] = g[k]
    BY <2>2, StepByStep
  <2>4. g = [k \in 0..n |-> g[k]] /\ f = [k \in 0..n |-> f[k]]
    BY <1>3, <1>6
  <2>5. QED BY <2>3, <2>4
<1>7. f = [k \in 0..n |-> IF k = 0 THEN NoState ELSE Apply(h, rows, f[k - 1], k)]
  <2>1. \A k \in 0..n : f[k] = IF k = 0 THEN NoState ELSE Apply(h, rows, f[k - 1], k)
    BY <1>4, <1>5
  <2>2. f = [k \in 0..n |-> f[k]]
    BY <1>3
  <2>3. QED BY <2>1, <2>2
<1>8. (CHOOSE g : g = [k \in 0..n |->
         IF k = 0 THEN NoState ELSE Apply(h, rows, g[k - 1], k)]) = f
  BY <1>6, <1>7
<1>9. Rebuild(e) = f[n]
  BY <1>1, <1>2, <1>8 DEF Rebuild
<1>10. f[n] = IF n = 0 THEN NoState ELSE h[n].after
  BY <1>3
<1>11. QED BY <1>1, <1>9, <1>10

\* An accepted event, and the terms of the version projected before it.
TakenWith(h, rows, k, terms) ==
    /\ h[k] \in Events
    /\ h[k].before = Preceding(h, k) /\ Accepts(h, rows, Preceding(h, k), k)
    /\ k > 1 => terms = {rows[Preceding(h, k).version].content}

\* The terms after it are those of the version it leaves.
LEMMA ReindexedIs ==
  ASSUME NEW h, NEW rows, NEW k \in Nat \ {0}, NEW terms, TakenWith(h, rows, k, terms)
  PROVE  Reindexed(terms, h[k], k, rows) = {rows[h[k].after.version].content}
<1> USE DEF TakenWith
<1>1. CASE h[k].type = "created"
  <2>1. CreatedAgrees(h[k], rows, Preceding(h, k), k)
    BY <1>1 DEF Accepts
  <2>2. h[k].after \in States /\ k = 1 /\ rows[1].at = h[k].at
    BY <2>1 DEF Events, CreatedAgrees
  <2>3. h[k].after.version = 1
    BY <2>1 DEF CreatedAgrees, NoState
  <2>4. QED BY <1>1, <2>2, <2>3 DEF Reindexed, CreatedTerms
<1>2. CASE h[k].type = "version_created"
  <2>1. VersionAgrees(h, rows, Preceding(h, k), k)
    BY <1>2 DEF Accepts
  <2>2. h[k].before \in States /\ h[k].before.version \in Nat
    BY DEF Events, States
  <2>3. VersionTerms(h[k], k, rows) = {rows[h[k].after.version].content}
    BY <2>1, <2>2 DEF VersionAgrees, VersionTerms
  <2>4. QED BY <1>2, <2>3 DEF Reindexed
<1>3. CASE h[k].type \notin {"created", "version_created"}
  <2>1. k > 1
    BY <1>3 DEF Accepts, StateEventAgrees, InContext
  <2>2. "version" \notin ChangedFields(h[k])
    <3>1. WellFormed(h[k])
      BY DEF Accepts
    <3>2. "version" \notin AllowedFields(h[k].type)
      BY <1>3 DEF AllowedFields
    <3>3. QED BY <1>3, <3>1, <3>2 DEF WellFormed
  <2>3. h[k].after.version = h[k].before.version
    <3>1. h[k].before \in States /\ h[k].after \in States
      BY DEF Events
    <3>2. "version" \in DOMAIN h[k].before
      BY <3>1 DEF States
    <3>3. QED BY <2>2, <3>2 DEF ChangedFields
  <2>4. QED BY <1>3, <2>1, <2>3 DEF Reindexed
<1>4. QED BY <1>1, <1>2, <1>3
\* The terms of a rebuild of a ledger that is taken.
LEMMA RebuiltIndex ==
  ASSUME NEW e, NEW n \in Nat, Len(history[e]) = n, history[e] \in Seq(Events),
         Taken(history[e], versions[e])
  PROVE  RebuiltTerms(e) = IF n = 0 THEN {}
                           ELSE {versions[e][history[e][n].after.version].content}
<1>1. PICK h : h = history[e]
  OBVIOUS
<1>2. PICK rows : rows = versions[e]
  OBVIOUS
<1>3. PICK f : f = [k \in 0..n |-> IF k = 0 THEN {} ELSE {rows[h[k].after.version].content}]
  OBVIOUS
<1>4. f[0] = {} /\ \A k \in 1..n : f[k] = {rows[h[k].after.version].content}
  BY <1>3
<1>5. ASSUME NEW k \in 1..n PROVE f[k] = Reindexed(f[k - 1], h[k], k, rows)
  <2>1. /\ h[k].before = Preceding(h, k) /\ Accepts(h, rows, Preceding(h, k), k)
        /\ h[k] \in Events /\ k \in Nat \ {0}
    BY <1>1, <1>2, ElementOfSeq DEF Taken
  <2>2. k > 1 => f[k - 1] = {rows[Preceding(h, k).version].content}
    <3>1. SUFFICES ASSUME k > 1 PROVE f[k - 1] = {rows[Preceding(h, k).version].content}
      OBVIOUS
    <3>2. k - 1 \in 1..n /\ Preceding(h, k) = h[k - 1].after
      BY <3>1 DEF Preceding
    <3>3. QED BY <1>4, <3>2
  <2>3. PICK terms : terms = f[k - 1]
    OBVIOUS
  <2>4. TakenWith(h, rows, k, terms) /\ k \in Nat \ {0}
    BY <2>1, <2>2, <2>3 DEF TakenWith
  <2>5. Reindexed(terms, h[k], k, rows) = {rows[h[k].after.version].content}
    BY <2>4, ReindexedIs
  <2>6. QED BY <1>4, <2>3, <2>5
<1>6. ASSUME NEW g, g = [k \in 0..n |-> IF k = 0 THEN {} ELSE Reindexed(g[k - 1], h[k], k, rows)]
      PROVE  g = f
  <2>1. g[0] = {} /\ \A k \in 1..n : g[k] = Reindexed(g[k - 1], h[k], k, rows)
    <3>1. \A k \in 0..n : g[k] = IF k = 0 THEN {} ELSE Reindexed(g[k - 1], h[k], k, rows)
      BY <1>6
    <3>2. \A k \in 1..n : k \in 0..n /\ k # 0
      OBVIOUS
    <3>3. 0 \in 0..n
      OBVIOUS
    <3>4. QED BY <3>1, <3>2, <3>3
  <2>2. Tracks(f, g, n)
    BY <1>4, <1>5, <2>1 DEF Tracks
  <2>3. \A k \in 0..n : f[k] = g[k]
    BY <2>2, StepByStep
  <2>4. g = [k \in 0..n |-> g[k]] /\ f = [k \in 0..n |-> f[k]]
    BY <1>3, <1>6
  <2>5. QED BY <2>3, <2>4
<1>7. f = [k \in 0..n |-> IF k = 0 THEN {} ELSE Reindexed(f[k - 1], h[k], k, rows)]
  <2>1. \A k \in 0..n : f[k] = IF k = 0 THEN {} ELSE Reindexed(f[k - 1], h[k], k, rows)
    <3>1. \A k \in 0..n : k = 0 \/ (k # 0 /\ k \in 1..n)
      OBVIOUS
    <3>2. QED BY <1>4, <1>5, <3>1
  <2>2. f = [k \in 0..n |-> f[k]]
    BY <1>3
  <2>3. QED BY <2>1, <2>2
<1>8. (CHOOSE g : g = [k \in 0..n |->
         IF k = 0 THEN {} ELSE Reindexed(g[k - 1], h[k], k, rows)]) = f
  BY <1>6, <1>7
<1>9. RebuiltTerms(e) = f[n]
  BY <1>1, <1>2, <1>8 DEF RebuiltTerms
<1>10. f[n] = IF n = 0 THEN {} ELSE {rows[h[n].after.version].content}
  BY <1>3
<1>11. QED BY <1>1, <1>2, <1>9, <1>10

-----------------------------------------------------------------------------
(* The theorem.                                                            *)

MemoryLedger ==
    Base /\ \A e \in Experiences : Counting(e) /\ Demoted(e) /\ Ledgered(e)

\* A step leaves every ledger accepted, and ready for the next event.
LEMMA LedgeredStep ==
  ASSUME MemoryLedger, [Next]_vars, NEW e \in Experiences
  PROVE  Ledgered(e)'
<1>1. Base /\ TablesTyped /\ Ledgered(e) /\ AllReady /\ \A x \in Experiences : Counting(x)
  <2>1. AllReady
    BY DEF MemoryLedger, Ledgered, AllReady, Known
  <2>2. Base /\ TablesTyped
    BY StepKinds DEF MemoryLedger
  <2>3. QED BY <2>1, <2>2 DEF MemoryLedger
<1>2. Advances(e)
  BY <1>1, StepAdvances
<1>3. CASE Untouched(e)
  BY <1>1, <1>3 DEF Untouched, Ledgered, Ready, Anchored, NotBefore, Known
<1>4. CASE Begins(e)
  BY <1>1, <1>4, BegunLedger
<1>5. CASE Renews(e)
  BY <1>1, <1>5, RenewedLedger
<1>6. ASSUME NEW at \in Times, NEW d, Grows(e, d, at), Lawful(e, d, at) PROVE Ledgered(e)'
  BY <1>1, <1>6, GrownLedger
<1>7. QED BY <1>2, <1>3, <1>4, <1>5, <1>6 DEF Advances

\* What the invariant says of a rebuild.
LEMMA LedgerRebuilds ==
  ASSUME Base, NEW e \in Experiences, Ledgered(e)
  PROVE  /\ Rebuild(e) = memory[e]
         /\ RebuiltTerms(e) = IF e \in Known THEN {Current(e).content} ELSE {}
<1>1. history[e] \in Seq(Events) /\ Taken(history[e], versions[e]) /\ Entered(e)
  BY DEF Base, TypeOK, Ledgered
<1>2. PICK n \in Nat : n = Len(history[e])
  BY <1>1, LenProperties
<1>3. /\ Rebuild(e) = IF n = 0 THEN NoState ELSE history[e][n].after
      /\ RebuiltTerms(e) = IF n = 0 THEN {}
                           ELSE {versions[e][history[e][n].after.version].content}
  BY <1>1, <1>2, RebuiltState, RebuiltIndex
<1>4. CASE e \in Known
  <2>1. /\ n >= 2 /\ history[e][n].after = memory[e]
        /\ memory[e].version = Len(versions[e])
    BY <1>2, <1>4 DEF Ledgered, Ready, Final
  <2>2. QED BY <1>3, <1>4, <2>1 DEF Current
<1>5. CASE e \notin Known
  <2>1. memory[e] = NoState /\ history[e] = <<>>
    BY <1>1, <1>5 DEF Entered
  <2>2. n = 0
    BY <1>2, <2>1
  <2>3. QED BY <1>3, <1>5, <2>1, <2>2
<1>6. QED BY <1>4, <1>5

\* experiences/projector.py: whatever the agents and the cycles did, in
\* whatever order and however the clock stepped back, the reducer accepts
\* every event of the ledger where it stands.
THEOREM LedgersAreAccepted == Spec => []MemoryLedger
<1>1. Init => MemoryLedger
  <2>1. ASSUME Init, NEW e \in Experiences PROVE Counting(e) /\ Demoted(e) /\ Ledgered(e)
    <3>1. memory[e] = NoState /\ memory[e].counter = 0 /\ history[e] = <<>> /\ e \notin Known
      BY <2>1 DEF Init, NoState, Known
    <3>2. \A k \in 1..Len(history[e]) : FALSE
      BY <3>1
    <3>3. QED BY <3>1, <3>2, PolicyAssumption DEF Counting, Demoted, Ledgered, Taken
  <2>2. QED BY <2>1, BaseInit DEF MemoryLedger
<1>2. MemoryLedger /\ [Next]_vars => MemoryLedger'
  <2> SUFFICES ASSUME MemoryLedger, [Next]_vars PROVE MemoryLedger'
    OBVIOUS
  <2>1. Base /\ \A e \in Experiences : Counting(e) /\ Demoted(e)
    BY DEF MemoryLedger
  <2>2. \A e \in Experiences : Counting(e)' /\ Demoted(e)'
    BY <2>1, Fates, CountingStep, DemotedStep
  <2>3. \A e \in Experiences : Ledgered(e)'
    BY LedgeredStep
  <2>4. Base'
    BY <2>1, BaseStep
  <2>5. QED BY <2>2, <2>3, <2>4 DEF MemoryLedger
<1>3. QED BY <1>1, <1>2, PTL DEF Spec

\* experiences/projector.py: a rebuild computes from the ledger the state and
\* the terms that were projected as it grew.
THEOREM RebuildsAreExact == Spec => []RebuildReproduces
<1>1. MemoryLedger => RebuildReproduces
  BY LedgerRebuilds DEF MemoryLedger, RebuildReproduces
<1>2. QED BY <1>1, LedgersAreAccepted, PTL
-----------------------------------------------------------------------------
(* What the source validator asks beside acceptance.                       *)

IsWriting(h, k) == h[k].type = "version_created"

\* Every version was written, and what wrote them follows in their order.
Documented(h, rows) ==
    /\ h[1].type = "created"
    /\ \A v \in 1..Len(rows) : \E k \in 1..Len(h) : IsWriting(h, k) /\ h[k].after.version = v
    /\ \A j, k \in 1..Len(h) : IsWriting(h, j) /\ IsWriting(h, k) /\ j < k =>
         h[j].after.version < h[k].after.version /\ h[j].at <= h[k].at

Auditable(e) ==
    e \in Known => /\ Documented(history[e], versions[e])
                   /\ \A v \in 1..Len(versions[e]) : Linked(Known, e, versions[e][v].links)

\* What the reducer has accepted of the events that create and write.
LEMMA TakenWriting ==
  ASSUME NEW h, NEW rows, Taken(h, rows), NEW k \in 1..Len(h)
  PROVE  /\ h[k].type = "created" => /\ k = 1 /\ rows[1].at = h[k].at
                                     /\ h[k].after.version = 1
         /\ IsWriting(h, k) =>
              /\ h[k].after.version \in DOMAIN rows
              /\ rows[h[k].after.version].at = h[k].at
              /\ IF h[k].after.version = 1 THEN k = 2 ELSE k > 2
<1>1. Accepts(h, rows, Preceding(h, k), k)
  BY DEF Taken
<1>2. ASSUME h[k].type = "created"
      PROVE  k = 1 /\ rows[1].at = h[k].at /\ h[k].after.version = 1
  <2>1. CreatedAgrees(h[k], rows, Preceding(h, k), k)
    BY <1>1, <1>2 DEF Accepts
  <2>2. QED BY <2>1 DEF CreatedAgrees, NoState
<1>3. ASSUME IsWriting(h, k)
      PROVE  /\ h[k].after.version \in DOMAIN rows
             /\ rows[h[k].after.version].at = h[k].at
             /\ IF h[k].after.version = 1 THEN k = 2 ELSE k > 2
  <2>1. VersionAgrees(h, rows, Preceding(h, k), k)
    BY <1>1, <1>3 DEF Accepts, IsWriting
  <2>2. QED BY <2>1 DEF VersionAgrees
<1>4. QED BY <1>2, <1>3

\* Events that write nothing leave a ledger documented.
LEMMA DocumentedStill ==
  ASSUME NEW h, NEW rows, NEW g, NEW more, NEW n \in Nat, NEW m \in Nat,
         Len(h) = n, Len(g) = m, 1 <= n, n <= m, Len(more) = Len(rows),
         \A k \in 1..n : g[k] = h[k], \A k \in (n + 1)..m : ~IsWriting(g, k),
         Documented(h, rows)
  PROVE  Documented(g, more)
<1>1. \A k \in 1..m : IsWriting(g, k) => k \in 1..n /\ g[k] = h[k] /\ IsWriting(h, k)
  BY DEF IsWriting
<1>2. ASSUME NEW v \in 1..Len(more)
      PROVE  \E k \in 1..m : IsWriting(g, k) /\ g[k].after.version = v
  <2>1. PICK k \in 1..n : IsWriting(h, k) /\ h[k].after.version = v
    BY DEF Documented
  <2>2. k \in 1..m /\ g[k] = h[k]
    BY <2>1
  <2>3. QED BY <2>1, <2>2 DEF IsWriting
<1>3. ASSUME NEW j \in 1..m, NEW k \in 1..m, IsWriting(g, j), IsWriting(g, k), j < k
      PROVE  g[j].after.version < g[k].after.version /\ g[j].at <= g[k].at
  <2>1. j \in 1..n /\ k \in 1..n /\ g[j] = h[j] /\ g[k] = h[k] /\ IsWriting(h, j) /\ IsWriting(h, k)
    BY <1>1, <1>3
  <2>2. QED BY <1>3, <2>1 DEF Documented
<1>4. g[1].type = "created"
  BY DEF Documented
<1>5. QED BY <1>2, <1>3, <1>4 DEF Documented

\* So does the next version, at no time that came before.
LEMMA DocumentedNext ==
  ASSUME NEW h, NEW rows, NEW g, NEW more, NEW n \in Nat, NEW r \in Nat, NEW at,
         Len(h) = n, Len(g) = n + 1, 1 <= n, Len(rows) = r, Len(more) = r + 1,
         \A k \in 1..n : g[k] = h[k] /\ h[k].at <= at,
         IsWriting(g, n + 1), g[n + 1].after.version = r + 1, g[n + 1].at = at,
         \A k \in 1..n : IsWriting(h, k) => h[k].after.version \in 1..r,
         Documented(h, rows)
  PROVE  Documented(g, more)
<1>1. \A k \in 1..(n + 1) : k \in 1..n \/ k = n + 1
  OBVIOUS
<1>2. \A k \in 1..n : IsWriting(g, k) => IsWriting(h, k)
  BY DEF IsWriting
<1>3. ASSUME NEW v \in 1..(r + 1)
      PROVE  \E k \in 1..(n + 1) : IsWriting(g, k) /\ g[k].after.version = v
  <2>1. CASE v \in 1..r
    <3>1. PICK k \in 1..n : IsWriting(h, k) /\ h[k].after.version = v
      BY <2>1 DEF Documented
    <3>2. k \in 1..(n + 1) /\ g[k] = h[k]
      BY <3>1
    <3>3. QED BY <3>1, <3>2 DEF IsWriting
  <2>2. CASE v = r + 1
    <3>1. n + 1 \in 1..(n + 1)
      OBVIOUS
    <3>2. QED BY <2>2, <3>1
  <2>3. QED BY <2>1, <2>2
<1>4. ASSUME NEW j \in 1..(n + 1), NEW k \in 1..(n + 1), IsWriting(g, j), IsWriting(g, k), j < k
      PROVE  g[j].after.version < g[k].after.version /\ g[j].at <= g[k].at
  <2>1. j \in 1..n /\ g[j] = h[j] /\ IsWriting(h, j)
    BY <1>1, <1>2, <1>4
  <2>2. CASE k \in 1..n
    <3>1. g[k] = h[k] /\ IsWriting(h, k)
      BY <1>2, <1>4, <2>2
    <3>2. QED BY <1>4, <2>1, <2>2, <3>1 DEF Documented
  <2>3. CASE k = n + 1
    <3>1. h[j].after.version \in 1..r /\ h[j].at <= at
      BY <2>1
    <3>2. QED BY <2>1, <2>3, <3>1
  <2>4. QED BY <1>1, <2>2, <2>3
<1>5. g[1].type = "created"
  BY DEF Documented
<1>6. QED BY <1>3, <1>4, <1>5 DEF Documented

\* Creation documents the first version.
LEMMA BegunDocumented ==
  ASSUME Base, TablesTyped, NEW e \in Experiences, Begins(e)
  PROVE  Documented(history'[e], versions'[e])
<1>1. PICK t \in {"hot", "warm"} : memory'[e] = Fresh(t)
  BY DEF Begins
<1>2. PICK m \in States : m = memory'[e]
  BY DEF TablesTyped
<1>3. m.version = 1
  BY <1>1, <1>2 DEF Fresh, NoState
<1>4. clock \in Times
  BY DEF Base, TypeOK
<1>5. PICK a \in Drafts : a = Draft("created", "", m) /\ a.type = "created" /\ a.after = m
  <2>1. PICK x : x = Draft("created", "", m)
    OBVIOUS
  <2>2. x \in Drafts /\ x.type = "created" /\ x.after = m
    BY <2>1, NamesTyped DEF Draft, Drafts
  <2>3. QED BY <2>1, <2>2
<1>6. PICK b \in Drafts : /\ b = Draft("version_created", "", m)
                          /\ b.type = "version_created" /\ b.after = m
  <2>1. PICK x : x = Draft("version_created", "", m)
    OBVIOUS
  <2>2. x \in Drafts /\ x.type = "version_created" /\ x.after = m
    BY <2>1, NamesTyped DEF Draft, Drafts
  <2>3. QED BY <2>1, <2>2
<1>7. PICK d : d = <<a, b>>
  OBVIOUS
<1>8. d \in Seq(Drafts) /\ Len(d) = 2 /\ d[1] = a /\ d[2] = b
  BY <1>7, TwoOrThree
<1>9. PICK h \in Seq(Events) :
        /\ h = Chained(e, d, clock) /\ Len(h) = Len(d)
        /\ \A j \in 1..Len(d) : h[j].type = d[j].type /\ h[j].after = d[j].after
  BY <1>4, <1>8, ChainedIs DEF Base
<1>10. /\ Len(h) = 2 /\ h[1].type = "created" /\ h[2].type = "version_created"
       /\ h[2].after.version = 1
  <2>1. 1 \in 1..Len(d) /\ 2 \in 1..Len(d)
    BY <1>8
  <2>2. h[1].type = a.type /\ h[2].type = b.type /\ h[2].after = b.after
    BY <1>8, <1>9, <2>1
  <2>3. QED BY <1>3, <1>5, <1>6, <1>8, <1>9, <2>2
<1>11. history'[e] = h /\ Len(versions'[e]) = 1
  BY <1>2, <1>5, <1>6, <1>7, <1>9 DEF Begins
<1>12. \A k \in 1..2 : IsWriting(h, k) => k = 2
  BY <1>10 DEF IsWriting
<1>13. \A v \in 1..1 : \E k \in 1..2 : IsWriting(h, k) /\ h[k].after.version = v
  BY <1>10 DEF IsWriting
<1>14. ASSUME NEW j \in 1..2, NEW k \in 1..2, IsWriting(h, j), IsWriting(h, k), j < k PROVE FALSE
  BY <1>12, <1>14
<1>15. Documented(h, versions'[e])
  BY <1>10, <1>11, <1>13, <1>14 DEF Documented
<1>16. QED BY <1>11, <1>15

\* A revision documents the version it writes.
LEMMA RenewedDocumented ==
  ASSUME Base, TablesTyped, NEW e \in Experiences, Ledgered(e), Renews(e),
         Documented(history[e], versions[e])
  PROVE  Documented(history'[e], versions'[e])
<1>1. /\ e \in Known /\ NotBefore(e, clock) /\ Taken(history[e], versions[e]) /\ Ready(e)
      /\ clock \in Times
  BY DEF Renews, Ledgered, Base, TypeOK
<1>2. PICK h \in Seq(Events) : h = history[e]
  BY DEF Base, TypeOK
<1>3. PICK rows \in Seq(Versions) : rows = versions[e]
  BY DEF Base, TypeOK
<1>4. PICK m \in States : m = memory[e] /\ m.version = Len(rows)
  BY <1>1, <1>3 DEF Base, TypeOK, Ready
<1>5. PICK more \in Seq(Versions) : more = versions'[e] /\ Len(more) = Len(rows) + 1
  BY <1>3 DEF TablesTyped, Renews
<1>6. PICK next \in States : next = memory'[e] /\ next.version = Len(rows) + 1
  <2>1. memory'[e] \in States /\ memory'[e] = [m EXCEPT !.version = m.version + 1]
    BY <1>4 DEF TablesTyped, Renews
  <2>2. memory'[e].version = m.version + 1
    BY <2>1 DEF States
  <2>3. QED BY <1>4, <2>1, <2>2
<1>7. PICK a \in Drafts : /\ a = Draft("version_created", "", next)
                          /\ a.type = "version_created" /\ a.after = next
  <2>1. PICK x : x = Draft("version_created", "", next)
    OBVIOUS
  <2>2. x \in Drafts /\ x.type = "version_created" /\ x.after = next
    BY <2>1, NamesTyped DEF Draft, Drafts
  <2>3. QED BY <2>1, <2>2
<1>8. PICK d \in Seq(Drafts) : d = <<a>> /\ Len(d) = 1 /\ d[1] = a
  <2>1. PICK x : x = <<a>>
    OBVIOUS
  <2>2. x \in Seq(Drafts) /\ Len(x) = 1 /\ x[1] = a
    BY <2>1
  <2>3. QED BY <2>1, <2>2
<1>9. PICK c \in Seq(Events) :
        /\ c = Chained(e, d, clock) /\ Len(c) = 1
        /\ c[1].type = "version_created" /\ c[1].after = next /\ c[1].at = clock
  <2>1. PICK c \in Seq(Events) :
          /\ c = Chained(e, d, clock) /\ Len(c) = Len(d)
          /\ \A j \in 1..Len(d) : /\ c[j].type = d[j].type /\ c[j].after = d[j].after
                                  /\ c[j].at = clock
    BY <1>1, ChainedIs DEF Base
  <2>2. 1 \in 1..Len(d)
    BY <1>8
  <2>3. c[1].type = a.type /\ c[1].after = a.after /\ c[1].at = clock
    BY <1>8, <2>1, <2>2
  <2>4. QED BY <1>7, <1>8, <2>1, <2>3
<1>10. PICK n \in Nat : n = Len(h) /\ n >= 2 /\ DOMAIN h = 1..n
  BY <1>1, <1>2, LenProperties DEF Ready
<1>11. PICK g \in Seq(Events) :
         /\ g = h \o c /\ Len(g) = n + 1 /\ g[n + 1] = c[1]
         /\ \A k \in 1..n : g[k] = h[k]
  <2>1. /\ h \o c \in Seq(Events) /\ Len(h \o c) = Len(h) + Len(c)
        /\ \A k \in 1..Len(h) : (h \o c)[k] = h[k]
        /\ \A k \in 1..Len(c) : (h \o c)[Len(h) + k] = c[k]
    BY ConcatFacts
  <2>2. Len(h) = n /\ Len(c) = 1 /\ 1 \in 1..Len(c)
    BY <1>9, <1>10
  <2>3. Len(h \o c) = n + 1 /\ (h \o c)[n + 1] = c[1]
    BY <2>1, <2>2
  <2>4. QED BY <2>1, <2>2, <2>3
<1>12. history'[e] = g
  BY <1>2, <1>6, <1>7, <1>8, <1>9, <1>11 DEF Renews
<1>13. PICK r \in Nat : r = Len(rows) /\ DOMAIN rows = 1..r
  BY LenProperties
<1>14. \A k \in 1..n : /\ h[k].at <= clock
                       /\ IsWriting(h, k) => h[k].after.version \in 1..r
  <2>1. \A k \in 1..n : h[k].at <= clock
    BY <1>1, <1>2, <1>10 DEF NotBefore
  <2>2. \A k \in 1..n : IsWriting(h, k) => h[k].after.version \in 1..r
    BY <1>1, <1>2, <1>3, <1>10, <1>13, TakenWriting
  <2>3. QED BY <2>1, <2>2
<1>15. /\ IsWriting(g, n + 1) /\ g[n + 1].after.version = r + 1 /\ g[n + 1].at = clock
  BY <1>6, <1>9, <1>11, <1>13 DEF IsWriting
<1>16. Documented(h, rows) /\ Len(h) = n /\ Len(g) = n + 1 /\ 1 <= n /\ Len(more) = r + 1
  BY <1>2, <1>3, <1>5, <1>10, <1>11, <1>13
<1>17. \A k \in 1..n : g[k] = h[k] /\ h[k].at <= clock
  BY <1>11, <1>14
<1>18. Len(rows) = r
  BY <1>13
<1>19. Documented(g, more)
  BY <1>14, <1>15, <1>16, <1>17, <1>18, DocumentedNext, ZenonT(30)
<1>20. QED BY <1>5, <1>12, <1>19

\* What commands and cycles append writes nothing.
LEMMA GrownDocumented ==
  ASSUME Base, TablesTyped, NEW e \in Experiences, NEW d, NEW at \in Times,
         Grows(e, d, at), Lawful(e, d, at), Ready(e), Documented(history[e], versions[e])
  PROVE  Documented(history'[e], versions'[e])
<1>1. PICK h \in Seq(Events) : h = history[e]
  BY DEF Base, TypeOK
<1>2. PICK c \in Seq(Events) : c = Chained(e, d, at)
  BY ChainedIs DEF Grows, Base
<1>3. PICK g \in Seq(Events) :
        /\ g = h \o c /\ Len(g) = Len(h) + Len(c)
        /\ \A k \in 1..Len(h) : g[k] = h[k]
        /\ \A j \in 1..Len(c) : g[Len(h) + j] = c[j]
  <2>1. /\ h \o c \in Seq(Events) /\ Len(h \o c) = Len(h) + Len(c)
        /\ \A k \in 1..Len(h) : (h \o c)[k] = h[k]
        /\ \A k \in 1..Len(c) : (h \o c)[Len(h) + k] = c[k]
    BY ConcatFacts
  <2>2. QED BY <2>1
<1>4. PICK n \in Nat, s \in Nat : n = Len(h) /\ s = Len(c) /\ n >= 2
  BY <1>1, LenProperties DEF Ready
<1>5. ASSUME NEW k \in (n + 1)..(n + s) PROVE ~IsWriting(g, k)
  <2>1. k - n \in 1..s /\ n + (k - n) = k
    BY <1>4
  <2>2. g[k] = c[k - n]
    BY <1>3, <1>4, <2>1
  <2>3. c[k - n].type # "version_created"
    BY <1>2, <1>4, <2>1 DEF Lawful, Continues, Succeeds
  <2>4. QED BY <2>2, <2>3 DEF IsWriting
<1>6. history'[e] = g /\ Len(versions'[e]) = Len(versions[e])
  BY <1>1, <1>2, <1>3 DEF Grows, SameRows
<1>7. Documented(h, versions[e]) /\ Len(h) = n /\ Len(g) = n + s /\ 1 <= n /\ n <= n + s
  BY <1>1, <1>3, <1>4
<1>8. \A k \in 1..n : g[k] = h[k]
  BY <1>3, <1>4
<1>9. n + s \in Nat
  BY <1>4
<1>10. Documented(g, versions'[e])
  BY <1>5, <1>6, <1>7, <1>8, <1>9, DocumentedStill, SMTT(30)
<1>11. QED BY <1>6, <1>10

\* The links of a new version are those of its command; the others stay.
LEMMA LinkedStep ==
  ASSUME Base, TablesTyped, NEW e \in Experiences, e \in Known', Advances(e), Known \subseteq Known',
         e \in Known => \A v \in 1..Len(versions[e]) : Linked(Known, e, versions[e][v].links)
  PROVE  \A v \in 1..Len(versions'[e]) : Linked(Known', e, versions'[e][v].links)
<1>1. Len(versions[e]) \in Nat
  BY LenProperties DEF Base, TypeOK
<1>2. ASSUME NEW links, Linked(Known, e, links) PROVE Linked(Known', e, links)
  BY <1>2 DEF Linked
<1>3. CASE Untouched(e)
  <2>1. e \in Known /\ versions'[e] = versions[e]
    BY <1>3 DEF Untouched, Known
  <2>2. QED BY <1>2, <2>1 DEF Linked
<1>4. CASE Begins(e)
  <2>1. Len(versions'[e]) = 1 /\ Linked(Known, e, versions'[e][1].links)
    BY <1>4 DEF Begins
  <2>2. \A v \in 1..Len(versions'[e]) : v = 1
    BY <2>1
  <2>3. QED BY <1>2, <2>1, <2>2 DEF Linked
<1>5. CASE Renews(e)
  <2>1. /\ e \in Known /\ Len(versions'[e]) = Len(versions[e]) + 1
        /\ \A v \in 1..Len(versions[e]) : versions'[e][v] = versions[e][v]
        /\ Linked(Known, e, versions'[e][Len(versions[e]) + 1].links)
    BY <1>5 DEF Renews
  <2>2. ASSUME NEW v \in 1..Len(versions'[e]) PROVE Linked(Known, e, versions'[e][v].links)
    <3>1. v \in 1..Len(versions[e]) \/ v = Len(versions[e]) + 1
      BY <1>1, <2>1
    <3>2. QED BY <2>1, <3>1
  <2>3. QED BY <1>2, <2>2 DEF Linked
<1>6. ASSUME NEW at, NEW d, Grows(e, d, at)
      PROVE  \A v \in 1..Len(versions'[e]) : Linked(Known', e, versions'[e][v].links)
  <2>1. ASSUME NEW v \in 1..Len(versions'[e]) PROVE Linked(Known, e, versions'[e][v].links)
    BY <1>6, <2>1 DEF Grows, SameRows
  <2>2. QED BY <1>2, <2>1 DEF Linked
<1>7. QED BY <1>3, <1>4, <1>5, <1>6 DEF Advances

\* A step leaves every experience as the validator wants it.
LEMMA AuditableStep ==
  ASSUME MemoryLedger, [Next]_vars, NEW e \in Experiences, Auditable(e)
  PROVE  Auditable(e)'
<1>1. /\ Base /\ TablesTyped /\ Ledgered(e) /\ AllReady
      /\ \A x \in Experiences : Counting(x) /\ Fate(x)
  <2>1. AllReady
    BY DEF MemoryLedger, Ledgered, AllReady, Known
  <2>2. Base /\ TablesTyped
    BY StepKinds DEF MemoryLedger
  <2>3. QED BY <2>1, <2>2, Fates DEF MemoryLedger
<1>2. Advances(e)
  BY <1>1, StepAdvances
<1>3. Known \subseteq Known'
  <2>1. \A x \in Known : x \in Experiences /\ x \in Known'
    BY <1>1, LocalBase DEF Known
  <2>2. QED BY <2>1
<1>4. SUFFICES ASSUME e \in Known' PROVE Auditable(e)'
  BY DEF Auditable
<1>5. \A v \in 1..Len(versions'[e]) : Linked(Known', e, versions'[e][v].links)
  BY <1>1, <1>2, <1>3, <1>4, LinkedStep DEF Auditable
<1>6. Documented(history'[e], versions'[e])
  <2>1. CASE Untouched(e)
    <3>1. e \in Known /\ history'[e] = history[e] /\ versions'[e] = versions[e]
      BY <1>4, <2>1 DEF Untouched, Known
    <3>2. QED BY <3>1 DEF Auditable
  <2>2. CASE Begins(e)
    BY <1>1, <2>2, BegunDocumented
  <2>3. CASE Renews(e)
    <3>1. Documented(history[e], versions[e])
      BY <2>3 DEF Auditable, Renews
    <3>2. QED BY <1>1, <2>3, <3>1, RenewedDocumented
  <2>4. ASSUME NEW at \in Times, NEW d, Grows(e, d, at), Lawful(e, d, at)
        PROVE  Documented(history'[e], versions'[e])
    <3>1. Documented(history[e], versions[e]) /\ Ready(e)
      BY <1>1, <2>4 DEF Auditable, Grows, AllReady
    <3>2. QED BY <1>1, <2>4, <3>1, GrownDocumented
  <2>5. QED BY <1>2, <2>1, <2>2, <2>3, <2>4 DEF Advances
<1>7. QED BY <1>5, <1>6 DEF Auditable, Documented, IsWriting

\* What the validator asks of one experience.
LEMMA SourceFacts ==
  ASSUME Base, AllReady, NEW e \in Experiences, Ledgered(e), Auditable(e)
  PROVE  SourceAccepted(e)
<1>1. SUFFICES ASSUME e \in Known
               PROVE  /\ IdentityValid(e) /\ VersionsValid(e) /\ CreationAnchored(e)
                      /\ VersionsOrdered(e) /\ LinksValid(e)
  BY DEF SourceAccepted, Base, Entered
<1>2. PICK h \in Seq(Events) : h = history[e]
  BY DEF Base, TypeOK
<1>3. PICK rows \in Seq(Versions) : rows = versions[e]
  BY DEF Base, TypeOK
<1>4. PICK n \in Nat : n = Len(h) /\ n >= 2 /\ DOMAIN h = 1..n
  BY <1>1, <1>2, LenProperties DEF Ledgered, Ready
<1>5. PICK r \in Nat : r = Len(rows) /\ r >= 1 /\ DOMAIN rows = 1..r
  BY <1>1, <1>3, LenProperties DEF Base, Entered
<1>6. Taken(h, rows) /\ Documented(h, rows) /\ \A v \in 1..r : Linked(Known, e, rows[v].links)
  BY <1>1, <1>2, <1>3, <1>5 DEF Ledgered, Auditable
<1>7. ASSUME NEW k \in 1..n
      PROVE  /\ h[k].type = "created" => k = 1 /\ rows[1].at = h[k].at /\ h[k].after.version = 1
             /\ IsWriting(h, k) => /\ h[k].after.version \in 1..r
                                   /\ rows[h[k].after.version].at = h[k].at
                                   /\ IF h[k].after.version = 1 THEN k = 2 ELSE k > 2
  BY <1>4, <1>5, <1>6, TakenWriting
<1>8. 1 \in 1..n /\ h[1].type = "created"
  BY <1>4, <1>6 DEF Documented
<1>9. Writings(e) = {k \in 1..n : IsWriting(h, k)}
  BY <1>2, <1>4 DEF Writings, IsWriting
<1>10. \A k \in 1..n : Number(e, k) = h[k].after.version
  BY <1>2 DEF Number
<1>11. IdentityValid(e)
  <2>1. Creations(e) = {k \in 1..n : h[k].type = "created"}
    BY <1>2, <1>4 DEF Creations
  <2>2. Creations(e) = {1}
    BY <1>7, <1>8, <2>1
  <2>3. versions[e] # <<>>
    BY <1>3, <1>5
  <2>4. Number(e, 1) = 1
    BY <1>7, <1>8, <1>10
  <2>5. QED BY <2>2, <2>3, <2>4 DEF IdentityValid
<1>12. ASSUME NEW j \in 1..n, NEW k \in 1..n, IsWriting(h, j), IsWriting(h, k), j < k
       PROVE  h[j].after.version < h[k].after.version /\ h[j].at <= h[k].at
  BY <1>4, <1>6, <1>12 DEF Documented
<1>13. ASSUME NEW v \in 1..r PROVE \E k \in Writings(e) : Explained(e, v, k)
  <2>1. PICK k \in 1..n : IsWriting(h, k) /\ h[k].after.version = v
    BY <1>4, <1>5, <1>6 DEF Documented
  <2>2. ASSUME NEW j \in Writings(e) PROVE Number(e, j) = v <=> j = k
    <3>1. j \in 1..n /\ IsWriting(h, j) /\ Number(e, j) = h[j].after.version
      BY <1>9, <1>10, <2>2
    <3>2. h[j].after.version \in 1..r /\ h[k].after.version \in 1..r
      BY <1>7, <2>1, <3>1
    <3>3. CASE j < k
      <4>1. h[j].after.version < h[k].after.version
        BY <1>12, <2>1, <3>1, <3>3
      <4>2. QED BY <2>1, <3>1, <3>2, <3>3, <4>1
    <3>4. CASE k < j
      <4>1. h[k].after.version < h[j].after.version
        BY <1>12, <2>1, <3>1, <3>4
      <4>2. QED BY <2>1, <3>1, <3>2, <3>4, <4>1
    <3>5. CASE j = k
      BY <2>1, <3>1, <3>5
    <3>6. QED BY <3>1, <3>3, <3>4, <3>5
  <2>3. history[e][k].at = versions[e][v].at /\ IF v = 1 THEN k = 2 ELSE k > 2
    BY <1>2, <1>3, <1>7, <2>1
  <2>4. k \in Writings(e)
    BY <1>9, <2>1
  <2>5. QED BY <2>2, <2>3, <2>4 DEF Explained
<1>14. VersionsValid(e)
  <2>1. DOMAIN versions[e] = 1..r
    BY <1>3, <1>5
  <2>2. \A k \in Writings(e) : Number(e, k) \in 1..r
    BY <1>7, <1>9, <1>10
  <2>3. QED BY <1>13, <2>1, <2>2 DEF VersionsValid
<1>15. CreationAnchored(e)
  <2>1. history[e][1].at = versions[e][1].at
    BY <1>2, <1>3, <1>7, <1>8
  <2>2. ASSUME NEW k \in Writings(e), Number(e, k) = 1
        PROVE  k = 2 /\ history[e][k].at = versions[e][1].at
    <3>1. k \in 1..n /\ IsWriting(h, k) /\ h[k].after.version = 1
      BY <1>9, <1>10, <2>2
    <3>2. k = 2 /\ rows[1].at = h[k].at
      BY <1>7, <3>1
    <3>3. QED BY <1>2, <1>3, <3>2
  <2>3. QED BY <2>1, <2>2 DEF CreationAnchored
<1>16. VersionsOrdered(e)
  <2>1. ASSUME NEW j \in Writings(e), NEW k \in Writings(e), Number(e, j) < Number(e, k)
        PROVE  j < k /\ history[e][j].at <= history[e][k].at
    <3>1. /\ j \in 1..n /\ IsWriting(h, j) /\ Number(e, j) = h[j].after.version
          /\ k \in 1..n /\ IsWriting(h, k) /\ Number(e, k) = h[k].after.version
      BY <1>9, <1>10, <2>1
    <3>2. h[j].after.version \in 1..r /\ h[k].after.version \in 1..r
      BY <1>7, <3>1
    <3>3. ASSUME k < j PROVE FALSE
      <4>1. h[k].after.version < h[j].after.version
        BY <1>12, <3>1, <3>3
      <4>2. QED BY <2>1, <3>1, <3>2, <4>1
    <3>4. j # k
      BY <2>1, <3>1, <3>2
    <3>5. j < k
      BY <3>1, <3>3, <3>4
    <3>6. QED BY <1>2, <1>12, <3>1, <3>5
  <2>2. QED BY <2>1 DEF VersionsOrdered
<1>17. LinksValid(e)
  <2>1. ASSUME NEW v \in 1..r, NEW l \in rows[v].links
        PROVE  l.target # e /\ history[l.target] # <<>> /\ Owner[l.target] = Owner[e]
    <3>1. l.target \in Known \ {e} /\ Owner[l.target] = Owner[e]
      BY <1>6, <2>1 DEF Linked
    <3>2. Len(history[l.target]) >= 2
      BY <3>1 DEF AllReady, Ready
    <3>3. history[l.target] # <<>>
      BY <3>2
    <3>4. QED BY <3>1, <3>3
  <2>2. QED BY <1>3, <1>5, <2>1 DEF LinksValid
<1>18. QED BY <1>11, <1>14, <1>15, <1>16, <1>17

\* storage/validation.py: a database that only the program wrote can always be
\* audited.  Its rows agree with the ledger, no two experiences of an agent
\* say the same, every version is stored as its temperature asks for, and a
\* rebuild returns what is projected, whatever was created, superseded,
\* archived and restored between, and however the clock stepped back.
THEOREM MemoryPassesAudit == Spec => []AuditAccepts
<1> DEFINE Inv == MemoryLedger /\ \A e \in Experiences : Auditable(e)
<1>1. Init => \A e \in Experiences : Auditable(e)
  BY DEF Init, Auditable, Known, NoState
<1>2. Inv /\ [Next]_vars => (\A e \in Experiences : Auditable(e))'
  BY AuditableStep
<1>3. Inv => \A e \in Experiences : SourceAccepted(e)
  <2> SUFFICES ASSUME Inv, NEW e \in Experiences PROVE SourceAccepted(e)
    OBVIOUS
  <2>1. AllReady
    BY DEF MemoryLedger, Ledgered, AllReady, Known
  <2>2. QED BY <2>1, SourceFacts DEF MemoryLedger
<1>4. MemoryLedger /\ UniqueContent => CurrentContentUnique
  <2> SUFFICES ASSUME MemoryLedger, UniqueContent, NEW e \in Experiences, NEW f \in Experiences,
                      versions[e] # <<>>, versions[f] # <<>>, e # f, Owner[e] = Owner[f]
               PROVE  Latest(versions[e]).content # Latest(versions[f]).content
    BY DEF CurrentContentUnique
  <2>1. e \in Known /\ f \in Known
    BY DEF MemoryLedger, Base, Entered
  <2>2. QED BY <2>1 DEF UniqueContent, Current, Latest
<1>5. Spec => [](MemoryLedger /\ UniqueContent /\ CodecMatchesTemperature /\ RebuildReproduces)
  BY LedgersAreAccepted, CodecsAndContents, RebuildsAreExact, PTL
<1>6. Spec => [](\A e \in Experiences : Auditable(e))
  BY <1>1, <1>2, LedgersAreAccepted, PTL DEF Spec
<1>7. /\ MemoryLedger /\ UniqueContent /\ CodecMatchesTemperature /\ RebuildReproduces
      /\ \A e \in Experiences : Auditable(e)
      => AuditAccepts
  BY <1>3, <1>4 DEF AuditAccepts
<1>8. QED BY <1>5, <1>6, <1>7, PTL
=============================================================================
