-------------------------- MODULE ExperienceMemory --------------------------
(***************************************************************************)
(* The private experiences of the agents and the cycles that let them      *)
(* fade.  An experience has versions, one of them current, a temperature,  *)
(* a pin, and a hysteresis counter; commands of its owner and lifecycle    *)
(* cycles move it between the temperatures.  Every command is one writer   *)
(* transaction (CommandLedger models those), so it is one action here, and *)
(* a refused command changes nothing and is no action at all.  Its receipt *)
(* keeps the refusal, which matters where its key comes back: the lifecycle*)
(* worker makes the key of a cycle from the cycle's time.                  *)
(*                                                                         *)
(* The wall clock may step back.  The lifecycle worker reads it before its *)
(* transaction begins, and a manual cycle brings a time of its own.        *)
(*                                                                         *)
(* Activation is one of four bands the thresholds tell apart; a cycle may  *)
(* find an experience in any of them, as scores depend on importance,      *)
(* confidence and decay, which are not modelled.                           *)
(***************************************************************************)
EXTENDS Integers, Sequences, FiniteSets

CONSTANTS
    Experiences,     \* the experiences that may be created
    Agents,
    Owner,           \* the agent that owns an experience
    Relations,       \* the relations that links in use have
    Contents,        \* what tells current contents apart: their hashes
    MinInterval,     \* least time between two evaluations of an experience
    DemotionCycles,  \* evaluations below a threshold that demote
    ArchiveAfter,    \* least time in the cold before the archive
    MaxTime,         \* bound on the clock
    MaxVersions,     \* bound on the versions of an experience
    MaxCommands,     \* bound on the commands after creation
    MaxCycles,       \* bound on the completed cycles
    WorkerStarted,   \* whether the process runs the lifecycle worker
    Explored(_, _)   \* bound on the histories and versions that are explored

ASSUME ExperiencesAssumption == IsFiniteSet(Experiences)
ASSUME OwnerAssumption == Owner \in [Experiences -> Agents]
ASSUME RelationAssumption ==
    Relations \subseteq {"derived_from", "supports", "tests", "contradicts"}
ASSUME PolicyAssumption ==
    /\ MinInterval \in Nat \ {0}
    /\ DemotionCycles \in Nat \ {0}
    /\ ArchiveAfter \in Nat \ {0}
ASSUME BoundAssumption ==
    /\ MaxTime \in Nat
    /\ MaxVersions \in Nat
    /\ MaxCommands \in Nat
    /\ MaxCycles \in Nat
    /\ WorkerStarted \in BOOLEAN

VARIABLES
    clock,     \* what the wall clock shows
    memory,    \* the current state of every experience
    versions,  \* its versions, oldest first
    history,   \* its events in the ledger, oldest first
    answers,   \* the responses of the completed cycles, by their time
    receipts,  \* what the receipts of the worker hold, by the time in their keys
    tick       \* the time the worker has read for its next cycle, or Never

vars == <<clock, memory, versions, history, answers, receipts, tick>>

Times == 0..MaxTime
Never == -1

Active == {"hot", "warm", "cold"}
Temperatures == Active \cup {"none", "archived"}
Codecs == {"plain", "zlib"}
Links == [target : Experiences, relation : Relations]
Versions == [content : Contents, codec : Codecs, links : SUBSET Links, at : Times]

\* Activation below 0.30, below 0.62, below 0.75, and from there on.
Bands == {"faded", "mild", "lively", "bright"}
Demotions == {"demote_warm", "demote_cold"}

CommandEvents == {"accessed", "confirmed", "corroborated", "refuted",
                  "pinned", "unpinned", "restored"}
EventTypes == CommandEvents \cup {"created", "version_created", "reactivated",
                                  "evaluated", "archived", "moved"}
Responses == {"completed", "invalid_evaluated_at", "clock_regression"}
Notes == Demotions \cup {"", "promote_hot", "archive", "none", "confirmation",
         "pin", "capsule_corroboration", "restore", "cold_reactivation",
         "lifecycle_activation", "lifecycle_demotion", "policy_archive"}
States == [temperature : Temperatures, pinned : BOOLEAN, counter : Nat,
           movedAt : Times, evaluatedAt : Times \cup {Never}, version : Nat]

\* An event carries the state before it and after it; "by" is the first event
\* of the command or cycle that appended it, which they have in common with
\* all the events it appended to one experience.
Events == [type : EventTypes, at : Times, note : Notes, by : Nat,
           before : States, after : States]

NoState == [temperature |-> "none", pinned |-> FALSE, counter |-> 0,
            movedAt |-> 0, evaluatedAt |-> Never, version |-> 0]

\* An event before it is appended, and a sequence of them appended in turn.
Draft(type, note, after) == [type |-> type, note |-> note, after |-> after]
Chained(e, drafts, at) ==
    [k \in DOMAIN drafts |->
       [type |-> drafts[k].type, at |-> at, note |-> drafts[k].note,
        by |-> Len(history[e]) + 1,
        before |-> IF k = 1 THEN memory[e] ELSE drafts[k - 1].after,
        after |-> drafts[k].after]]

-----------------------------------------------------------------------------
(* Reading the current state.                                              *)

Known == {e \in Experiences : memory[e].temperature # "none"}
IsActive(e) == memory[e].temperature \in Active
Current(e) == versions[e][Len(versions[e])]

\* Mutant: archived experiences are no equivalents.
ActiveEquivalents(owner, content) ==
    {e \in Known : IsActive(e) /\ Owner[e] = owner /\ Current(e).content = content}

\* The other experience of an owner that has a content now, in whatever
\* temperature it is.
CurrentEquivalents(owner, content) ==
    {e \in Known : Owner[e] = owner /\ Current(e).content = content}

\* Mutant: a time equal to the last one counts as a regression.
StrictlyBefore(e, at) == \A k \in DOMAIN history[e] : history[e][k].at < at

\* Every causal anchor of an experience (its creation, its current version,
\* its last event, the times its state carries) is the time of one of its
\* events, and the last event is one of the anchors.
NotBefore(e, at) == \A k \in DOMAIN history[e] : history[e][k].at <= at

Dependencies == {"derived_from", "supports", "tests"}

\* Mutant: cold dependents do not hold what they rest on.
WarmDependentTargets ==
    {l.target : l \in UNION {{link \in Current(s).links :
                                link.relation \in Dependencies} :
                             s \in {x \in Known :
                                      memory[x].temperature \in {"hot", "warm"}}}}

\* What the current versions of experiences that are not archived rest on.
ActiveDependentTargets ==
    {l.target : l \in UNION {{link \in Current(s).links :
                                link.relation \in Dependencies} :
                             s \in {x \in Known : IsActive(x)}}}

PreferredCodec(temperature) ==
    IF temperature \in {"hot", "warm"} THEN "plain" ELSE "zlib"

\* Links are to other experiences of the same owner, at most one here.
LinkSets(e) ==
    {ls \in {{}} \cup {{l} : l \in Links} :
        \A l \in ls : l.target \in Known \ {e} /\ Owner[l.target] = Owner[e]}

Commands(e) ==
    {<<e, k>> : k \in {j \in DOMAIN history[e] : history[e][j].type \in CommandEvents}}
\* The bound on commands; an unpin follows a pin and needs no room of its own.
Room == Cardinality(UNION {Commands(e) : e \in Experiences}) < MaxCommands

-----------------------------------------------------------------------------
(* Writing it: a state after its events, with every version re-encoded     *)
(* when the temperature changes.                                           *)

\* Mutant: a move keeps the time of the move before it.
MovedKeepsTime(state, temperature, at) ==
    [state EXCEPT !.temperature = temperature, !.counter = 0]

Moved(state, temperature, at) ==
    [state EXCEPT !.temperature = temperature, !.movedAt = at, !.counter = 0]

\* A payload in a codec; the codec is all of it that may change.
Reencoded(version, codec) == [version EXCEPT !.codec = codec]

Rewritten(e, temperature) ==
    IF temperature = memory[e].temperature
    THEN versions[e]
    ELSE [k \in DOMAIN versions[e] |->
            Reencoded(versions[e][k], PreferredCodec(temperature))]

\* An event and the move it causes.
HeadThenMove(drafts, cause) ==
    Len(drafts) = 2 /\ drafts[2].type = "moved" /\ drafts[2].note = cause

\* Where the event of a command stands alone, and the move it causes elsewhere.
StandsAlone ==
    [confirmed |-> {"hot"}, pinned |-> {"hot"}, corroborated |-> {"hot", "warm"},
     refuted |-> Active, unpinned |-> Active, restored |-> {}]
MoveCause ==
    [confirmed |-> "confirmation", pinned |-> "pin", restored |-> "restore",
     corroborated |-> "capsule_corroboration"]

\* The events that a command may append, by the temperature it finds.
LegalCommandSequence(e, drafts) ==
    LET type == drafts[1].type
    IN  type \in DOMAIN StandsAlone =>
          /\ type = "restored" <=> memory[e].temperature = "archived"
          /\ IF memory[e].temperature \in StandsAlone[type]
             THEN Len(drafts) = 1
             ELSE HeadThenMove(drafts, MoveCause[type])

\* The events that a cycle may append, by the target its evaluation records.
LegalCycleSequence(drafts) ==
    LET target == drafts[1].note
        due == drafts[1].after.counter >= DemotionCycles
    IN  drafts[1].type = "evaluated" =>
          CASE target = "promote_hot" -> HeadThenMove(drafts, "lifecycle_activation")
            [] target = "archive" ->
                 /\ Len(drafts) = 3
                 /\ drafts[2].type = "archived" /\ drafts[3].note = "policy_archive"
            [] target \in Demotions /\ due -> HeadThenMove(drafts, "lifecycle_demotion")
            [] OTHER -> Len(drafts) = 1

\* Several experiences at once: drafts is a function on them.  A sequence of
\* another form is refused with the whole command.
ApplyOrderedEvents(S, drafts, at) ==
    LET last(e) == drafts[e][Len(drafts[e])].after
    IN  /\ \A e \in S : LegalCommandSequence(e, drafts[e]) /\ LegalCycleSequence(drafts[e])
        /\ memory' = [e \in Experiences |-> IF e \in S THEN last(e) ELSE memory[e]]
        /\ history' = [e \in Experiences |->
             IF e \in S THEN history[e] \o Chained(e, drafts[e], at) ELSE history[e]]
        /\ versions' = [e \in Experiences |->
             IF e \in S THEN Rewritten(e, last(e).temperature) ELSE versions[e]]
        /\ Explored(history', versions')

\* A command on one active experience: its event, and the move it causes
\* from some temperatures.
Mutate(e, state, type, from, to, cause) ==
    /\ IsActive(e)
    /\ NotBefore(e, clock)
    /\ type = "unpinned" \/ Room
    /\ ApplyOrderedEvents({e},
         [x \in {e} |-> <<Draft(type, "", state)>> \o
            IF state.temperature \in from
            THEN <<Draft("moved", cause, Moved(state, to, clock))>> ELSE <<>>],
         clock)
    /\ UNCHANGED <<clock, answers, receipts, tick>>

-----------------------------------------------------------------------------
Init ==
    /\ clock \in Times
    /\ memory = [e \in Experiences |-> NoState]
    /\ versions = [e \in Experiences |-> <<>>]
    /\ history = [e \in Experiences |-> <<>>]
    /\ answers = {}
    /\ receipts = {}
    /\ tick = Never

AdvanceClock ==
    /\ clock < MaxTime
    /\ clock' = clock + 1
    /\ UNCHANGED <<memory, versions, history, answers, receipts, tick>>

\* The wall clock is corrected.
StepBack ==
    /\ clock' \in 0..(clock - 1)
    /\ UNCHANGED <<memory, versions, history, answers, receipts, tick>>

\* What a new experience is.
Fresh(temperature) ==
    [NoState EXCEPT !.temperature = temperature, !.movedAt = clock, !.version = 1]

Create(e, content, important, links) ==
    LET state == Fresh(IF important THEN "hot" ELSE "warm")
    IN  /\ e \notin Known
        /\ CurrentEquivalents(Owner[e], content) = {}
        /\ links \in LinkSets(e)
        /\ memory' = [memory EXCEPT ![e] = state]
        /\ versions' = [versions EXCEPT ![e] =
             <<[content |-> content, codec |-> PreferredCodec(state.temperature),
                links |-> links, at |-> clock]>>]
        /\ history' = [history EXCEPT ![e] =
             Chained(e, <<Draft("created", "", state),
                          Draft("version_created", "", state)>>, clock)]
        /\ Explored(history', versions')
        /\ UNCHANGED <<clock, answers, receipts, tick>>

CreateVersion(e, content, links) ==
    LET state == [memory[e] EXCEPT !.version = @ + 1]
    IN  /\ IsActive(e)
        /\ NotBefore(e, clock)
        /\ links \in LinkSets(e)
        /\ CurrentEquivalents(Owner[e], content) \subseteq {e}
        /\ Len(versions[e]) < MaxVersions
        /\ versions' = [versions EXCEPT ![e] = Append(@,
             [content |-> content, codec |-> PreferredCodec(state.temperature),
              links |-> links, at |-> clock])]
        /\ history' = [history EXCEPT ![e] =
             @ \o Chained(e, <<Draft("version_created", "", state)>>, clock)]
        /\ memory' = [memory EXCEPT ![e] = state]
        /\ Explored(history', versions')
        /\ UNCHANGED <<clock, answers, receipts, tick>>

Confirm(e) ==
    Mutate(e, memory[e], "confirmed", {"warm", "cold"}, "hot", "confirmation")

Corroborate(e) ==
    Mutate(e, memory[e], "corroborated", {"cold"}, "hot", "capsule_corroboration")

Refute(e) == Mutate(e, memory[e], "refuted", {}, "none", "")

Pin(e) ==
    /\ ~memory[e].pinned
    /\ Mutate(e, [memory[e] EXCEPT !.pinned = TRUE],
              "pinned", {"warm", "cold"}, "hot", "pin")

Unpin(e) ==
    /\ memory[e].pinned
    /\ Mutate(e, [memory[e] EXCEPT !.pinned = FALSE], "unpinned", {}, "none", "")

Restore(e) ==
    /\ memory[e].temperature = "archived"
    /\ NotBefore(e, clock)
    /\ Room
    /\ ApplyOrderedEvents({e},
         [x \in {e} |-> <<Draft("restored", "", memory[e]),
                          Draft("moved", "restore", Moved(memory[e], "warm", clock))>>],
         clock)
    /\ UNCHANGED <<clock, answers, receipts, tick>>

\* A search of one agent opens the bodies of some active experiences, cold
\* ones included; one of them that is ahead of the clock refuses it all.
Search(agent, S) ==
    /\ S # {}
    /\ \A e \in S : /\ Owner[e] = agent /\ IsActive(e)
                    /\ NotBefore(e, clock)
                    /\ Room
    /\ ApplyOrderedEvents(S,
         [e \in S |-> <<Draft("accessed", "", memory[e])>> \o
            IF memory[e].temperature = "cold"
            THEN <<Draft("reactivated", "", memory[e]),
                   Draft("moved", "cold_reactivation", Moved(memory[e], "warm", clock))>>
            ELSE <<>>],
         clock)
    /\ UNCHANGED <<clock, answers, receipts, tick>>

\* Reading one experience opens the body of a hot or warm one only.
Get(e) ==
    /\ memory[e].temperature \in {"hot", "warm"}
    /\ Mutate(e, memory[e], "accessed", {}, "none", "")

-----------------------------------------------------------------------------
(* Lifecycle cycles.                                                       *)

Eligible(e, at) ==
    /\ IsActive(e)
    /\ \/ memory[e].evaluatedAt = Never
       \/ at - memory[e].evaluatedAt >= MinInterval

\* What the thresholds ask for; "weak" stands for importance, confidence and
\* decayed strength below the limits of the archive.
Target(e, at, band, weak) ==
    LET m == memory[e]
    IN  CASE m.temperature = "hot" /\ ~m.pinned /\ band \in {"faded", "mild"}
               -> "demote_warm"
          [] m.temperature = "warm" /\ (m.pinned \/ band = "bright")
               -> "promote_hot"
          [] m.temperature = "warm" /\ ~m.pinned /\ band = "faded"
               -> "demote_cold"
          [] /\ m.temperature = "cold" /\ ~m.pinned /\ weak
             /\ at - m.movedAt >= ArchiveAfter
             /\ e \notin ActiveDependentTargets
               -> "archive"
          [] OTHER -> "none"

\* Mutant: recovery above the threshold takes one from the counter.
CounterDecrements(e, target) ==
    IF target \in Demotions THEN memory[e].counter + 1 ELSE memory[e].counter - 1

\* Mutant: recovery above the threshold keeps the counter.
CounterKept(e, target) ==
    IF target \in Demotions THEN memory[e].counter + 1 ELSE memory[e].counter

\* Recovery above the threshold resets the counter.
CounterAfter(e, target) ==
    IF target \in Demotions THEN memory[e].counter + 1 ELSE 0

\* Where the evaluation moves the experience, or where it is.
Destination(e, target) ==
    CASE target = "promote_hot" -> "hot"
      [] target = "archive" -> "archived"
      [] target \in Demotions /\ CounterAfter(e, target) >= DemotionCycles
           -> IF target = "demote_warm" THEN "warm" ELSE "cold"
      [] OTHER -> memory[e].temperature

Moves(e, target) == Destination(e, target) # memory[e].temperature

Evaluated(e, target, at) ==
    [memory[e] EXCEPT !.evaluatedAt = at, !.counter = CounterAfter(e, target)]

Evaluation(e, target, at) ==
    LET state == Evaluated(e, target, at)
        cause == CASE target = "promote_hot" -> "lifecycle_activation"
                   [] target = "archive" -> "policy_archive"
                   [] OTHER -> "lifecycle_demotion"
    IN  <<Draft("evaluated", target, state)>>
        \o (IF target = "archive" THEN <<Draft("archived", "", state)>> ELSE <<>>)
        \o (IF Moves(e, target)
            THEN <<Draft("moved", cause, Moved(state, Destination(e, target), at))>>
            ELSE <<>>)

\* Mutant: completed cycles are not looked up.
NoCompletedCycle(at) == {a \in answers : a.at # a.at}

\* The identity of a cycle is its time, with the configuration.
CompletedCycle(at) == {a \in answers : a.at = at}

\* Mutant: the records are not asked whether they are ahead of the cycle.
MayRunBehind(at) ==
    /\ at <= clock
    /\ CompletedCycle(at) = {}

\* A time in the future and a record that is ahead of the cycle refuse all of
\* it; a completed cycle is answered from its receipt.
MayRun(at) ==
    /\ at <= clock
    /\ CompletedCycle(at) = {}
    /\ \A e \in Known : NotBefore(e, at)

\* Every way the scores may turn out.
Targets(e, at) == {Target(e, at, band, weak) : band \in Bands, weak \in BOOLEAN}

RunCycle(at) ==
    LET due == {e \in Known : Eligible(e, at)}
    IN  /\ MayRun(at)
        /\ Cardinality(answers) < MaxCycles
        /\ \E target \in [due -> UNION {Targets(e, at) : e \in due}] :
             /\ \A e \in due : target[e] \in Targets(e, at)
             /\ ApplyOrderedEvents(due, [e \in due |-> Evaluation(e, target[e], at)], at)
             /\ answers' = answers \cup
                  {[at |-> at,
                    evaluated |-> Cardinality(due),
                    transitions |-> Cardinality({e \in due : Moves(e, target[e])}),
                    archived |-> Cardinality({e \in due : target[e] = "archive"})]}
        /\ UNCHANGED clock

\* A client's key is its own, and no other cycle is answered from its receipt.
ManualCycle(at) == RunCycle(at) /\ UNCHANGED <<receipts, tick>>

\* The worker reads the clock, and runs its cycle when it gets the writer.
WorkerTicks ==
    /\ WorkerStarted
    /\ tick = Never
    /\ tick' = clock
    /\ UNCHANGED <<clock, memory, versions, history, answers, receipts>>

\* How a cycle is answered; a refusal is kept like any other response.
Response(at) ==
    CASE at > clock -> "invalid_evaluated_at"
      [] at <= clock /\ (MayRun(at) \/ CompletedCycle(at) # {}) -> "completed"
      [] OTHER -> "clock_regression"

Stored(at) == {r \in receipts : r.at = at}

\* A time that the worker has brought before is answered from its receipt, and
\* is refused again if it was refused.
WorkerRuns ==
    /\ tick # Never
    /\ tick' = Never
    /\ IF Stored(tick) # {}
       THEN UNCHANGED <<clock, memory, versions, history, answers, receipts>>
       ELSE /\ receipts' = receipts \cup {[at |-> tick, response |-> Response(tick)]}
            /\ \/ RunCycle(tick)
               \/ ~MayRun(tick) /\ UNCHANGED <<clock, memory, versions, history, answers>>

\* The database stays busy, or the process is replaced.
WorkerGivesUp ==
    /\ tick # Never
    /\ tick' = Never
    /\ UNCHANGED <<clock, memory, versions, history, answers, receipts>>

Next ==
    \/ AdvanceClock \/ StepBack
    \/ WorkerTicks \/ WorkerRuns \/ WorkerGivesUp
    \/ \E at \in Times : ManualCycle(at)
    \/ \E agent \in Agents, S \in SUBSET Experiences : Search(agent, S)
    \/ \E e \in Experiences :
         \/ Confirm(e) \/ Corroborate(e) \/ Refute(e) \/ Pin(e) \/ Unpin(e)
         \/ Restore(e) \/ Get(e)
         \/ \E content \in Contents, links \in LinkSets(e) :
              \/ CreateVersion(e, content, links)
              \/ \E important \in BOOLEAN : Create(e, content, important, links)

Spec == Init /\ [][Next]_vars

\* Time goes on, the worker's ticker goes on, and its transaction is not
\* refused the writer for ever.
FairSpec ==
    /\ Spec
    /\ WF_vars(AdvanceClock)
    /\ WF_vars(WorkerTicks)
    /\ SF_vars(WorkerRuns)

-----------------------------------------------------------------------------
(* Properties.                                                             *)

\* The variables have the shapes the tables of the source give them.
TypeOK ==
    /\ clock \in Times
    /\ memory \in [Experiences -> States]
    /\ versions \in [Experiences -> Seq(Versions)]
    /\ history \in [Experiences -> Seq(Events)]
    /\ answers \subseteq [at : Times, evaluated : Nat, transitions : Nat, archived : Nat]
    /\ receipts \subseteq [at : Times, response : Responses]
    /\ tick \in Times \cup {Never}

\* Every version of an experience, not only the current one, is stored the
\* way its temperature asks for.
CodecMatchesTemperature ==
    \A e \in Known : \A k \in DOMAIN versions[e] :
        versions[e][k].codec = PreferredCodec(memory[e].temperature)

\* A demotion rests on DemotionCycles consecutive evaluations that all found
\* the experience below the same threshold, each MinInterval after the one
\* before, with no move in between.
Hysteresis ==
    \A e \in Experiences : \A k \in DOMAIN history[e] :
        history[e][k].note = "lifecycle_demotion" =>
            \E first \in 1..(k - 1) :
                LET run == {j \in first..(k - 1) : history[e][j].type = "evaluated"}
                IN  /\ Cardinality(run) = DemotionCycles
                    /\ \A i, j \in run :
                         /\ history[e][j].note \in Demotions
                         /\ history[e][i].note = history[e][j].note
                         /\ i < j => history[e][j].at - history[e][i].at >= MinInterval
                    /\ \A j \in first..(k - 1) : history[e][j].type # "moved"

\* What the archive takes was cold for ArchiveAfter and not used since it
\* went cold: every use lifts a cold experience.
ForgottenOnlyUnused ==
    \A e \in Experiences : \A k \in DOMAIN history[e] :
        history[e][k].type = "archived" =>
            \E j \in 1..(k - 1) :
                /\ history[e][j].note = "lifecycle_demotion"
                /\ history[e][k].at - history[e][j].at >= ArchiveAfter
                /\ \A i \in (j + 1)..(k - 1) :
                     history[e][i].type \in {"version_created", "refuted", "evaluated"}

\* A cycle is answered in one way only, and the answer counts what the ledger
\* says of that cycle.
CyclesAnswerOnce ==
    \A a \in answers :
        LET marked(type) == {e \in Experiences : \E k \in DOMAIN history[e] :
                               history[e][k].at = a.at /\ history[e][k].type = type}
        IN  /\ \A b \in answers : b.at = a.at => b = a
            /\ a.evaluated = Cardinality(marked("evaluated"))
            /\ a.archived = Cardinality(marked("archived"))
            /\ a.archived <= a.transitions /\ a.transitions <= a.evaluated

\* No cycle archives what the current version of an experience that stays
\* active rests on.
ArchiveSparesDependents ==
    [][\A e \in Known :
         (memory'[e].temperature = "archived" /\ IsActive(e)) =>
             \A s \in Known : memory'[s].temperature \in Active =>
                 \A l \in Current(s).links :
                     l.target = e => l.relation = "contradicts"]_vars

\* Once the clock has caught up with every recorded time and stays there, the
\* worker completes a cycle at that time, whatever commands go on, unless the
\* clock stepped back behind the worker when it brought that very time before:
\* that refusal is stored, and no cycle is too old for a time it has reached.
CyclesResume ==
    <>[](clock = MaxTime) =>
        <>(\/ CompletedCycle(MaxTime) # {}
           \/ \E r \in Stored(MaxTime) : r.response = "invalid_evaluated_at")
=============================================================================
