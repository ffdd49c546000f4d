------------------------------ MODULE Sharing ------------------------------
(***************************************************************************)
(* How experiences travel between agents.  A publisher puts a version of   *)
(* an experience on a topic as a capsule; every agent subscribed before    *)
(* receives it in quarantine and adopts or rejects it; an adopter may      *)
(* publish it further, under the root of what it adopted; and whoever      *)
(* ended a route may say what the capsule was worth, which moves the trust *)
(* the observer has in its publisher.                                      *)
(*                                                                         *)
(* A command is one writer transaction (CommandLedger models those), so it *)
(* is one action; a command refused with an error of the protocol changes  *)
(* nothing and is no action.  A rejection that its own reducer refuses is  *)
(* rolled back, which refused records.  A command writes rows, appends     *)
(* events to the one ledger, and projects what they change.  It reads the  *)
(* wall clock three times: when its receipt is reserved, in its handler,   *)
(* and when the receipt completes.  The clock may step back between        *)
(* commands and, by Drifts, move either way between the readings of one.   *)
(*                                                                         *)
(* The experiences are those of ExperienceMemory, reduced to versions and  *)
(* temperatures (hot and warm are one, "active", here); confidence is the  *)
(* set of roots that contributed to it.                                    *)
(***************************************************************************)
EXTENDS Integers, Sequences, FiniteSets, SequencesExt

CONSTANTS
    Agents,
    Topics,
    Contents,        \* what tells contents apart: their semantic hashes
    MaxHops,         \* MAX_PROVENANCE_HOPS, four in the code
    Lifetimes,       \* how long after publication a capsule may expire
    Drifts,          \* how far the clock may move inside a command
    StepsBack,       \* whether it may step back between commands
    MaxTime,         \* bound on the clock
    MaxCommands,     \* bound on the commands
    MaxExperiences,  \* bound on the experiences
    MaxVersions,     \* bound on the versions of an experience
    MaxCapsules,     \* bound on the capsules
    MaxFeedback,     \* bound on the feedback revisions
    Explored(_, _, _, _) \* bound on the clocks, ledgers, receipts and experiences

ASSUME HopAssumption == MaxHops \in Nat
ASSUME LifetimeAssumption == Lifetimes \subseteq Nat \ {0}
ASSUME ClockAssumption == Drifts \subseteq Int \ {0} /\ StepsBack \in BOOLEAN
ASSUME SharingBounds ==
    /\ MaxTime \in Nat
    /\ MaxCommands \in Nat
    /\ MaxExperiences \in Nat
    /\ MaxVersions \in Nat \ {0}   \* a creation writes the first one
    /\ MaxCapsules \in Nat
    /\ MaxFeedback \in Nat

VARIABLES
    clock,          \* what the wall clock shows
    ledger,         \* the events, oldest first
    receipts,       \* the receipts of the commands, by their number
    topics,         \* the time of creation of the topics there are
    subscriptions,  \* time and creation event, by subscriber and topic
    experiences,    \* identities and versions, in order of creation
    temperature,    \* the temperature of every experience
    capsules,       \* the capsules, in order of publication
    statuses,       \* projection: whether a capsule is active or retracted
    inbox,          \* projection: the routes, by capsule and recipient
    adoptions,      \* the adoption records
    feedback,       \* the feedback revisions, in order of creation
    reputation,     \* projection: verdict counts, by subject and observer
    refused         \* what rejections that died of the reducer came behind

vars == <<clock, ledger, receipts, topics, subscriptions, experiences,
          temperature, capsules, statuses, inbox, adoptions, feedback, reputation,
          refused>>

Times == 0..MaxTime
Verdicts == {"useful", "refuted", "harmful"}
Origins == {"local", "adopted_capsule", "adopted_passport"}

Experience == [owner : Agents, origin : Origins,
               versions : Seq([content : Contents, at : Times])]
Capsule == [topic : Topics, publisher : Agents, source : 1..MaxExperiences,
            version : 1..MaxVersions, content : Contents,
            chain : Seq(1..MaxCapsules), root : Agents \X Contents,
            at : Times, expires : Nat]
CapsuleState == [status : {"active", "retracted"}, event : Nat]
Route == [state : {"pending", "adopted", "rejected"}, event : Nat]
Adoption == [adopter : Agents, capsule : 1..MaxCapsules,
             experience : 1..MaxExperiences, trust : Nat \X Nat,
             chain : Seq(1..MaxCapsules), root : Agents \X Contents,
             corroborated : BOOLEAN, at : Times]
Revision == [observer : Agents, capsule : 1..MaxCapsules, revision : Nat,
             verdict : Verdicts, at : Times]
Counts == [useful : Nat, refuted : Nat, harmful : Nat, event : Nat]

-----------------------------------------------------------------------------
(* The ledger.  An event belongs to one aggregate and carries the time and *)
(* the receipt of its command.                                             *)

Draft(type, kind, id, data) == [type |-> type, of |-> <<kind, id>>, data |-> data]

\* Positions of the events of one aggregate, and the newest of them.
EventsOf(kind, id) == {n \in DOMAIN ledger : ledger[n].of = <<kind, id>>}
NewestOf(kind, id) == CHOOSE n \in EventsOf(kind, id) : \A m \in EventsOf(kind, id) : m <= n
CausalAt(kind, id) == ledger[NewestOf(kind, id)].at

After(reading) == ({reading} \cup {reading + s : s \in Drifts}) \cap Times

\* The receipt is reserved at `clock`; the handler reads h, the completion c;
\* completed_at is never before the reservation.  The events have number
\* Len(ledger) + 1 and up.  Whether the clock stepped back between these
\* readings is in no row; `back` keeps it to name what the audit excepts.
Commit(h, c, at, drafts) ==
    /\ Len(receipts) < MaxCommands
    /\ clock' = c
    /\ receipts' = Append(receipts,
          [created |-> clock, completed |-> IF c > clock THEN c ELSE clock,
           back |-> h < clock \/ c < h])
    /\ ledger' = ledger \o [i \in DOMAIN drafts |->
          [type |-> drafts[i].type, of |-> drafts[i].of, data |-> drafts[i].data,
           at |-> at, by |-> Len(receipts) + 1]]
    /\ UNCHANGED refused
    /\ Explored(clock', ledger', receipts', experiences')

Readings == {p \in Times \X Times : p[1] \in After(clock) /\ p[2] \in After(p[1])}

-----------------------------------------------------------------------------
(* Reading the sources.                                                    *)

Current(e) == experiences[e].versions[Len(experiences[e].versions)].content
Snapshot(e) == [content |-> Current(e), temperature |-> temperature[e]]
Owned(a) == {e \in DOMAIN experiences : experiences[e].owner = a}
CurrentEquivalents(a, content) == {e \in Owned(a) : Current(e) = content}
OwnRoot(a, content) == <<a, content>>

\* The time of the newest event of a capsule's aggregate.
LatestCapsuleCausalAt(k) == CausalAt("capsule", k)

Retracted(k) == statuses[k].status = "retracted"
LastTransitionAt(k) == ledger[statuses[k].event].at

Larger(x, y) == IF x > y THEN x ELSE y

\* What the inbox source knows of causality: the capsule's creation and last
\* transition, and the route's last event.
RouteLatestCausalAt(k, a) ==
    Larger(ledger[inbox[<<k, a>>].event].at, LastTransitionAt(k))

\* Mutant: looks at what was corroborated and forgets what was created.
CorroboratedRoot(e, root) ==
    \E r \in adoptions : r.experience = e /\ r.root = root /\ r.corroborated

RootIsRepresented(e, root) ==
    \E r \in adoptions : r.experience = e /\ r.root = root

NoCounts == [useful |-> 0, refuted |-> 0, harmful |-> 0, event |-> 0]

CountsOf(subject, observer) ==
    IF <<subject, observer>> \in DOMAIN reputation
        THEN reputation[<<subject, observer>>] ELSE NoCounts

\* alpha and beta of the trust that verdict counts give.
ObserverTrust(counts) == <<2 + counts.useful, 2 + counts.refuted + counts.harmful>>

Streams(a, k) == {f \in DOMAIN feedback : feedback[f].observer = a /\ feedback[f].capsule = k}

\* The latest verdict of an observer on a capsule.
LatestFeedback(a, k) ==
    IF Streams(a, k) = {} THEN "none"
    ELSE feedback[CHOOSE f \in Streams(a, k) : \A g \in Streams(a, k) : g <= f].verdict

-----------------------------------------------------------------------------
Init ==
    /\ clock = 0
    /\ ledger = <<>>
    /\ receipts = <<>>
    /\ topics = <<>>
    /\ subscriptions = <<>>
    /\ experiences = <<>>
    /\ temperature = <<>>
    /\ capsules = <<>>
    /\ statuses = <<>>
    /\ inbox = <<>>
    /\ adoptions = {}
    /\ feedback = <<>>
    /\ reputation = <<>>
    /\ refused = {}

Extended(f, key, value) ==
    [x \in DOMAIN f \cup {key} |-> IF x = key THEN value ELSE f[x]]

CreateTopic(t) ==
    /\ t \notin DOMAIN topics
    /\ UNCHANGED <<subscriptions, experiences, temperature, capsules, statuses,
                   inbox, adoptions, feedback, reputation>>
    /\ \E p \in Readings :
          /\ topics' = Extended(topics, t, p[1])
          /\ Commit(p[1], p[2], p[1], <<Draft("topic.created", "topic", t, {})>>)

CreateSubscription(a, t) ==
    /\ t \in DOMAIN topics
    /\ <<a, t>> \notin DOMAIN subscriptions
    /\ UNCHANGED <<topics, experiences, temperature, capsules, statuses, inbox,
                   adoptions, feedback, reputation>>
    /\ \E p \in Readings :
          /\ p[1] >= topics[t]
          /\ subscriptions' = Extended(subscriptions, <<a, t>>,
                                       [event |-> Len(ledger) + 1, at |-> p[1]])
          /\ Commit(p[1], p[2], p[1],
                    <<Draft("subscription.created", "subscription", <<a, t>>, {})>>)

-----------------------------------------------------------------------------
(* What the owners and the lifecycle do to experiences in the meantime.    *)

\* The two events of a creation, and its rows.
CreationDrafts(e, content) ==
    LET after == [content |-> content, temperature |-> "active"]
    IN <<Draft("experience.created", "experience", e, [before |-> {}, after |-> after]),
         Draft("experience.version_created", "experience", e,
               [before |-> after, after |-> after])>>

Creation(a, origin, content, at) ==
    /\ experiences' = Append(experiences,
          [owner |-> a, origin |-> origin,
           versions |-> <<[content |-> content, at |-> at]>>])
    /\ temperature' = Append(temperature, "active")

\* An experience of the agent's own, or one it adopted from a passport.
CreateExperience(a, origin, content) ==
    /\ Len(experiences) < MaxExperiences
    /\ CurrentEquivalents(a, content) = {}
    /\ UNCHANGED <<topics, subscriptions, capsules, statuses, inbox, adoptions,
                   feedback, reputation>>
    /\ \E p \in Readings :
          /\ Creation(a, origin, content, p[1])
          /\ Commit(p[1], p[2], p[1], CreationDrafts(Len(experiences) + 1, content))

CreateVersion(e, content) ==
    /\ Len(experiences[e].versions) < MaxVersions
    /\ temperature[e] # "archived"
    /\ CurrentEquivalents(experiences[e].owner, content) \subseteq {e}
    /\ UNCHANGED <<topics, subscriptions, temperature, capsules, statuses, inbox,
                   adoptions, feedback, reputation>>
    /\ \E p \in Readings :
          /\ p[1] >= CausalAt("experience", e)
          /\ experiences' = [experiences EXCEPT ![e].versions =
                                Append(@, [content |-> content, at |-> p[1]])]
          /\ Commit(p[1], p[2], p[1],
                <<Draft("experience.version_created", "experience", e,
                        [before |-> Snapshot(e),
                         after |-> [Snapshot(e) EXCEPT !.content = content]])>>)

\* A cycle lets an experience cool and archives it; its owner restores it.
ChangeTemperature(e) ==
    LET after == CASE temperature[e] = "active"  -> "cold"
                   [] temperature[e] = "cold" -> "archived"
                   [] OTHER                   -> "active"
    IN /\ temperature' = [temperature EXCEPT ![e] = after]
       /\ UNCHANGED <<topics, subscriptions, experiences, capsules, statuses, inbox,
                      adoptions, feedback, reputation>>
       /\ \E p \in Readings :
             /\ p[1] >= CausalAt("experience", e)
             /\ Commit(p[1], p[2], p[1],
                   <<Draft("experience.temperature_changed", "experience", e,
                           [before |-> Snapshot(e),
                            after |-> [Snapshot(e) EXCEPT !.temperature = after]])>>)

-----------------------------------------------------------------------------
(* Publication and delivery.                                               *)

\* Mutant: a publisher receives what it publishes.
EverySubscriber(t, publisher) ==
    {a \in Agents : <<a, t>> \in DOMAIN subscriptions}

\* Subscriptions created before the publication event: all there are, since
\* that event is the newest.
EligibleSubscribers(t, publisher) ==
    {a \in Agents \ {publisher} : <<a, t>> \in DOMAIN subscriptions}

\* Mutant: an adoption of the caller is enough, whatever it resulted in.
AnyParents(a, e) == {r \in adoptions : r.adopter = a}

\* The adoptions that may be named as the parent of a publication.
Parents(a, e) == {r \in adoptions : r.adopter = a /\ r.experience = e}

\* The root of the one named parent, or one of the publisher's own.
RootFor(a, content, parents) ==
    IF parents = {} THEN OwnRoot(a, content)
    ELSE (CHOOSE r \in parents : TRUE).root

ChainFor(parents) == IF parents = {} THEN <<>> ELSE (CHOOSE r \in parents : TRUE).chain

Published(a, t, e, v, parents, lifetime) ==
    LET content == experiences[e].versions[v].content
    IN [topic |-> t, publisher |-> a, source |-> e, version |-> v,
        content |-> content, chain |-> ChainFor(parents),
        root |-> RootFor(a, content, parents), at |-> clock,
        expires |-> clock + lifetime]

\* One event and one pending route per recipient, in the order of the agents.
DeliverToSubscribers(k, recipients) ==
    [i \in DOMAIN recipients |-> Draft("capsule.received", "inbox_item", <<k, recipients[i]>>, {})]

Pending(k, recipients) ==
    [x \in DOMAIN inbox \cup {<<k, recipients[i]>> : i \in DOMAIN recipients} |->
        IF x \in DOMAIN inbox THEN inbox[x]
        ELSE [state |-> "pending",
              event |-> Len(ledger) + 1
                         + (CHOOSE i \in DOMAIN recipients : recipients[i] = x[2])]]

\* The publication carries the time its receipt was reserved.
PublishCapsule(a, t, e, v, parents, lifetime) ==
    /\ Len(capsules) < MaxCapsules
    /\ t \in DOMAIN topics
    /\ clock >= topics[t]
    /\ experiences[e].origin # "adopted_passport"
    /\ temperature[e] # "archived"
    /\ clock >= CausalAt("experience", e)
    /\ parents = {} => experiences[e].origin # "adopted_capsule"
    /\ \A r \in parents : clock >= r.at
    /\ Len(ChainFor(parents)) <= MaxHops
    /\ UNCHANGED <<topics, subscriptions, experiences, temperature, adoptions,
                   feedback, reputation>>
    /\ \E recipients \in {SetToSeq(EligibleSubscribers(t, a))}, k \in {Len(capsules) + 1} :
          /\ capsules' = Append(capsules, Published(a, t, e, v, parents, lifetime))
          /\ statuses' = Append(statuses, [status |-> "active", event |-> Len(ledger) + 1])
          /\ inbox' = Pending(k, recipients)
          /\ \E p \in Readings :
                Commit(p[1], p[2], clock,
                       <<Draft("capsule.published", "capsule", k, {})>>
                           \o DeliverToSubscribers(k, recipients))

\* A capsule is retracted once, by its publisher.
RetractCapsule(k) ==
    /\ ~Retracted(k)
    /\ statuses' = [statuses EXCEPT ![k] = [status |-> "retracted", event |-> Len(ledger) + 1]]
    /\ UNCHANGED <<topics, subscriptions, experiences, temperature, capsules,
                   inbox, adoptions, feedback, reputation>>
    /\ \E p \in Readings :
          /\ p[1] >= Larger(LastTransitionAt(k), LatestCapsuleCausalAt(k))
          /\ Commit(p[1], p[2], p[1], <<Draft("capsule.retracted", "capsule", k, {})>>)

-----------------------------------------------------------------------------
(* The end of a route.                                                     *)

\* The terminal event is the last of its command.
Terminal(k, a, state, drafts) ==
    [inbox EXCEPT ![<<k, a>>] = [state |-> state, event |-> Len(ledger) + Len(drafts)]]

Available(k, a, h) ==
    /\ inbox[<<k, a>>].state = "pending"
    /\ h >= RouteLatestCausalAt(k, a)
    /\ ~Retracted(k)
    /\ h < capsules[k].expires

Record(k, a, e, corroborated, h) ==
    [adopter |-> a, capsule |-> k, experience |-> e,
     trust |-> ObserverTrust(CountsOf(capsules[k].publisher, a)),
     chain |-> Append(capsules[k].chain, k), root |-> capsules[k].root,
     corroborated |-> corroborated, at |-> h]

Adopted(k, a, e, created, corroborated) ==
    Draft("capsule.adopted", "inbox_item", <<k, a>>,
          [experience |-> e, root |-> capsules[k].root, created |-> created,
           corroborated |-> corroborated])

\* The row, the route and the events of an adoption.
Complete(k, a, p, record, drafts) ==
    /\ adoptions' = adoptions \cup {record}
    /\ inbox' = Terminal(k, a, "adopted", drafts)
    /\ Commit(p[1], p[2], p[1], drafts)

\* Without an equivalent a local experience is created from the capsule.
AdoptAsNew(k, a, p) ==
    LET e == Len(experiences) + 1
    IN /\ CurrentEquivalents(a, capsules[k].content) = {}
       /\ e <= MaxExperiences
       /\ Creation(a, "adopted_capsule", capsules[k].content, p[1])
       /\ Complete(k, a, p, Record(k, a, e, FALSE, p[1]),
                   CreationDrafts(e, capsules[k].content)
                       \o <<Adopted(k, a, e, TRUE, FALSE)>>)

\* A corroboration keeps the temperature, and then warms a cold experience.
CorroborateFromCapsule(e, k) ==
    LET before == Snapshot(e)
    IN <<Draft("experience.corroborated", "experience", e,
               [before |-> before, after |-> before, capsule |-> k])>>
       \o IF temperature[e] # "cold" THEN <<>>
          ELSE <<Draft("experience.temperature_changed", "experience", e,
                       [before |-> before, after |-> [before EXCEPT !.temperature = "active"]])>>

\* With one, the capsule corroborates it if its root is new to it.
AdoptEquivalent(k, a, e, p) ==
    /\ temperature[e] # "archived"
    /\ p[1] >= CausalAt("experience", e)
    /\ UNCHANGED experiences
    /\ LET corroborates == ~RootIsRepresented(e, capsules[k].root)
           drafts == IF corroborates THEN CorroborateFromCapsule(e, k) ELSE <<>>
       IN /\ temperature' = IF corroborates /\ temperature[e] = "cold"
                              THEN [temperature EXCEPT ![e] = "active"]
                              ELSE temperature
          /\ Complete(k, a, p, Record(k, a, e, corroborates, p[1]),
                      Append(drafts, Adopted(k, a, e, FALSE, corroborates)))

\* A capsule adopted before answers with the first adoption and changes
\* nothing: its route is no longer pending.
AdoptCapsule(k, a) ==
    /\ capsules[k].publisher # a
    /\ UNCHANGED <<topics, subscriptions, capsules, statuses, feedback, reputation>>
    /\ \E p \in Readings :
          /\ Available(k, a, p[1])
          /\ \/ AdoptAsNew(k, a, p)
             \/ \E e \in CurrentEquivalents(a, capsules[k].content) :
                    AdoptEquivalent(k, a, e, p)

\* The tables; what is left are the clock and what was refused.
Tables == <<ledger, receipts, topics, subscriptions, experiences, temperature,
             capsules, statuses, inbox, adoptions, feedback, reputation>>

\* An expired or retracted capsule may still be rejected.
Rejectable(k, a, h) ==
    /\ inbox[<<k, a>>].state = "pending"
    /\ h >= RouteLatestCausalAt(k, a)

\* The inbox reducer asks for more: a rejection no older than the newest event
\* of the capsule, feedback of others included.
ReducibleRejection(k, a, h) == h >= LatestCapsuleCausalAt(k)

\* A refusal of the reducer rolls the command back, its receipt included.
RejectionDies(k, h) ==
    /\ refused' = refused \cup {ledger[NewestOf("capsule", k)].type}
    /\ clock' = h
    /\ UNCHANGED Tables
    /\ Explored(clock', ledger, receipts, experiences)

EndByRejection(k, a, p) ==
    LET drafts == <<Draft("capsule.rejected", "inbox_item", <<k, a>>, {})>>
    IN /\ inbox' = Terminal(k, a, "rejected", drafts)
       /\ UNCHANGED <<topics, subscriptions, experiences, temperature, capsules,
                      statuses, adoptions, feedback, reputation>>
       /\ Commit(p[1], p[2], p[1], drafts)

RejectInboxItem(k, a) ==
    \E p \in Readings :
        /\ Rejectable(k, a, p[1])
        /\ IF ReducibleRejection(k, a, p[1])
           THEN EndByRejection(k, a, p)
           ELSE RejectionDies(k, p[1])

-----------------------------------------------------------------------------
(* Feedback and reputation.                                                *)

\* The effective counts after a verdict replaces the previous one.
RevisedEffectiveCounts(before, previous, verdict) ==
    <<before[1] - (IF previous = "useful" THEN 1 ELSE 0)
                + (IF verdict = "useful" THEN 1 ELSE 0),
      before[2] - (IF previous \in {"refuted", "harmful"} THEN 1 ELSE 0)
                + (IF verdict = "useful" THEN 0 ELSE 1)>>

\* Mutant: takes away the new verdict and counts the previous one.
ReplacedBackwards(counts, previous, verdict, event) ==
    [useful |-> counts.useful - (IF verdict = "useful" THEN 1 ELSE 0)
                              + (IF previous = "useful" THEN 1 ELSE 0),
     refuted |-> counts.refuted - (IF verdict = "refuted" THEN 1 ELSE 0)
                                + (IF previous = "refuted" THEN 1 ELSE 0),
     harmful |-> counts.harmful - (IF verdict = "harmful" THEN 1 ELSE 0)
                                + (IF previous = "harmful" THEN 1 ELSE 0),
     event |-> event]

\* One verdict replaced by another.
Replaced(counts, previous, verdict, event) ==
    [useful |-> counts.useful - (IF previous = "useful" THEN 1 ELSE 0)
                              + (IF verdict = "useful" THEN 1 ELSE 0),
     refuted |-> counts.refuted - (IF previous = "refuted" THEN 1 ELSE 0)
                                + (IF verdict = "refuted" THEN 1 ELSE 0),
     harmful |-> counts.harmful - (IF previous = "harmful" THEN 1 ELSE 0)
                                + (IF verdict = "harmful" THEN 1 ELSE 0),
     event |-> event]

\* Mutant: the feedback of other observers is no anchor.
OwnFeedbackCausalAt(k, a, counts) ==
    IF counts = NoCounts THEN RouteLatestCausalAt(k, a)
    ELSE Larger(RouteLatestCausalAt(k, a), ledger[counts.event].at)

\* Everything a revision may not be older than: the capsule, the end of the
\* route, and the newest feedback of the observer on any capsule of the
\* publisher.
FeedbackCausalAt(k, a, counts) ==
    LET known == Larger(RouteLatestCausalAt(k, a), LatestCapsuleCausalAt(k))
    IN IF counts = NoCounts THEN known ELSE Larger(known, ledger[counts.event].at)

\* Only whoever ended a route to the capsule may judge it.
RecordCapsuleFeedback(k, a, verdict) ==
    /\ Len(feedback) < MaxFeedback
    /\ inbox[<<k, a>>].state # "pending"
    /\ UNCHANGED <<topics, subscriptions, experiences, temperature, capsules,
                   statuses, inbox, adoptions>>
    /\ LET pair == <<capsules[k].publisher, a>>
           counts == CountsOf(capsules[k].publisher, a)
           previous == LatestFeedback(a, k)
           revision == Cardinality(Streams(a, k)) + 1
           before == ObserverTrust(counts)
       IN \E p \in Readings :
             /\ p[1] >= FeedbackCausalAt(k, a, counts)
             /\ feedback' = Append(feedback,
                   [observer |-> a, capsule |-> k, revision |-> revision,
                    verdict |-> verdict, at |-> p[1]])
             /\ reputation' = Extended(reputation, pair,
                                       Replaced(counts, previous, verdict, Len(ledger) + 1))
             /\ Commit(p[1], p[2], p[1],
                   <<Draft("capsule.feedback_recorded", "capsule", k,
                           [observer |-> a, revision |-> revision,
                            previous |-> previous, verdict |-> verdict,
                            before |-> before,
                            after |-> RevisedEffectiveCounts(before, previous, verdict)])>>)

-----------------------------------------------------------------------------
AdvanceClock ==
    /\ clock < MaxTime
    /\ clock' = clock + 1
    /\ UNCHANGED <<Tables, refused>>
    /\ Explored(clock', ledger, receipts, experiences)

StepBack ==
    /\ StepsBack
    /\ clock > 0
    /\ clock' = clock - 1
    /\ UNCHANGED <<Tables, refused>>
    /\ Explored(clock', ledger, receipts, experiences)

OwnerCommands ==
    \/ \E a \in Agents, origin \in {"local", "adopted_passport"}, content \in Contents :
          CreateExperience(a, origin, content)
    \/ \E e \in DOMAIN experiences :
          \/ \E content \in Contents : CreateVersion(e, content)
          \/ ChangeTemperature(e)

TopicCommands ==
    \E t \in Topics : CreateTopic(t) \/ \E a \in Agents : CreateSubscription(a, t)

Publications ==
    \E t \in Topics, e \in DOMAIN experiences, lifetime \in Lifetimes :
        LET a == experiences[e].owner
        IN \E v \in DOMAIN experiences[e].versions,
              parents \in {{}} \cup {{r} : r \in Parents(a, e)} :
              PublishCapsule(a, t, e, v, parents, lifetime)

RouteCommands ==
    \E x \in DOMAIN inbox :
        \/ AdoptCapsule(x[1], x[2])
        \/ RejectInboxItem(x[1], x[2])
        \/ \E verdict \in Verdicts : RecordCapsuleFeedback(x[1], x[2], verdict)

Next ==
    \/ TopicCommands
    \/ OwnerCommands
    \/ Publications
    \/ RouteCommands
    \/ \E k \in DOMAIN capsules : RetractCapsule(k)
    \/ AdvanceClock
    \/ StepBack

Spec == Init /\ [][Next]_vars

-----------------------------------------------------------------------------
\* Types: every variable holds what its name says, routes belong to capsules
\* and recipients, verdict counts are never negative, and every command's
\* events are in the ledger.
TypeOK ==
    /\ clock \in Times
    /\ topics \in [DOMAIN topics -> Times] /\ DOMAIN topics \subseteq Topics
    /\ subscriptions \in [DOMAIN subscriptions -> [event : DOMAIN ledger, at : Times]]
    /\ DOMAIN subscriptions \subseteq Agents \X Topics
    /\ experiences \in Seq(Experience) /\ Len(experiences) <= MaxExperiences
    /\ temperature \in [DOMAIN experiences -> {"active", "cold", "archived"}]
    /\ capsules \in Seq(Capsule) /\ Len(capsules) <= MaxCapsules
    /\ statuses \in [DOMAIN capsules -> CapsuleState]
    /\ inbox \in [DOMAIN inbox -> Route]
    /\ DOMAIN inbox \subseteq (DOMAIN capsules) \X Agents
    /\ adoptions \subseteq Adoption
    /\ feedback \in Seq(Revision)
    /\ reputation \in [DOMAIN reputation -> Counts]
    /\ refused \subseteq {"capsule.published", "capsule.retracted", "capsule.feedback_recorded"}
    /\ \A n \in DOMAIN ledger : ledger[n].by \in DOMAIN receipts /\ ledger[n].at \in Times
=============================================================================
