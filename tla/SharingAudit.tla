---------------------------- MODULE SharingAudit ----------------------------
(***************************************************************************)
(* What every startup asks of the stored sharing graph before it serves    *)
(* anything (sharing/validation.py): that topics, subscriptions, capsules, *)
(* deliveries, terminal events, feedback and adoptions all agree with the  *)
(* ledger, with each other and with the receipts of their commands.  A     *)
(* graph it refuses stops the application, and stays refused: sources are  *)
(* immutable.                                                              *)
(*                                                                         *)
(* The validator asks in other ways than the reducers do, of the whole     *)
(* graph and without their order: where the two disagree, a command is     *)
(* accepted whose graph is not.  Canonical encodings, hashes, texts and    *)
(* confidences are not modelled.                                           *)
(***************************************************************************)
EXTENDS SharingReducers

SharingAggregates == {"topic", "subscription", "capsule", "inbox_item"}

SharingEvents == {n \in DOMAIN ledger : ledger[n].of[1] \in SharingAggregates}

Alone(n) == {m \in DOMAIN ledger : ledger[m].by = ledger[n].by} = {n}

\* The one event of a type with an identity, or no event of the graph.
OneEvent(type, id) ==
    Cardinality({n \in OfType({type}) : ledger[n].of[2] = id}) = 1

EventOf(type, id) == CHOOSE n \in OfType({type}) : ledger[n].of[2] = id

Identities(type) == {ledger[n].of[2] : n \in OfType({type})}

-----------------------------------------------------------------------------
(* The ledger on its own.                                                  *)

\* Events of sharing and of nothing else are in the aggregates of sharing.
AggregateNamespaceValid ==
    \A n \in DOMAIN ledger : ledger[n].of[1] = AggregateType(ledger[n].type)

\* No aggregate goes back in time.
AggregateClocksValid ==
    \A n \in SharingEvents : \A m \in Aggregate(n) :
        m < n => ledger[m].at <= ledger[n].at

-----------------------------------------------------------------------------
(* Topics, subscriptions, capsules and deliveries.                         *)

TopicsValid ==
    /\ Identities("topic.created") = DOMAIN topics
    /\ \A t \in DOMAIN topics :
          /\ OneEvent("topic.created", t)
          /\ \E n \in {EventOf("topic.created", t)} :
                Sequence(n) = 1 /\ ledger[n].at = topics[t]

SubscriptionsValid ==
    /\ Identities("subscription.created") = DOMAIN subscriptions
    /\ \A s \in DOMAIN subscriptions :
          /\ OneEvent("subscription.created", s)
          /\ s[2] \in DOMAIN topics /\ topics[s[2]] <= subscriptions[s].at
          /\ \E n \in {EventOf("subscription.created", s)} :
                /\ EventOf("topic.created", s[2]) < n
                /\ n = subscriptions[s].event
                /\ Sequence(n) = 1 /\ ledger[n].at = subscriptions[s].at

\* A capsule is a version of an experience its publisher had, made neither
\* from a passport nor, as an original, from another capsule.
MatchesItsSource(capsule) ==
    LET source == experiences[capsule.source]
        version == source.versions[capsule.version]
    IN /\ source.owner = capsule.publisher
       /\ source.origin # "adopted_passport"
       /\ source.versions[1].at <= capsule.at
       /\ version.at <= capsule.at /\ version.content = capsule.content
       /\ source.origin = "adopted_capsule" => capsule.chain # <<>>
       /\ capsule.chain = <<>> => capsule.root = OwnRoot(capsule.publisher, capsule.content)

CapsulesValid ==
    /\ Identities("capsule.published") = DOMAIN capsules
    /\ \A k \in DOMAIN capsules :
          /\ OneEvent("capsule.published", k)
          /\ CapsuleFromSource(k) /\ MatchesItsSource(capsules[k])
          /\ capsules[k].topic \in DOMAIN topics /\ topics[capsules[k].topic] <= capsules[k].at
          /\ \E n \in {EventOf("capsule.published", k)} :
                /\ Sequence(n) = 1 /\ ledger[n].at = capsules[k].at
                /\ EventOf("topic.created", capsules[k].topic) < n

Deliveries(k) == {n \in OfType({"capsule.received"}) : ledger[n].of[2][1] = k}

\* Whose subscription came before the publication, the publisher's aside.
PriorSubscribers(k) ==
    {s[1] : s \in {s \in DOMAIN subscriptions :
        /\ s[2] = capsules[k].topic
        /\ subscriptions[s].event < EventOf("capsule.published", k)}}
    \ {capsules[k].publisher}

\* The command of a publication delivered to exactly those, once each and
\* after it, and did nothing else.  (Among them both sides go by the agents'
\* identifiers, whose order is not modelled.)
DeliveriesValid ==
    \A k \in DOMAIN capsules :
        \E published \in {EventOf("capsule.published", k)} :
            /\ {ledger[n].of[2][2] : n \in Deliveries(k)} = PriorSubscribers(k)
            /\ Cardinality(Deliveries(k)) = Cardinality(PriorSubscribers(k))
            /\ \A n \in Deliveries(k) :
                  /\ Sequence(n) = 1 /\ n > published
                  /\ ledger[n].at = capsules[k].at
            /\ {m \in DOMAIN ledger : ledger[m].by = ledger[published].by}
                   = {published} \cup Deliveries(k)

-----------------------------------------------------------------------------
(* Terminal events.                                                        *)

TerminalEvents == OfType({"capsule.adopted", "capsule.rejected"})

LatestCapsuleEventBefore(n) == Newest(Before(n, EventsOf("capsule", ledger[n].of[2][1])))

\* What adoption lets through: feedback of another observer on the capsule,
\* later than this adoption says it happened.
AdoptedBehindFeedback(n) ==
    /\ ledger[n].type = "capsule.adopted"
    /\ ledger[LatestCapsuleEventBefore(n)].type = "capsule.feedback_recorded"

FollowsCapsule(n) == ledger[n].at >= ledger[LatestCapsuleEventBefore(n)].at

\* A terminal event is the second of its route and the only one.
TerminalsValid ==
    \A n \in TerminalEvents :
        /\ Sequence(n) = 2 /\ Cardinality(Aggregate(n)) = 2
        /\ \E received \in {Oldest(Aggregate(n))} :
              /\ ledger[received].type = "capsule.received"
              /\ ledger[received].at <= ledger[n].at
        /\ FollowsCapsule(n) \/ AdoptedBehindFeedback(n)
        /\ ledger[n].type = "capsule.rejected" => Alone(n)

\* A capsule is retracted once, after its creation, by a command of its own.
RetractionsValid ==
    \A n \in OfType({"capsule.retracted"}) :
        /\ ledger[n].of[2] \in DOMAIN capsules
        /\ OneEvent("capsule.retracted", ledger[n].of[2])
        /\ Sequence(n) >= 2 /\ ledger[n].at >= capsules[ledger[n].of[2]].at
        /\ Alone(n)

-----------------------------------------------------------------------------
(* Feedback.                                                               *)

FeedbackEvents == OfType({"capsule.feedback_recorded"})

EventsOfRow(f) ==
    {n \in FeedbackEvents :
        /\ ledger[n].of[2] = feedback[f].capsule
        /\ ledger[n].data.observer = feedback[f].observer
        /\ ledger[n].data.revision = feedback[f].revision}

TerminalOf(k, a) == {n \in TerminalEvents : ledger[n].of[2] = <<k, a>>}

\* The rows of one observer on one capsule are contiguous revisions, each
\* with one event of its own that replaces the verdict before it, after the
\* end of the observer's route.
FeedbackStreamValid(a, k) ==
    LET rows == SetToSortSeq(Streams(a, k),
                    LAMBDA f, g : feedback[f].revision < feedback[g].revision)
    IN \A i \in DOMAIN rows :
          LET row == feedback[rows[i]]
          IN /\ row.revision = i
             /\ Cardinality(EventsOfRow(rows[i])) = 1
             /\ \E n \in EventsOfRow(rows[i]) :
                   /\ ledger[n].at = row.at /\ ledger[n].data.verdict = row.verdict
                   /\ ledger[n].data.previous =
                          IF i = 1 THEN "none" ELSE feedback[rows[i - 1]].verdict
                   /\ \E m \in TerminalOf(k, a) : m < n /\ ledger[m].at <= row.at
                   /\ Alone(n)
                   /\ i > 1 => /\ feedback[rows[i - 1]].at <= row.at
                               /\ \A m \in EventsOfRow(rows[i - 1]) : m < n

FeedbackRowsValid ==
    /\ Cardinality(FeedbackEvents) = Len(feedback)
    /\ \A f \in DOMAIN feedback : FeedbackStreamValid(feedback[f].observer, feedback[f].capsule)

\* The trust of a pair after the feedback before event n.
TrustBefore(subject, observer, n) ==
    LET earlier == Before(n, PairEvents(subject, observer))
    IN IF earlier = {} THEN <<2, 2>> ELSE ledger[Newest(earlier)].data.after

\* Along the ledger every verdict of a pair starts from the trust the one
\* before it left, no earlier than it, and moves it by what it replaces.
TrustHistoryValid ==
    \A n \in FeedbackEvents :
        LET a == ledger[n].data.observer
            k == ledger[n].of[2]
            subject == capsules[k].publisher
            earlier == Before(n, PairEvents(subject, a))
            stream == PriorRevisions(n, k, a)
            previous == IF stream = {} THEN "none" ELSE ledger[Newest(stream)].data.verdict
        IN /\ earlier # {} => ledger[Newest(earlier)].at <= ledger[n].at
           /\ ledger[n].data.previous = previous
           /\ ledger[n].data.before = TrustBefore(subject, a, n)
           /\ ledger[n].data.after =
                 RevisedEffectiveCounts(ledger[n].data.before, previous, ledger[n].data.verdict)

-----------------------------------------------------------------------------
(* Adoptions.                                                              *)

\* An adoption of what was on offer at its place of the ledger, into an
\* experience that had said the same by then, with the trust of that place.
AdoptionReferenceValid(r, n) ==
    LET capsule == capsules[r.capsule]
        identity == experiences[r.experience]
    IN /\ identity.owner = r.adopter
       /\ \E v \in DOMAIN identity.versions :
             identity.versions[v].content = capsule.content /\ identity.versions[v].at <= r.at
       /\ <<r.capsule, r.adopter>> \in Identities("capsule.received")
       /\ EventOf("capsule.received", <<r.capsule, r.adopter>>) < n
       /\ capsule.at <= r.at /\ r.at < capsule.expires
       /\ Before(n, EventsOf("capsule", r.capsule)) \cap OfType({"capsule.retracted"}) = {}
       /\ r.root = capsule.root /\ r.chain = Append(capsule.chain, r.capsule)
       /\ r.trust = TrustBefore(capsule.publisher, r.adopter, n)
       /\ ledger[n].data.created =>
             /\ identity.origin = "adopted_capsule"
             /\ identity.versions[1] = [content |-> capsule.content, at |-> r.at]

\* The newest event of the experience before event n.
Checkpoint(e, n) == Before(n, EventsOf("experience", e))

\* It says what the capsule says, is out of the archive and not in the future.
CheckpointStateValid(snapshot, checkpointAt, content, at) ==
    /\ checkpointAt <= at
    /\ snapshot.content = content
    /\ snapshot.temperature # "archived"

\* The state a corroboration starts from is the head of the experience.
ExperienceCheckpointValid(e, n, content) ==
    /\ Checkpoint(e, n) # {}
    /\ \E m \in {Newest(Checkpoint(e, n))} :
          /\ ledger[m].data.after = ledger[n].data.before
          /\ CheckpointStateValid(ledger[m].data.after, ledger[m].at, content, ledger[n].at)

\* The event of an adoption ends its command, and what came before it in the
\* command is the creation, or the corroboration, it speaks of.
AdoptionCausationValid(r, n) ==
    LET content == capsules[r.capsule].content
        fresh == [content |-> content, temperature |-> "active"]
        command == {m \in DOMAIN ledger : ledger[m].by = ledger[n].by}
        first == Oldest(command)
    IN /\ n = Newest(command)
       /\ \A m \in command \ {n} :
             ledger[m].of = <<"experience", r.experience>> /\ ledger[m].at = r.at
       /\ IF ledger[n].data.created
          THEN /\ CausalTypes(ledger[n].by) = <<"experience.created",
                       "experience.version_created", "capsule.adopted">>
               /\ Sequence(first) = 1
               /\ ledger[first].data.after = fresh
               /\ ledger[first + 1].data = [before |-> fresh, after |-> fresh]
          ELSE IF r.corroborated
          THEN /\ ledger[first].type = "experience.corroborated"
               /\ ledger[first].data.capsule = r.capsule
               /\ ExperienceCheckpointValid(r.experience, first, content)
               /\ IF ledger[first].data.before.temperature = "cold"
                  THEN /\ Cardinality(command) = 3
                       /\ ledger[first + 1].type = "experience.temperature_changed"
                       /\ ledger[first + 1].data.before = ledger[first].data.after
                       /\ ledger[first + 1].data.after.temperature = "active"
                  ELSE Cardinality(command) = 2
          ELSE /\ Alone(n)
               /\ Checkpoint(r.experience, n) # {}
               /\ \E m \in {Newest(Checkpoint(r.experience, n))} :
                     CheckpointStateValid(ledger[m].data.after, ledger[m].at, content, r.at)

-----------------------------------------------------------------------------
(* Paths and receipts.                                                     *)

\* The adoptions a relayed capsule may have been relayed from.
ParentAdoptions(k) ==
    {r \in adoptions :
        /\ r.adopter = capsules[k].publisher /\ r.experience = capsules[k].source
        /\ r.root = capsules[k].root /\ r.chain = capsules[k].chain
        /\ r.at <= capsules[k].at
        /\ \A n \in AdoptionEvents(r) : n < EventOf("capsule.published", k)}

\* Every hop of a chain is a capsule with the chain up to it and the same
\* root, published before; and one adoption brought the chain to the
\* publisher.
ProvenanceValid(k) ==
    /\ \A i \in DOMAIN capsules[k].chain :
          \E hop \in {capsules[k].chain[i]} :
              /\ hop \in DOMAIN capsules
              /\ capsules[hop].chain = SubSeq(capsules[k].chain, 1, i - 1)
              /\ capsules[hop].root = capsules[k].root
              /\ EventOf("capsule.published", hop) < EventOf("capsule.published", k)
              /\ capsules[hop].at <= capsules[k].at
    /\ capsules[k].chain # <<>> => Cardinality(ParentAdoptions(k)) = 1

\* The receipt of a command spans its events, unless the clock stepped back
\* between the readings of that very command.
SpannedBy(receipt, n) == receipt.created <= ledger[n].at /\ ledger[n].at <= receipt.completed

CommandReceiptsValid ==
    \A n \in SharingEvents : ledger[n].type # "capsule.received" =>
        /\ ledger[n].by \in DOMAIN receipts
        /\ SpannedBy(receipts[ledger[n].by], n) \/ receipts[ledger[n].by].back
        /\ ledger[n].type \notin {"capsule.published", "capsule.adopted"} => Alone(n)

-----------------------------------------------------------------------------
\* The stored graph is one that the next startup accepts: after any history
\* of commands, and however the clock stepped back between them and inside
\* them, what is immutable agrees with the ledger and delivery was exact.
\* Except for adoptions recorded as older than another observer's feedback,
\* and for the receipts of commands inside which the clock stepped back.
GraphValid ==
    /\ AggregateNamespaceValid
    /\ AggregateClocksValid
    /\ TopicsValid
    /\ SubscriptionsValid
    /\ CapsulesValid
    /\ DeliveriesValid
    /\ TerminalsValid
    /\ RetractionsValid
    /\ CommandReceiptsValid

\* Trust is continuous along the ledger, every adoption captured the trust of
\* its place there, contributed its root to the experience exactly if no
\* adoption before it had, and caused what it says it caused.
AdoptionsValid ==
    /\ FeedbackRowsValid
    /\ TrustHistoryValid
    /\ AdoptionSourcesValid
    /\ \A r \in adoptions : \A n \in AdoptionEvents(r) :
          AdoptionReferenceValid(r, n) /\ AdoptionCausationValid(r, n)

\* A relayed capsule leads back, hop by hop, to the original whose root it
\* carries, through exactly one adoption of its publisher.
ProvenanceIsAPath == \A k \in DOMAIN capsules : ProvenanceValid(k)
=============================================================================
