-------------------------- MODULE SharingReducers --------------------------
(***************************************************************************)
(* The three reducers of the sharing events (sharing/projector.py): the    *)
(* states of capsules, the routes of inboxes, and the reputation of agents *)
(* with those who judged them.  The same reducer runs on an event as it is *)
(* appended and on the whole ledger in a rebuild, and reads the rows the   *)
(* events explain; one event it refuses rolls back the command that        *)
(* appended it, or makes the ledger unreadable for ever.                   *)
(*                                                                         *)
(* An accumulator has the projected rows and whether everything so far was *)
(* accepted.  Confidence, kinds and the bytes of a content are not         *)
(* modelled; rows that only repeat their event are compared by their time. *)
(***************************************************************************)
EXTENDS Sharing

Empty == [ok |-> TRUE, rows |-> <<>>]
Refuse(acc) == [acc EXCEPT !.ok = FALSE]
Put(acc, accepted, key, row) ==
    IF accepted THEN [acc EXCEPT !.rows = Extended(@, key, row)] ELSE Refuse(acc)

-----------------------------------------------------------------------------
(* Reading the ledger as it was before event n.                            *)

Before(n, events) == {m \in events : m < n}
Newest(events) == CHOOSE n \in events : \A m \in events : m <= n
Oldest(events) == CHOOSE n \in events : \A m \in events : n <= m

Aggregate(n) == EventsOf(ledger[n].of[1], ledger[n].of[2])
Sequence(n) == Cardinality(Before(n + 1, Aggregate(n)))

OfType(types) == {n \in DOMAIN ledger : ledger[n].type \in types}

\* The types of the events of one command, in ledger order.
CausalTypes(by) ==
    LET rows == SelectSeq(ledger, LAMBDA event : event.by = by)
    IN [i \in DOMAIN rows |-> rows[i].type]

\* Which aggregate each type of event belongs to.
AggregateType(type) ==
    CASE type = "topic.created"        -> "topic"
      [] type = "subscription.created" -> "subscription"
      [] type \in {"capsule.published", "capsule.retracted",
                   "capsule.feedback_recorded"} -> "capsule"
      [] type \in {"capsule.received", "capsule.adopted",
                   "capsule.rejected"} -> "inbox_item"
      [] OTHER -> "experience"

Anchored(event, id) == event.of = <<AggregateType(event.type), id>>

-----------------------------------------------------------------------------
(* Publications.                                                           *)

\* A capsule on its own: its chain is no longer than allowed and leads to it
\* through other capsules, once each, and it expires after its creation.
CapsuleFromSource(k) ==
    LET capsule == capsules[k]
    IN /\ Len(capsule.chain) <= MaxHops
       /\ k \notin Range(capsule.chain)
       /\ Cardinality(Range(capsule.chain)) = Len(capsule.chain)
       /\ capsule.expires > capsule.at

\* A publication agrees with the capsule, its topic, and the version of the
\* publisher's experience it was made from.
ValidatedCapsuleSource(n, k) ==
    LET event == ledger[n]
        capsule == capsules[k]
        version == experiences[capsule.source].versions[capsule.version]
    IN /\ Anchored(event, k) /\ Sequence(n) = 1
       /\ CapsuleFromSource(k)
       /\ capsule.at = event.at
       /\ capsule.topic \in DOMAIN topics /\ topics[capsule.topic] <= event.at
       /\ experiences[capsule.source].owner = capsule.publisher
       /\ version.content = capsule.content /\ version.at <= event.at
       /\ capsule.chain = <<>> => capsule.root = OwnRoot(capsule.publisher, capsule.content)

\* The publication of a capsule: the first of its events, and valid.
ReceivedPublication(k) == Oldest(EventsOf("capsule", k))

ValidatedReceivedPublication(k) ==
    /\ k \in DOMAIN capsules /\ EventsOf("capsule", k) # {}
    /\ \E n \in {ReceivedPublication(k)} :
          ledger[n].type = "capsule.published" /\ ValidatedCapsuleSource(n, k)

-----------------------------------------------------------------------------
(* The states of capsules.                                                 *)

\* A retraction comes once, alone in its command, after everything that
\* happened to an active capsule, and is no older than any of it.
RetractionAgrees(rows, n, k) ==
    LET prior == Before(n, EventsOf("capsule", k))
    IN /\ Anchored(ledger[n], k) /\ prior # {}
       /\ ValidatedReceivedPublication(k)
       /\ Oldest(prior) = ReceivedPublication(k)
       /\ ledger[n].at >= ledger[Newest(prior)].at
       /\ \A m \in prior : ledger[m].type # "capsule.retracted"
       /\ CausalTypes(ledger[n].by) = <<"capsule.retracted">>
       /\ rows[k] = [status |-> "active", event |-> ReceivedPublication(k)]

ApplyRetracted(acc, n) ==
    \* by the capsule's publisher, who alone owns it
    LET k == ledger[n].of[2]
    IN Put(acc, RetractionAgrees(acc.rows, n, k), k, [status |-> "retracted", event |-> n])

ApplyPublished(acc, n) ==
    LET k == ledger[n].of[2]
    IN Put(acc, k \notin DOMAIN acc.rows /\ ValidatedCapsuleSource(n, k), k,
           [status |-> "active", event |-> n])

ApplyCapsuleState(acc, n) ==
    CASE ~acc.ok -> acc
      [] ledger[n].type = "capsule.published" -> ApplyPublished(acc, n)
      [] ledger[n].type = "capsule.retracted" -> ApplyRetracted(acc, n)
      [] OTHER -> acc

RebuiltStatuses == FoldLeftDomain(ApplyCapsuleState, Empty, ledger)

-----------------------------------------------------------------------------
(* Routes.                                                                 *)

\* A delivery belongs to the command of the publication and goes to one who
\* had subscribed before.
ReceiptAgrees(n, k, a) ==
    LET event == ledger[n]
        published == ReceivedPublication(k)
        key == <<a, capsules[k].topic>>
    IN /\ Anchored(event, <<k, a>>) /\ Sequence(n) = 1
       /\ ValidatedReceivedPublication(k)
       /\ key \in DOMAIN subscriptions
       /\ \E subscription \in {subscriptions[key]} :
             /\ subscription.event < published
             /\ ledger[subscription.event].type = "subscription.created"
             /\ Anchored(ledger[subscription.event], key)
             /\ ledger[subscription.event].at = subscription.at
       /\ a # capsules[k].publisher
       /\ event.at = capsules[k].at
       /\ event.by = ledger[published].by /\ n > published

ApplyReceived(acc, n) ==
    LET item == ledger[n].of[2]
    IN Put(acc, item \notin DOMAIN acc.rows /\ ReceiptAgrees(n, item[1], item[2]),
           item, [state |-> "pending", event |-> n])

\* What ends a route finds it pending, as its receipt left it.
FindsPending(rows, n, item) ==
    /\ Anchored(ledger[n], item) /\ Sequence(n) = 2
    /\ item \in DOMAIN rows /\ rows[item].state = "pending"
    /\ ledger[rows[item].event].type = "capsule.received"
    /\ ledger[rows[item].event].of = ledger[n].of
    /\ rows[item].event < n
    /\ ValidatedReceivedPublication(item[1])

\* A rejection is alone in its command and no older than the newest event of
\* the capsule.
RejectionAgrees(rows, n, item) ==
    LET event == ledger[n]
    IN /\ FindsPending(rows, n, item)
       /\ event.at >= ledger[rows[item].event].at
       /\ event.at >= ledger[Newest(Before(n, EventsOf("capsule", item[1])))].at
       /\ CausalTypes(event.by) = <<"capsule.rejected">>

ApplyRejected(acc, n) ==
    LET item == ledger[n].of[2]
    IN Put(acc, RejectionAgrees(acc.rows, n, item), item, [state |-> "rejected", event |-> n])

\* Whether an adoption before event n brought this root to the experience.
HasPriorMatchingAdoptionEvent(n, e, root) ==
    \E m \in Before(n, OfType({"capsule.adopted"})) :
        ledger[m].data.experience = e /\ ledger[m].data.root = root

\* An adoption that changes nothing finds the experience, at that place of
\* the ledger, saying what the capsule says and out of the archive.
RequireEquivalentExperienceBeforeAdoption(n, e, k) ==
    LET prior == Before(n, EventsOf("experience", e))
    IN /\ prior # {}
       /\ \E m \in {Newest(prior)} :
             /\ Sequence(m) >= 2
             /\ ledger[m].at <= ledger[n].at
             /\ ledger[m].data.after.content = capsules[k].content
             /\ ledger[m].data.after.temperature # "archived"

\* The events of the experience that the same command appended.
CausedOn(n, e) == {m \in EventsOf("experience", e) : ledger[m].by = ledger[n].by}

\* What an adoption must have caused, by what it says of itself.
ExpectedSequence(n, e) ==
    LET data == ledger[n].data
    IN IF data.created
       THEN <<"experience.created", "experience.version_created", "capsule.adopted">>
       ELSE IF ~data.corroborated THEN <<"capsule.adopted">>
       ELSE IF ledger[Oldest(CausedOn(n, e))].data.before.temperature = "cold"
       THEN <<"experience.corroborated", "experience.temperature_changed", "capsule.adopted">>
       ELSE <<"experience.corroborated", "capsule.adopted">>

\* A new experience is what the capsule says; a corroboration names the
\* capsule, and the promotion after it goes on from it.
CausedAgrees(n, e, k) ==
    LET data == ledger[n].data
        caused == CausedOn(n, e)
    IN /\ data.corroborated => caused # {}
       /\ CausalTypes(ledger[n].by) = ExpectedSequence(n, e)
       /\ \A m \in caused : ledger[m].at = ledger[n].at /\ m < n
       /\ data.created =>
             /\ experiences[e].origin = "adopted_capsule"
             /\ experiences[e].versions[1].at = ledger[n].at
             /\ \A m \in caused : ledger[m].data.after =
                    [content |-> capsules[k].content, temperature |-> "active"]
       /\ data.corroborated =>
             /\ ledger[Oldest(caused)].data.capsule = k
             /\ Cardinality(caused) = 2 =>
                   /\ ledger[Newest(caused)].data.before = ledger[Oldest(caused)].data.after
                   /\ ledger[Newest(caused)].data.after.temperature = "active"

\* The adoption record says what the event says, and what the capsule says
\* of its path.
RecordAgrees(n, k, a, r) ==
    LET event == ledger[n]
    IN /\ r.adopter = a /\ r.capsule = k
       /\ r.experience = event.data.experience
       /\ r.root = event.data.root /\ r.root = capsules[k].root
       /\ r.corroborated = event.data.corroborated
       /\ r.at = event.at
       /\ r.chain = Append(capsules[k].chain, k)
       /\ experiences[r.experience].owner = a
       /\ experiences[r.experience].versions[1].at <= event.at

\* An adoption finds the capsule active, and contributes what it says it does.
AdoptionAgrees(rows, n, k, a) ==
    LET event == ledger[n]
        e == event.data.experience
        represented == HasPriorMatchingAdoptionEvent(n, e, event.data.root)
    IN /\ FindsPending(rows, n, <<k, a>>)
       /\ Before(n, EventsOf("capsule", k)) \cap OfType({"capsule.retracted"}) = {}
       /\ \E r \in adoptions : RecordAgrees(n, k, a, r)
       /\ capsules[k].at <= event.at /\ event.at < capsules[k].expires
       /\ IF event.data.created THEN ~represented
          ELSE event.data.corroborated = ~represented
       /\ CausedAgrees(n, e, k)
       /\ ~event.data.created /\ ~event.data.corroborated =>
             RequireEquivalentExperienceBeforeAdoption(n, e, k)

ApplyAdopted(acc, n) ==
    LET item == ledger[n].of[2]
    IN Put(acc, AdoptionAgrees(acc.rows, n, item[1], item[2]), item,
           [state |-> "adopted", event |-> n])

ApplyInboxItem(acc, n) ==
    CASE ~acc.ok -> acc
      [] ledger[n].type = "capsule.received" -> ApplyReceived(acc, n)
      [] ledger[n].type = "capsule.rejected" -> ApplyRejected(acc, n)
      [] ledger[n].type = "capsule.adopted"  -> ApplyAdopted(acc, n)
      [] OTHER -> acc

AdoptionEvents(r) ==
    {n \in OfType({"capsule.adopted"}) : ledger[n].of[2] = <<r.capsule, r.adopter>>}

\* Every adoption has one event that says the same, and the other way round;
\* whether it contributed its root is decided by the order of the ledger.
AdoptionSourcesValid ==
    /\ Cardinality(OfType({"capsule.adopted"})) = Cardinality(adoptions)
    /\ \A r \in adoptions :
          /\ Cardinality(AdoptionEvents(r)) = 1
          /\ \A n \in AdoptionEvents(r) :
                /\ Sequence(n) = 2 /\ ledger[n].at = r.at
                /\ ledger[n].data.experience = r.experience
                /\ ledger[n].data.root = r.root
                /\ ledger[n].data.corroborated = r.corroborated
                /\ \E seen \in {HasPriorMatchingAdoptionEvent(n, r.experience, r.root)} :
                      IF ledger[n].data.created THEN ~seen ELSE r.corroborated = ~seen

\* A rebuild ends with the sources of all adoptions.
RebuiltInbox ==
    IF AdoptionSourcesValid
        THEN FoldLeftDomain(ApplyInboxItem, Empty, ledger)
        ELSE Refuse(Empty)

-----------------------------------------------------------------------------
(* Reputation.                                                             *)

\* Only who received the capsule and ended the route may judge it, and not
\* before that.
RequireFeedbackAuthorization(n, k, a) ==
    LET route == Before(n, EventsOf("inbox_item", <<k, a>>))
    IN /\ Cardinality(route) = 2
       /\ ledger[Oldest(route)].type = "capsule.received"
       /\ ledger[Oldest(route)].at = capsules[k].at
       /\ ledger[Oldest(route)].by = ledger[ReceivedPublication(k)].by
       /\ ledger[Newest(route)].type \in {"capsule.adopted", "capsule.rejected"}
       /\ ledger[Newest(route)].at >= ledger[Oldest(route)].at
       /\ ledger[Newest(route)].at <= ledger[n].at

\* The feedback of one observer on one capsule before event n.
PriorRevisions(n, k, a) ==
    {m \in Before(n, EventsOf("capsule", k)) :
        ledger[m].type = "capsule.feedback_recorded" /\ ledger[m].data.observer = a}

\* The rows of one observer's feedback on a capsule, by revision.
FeedbackRow(k, a, revision) ==
    feedback[CHOOSE f \in Streams(a, k) : feedback[f].revision = revision]

\* A revision has its row, replaces the one before it, and is no older than
\* that, the capsule's event before it, and the capsule; and it is alone in
\* its command.
ValidateFeedbackSourceEvent(n, k, a) ==
    LET event == ledger[n]
        revision == event.data.revision
        predecessor == Newest(Before(n, EventsOf("capsule", k)))
    IN /\ Anchored(event, k) /\ Sequence(n) >= 2
       /\ ValidatedReceivedPublication(k)
       /\ RequireFeedbackAuthorization(n, k, a)
       /\ {ledger[m].data.revision : m \in PriorRevisions(n, k, a)} = 1..(revision - 1)
       /\ \E row \in {FeedbackRow(k, a, revision)} :
             row.verdict = event.data.verdict /\ row.at = event.at
       /\ capsules[k].publisher # a
       /\ event.data.previous = IF revision = 1 THEN "none"
                                ELSE FeedbackRow(k, a, revision - 1).verdict
       /\ revision > 1 => FeedbackRow(k, a, revision - 1).at <= event.at
       /\ ledger[predecessor].at <= event.at
       /\ capsules[k].at <= event.at
       /\ CausalTypes(event.by) = <<"capsule.feedback_recorded">>

\* Every row of feedback has one event that says the same.
FeedbackSourceCorrespondence ==
    \A f \in DOMAIN feedback :
        Cardinality({n \in OfType({"capsule.feedback_recorded"}) :
            /\ Anchored(ledger[n], feedback[f].capsule)
            /\ ledger[n].data.observer = feedback[f].observer
            /\ ledger[n].data.revision = feedback[f].revision
            /\ ledger[n].data.verdict = feedback[f].verdict
            /\ ledger[n].at = feedback[f].at}) = 1

\* One verdict on top of the counts so far: the event must start from their
\* trust, be no older than their newest verdict, replace a verdict they
\* contain, and lead to the trust it says.
ReductionAgrees(counts, n) ==
    LET data == ledger[n].data
        revised == Replaced(counts, data.previous, data.verdict, n)
    IN /\ data.before = ObserverTrust(counts)
       /\ counts # NoCounts => ledger[n].at >= ledger[counts.event].at
       /\ data.previous # "none" => counts[data.previous] > 0
       /\ data.after = ObserverTrust(revised)

ReduceReputation(acc, pair, counts, n) ==
    Put(acc, ReductionAgrees(counts, n), pair,
        Replaced(counts, ledger[n].data.previous, ledger[n].data.verdict, n))

\* The feedback of an observer on the capsules of a publisher.
PairEvents(subject, observer) ==
    {n \in OfType({"capsule.feedback_recorded"}) :
        ledger[n].data.observer = observer /\ capsules[ledger[n].of[2]].publisher = subject}

\* The reputation of a pair replayed from its feedback before an event.
ReplayReputation(subject, observer, events) ==
    FoldLeft(LAMBDA acc, n :
                 IF ~acc.ok THEN acc
                 ELSE ReduceReputation(acc, "pair",
                        IF acc.rows = <<>> THEN NoCounts ELSE acc.rows["pair"], n),
             Empty, SetToSortSeq(events, <))

\* As an event is appended, the row it revises must be the replay of the
\* feedback before it.
ReplayedReputationBefore(n, subject, observer) ==
    ReplayReputation(subject, observer, Before(n, PairEvents(subject, observer)))

ApplyFeedback(acc, n) ==
    LET k == ledger[n].of[2]
        a == ledger[n].data.observer
        pair == <<capsules[k].publisher, a>>
    IN IF ~ValidateFeedbackSourceEvent(n, k, a) THEN Refuse(acc)
       ELSE IF pair \notin DOMAIN acc.rows THEN ReduceReputation(acc, pair, NoCounts, n)
       ELSE \* the checkpoint is an event of the pair with the row's trust
            LET counts == acc.rows[pair]
            IN IF /\ counts.event < n
                  /\ counts.event \in PairEvents(pair[1], a)
                  /\ ledger[counts.event].data.after = ObserverTrust(counts)
               THEN ReduceReputation(acc, pair, counts, n)
               ELSE Refuse(acc)

ApplyAgentReputation(acc, n) ==
    CASE ~acc.ok -> acc
      [] ledger[n].type = "capsule.feedback_recorded" -> ApplyFeedback(acc, n)
      [] OTHER -> acc

RebuiltReputation ==
    IF FeedbackSourceCorrespondence
        THEN FoldLeftDomain(ApplyAgentReputation, Empty, ledger)
        ELSE Refuse(Empty)

-----------------------------------------------------------------------------
\* No command appends an event a reducer refuses, then or in any rebuild, but a
\* rejection behind the feedback of another observer, which dies of it; and
\* the projections are what a rebuild computes from the ledger: whoever
\* judged, retracted and relayed in between, and however the clock stepped
\* back.  The row the next verdict is counted on is also what the replay of
\* that pair alone gives.
RebuildReproduces ==
    /\ refused \subseteq {"capsule.feedback_recorded"}
    /\ RebuiltStatuses = [ok |-> TRUE, rows |-> statuses]
    /\ RebuiltInbox = [ok |-> TRUE, rows |-> inbox]
    /\ RebuiltReputation = [ok |-> TRUE, rows |-> reputation]
    /\ \A pair \in DOMAIN reputation :
          ReplayedReputationBefore(Len(ledger) + 1, pair[1], pair[2]).rows["pair"]
              = reputation[pair]
=============================================================================
