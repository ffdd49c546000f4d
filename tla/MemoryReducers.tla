--------------------------- MODULE MemoryReducers ---------------------------
(***************************************************************************)
(* The reducer of experience events (experiences/projector.py) and what    *)
(* the payloads of those events may say (experiences/events.py).  The same *)
(* reducer runs on each event as it is appended and on the whole ledger in *)
(* a rebuild: a refused event rolls back the command that appended it, or  *)
(* makes the ledger unreadable for ever.                                   *)
(*                                                                         *)
(* Of a state the model keeps what the life of an experience depends on;   *)
(* scores (confidence, strength, activation) are checked in the source by  *)
(* formulas of the reducer's own and are not modelled, and neither is the  *)
(* provenance a corroboration rests on (Sharing models that).              *)
(* Experiences do not meet in this reducer but in the uniqueness of their  *)
(* current content, so it reduces the events of one at a time.             *)
(***************************************************************************)
EXTENDS ExperienceMemory, FiniteSetsExt

Refused == [NoState EXCEPT !.temperature = "refused"]

\* The fields an event changes, and those each type may change.
ChangedFields(event) ==
    {f \in DOMAIN event.before : event.before[f] # event.after[f]}

AllowedFields(type) ==
    CASE type = "version_created"      -> {"version"}
      [] type = "evaluated"            -> {"evaluatedAt", "counter"}
      [] type \in {"pinned", "unpinned"} -> {"pinned"}
      [] type = "moved"                -> {"temperature", "movedAt", "counter"}
      [] OTHER                         -> {}

\* What each cause of a move permits.
Transitions(cause) ==
    CASE cause \in {"confirmation", "pin"}  -> {"warm", "cold"} \X {"hot"}
      [] cause = "cold_reactivation"        -> {<<"cold", "warm">>}
      [] cause = "lifecycle_activation"     -> {<<"warm", "hot">>}
      [] cause = "lifecycle_demotion"       -> {<<"hot", "warm">>, <<"warm", "cold">>}
      [] cause = "policy_archive"           -> {<<"cold", "archived">>}
      [] cause = "restore"                  -> {<<"archived", "warm">>}
      [] cause = "capsule_corroboration"    -> {<<"cold", "hot">>}

\* The payload on its own.
WellFormed(event) ==
    \/ event.type = "created"
    \/ /\ ChangedFields(event) \subseteq AllowedFields(event.type)
       /\ event.type = "pinned" => ~event.before.pinned /\ event.after.pinned
       /\ event.type = "unpinned" => event.before.pinned /\ ~event.after.pinned
       /\ event.type = "evaluated" => event.after.evaluatedAt = event.at
       /\ event.type \in {"reactivated", "archived"} => event.before.temperature = "cold"
       /\ event.type = "restored" => event.before.temperature = "archived"
       /\ event.type = "moved" =>
            /\ <<event.before.temperature, event.after.temperature>>
                 \in Transitions(event.note)
            /\ event.after.counter = 0

-----------------------------------------------------------------------------
(* What the reducer asks of each type of event: "events" are those of the  *)
(* experience, "rows" its versions, "state" what is projected so far.      *)

\* The times a state and its experience carry.
CausalAnchors(prior, state, identity, version) ==
    {identity.at, version.at, prior.at, state.movedAt, state.evaluatedAt}

\* Every event after the first two goes on from the state that is projected,
\* and from the event it was projected from, at no time that came before.
InContext(events, rows, state, k) ==
    /\ k >= 3
    /\ events[k].before = state
    /\ state.version \in DOMAIN rows
    /\ \A at \in CausalAnchors(events[k - 1], state, events[1], rows[state.version]) :
         at <= events[k].at

\* Events that come in pairs have one command and one time, and the second
\* goes on from the state the first leaves.
Paired(prior, event) == prior.by = event.by /\ prior.at = event.at
Follows(prior, type, event) == prior.type = type /\ prior.after = event.before

\* A creation: nothing is projected yet, and its state is a fresh one.
CreatedAgrees(event, rows, state, k) ==
    /\ k = 1
    /\ state = NoState
    /\ rows[1].at = event.at
    /\ event.after = [NoState EXCEPT !.temperature = event.after.temperature,
                                     !.movedAt = event.at, !.version = 1]

\* The first version follows the creation and changes nothing; each other one
\* replaces the version before it.
VersionAgrees(events, rows, state, k) ==
    LET event == events[k]
        number == event.after.version
    IN  /\ event.before = state
        /\ number \in DOMAIN rows
        /\ rows[number].at = event.at
        /\ IF number = 1
           THEN k = 2 /\ event.after = event.before
           ELSE /\ k > 2
                /\ number = event.before.version + 1
                /\ \A at \in CausalAnchors(events[k - 1], state, events[1], rows[number - 1]) :
                     at <= event.at

AccessedAgrees(event) == event.before.temperature # "archived"

ReactivatedAgrees(prior, event) ==
    event.before.temperature = "cold" /\ prior.type = "accessed" /\ Paired(prior, event)

\* A target the state permits; the scores that lead to it are not modelled.
TargetPermitted(event) ==
    LET before == event.before
    IN  CASE event.note = "promote_hot" -> before.temperature = "warm"
          [] event.note = "demote_warm" -> before.temperature = "hot" /\ ~before.pinned
          [] event.note = "demote_cold" -> before.temperature = "warm" /\ ~before.pinned
          [] event.note = "archive"     -> /\ before.temperature = "cold" /\ ~before.pinned
                                           /\ event.at - before.movedAt >= ArchiveAfter
          [] event.note = "none"        -> before.temperature = "warm" => ~before.pinned

\* An evaluation: no sooner than MinInterval after the one before, with a
\* counter that goes on or starts again.
EvaluatedAgrees(event) ==
    /\ event.before.temperature # "archived"
    /\ event.after.evaluatedAt = event.at
    /\ event.before.evaluatedAt # Never =>
         event.at - event.before.evaluatedAt >= MinInterval
    /\ TargetPermitted(event)
    /\ event.after.counter = IF event.note \in Demotions
                             THEN Min({DemotionCycles, event.before.counter + 1})
                             ELSE 0

ConfirmedAgrees(event) == event.before.temperature # "archived"

RefutedAgrees(event) == event.before.temperature # "archived"

\* The provenance of a corroboration is left to Sharing.
CorroboratedAgrees(event) == event.before.temperature # "archived"

PinnedAgrees(event) == event.before.temperature # "archived"

UnpinnedAgrees(event) == event.before.temperature # "archived"

ArchivedAgrees(prior, event) ==
    /\ event.before.temperature = "cold" /\ event.after = event.before
    /\ Follows(prior, "evaluated", event) /\ prior.note = "archive"
    /\ Paired(prior, event)

\* Nothing has happened to the experience since it was archived.
RestoredAgrees(prior, event) ==
    /\ event.before.temperature = "archived"
    /\ Follows(prior, "moved", event) /\ prior.note = "policy_archive"

\* A move follows the event that explains it.
MovedAgrees(prior, event) ==
    /\ event.after.movedAt = event.at
    /\ Paired(prior, event)
    /\ CASE event.note = "cold_reactivation"     -> Follows(prior, "reactivated", event)
         [] event.note = "confirmation"          -> Follows(prior, "confirmed", event)
         [] event.note = "pin"                   -> Follows(prior, "pinned", event)
         [] event.note = "capsule_corroboration" -> Follows(prior, "corroborated", event)
         [] event.note = "policy_archive"        -> Follows(prior, "archived", event)
         [] event.note = "restore"               -> Follows(prior, "restored", event)
         [] event.note = "lifecycle_activation"  ->
              Follows(prior, "evaluated", event) /\ prior.note = "promote_hot"
         [] event.note = "lifecycle_demotion"    ->
              /\ Follows(prior, "evaluated", event)
              /\ prior.note = IF event.after.temperature = "warm"
                              THEN "demote_warm" ELSE "demote_cold"
              /\ prior.after.counter >= DemotionCycles

EventAgrees(prior, event) ==
    CASE event.type = "accessed"     -> AccessedAgrees(event)
      [] event.type = "reactivated"  -> ReactivatedAgrees(prior, event)
      [] event.type = "evaluated"    -> EvaluatedAgrees(event)
      [] event.type = "confirmed"    -> ConfirmedAgrees(event)
      [] event.type = "refuted"      -> RefutedAgrees(event)
      [] event.type = "corroborated" -> CorroboratedAgrees(event)
      [] event.type = "pinned"       -> PinnedAgrees(event)
      [] event.type = "unpinned"     -> UnpinnedAgrees(event)
      [] event.type = "archived"     -> ArchivedAgrees(prior, event)
      [] event.type = "restored"     -> RestoredAgrees(prior, event)
      [] event.type = "moved"        -> MovedAgrees(prior, event)

StateEventAgrees(events, rows, state, k) ==
    InContext(events, rows, state, k) /\ EventAgrees(events[k - 1], events[k])

\* Whether the reducer takes the event k, with what is projected before it.
Accepts(events, rows, state, k) ==
    /\ state # Refused
    /\ WellFormed(events[k])
    /\ CASE events[k].type = "created"         -> CreatedAgrees(events[k], rows, state, k)
         [] events[k].type = "version_created" -> VersionAgrees(events, rows, state, k)
         [] OTHER                              -> StateEventAgrees(events, rows, state, k)

\* The reducer: the state an event leaves, or Refused.
Apply(events, rows, state, k) ==
    IF Accepts(events, rows, state, k) THEN events[k].after ELSE Refused

\* The whole ledger again, in the order in which it was appended.
Rebuild(e) ==
    LET state[k \in 0..Len(history[e])] ==
          IF k = 0 THEN NoState ELSE Apply(history[e], versions[e], state[k - 1], k)
    IN  state[Len(history[e])]

-----------------------------------------------------------------------------
(* The index of terms, reduced from creations and versions alone: what it  *)
(* has of an experience are the terms of one of its versions.              *)

CreatedTerms(event, k, rows) ==
    IF k = 1 /\ rows[1].at = event.at /\ event.after.version = 1 THEN {rows[1].content}
                                                                 ELSE {}

VersionTerms(event, k, rows) ==
    LET number == event.after.version
    IN  IF /\ IF number = 1 THEN k = 2 /\ event.before = event.after
                            ELSE k > 2 /\ number - 1 = event.before.version
           /\ rows[number].at = event.at
        THEN {rows[number].content}
        ELSE {}

Reindexed(terms, event, k, rows) ==
    CASE event.type = "created"         -> CreatedTerms(event, k, rows)
      [] event.type = "version_created" -> VersionTerms(event, k, rows)
      [] OTHER                          -> terms

RebuiltTerms(e) ==
    LET terms[k \in 0..Len(history[e])] ==
          IF k = 0 THEN {} ELSE Reindexed(terms[k - 1], history[e][k], k, versions[e])
    IN  terms[Len(history[e])]

\* No command and no cycle appends an event that the reducer refuses, and the
\* state it projected is the one a rebuild computes from the ledger: however
\* the clock stepped back, whatever was reactivated, archived and restored,
\* and whichever versions are current by then.  Experiences are found again
\* by the terms of their current version.
RebuildReproduces ==
    \A e \in Experiences :
        /\ Rebuild(e) = memory[e]
        /\ RebuiltTerms(e) = IF e \in Known THEN {Current(e).content} ELSE {}
=============================================================================
