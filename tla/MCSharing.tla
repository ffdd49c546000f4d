----------------------------- MODULE MCSharing -----------------------------
EXTENDS SharingAudit

CONSTANTS a1, a2, a3, c1, c2

\* A configuration has no negative numbers.
MCDrifts == {-1, 1}

Of(l, types) == {n \in DOMAIN l : l[n].type \in types}
Publishes(l) == Of(l, {"capsule.published"})
Cooled(l) == Of(l, {"experience.temperature_changed"})
Subscribers(l) == {l[n].of[2][1] : n \in Of(l, {"subscription.created"})}
Versioned(es) == {e \in DOMAIN es : Len(es[e].versions) > 1}
Written(es) == {e \in DOMAIN es : es[e].origin # "adopted_capsule"}
Says(es, contents) == \A e \in DOMAIN es : es[e].versions[1].content \in contents
Plain(l) == Of(l, {"experience.temperature_changed", "capsule.rejected",
                   "capsule.retracted", "capsule.feedback_recorded"}) = {}

\* Commands in which the clock moves, and clocks that step back between them.
Slow(r) == {n \in DOMAIN r : r[n].completed # r[n].created \/ r[n].back}
Timeless(r) == \A n \in DOMAIN r : r[n].completed = 0 /\ ~r[n].back
Back(r) == {n \in 2..Len(r) : r[n].created < r[n-1].completed}

\* The ledger begins with a topic, its subscribers and an experience, all at
\* one reading.
Begins(now, l, r, subscribers) ==
    LET first == <<"topic.created">>
                   \o [i \in DOMAIN subscribers |-> "subscription.created"]
                   \o <<"experience.created", "experience.version_created">>
    IN /\ \A n \in DOMAIN l \cap DOMAIN first : l[n].type = first[n] /\ l[n].at = 0
       /\ \A i \in DOMAIN subscribers :
             i + 1 \in DOMAIN l => l[i + 1].of[2][1] = subscribers[i]
       /\ Len(l) <= Len(first) => now = 0

\* Three agents relay one content of a1, once each and back to a1.
Relaying(now, l, r, es) ==
    /\ now = 0 /\ Timeless(r) /\ Len(r) <= 11
    /\ Plain(l) /\ Versioned(es) = {} /\ Says(es, {c1})
    /\ Begins(now, l, r, <<a2, a3>>)
    /\ \A e \in DOMAIN es : IF e = 1 THEN es[e].owner = a1 /\ es[e].origin = "local"
                           ELSE es[e].origin = "adopted_capsule"

\* a1 publishes versions, and a2 relays beside what it has of its own or of a
\* passport.
Versioning(now, l, r, es) ==
    /\ now = 0 /\ Timeless(r) /\ Len(r) <= 8
    /\ Plain(l) /\ Cardinality(Versioned(es)) <= 1 /\ Cardinality(Publishes(l)) <= 2
    /\ Begins(now, l, r, <<a2>>) /\ Subscribers(l) \subseteq {a2}
    /\ Cardinality(Written(es)) <= 2
    /\ \A e \in Written(es) : IF e = 1 THEN /\ es[e].owner = a1 /\ es[e].origin = "local"
                                           /\ es[e].versions[1].content = c1
                              ELSE es[e].owner = a2

\* One capsule of a1 that a2 and a3 adopt, reject and judge at any reading,
\* while its publisher may retract it; the clock may go either way in one of
\* the commands.  A ninth command lets both of them judge what both
\* rejected.
Ending(now, l, r, es) ==
    /\ Len(r) <= IF Cardinality(Of(l, {"capsule.rejected"})) = 2 /\ Slow(r) = {} THEN 9 ELSE 8
    /\ Cardinality(Slow(r)) + Cardinality(Back(r)) <= 1
    /\ Cardinality(Publishes(l)) <= 1 /\ Says(es, {c1}) /\ Versioned(es) = {}
    /\ Cooled(l) = {} /\ Cardinality(Written(es)) <= 1
    /\ Begins(now, l, r, <<a2, a3>>)
    /\ es # <<>> => es[1].owner = a1 /\ es[1].origin = "local"

\* Two capsules of a1 that a2 adopts into what it has, warm, cold or archived.
Corroborating(now, l, r, es) ==
    /\ Len(r) <= 9 /\ Slow(r) = {} /\ Cardinality(Back(r)) <= 1
    /\ Of(l, {"capsule.rejected", "capsule.retracted", "capsule.feedback_recorded"}) = {}
    /\ Cardinality(Publishes(l)) <= 2 /\ Says(es, {c1}) /\ Versioned(es) = {}
    /\ Cardinality(Cooled(l)) <= 3 /\ \A n \in Cooled(l) : l[n].of[2] # 1
    /\ Begins(now, l, r, <<a2>>) /\ Subscribers(l) \subseteq {a2}
    /\ \A e \in DOMAIN es : es[e].owner = (IF e = 1 THEN a1 ELSE a2) /\ es[e].origin # "adopted_passport"

\* Two capsules of a1 that a2 judges, between adoptions, rejections and
\* retractions, by commands inside which the clock may advance.
Judging(now, l, r, es) ==
    /\ Len(r) <= 9 /\ Cardinality(Slow(r)) + Cardinality(Back(r)) <= 1
    /\ \A n \in DOMAIN r : ~r[n].back
    /\ Publishes(l) \subseteq {5, 7} /\ \A n \in Publishes(l) : l[n].at = 0
    /\ Says(es, {c1}) /\ Versioned(es) = {} /\ Cooled(l) = {}
    /\ Cardinality(Written(es)) <= 1
    /\ Cardinality(Of(l, {"capsule.rejected", "capsule.retracted", "capsule.adopted"})) <= 2
    /\ Begins(now, l, r, <<a2>>) /\ Subscribers(l) \subseteq {a2}
    /\ es # <<>> => es[1].owner = a1 /\ es[1].origin = "local"

Slices(now, l, r, es) ==
    TRUE \in {Relaying(now, l, r, es), Versioning(now, l, r, es), Ending(now, l, r, es),
              Corroborating(now, l, r, es), Judging(now, l, r, es)}
=============================================================================
