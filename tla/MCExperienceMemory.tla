------------------------ MODULE MCExperienceMemory ------------------------
\* Small instances of ExperienceMemory: one agent owns every experience.
EXTENDS MemoryAudit

CONSTANTS alice, e1, e2, c1, c2
MCAgents == {alice}
MCOwner == [e \in Experiences |-> alice]

\* The forgetting of one experience, created when the clock shows 0; one that
\* is created hot is given no commands.
OneLife(histories, rows) ==
    \A e \in Experiences : histories[e] # <<>> =>
        /\ histories[e][1].at = 0
        /\ TRUE \in {histories[e][1].after.temperature = "warm",
                     \A k \in DOMAIN histories[e] : histories[e][k].type \notin CommandEvents}

\* Three instances in one, with at most one experience versioned again.  One
\* experience without links is given commands; or two are, but only to be
\* restored; or there is one link at a time, experiences are created when the
\* clock shows 0, and no command is given.  What happens to two happens at the
\* first and the last reading, as far apart as an archive takes.  The
\* experiences and the contents are numbered in the order of their use.
Given(histories, types) ==
    \A e \in Experiences : \A k \in DOMAIN histories[e] :
        histories[e][k].type \in CommandEvents => histories[e][k].type \in types
FarApart(histories) ==
    \A e \in Experiences : \A k \in DOMAIN histories[e] :
        histories[e][k].at \in {0, MaxTime}
Unlinked(rows) == \A e \in Experiences : \A k \in DOMAIN rows[e] : rows[e][k].links = {}
Alone(histories, rows) == Unlinked(rows) /\ rows[e2] = <<>>
Restored(histories, rows) ==
    /\ Unlinked(rows) /\ FarApart(histories)
    /\ Given(histories, {"restored"})
Linked(histories, rows) ==
    /\ Given(histories, {}) /\ FarApart(histories)
    /\ \A e \in Experiences : histories[e] # <<>> => histories[e][1].at = 0
SharedContents(histories, rows) ==
    /\ TRUE \in {Alone(histories, rows), Restored(histories, rows), Linked(histories, rows)}
    /\ Cardinality({e \in Experiences : Len(rows[e]) > 1}) <= 1
    /\ rows[e2] # <<>> => rows[e1] # <<>>
    /\ rows[e1] # <<>> => rows[e1][1].content = c1 /\ rows[e1][1].at = 0
=============================================================================
