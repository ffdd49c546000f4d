---------------------------- MODULE MemoryAudit ----------------------------
(***************************************************************************)
(* The validator of the experiences' sources (storage/validation.py,       *)
(* ExperienceSourceValidator): the rows of identities, versions and links, *)
(* which no event can rebuild, against the events that explain them.  One  *)
(* row it refuses makes every backup, restore and rebuild of the database  *)
(* fail.                                                                   *)
(*                                                                         *)
(* Ledger identifiers across experiences are not modelled, so the order of *)
(* a link's target and the version that links to it is not compared; what  *)
(* is compared is that the target exists and has the same owner.           *)
(***************************************************************************)
EXTENDS MemoryReducers

\* The events that created an experience, and those that wrote its versions.
Creations(e) == {k \in DOMAIN history[e] : history[e][k].type = "created"}
Writings(e) == {k \in DOMAIN history[e] : history[e][k].type = "version_created"}

\* The number of the version that an event wrote.
Number(e, k) == history[e][k].after.version

Latest(rows) == rows[Len(rows)]

\* An identity has one creation, its first event, which has the state of its
\* first version.
IdentityValid(e) ==
    /\ Creations(e) = {1}
    /\ versions[e] # <<>>
    /\ Number(e, 1) = 1

\* What wrote the version of that number, and nothing else did.
Explained(e, number, k) ==
    /\ \A j \in Writings(e) : Number(e, j) = number <=> j = k
    /\ history[e][k].at = versions[e][number].at
    /\ IF number = 1 THEN k = 2 ELSE k > 2

\* Each version has one event that wrote it, at its time, where its number
\* may be; and each event that wrote one has a version.
VersionsValid(e) ==
    /\ \A k \in Writings(e) : Number(e, k) \in DOMAIN versions[e]
    /\ \A number \in DOMAIN versions[e] : \E k \in Writings(e) : Explained(e, number, k)

\* The first version was written with the identity.
CreationAnchored(e) ==
    /\ history[e][1].at = versions[e][1].at
    /\ \A k \in Writings(e) : Number(e, k) = 1 => k = 2 /\ history[e][k].at = versions[e][1].at

\* Versions follow each other in the ledger and in time.
VersionsOrdered(e) ==
    \A j, k \in Writings(e) : Number(e, j) < Number(e, k) =>
        j < k /\ history[e][j].at <= history[e][k].at

\* Every version, superseded ones included, links to other experiences of
\* the owner.
LinksValid(e) ==
    \A number \in DOMAIN versions[e] : \A l \in versions[e][number].links :
        l.target # e /\ history[l.target] # <<>> /\ Owner[l.target] = Owner[e]

\* The look-up of an equivalent expects at most one experience of an agent
\* whose current version says the same.
CurrentContentUnique ==
    \A e, f \in Experiences :
        (versions[e] # <<>> /\ versions[f] # <<>> /\ e # f /\ Owner[e] = Owner[f]) =>
            Latest(versions[e]).content # Latest(versions[f]).content

SourceAccepted(e) ==
    history[e] # <<>> \/ versions[e] # <<>> =>
        /\ IdentityValid(e)
        /\ VersionsValid(e)
        /\ CreationAnchored(e)
        /\ VersionsOrdered(e)
        /\ LinksValid(e)

\* The database can always be audited: the rows agree with the ledger, the
\* reducer accepts the ledger, and no two current contents of an agent are
\* the same, whatever was created, superseded, archived and restored between.
\* Every version is stored as its temperature asks for, so that payload
\* reconciliation has nothing to change.
AuditAccepts ==
    /\ CodecMatchesTemperature
    /\ \A e \in Experiences : SourceAccepted(e)
    /\ CurrentContentUnique
    /\ RebuildReproduces
=============================================================================
