----------------------------- MODULE MCImports -----------------------------
EXTENDS Imports

CONSTANTS a0, a1, a2, m1, m2, m3

\* The first trajectory repeats a content, shares a step between two contents
\* and refers to more steps than are kept.  The other two, of the same owner,
\* have one signal that refers to no step: its content is the same.
MCOwnerOf == (m1 :> a1) @@ (m2 :> a1) @@ (m3 :> a1)
MCSignals ==
  (m1 :> << [content |-> 1, evidence |-> {2, 3, 4}], [content |-> 2, evidence |-> {1, 2}],
            [content |-> 1, evidence |-> {2, 3, 4}] >>)
  @@ (m2 :> << [content |-> 3, evidence |-> {}] >>)
  @@ (m3 :> << [content |-> 3, evidence |-> {}] >>)

\* A document from another hub, whose agent a0 wrote content 3.
ForeignHop == [agent |-> a0, experience |-> 1, version |-> 1,
               origin |-> "authored", content |-> 3]
MCForeign ==
  << [hops |-> <<[parent |-> None] @@ ForeignHop>>, fingerprint |-> <<a0, 3>>]
       @@ ForeignHop >>

Under(s, scopes) == {n \in DOMAIN s.receipts : s.receipts[n].scope \in scopes}
Captures(s) == Under(s, {"capture"})
Writes(s) == Under(s, {"experience.create", "experience.change"})
OnCandidates(s) == Under(s, {"capture", "candidate.adopt", "candidate.reject"})
OnPassports(s) == Under(s, {"passport.import", "passport.adopt", "passport.reject"})
Rejections(s) == Under(s, {"candidate.reject", "passport.reject"})
\* Commands in which the clock moves, and clocks that step back.
Slow(s) == {n \in DOMAIN s.receipts : s.receipts[n].completed \notin {None, s.receipts[n].created}}
Back(s) == {n \in 2..Len(s.receipts) : s.receipts[n].created < s.receipts[n-1].created}
OwnedBy(s, owners) == \A r \in ToSet(s.receipts) : r.owner \in owners
Written(s) == {x.versions[Len(x.versions)].content : x \in ToSet(s.experiences)}

\* Four instances in one.  Candidates of one trajectory are decided among the
\* writes of their owner.  Or a document is imported, decided, imported again.
\* Or a content goes from agent to agent and back.  Or candidates and a
\* document of one content become one experience.
Capturing(s) ==
  /\ OnPassports(s) = {} /\ Len(s.receipts) <= 4 /\ OwnedBy(s, {a1})
  /\ \A n \in Captures(s) : s.receipts[n].request = m1
  /\ Written(s) \subseteq {1, 2} /\ Cardinality(Writes(s)) <= 2
  /\ Cardinality(Slow(s)) + Cardinality(Back(s)) <= 1
Deciding(s) ==
  /\ OnCandidates(s) = {} /\ Len(s.documents) = 1 /\ Len(s.receipts) <= 4
  /\ Cardinality(Writes(s)) <= 2 /\ Written(s) \subseteq {2, 3}
  /\ \A n \in Under(s, {"passport.adopt", "passport.reject"}) \cup Writes(s) :
       s.receipts[n].owner = a1
  /\ Cardinality(Slow(s)) + Cardinality(Back(s)) <= 1
Travelling(s) ==
  /\ OnCandidates(s) = {} /\ Rejections(s) = {}
  /\ \A r \in ToSet(s.receipts) : r.created = 1 /\ r.completed \in {None, 1}
  /\ Len(s.receipts) >= 1 => s.receipts[1].scope = "experience.create"
                             /\ s.receipts[1].owner = a1 /\ s.receipts[1].request = 1
  /\ Cardinality(Writes(s)) <= 1
  /\ \A p \in ToSet(s.imports) : p.document # 1
Meeting(s) ==
  /\ Len(s.documents) = 1 /\ OwnedBy(s, {a1}) /\ Rejections(s) = {} /\ Back(s) = {}
  /\ \A n \in Captures(s) : s.receipts[n].request # m1
  /\ Slow(s) = {} /\ Written(s) \subseteq {3}
  /\ Under(s, {"experience.create"}) = {}
Slices(s) == TRUE \in {Capturing(s), Deciding(s), Travelling(s), Meeting(s)}
=============================================================================
