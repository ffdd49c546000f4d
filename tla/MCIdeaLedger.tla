---------------------------- MODULE MCIdeaLedger ----------------------------
EXTENDS IdeaLedger

CONSTANTS a1, a2, s1, s2
\* Mechanisms 1 and 2, 2 and 3 are near duplicates; 1 and 3 are not.
MCSimilarity ==
  [p \in {<<m, m>> : m \in Mechanism} |-> 10]
  @@ [p \in {<<1, 2>>, <<2, 1>>, <<2, 3>>, <<3, 2>>} |-> 9]
  @@ [p \in Mechanism \X Mechanism |-> 1]

Under(s, scopes) == {n \in DOMAIN s.receipts : s.receipts[n].scope \in scopes}
Acts(s) == Under(s, {"evaluate", "rejected", "archived", "adopt", "cycle"})
Changes(s) == Under(s, {"create", "change"})
\* Commands in which the clock moves, or whose time is not that of the server.
Odd(s) == {n \in Acts(s) :
             LET r == s.receipts[n]
             IN \/ r.created # r.completed
                \/ r.scope = "evaluate" /\ r.request.at # r.created
                \/ r.scope = "cycle" /\ r.request.at # None}
Important(s) == {n \in Under(s, {"adopt"}) : s.receipts[n].request.importance = "high"}
Mechanisms(s) == {i.mechanism : i \in ToSet(s.ideas)}

\* Three instances in one.  Ideas of two runs over three mechanisms recur, and
\* one of them is acted on.  Or two ideas of one mechanism, of one run each,
\* are evaluated, decided on and archived.  Or one idea is adopted among the
\* changes of experiences.  The first run is a1's, from s1: agents and
\* snapshots are interchangeable.
Recurring(s) ==
  /\ \A r \in ToSet(s.runs) : r.at <= 2
  /\ Cardinality(Acts(s)) <= 1 /\ Odd(s) = {} /\ Changes(s) = {}
  /\ Under(s, {"rejected", "archived"}) \cup Important(s) = {}
  /\ \A n \in Under(s, {"evaluate"}) : s.receipts[n].request.verdict = "supported"
  /\ Len(s.ideas) = 3 => s.runs[2].snapshot = s2
  /\ Acts(s) # {} => Len(s.ideas) <= 2 /\ Mechanisms(s) \subseteq 1..2
Deciding(s) ==
  /\ \A r \in ToSet(s.runs) : r.at = 1 /\ (Acts(s) # {} => r.ended # None)
  /\ Mechanisms(s) \subseteq {1} /\ Len(s.ideas) <= Len(s.runs)
  /\ Changes(s) = {} /\ Important(s) = {}
  /\ Cardinality(Odd(s)) <= IF Cardinality(Acts(s)) <= 2 THEN 1 ELSE 0
  /\ Cardinality(Acts(s)) = 3 =>
       \/ /\ Len(s.runs) = 1
          /\ Cardinality(Under(s, {"rejected", "archived", "adopt"})) <= 1
       \/ /\ Len(s.runs) = 2 /\ s.runs[2].owner = a2 /\ s.runs[2].snapshot = s2
          /\ Under(s, {"rejected", "archived"}) = {} /\ Cardinality(Under(s, {"adopt"})) <= 1
          /\ Len(s.ledger) = 5 => s.ledger[5].at = 3
Adopting(s) ==
  /\ Len(s.runs) <= 1 /\ Len(s.ideas) <= 1 /\ Len(s.receipts) <= 4
  /\ Mechanisms(s) \subseteq {1} /\ \A r \in ToSet(s.runs) : r.at = 1
  /\ Changes(s) # {} => Len(s.ideas) = 1
  /\ \A e \in ToSet(s.ledger) : e.at <= 2
  /\ \A e \in ToSet(s.ledger) : e.type = "experience" =>
       e.data.content <= 2 /\ (e.data.owner = a1 \/ e.data.content = 1)
  /\ Odd(s) = {}
Slices(s) == /\ s.runs # << >> => s.runs[1].owner = a1 /\ s.runs[1].snapshot = s1
             /\ TRUE \in {Recurring(s), Deciding(s), Adopting(s)}
=============================================================================
