----------------------------- MODULE IdeaProofs -----------------------------
(***************************************************************************)
(* Proofs about IdeaLedger, for every set of agents, mechanisms, snapshots *)
(* and verdicts' evidence, every similarity, every retention and every     *)
(* bound: types with the payloads of all events, and that the counters of  *)
(* a cluster are what its ideas amount to.  The first part is the planner  *)
(* alone: whatever cluster it is given, its transitions pass the checks of *)
(* the payloads, and clusters stay apart.  The second goes over the events *)
(* that the reducers accept, one at a time, the third over the commands.   *)
(***************************************************************************)
EXTENDS IdeaLedger, FiniteSetTheorems, SequenceTheorems, WellFoundedInduction, TLAPS

-----------------------------------------------------------------------------
(* Sequences whose elements have no common type, and greatest elements.    *)

IsLog(s) == s \in Seq({s[n] : n \in DOMAIN s})

LEMMA LogOf ==
  ASSUME NEW S, NEW s \in Seq(S)
  PROVE  IsLog(s) /\ Len(s) \in Nat /\ DOMAIN s = 1..Len(s)
<1>1. Len(s) \in Nat /\ DOMAIN s = 1..Len(s)
  OBVIOUS
<1> PICK n \in Nat : n = Len(s)
  BY <1>1
<1>2. s \in [1..n -> {s[i] : i \in DOMAIN s}]
  BY <1>1
<1>3. [1..n -> {s[i] : i \in DOMAIN s}] \subseteq Seq({s[i] : i \in DOMAIN s})
  BY SeqDef
<1> QED BY <1>1, <1>2, <1>3 DEF IsLog

LEMMA LogLength ==
  ASSUME NEW s, IsLog(s)
  PROVE  Len(s) \in Nat /\ DOMAIN s = 1..Len(s)
BY LogOf DEF IsLog

\* The log t begins with the log s and has d more elements.
Grew(t, s, d) ==
  IsLog(t) /\ Len(t) = Len(s) + d /\ \A n \in 1..Len(s) : t[n] = s[n]

LEMMA LogAppend ==
  ASSUME NEW s, IsLog(s), NEW x, NEW t, t = Append(s, x)
  PROVE  Grew(t, s, 1) /\ t[Len(s) + 1] = x
<1> PICK S : S = {s[n] : n \in DOMAIN s} \cup {x}
  OBVIOUS
<1>1. s \in Seq(S) /\ x \in S
  BY SeqMonotonic DEF IsLog
<1>2. t \in Seq(S) /\ Len(t) = Len(s) + 1
  BY <1>1
<1>3. \A n \in 1..Len(s) : t[n] = s[n]
  BY <1>1
<1>4. t[Len(s) + 1] = x
  BY <1>1
<1>5. IsLog(t)
  BY <1>2, LogOf
<1> QED BY <1>2, <1>3, <1>4, <1>5 DEF Grew

LEMMA LogConcat ==
  ASSUME NEW s, IsLog(s), NEW d \in Nat, NEW f, f = [i \in 1..d |-> f[i]]
  PROVE  Grew(s \o f, s, d) /\ \A i \in 1..d : (s \o f)[Len(s) + i] = f[i]
<1>1. f \in Seq({f[i] : i \in 1..d})
  <2>1. f \in [1..d -> {f[i] : i \in 1..d}]
    OBVIOUS
  <2> QED BY <2>1, SeqDef
<1> PICK S : S = {s[n] : n \in DOMAIN s} \cup {f[n] : n \in 1..d}
  OBVIOUS
<1>2. s \in Seq(S) /\ f \in Seq(S) /\ Len(f) = d
  BY <1>1, SeqMonotonic DEF IsLog
<1> PICK m \in Nat : m = Len(s)
  BY LogLength
<1> PICK t : t = s \o f
  OBVIOUS
<1>3. /\ t \in Seq(S) /\ Len(t) = m + d
      /\ \A i \in 1..m + d : t[i] = IF i <= m THEN s[i] ELSE f[i - m]
  BY <1>2, ConcatProperties
<1>4. IsLog(t)
  BY <1>3, LogOf
<1>5. ASSUME NEW i \in 1..d
      PROVE  t[m + i] = f[i]
  <2>1. m + i \in 1..m + d /\ ~(m + i <= m) /\ (m + i) - m = i
    OBVIOUS
  <2> QED BY <1>3, <2>1
<1>6. \A n \in 1..m : t[n] = s[n]
  BY <1>3
<1> QED BY <1>3, <1>4, <1>5, <1>6 DEF Grew

LEMMA Greatest ==
  ASSUME NEW S, NEW b \in Nat, S # {}, S \subseteq 0..b
  PROVE  Max(S) \in S /\ \A x \in S : Max(S) >= x
<1>a. PICK T : T = {b - x : x \in S}
  OBVIOUS
<1>1. T \subseteq Nat /\ T # {}
  <2>1. ASSUME NEW x \in S PROVE b - x \in Nat
    <3>1. x \in 0..b
      OBVIOUS
    <3> QED BY <3>1
  <2> QED BY <1>a, <2>1
<1>2. PICK a \in T : \A c \in T : ~(<<c, a>> \in OpToRel(<, Nat))
  BY <1>1, WFMin, NatLessThanWellFounded
<1>3. \A c \in T : ~(c < a)
  BY <1>1, <1>2 DEF OpToRel
<1>4. PICK m \in S : a = b - m
  BY <1>a
<1>5. \A x \in S : m >= x
  <2> SUFFICES ASSUME NEW x \in S PROVE m >= x
    OBVIOUS
  <2>1. b - x \in T /\ ~(b - x < b - m)
    BY <1>a, <1>3, <1>4
  <2>2. m \in Int /\ x \in Int
    OBVIOUS
  <2> QED BY <2>1, <2>2
<1> QED BY <1>5 DEF Max

LEMMA Smallest ==
  ASSUME NEW S, S # {}, S \subseteq Nat
  PROVE  Min(S) \in S /\ \A x \in S : Min(S) <= x
<1>1. PICK a \in S : \A c \in S : ~(<<c, a>> \in OpToRel(<, Nat))
  BY WFMin, NatLessThanWellFounded
<1>2. \A c \in S : ~(c < a)
  BY <1>1 DEF OpToRel
<1>3. \A c \in S : c \in Nat /\ a \in Nat
  OBVIOUS
<1>4. \A c \in S : a <= c
  BY <1>2, <1>3
<1> QED BY <1>4 DEF Min

LEMMA GreaterOfTwo ==
  ASSUME NEW m \in Nat, NEW n \in Nat
  PROVE  Max({m, n}) = IF m >= n THEN m ELSE n
<1> PICK x : x = IF m >= n THEN m ELSE n
  OBVIOUS
<1>1. x \in {m, n} /\ \A y \in {m, n} : x >= y
  OBVIOUS
<1>2. \A z \in {m, n} : (\A y \in {m, n} : z >= y) => z = x
  OBVIOUS
<1> QED BY <1>1, <1>2 DEF Max

-----------------------------------------------------------------------------
(* Counting.                                                               *)

LEMMA FiniteBelow ==
  ASSUME NEW n \in Nat, NEW S, S \subseteq 1..n
  PROVE  IsFiniteSet(S) /\ Cardinality(S) \in Nat
<1>1. IsFiniteSet(1..n)
  BY FS_Interval
<1>2. IsFiniteSet(S)
  BY <1>1, FS_Subset
<1> QED BY <1>2, FS_CardinalityType

\* An image of a finite set.
ImageOf(f, S) == {f[x] : x \in S}

LEMMA ImageFinite ==
  ASSUME NEW S, IsFiniteSet(S), NEW f
  PROVE  IsFiniteSet(ImageOf(f, S))
<1> PICK T : T = {f[x] : x \in S}
  OBVIOUS
<1> PICK g : g = [x \in S |-> f[x]]
  OBVIOUS
<1>1. g \in Surjection(S, T)
  BY DEF Surjection
<1>2. IsFiniteSet(T)
  BY <1>1, FS_Surjection
<1> QED BY <1>2 DEF ImageOf

\* One more, or one less.
LEMMA CountWith ==
  ASSUME NEW S, IsFiniteSet(S), NEW x, NEW T, T = S \cup {x}
  PROVE  /\ IsFiniteSet(T) /\ Cardinality(S) \in Nat
         /\ Cardinality(T) = IF x \in S THEN Cardinality(S) ELSE Cardinality(S) + 1
BY FS_AddElement, FS_CardinalityType

LEMMA CountWithout ==
  ASSUME NEW S, IsFiniteSet(S), NEW x, NEW T, T = S \ {x}
  PROVE  /\ IsFiniteSet(T) /\ Cardinality(S) \in Nat /\ Cardinality(T) \in Nat
         /\ Cardinality(T) = IF x \in S THEN Cardinality(S) - 1 ELSE Cardinality(S)
BY FS_RemoveElement, FS_CardinalityType

\* Ascending enumerates a set of numbers.
LEMMA Enumerates ==
  ASSUME NEW n \in Nat, NEW S, S \subseteq 1..n
  PROVE  /\ Len(Ascending(S)) \in Nat
         /\ Ascending(S) = [k \in 1..Len(Ascending(S)) |-> Ascending(S)[k]]
         /\ ToSet(Ascending(S)) = S
<1> PICK N : N = Cardinality(S)
  OBVIOUS
<1> PICK rank : rank = [i \in S |-> Cardinality({j \in S : j <= i})]
  OBVIOUS
<1> PICK e : e = Ascending(S)
  OBVIOUS
<1>1. N \in Nat /\ IsFiniteSet(S) /\ IsFiniteSet(1..N) /\ Cardinality(1..N) = N
  <2>1. N \in Nat /\ IsFiniteSet(S)
    BY FiniteBelow
  <2>2. IsFiniteSet(1..N) /\ Cardinality(1..N) = N
    <3>1. 1 \in Int /\ N \in Int
      BY <2>1
    <3>2. IsFiniteSet(1..N) /\ Cardinality(1..N) = IF 1 > N THEN 0 ELSE N-1+1
      BY <3>1, FS_Interval, Zenon
    <3> QED BY <2>1, <3>2
  <2> QED BY <2>1, <2>2
<1>2. ASSUME NEW i \in S
      PROVE  rank[i] \in 1..N
  <2> PICK T : T = {j \in S : j <= i}
    OBVIOUS
  <2>1. i \in T /\ T \subseteq S
    OBVIOUS
  <2>2. IsFiniteSet(T) /\ Cardinality(T) <= N /\ Cardinality(T) \in Nat
    BY <1>1, <2>1, FS_Subset, FS_CardinalityType
  <2>3. Cardinality(T) # 0
    BY <2>1, <2>2, FS_EmptySet
  <2> QED BY <1>1, <2>2, <2>3
<1>3. ASSUME NEW i \in S, NEW k \in S, i < k
      PROVE  rank[i] # rank[k]
  <2> PICK T, U : T = {j \in S : j <= i} /\ U = {j \in S : j <= k}
    OBVIOUS
  <2>1. T \subseteq U /\ U \subseteq S
    <3>1. \A j \in S : j \in Int
      OBVIOUS
    <3>2. \A j \in S : j <= i => j <= k
      BY <1>3, <3>1
    <3> QED BY <3>2
  <2>2. k \in U /\ k \notin T
    <3>1. i \in Int /\ k \in Int
      OBVIOUS
    <3> QED BY <1>3, <3>1
  <2>3. IsFiniteSet(U)
    BY <1>1, <2>1, FS_Subset
  <2>4. Cardinality(T) # Cardinality(U)
    BY <2>1, <2>2, <2>3, FS_Subset
  <2> QED BY <2>4
<1>4. rank \in Injection(S, 1..N)
  <2>1. rank \in [S -> 1..N]
    BY <1>2
  <2>2. ASSUME NEW i \in S, NEW k \in S, i # k
        PROVE  rank[i] # rank[k]
    <3>1. i < k \/ k < i
      BY <2>2
    <3> QED BY <1>3, <3>1
  <2> QED BY <2>1, <2>2 DEF Injection, IsInjective
<1>5. rank \in Surjection(S, 1..N)
  BY <1>1, <1>4, FS_Injection
<1>6. ASSUME NEW k \in 1..N
      PROVE  e[k] \in S /\ rank[e[k]] = k
  <2>1. e[k] = CHOOSE i \in S : rank[i] = k
    BY <1>6 DEF Ascending
  <2>2. \E i \in S : rank[i] = k
    BY <1>5 DEF Surjection
  <2> QED BY <2>1, <2>2
<1>7. e = [k \in 1..N |-> e[k]] /\ Len(e) = N
  <2>1. e = [k \in 1..N |-> CHOOSE i \in S : Cardinality({j \in S : j <= i}) = k]
    BY DEF Ascending
  <2>2. e \in [1..N -> S]
    BY <1>6, <2>1
  <2>3. e \in Seq(S)
    BY <1>1, <2>2, SeqDef
  <2>4. Len(e) = N
    BY <1>1, <2>2, <2>3
  <2> QED BY <2>1, <2>4
<1>8. \A i \in S : e[rank[i]] = i
  <2> SUFFICES ASSUME NEW i \in S PROVE e[rank[i]] = i
    OBVIOUS
  <2>1. rank[i] \in 1..N
    BY <1>2
  <2>2. e[rank[i]] \in S /\ rank[e[rank[i]]] = rank[i]
    BY <1>6, <2>1
  <2> QED BY <1>4, <2>2 DEF Injection, IsInjective
<1>9. ToSet(e) = S
  <2>1. ToSet(e) = {e[k] : k \in 1..N}
    BY <1>7 DEF ToSet
  <2>2. \A k \in 1..N : e[k] \in S
    BY <1>6
  <2>3. \A i \in S : i \in {e[k] : k \in 1..N}
    BY <1>2, <1>8
  <2> QED BY <2>1, <2>2, <2>3, ZenonT(30)
<1> QED BY <1>1, <1>7, <1>9

-----------------------------------------------------------------------------
(* The planner.                                                            *)

IsState(c) ==
  c = [members |-> c.members, occurrences |-> c.occurrences, snapshots |-> c.snapshots,
       adopters |-> c.adopters, supported |-> c.supported, refuted |-> c.refuted,
       maturity |-> c.maturity, since |-> c.since, signal |-> c.signal]
IsGraded(c) ==
  /\ IsState(c)
  /\ c.occurrences \in Nat /\ c.snapshots \in Nat /\ c.adopters \in Nat
  /\ c.supported \in Nat /\ c.refuted \in Nat /\ c.since \in Nat
  /\ c.signal \in Time /\ c.maturity = MaturityOf(c) /\ GradeWellFormed(c)
  /\ 1 <= c.snapshots /\ c.snapshots <= c.occurrences /\ c.adopters <= c.occurrences
IsNamed(c, name) ==
  /\ c.members \in Seq(Mechanism) /\ c.members # << >> /\ c.members[1] = name
  /\ Len(c.members) <= c.occurrences

LEMMA TimeIs == Time \subseteq Nat /\ Never \notin Time /\ Never \in Nat
BY BoundsAssumption DEF Time, Never

LEMMA GradedIsState ==
  ASSUME NEW c, NEW name, IsGraded(c), IsNamed(c, name)
  PROVE  c \in ClusterState
<1>1. c.maturity \in Grade
  BY DEF IsGraded, MaturityOf, Maturity, Grade
<1> QED BY <1>1, TimeIs DEF IsGraded, IsNamed, IsState, ClusterState

\* A cluster of these counters, graded at a time; it was a candidate since then.
GradedAs(r, c, at) ==
  /\ IsState(r) /\ r.signal = at /\ r.maturity = MaturityOf(c)
  /\ r.since = IF MaturityOf(c) # "candidate" THEN Never
               ELSE IF c.maturity = "candidate" THEN c.since ELSE at
  /\ r.members = c.members /\ r.occurrences = c.occurrences /\ r.snapshots = c.snapshots
  /\ r.adopters = c.adopters /\ r.supported = c.supported /\ r.refuted = c.refuted

LEMMA Regrading ==
  ASSUME NEW c, NEW at, IsState(c)
  PROVE  GradedAs(Regraded(c, at), c, at)
<1>1. CASE MaturityOf(c) # "candidate"
  <2>1. Regraded(c, at) = [c EXCEPT !.maturity = MaturityOf(c), !.signal = at, !.since = Never]
    BY <1>1 DEF Regraded
  <2> QED BY <1>1, <2>1 DEF IsState, GradedAs
<1>2. CASE MaturityOf(c) = "candidate" /\ c.maturity = "candidate"
  <2>1. Regraded(c, at) = [c EXCEPT !.maturity = MaturityOf(c), !.signal = at, !.since = @]
    BY <1>2 DEF Regraded, IsState
  <2> QED BY <1>2, <2>1 DEF IsState, GradedAs
<1>3. CASE MaturityOf(c) = "candidate" /\ c.maturity # "candidate"
  <2>1. Regraded(c, at) = [c EXCEPT !.maturity = MaturityOf(c), !.signal = at, !.since = at]
    BY <1>3 DEF Regraded
  <2> QED BY <1>3, <2>1 DEF IsState, GradedAs
<1> QED BY <1>1, <1>2, <1>3

LEMMA NewIsGraded ==
  ASSUME NEW m \in Mechanism, NEW at \in Time, NEW c, c = NewCluster(m, at)
  PROVE  /\ IsGraded(c) /\ IsNamed(c, m) /\ ToSet(c.members) = {m}
         /\ \A p : p.after = c /\ p.before = None /\ p.cluster = m => OccurrenceWellFormed(m, p)
<1>1. c = [members |-> <<m>>, occurrences |-> 1, snapshots |-> 1,
           adopters |-> 0, supported |-> 0, refuted |-> 0,
           maturity |-> "speculative", since |-> Never, signal |-> at]
  BY DEF NewCluster
<1>2. MaturityOf(c) = "speculative"
  BY <1>1 DEF MaturityOf, Maturity
<1>3. GradeWellFormed(c)
  BY <1>1, TimeIs DEF GradeWellFormed, Never
<1>4. <<m>> \in Seq(Mechanism) /\ <<m>> # << >> /\ <<m>>[1] = m /\ Len(<<m>>) = 1
  OBVIOUS
<1>5. IsGraded(c)
  BY <1>1, <1>2, <1>3, TimeIs DEF IsGraded, IsState
<1>6. IsNamed(c, m)
  BY <1>1, <1>4 DEF IsNamed
<1>7. ToSet(c.members) = {m}
  BY <1>1, <1>4 DEF ToSet
<1>8. ASSUME NEW p, p.after = c, p.before = None, p.cluster = m
      PROVE  OccurrenceWellFormed(m, p)
  <2>1. c = NewCluster(m, c.signal)
    BY <1>1 DEF NewCluster
  <2> QED BY <1>1, <1>2, <1>3, <1>4, <1>7, <1>8, <2>1 DEF OccurrenceWellFormed
<1> QED BY <1>5, <1>6, <1>7, <1>8

\* The counters that a recurrence leaves before it grades them.
Recurred(d, c, m, new) ==
  /\ IsState(d) /\ d.maturity = c.maturity /\ d.since = c.since /\ d.signal = c.signal
  /\ d.members = (IF m \in ToSet(c.members) THEN c.members ELSE Append(c.members, m))
  /\ d.occurrences = c.occurrences + 1
  /\ d.snapshots = c.snapshots + (IF new THEN 1 ELSE 0)
  /\ d.adopters = c.adopters /\ d.supported = c.supported /\ d.refuted = c.refuted

LEMMA RecurrenceIs ==
  ASSUME NEW loaded, NEW c, NEW m, NEW h, NEW at, c = loaded.state, IsState(c),
         c.snapshots \in Nat
  PROVE  \E d : /\ Recurred(d, c, m, h \notin loaded.snapshots)
                /\ GradedAs(Recurrence(loaded, m, h, at), d, Max({c.signal, at}))
<1> PICK d : d = [c EXCEPT
       !.members = IF m \in ToSet(@) THEN @ ELSE Append(@, m),
       !.occurrences = @ + 1,
       !.snapshots = IF h \in loaded.snapshots THEN @ ELSE @ + 1]
  OBVIOUS
<1>1. Recurred(d, c, m, h \notin loaded.snapshots)
  <2> PICK ms, n : /\ ms = (IF m \in ToSet(c.members) THEN c.members ELSE Append(c.members, m))
                   /\ n = IF h \in loaded.snapshots THEN c.snapshots ELSE c.snapshots + 1
    OBVIOUS
  <2>1. d = [c EXCEPT !.members = ms, !.occurrences = @ + 1, !.snapshots = n]
    BY DEF IsState
  <2>2. n = c.snapshots + (IF h \notin loaded.snapshots THEN 1 ELSE 0)
    OBVIOUS
  <2> QED BY <2>1, <2>2 DEF IsState, Recurred
<1>2. Recurrence(loaded, m, h, at) = Regraded(d, Max({c.signal, at}))
  BY DEF Recurrence
<1>3. IsState(d)
  BY <1>1 DEF Recurred
<1> QED BY <1>1, <1>2, <1>3, Regrading

\* The cluster c with one idea more, of mechanism m.
GrownTo(r, c, name, m, new, at) ==
  /\ IsGraded(r) /\ IsNamed(r, name) /\ ToSet(r.members) = ToSet(c.members) \cup {m}
  /\ r.occurrences = c.occurrences + 1
  /\ r.snapshots = c.snapshots + (IF new THEN 1 ELSE 0)
  /\ r.adopters = c.adopters /\ r.supported = c.supported /\ r.refuted = c.refuted
  /\ r.signal = (IF c.signal >= at THEN c.signal ELSE at)
  /\ \A p : p.after = r /\ p.before = c /\ p.cluster = name => OccurrenceWellFormed(m, p)

\* A mechanism found again: its cluster stays well formed, and so is the
\* payload that says so.
LEMMA RecurrenceIsGraded ==
  ASSUME NEW loaded, NEW c, NEW name, NEW m \in Mechanism, NEW h, NEW at \in Time, NEW r,
         c = loaded.state, IsGraded(c), IsNamed(c, name), r = Recurrence(loaded, m, h, at)
  PROVE  GrownTo(r, c, name, m, h \notin loaded.snapshots, at)
<1> PICK late : late = IF c.signal >= at THEN c.signal ELSE at
  OBVIOUS
<1>1. Max({c.signal, at}) = late
  BY GreaterOfTwo, TimeIs DEF IsGraded
<1>2. late \in Time /\ late >= c.signal /\ late \in Nat /\ late # Never /\ Never \in Nat
  BY TimeIs DEF IsGraded
<1>3. PICK d : Recurred(d, c, m, h \notin loaded.snapshots) /\ GradedAs(r, d, late)
  BY <1>1, RecurrenceIs DEF IsGraded
<1> PICK k : k = IF h \notin loaded.snapshots THEN 1 ELSE 0
  OBVIOUS
<1>4. /\ r.occurrences = c.occurrences + 1 /\ r.snapshots = c.snapshots + k
      /\ r.adopters = c.adopters /\ r.supported = c.supported /\ r.refuted = c.refuted
      /\ r.signal = late /\ r.members = d.members
  BY <1>3 DEF Recurred, GradedAs
<1>5. /\ d.snapshots = r.snapshots /\ d.adopters = c.adopters
      /\ d.supported = c.supported /\ d.refuted = c.refuted
  BY <1>3, <1>4 DEF Recurred
<1>6. MaturityOf(d) = MaturityOf(r)
  BY <1>4, <1>5 DEF MaturityOf
<1>7. c.maturity = "candidate" => MaturityOf(r) = "candidate"
  BY <1>4 DEF IsGraded, MaturityOf, Maturity
<1>8. /\ r.maturity = MaturityOf(r)
      /\ r.since = IF r.maturity # "candidate" THEN Never
                   ELSE IF c.maturity = "candidate" THEN c.since ELSE late
  BY <1>3, <1>6 DEF Recurred, GradedAs
<1>9. /\ c.since \in Nat /\ c.signal \in Nat /\ c.since <= c.signal
      /\ (c.maturity = "candidate") = (c.since # Never)
  BY TimeIs DEF IsGraded, GradeWellFormed
<1>10. GradeWellFormed(r) /\ r.since \in Nat
  <2>1. r.since <= late /\ r.since \in Nat
    BY <1>2, <1>8, <1>9 DEF Never
  <2>2. (r.maturity = "candidate") = (r.since # Never)
    BY <1>2, <1>8, <1>9
  <2> QED BY <1>4, <2>1, <2>2 DEF GradeWellFormed
<1>11. IsGraded(r)
  <2>1. r.occurrences \in Nat /\ r.snapshots \in Nat /\ 1 <= r.snapshots
        /\ r.snapshots <= r.occurrences /\ r.adopters <= r.occurrences
        /\ r.adopters \in Nat /\ r.supported \in Nat /\ r.refuted \in Nat
    BY <1>4 DEF IsGraded
  <2>2. IsState(r)
    BY <1>3 DEF GradedAs
  <2> QED BY <1>2, <1>4, <1>8, <1>10, <2>1, <2>2 DEF IsGraded
<1>12. /\ r.members \in Seq(Mechanism) /\ r.members # << >> /\ r.members[1] = name
       /\ ToSet(r.members) = ToSet(c.members) \cup {m}
       /\ Len(r.members) - Len(c.members) \in {0, 1}
       /\ Len(r.members) <= Len(c.members) + 1
       /\ IsPrefix(c.members, r.members)
  <2> PICK s : s = c.members
    OBVIOUS
  <2>1. s \in Seq(Mechanism) /\ s # << >> /\ s[1] = name
    BY DEF IsNamed
  <2>2. r.members = IF m \in ToSet(s) THEN s ELSE Append(s, m)
    BY <1>3, <1>4 DEF Recurred
  <2>3. CASE m \in ToSet(s)
    <3>1. r.members = s /\ ToSet(s) \cup {m} = ToSet(s) /\ Len(s) \in Nat
      BY <2>1, <2>2, <2>3
    <3> QED BY <2>1, <3>1 DEF IsPrefix
  <2>4. CASE m \notin ToSet(s)
    <3> PICK q : q = Append(s, m)
      OBVIOUS
    <3>1. q \in Seq(Mechanism) /\ q # << >> /\ Len(q) = Len(s) + 1 /\ Len(s) \in Nat
          /\ Len(s) >= 1
      BY <2>1
    <3>2. (\A i \in 1..Len(s) : q[i] = s[i]) /\ q[Len(s) + 1] = m
      BY <2>1
    <3>3. q[1] = name
      BY <2>1, <3>1, <3>2
    <3>4. ToSet(q) = ToSet(s) \cup {m}
      <4>1. DOMAIN q = 1..Len(s) + 1 /\ DOMAIN s = 1..Len(s)
        BY <2>1, <3>1
      <4>2. 1..Len(s) + 1 = (1..Len(s)) \cup {Len(s) + 1}
        BY <3>1
      <4>3. {q[i] : i \in 1..Len(s) + 1} = {q[i] : i \in 1..Len(s)} \cup {q[Len(s) + 1]}
        BY <4>2
      <4>4. {q[i] : i \in 1..Len(s)} = {s[i] : i \in 1..Len(s)}
        BY <3>2
      <4> QED BY <3>2, <4>1, <4>3, <4>4 DEF ToSet
    <3>5. SubSeq(s, 1, Len(s)) = SubSeq(q, 1, Len(s))
      <4>1. SubSeq(s, 1, Len(s)) = s
        BY <2>1
      <4>2. SubSeq(q, 1, Len(s)) = [i \in 1..Len(s) |-> q[i]]
        BY <3>1
      <4>3. s = [i \in 1..Len(s) |-> s[i]]
        BY <2>1
      <4> QED BY <3>2, <4>1, <4>2, <4>3
    <3>6. r.members = q
      BY <2>2, <2>4
    <3> QED BY <3>1, <3>3, <3>4, <3>5, <3>6 DEF IsPrefix
  <2> QED BY <2>3, <2>4
<1>13. IsNamed(r, name)
  <2>1. Len(r.members) <= r.occurrences
    <3>1. Len(c.members) <= c.occurrences /\ Len(c.members) \in Nat /\ c.occurrences \in Nat
      BY DEF IsNamed, IsGraded
    <3>2. Len(r.members) \in Nat
      BY <1>12
    <3> QED BY <1>4, <1>12, <3>1, <3>2
  <2> QED BY <1>12, <2>1 DEF IsNamed
<1>14. ASSUME NEW p, p.after = r, p.before = c, p.cluster = name
       PROVE  OccurrenceWellFormed(m, p)
  <2>1. m \in ToSet(r.members) /\ r.members[1] = name
    BY <1>12
  <2>2. /\ 1 <= r.snapshots /\ r.snapshots <= r.occurrences /\ r.adopters <= r.occurrences
        /\ Len(r.members) <= r.occurrences /\ r.maturity = MaturityOf(r)
    BY <1>11, <1>13 DEF IsGraded, IsNamed
  <2>3. c = None => r = NewCluster(m, r.signal)
    <3>1. c \in ClusterState
      BY GradedIsState
    <3> QED BY <3>1, NoneAssumption
  <2>4. /\ r.snapshots - c.snapshots \in {0, 1}
        /\ Fields(c, {"adopters", "supported", "refuted"})
             = Fields(r, {"adopters", "supported", "refuted"})
    <3>1. r.snapshots - c.snapshots \in {0, 1}
      BY <1>4 DEF IsGraded
    <3> QED BY <1>4, <3>1 DEF Fields
  <2>5. /\ c.maturity = MaturityOf(c) /\ GradeWellFormed(c) /\ r.signal >= c.signal
        /\ c.maturity = "candidate" => r.since = c.since
    BY <1>2, <1>4, <1>7, <1>8 DEF IsGraded
  <2> QED BY <1>4, <1>10, <1>12, <1>14, <2>1, <2>2, <2>3, <2>4, <2>5 DEF OccurrenceWellFormed
<1> QED BY <1>4, <1>11, <1>12, <1>13, <1>14 DEF GrownTo

\* What a revised verdict and an adoption leave: another grade, at a later time.
Judges(r, c, at) ==
  /\ IsGraded(r) /\ r.signal = at /\ at >= c.signal
  /\ r.members = c.members /\ r.occurrences = c.occurrences /\ r.snapshots = c.snapshots
  /\ r.maturity = "candidate" =>
       r.since = IF c.maturity = "candidate" THEN c.since ELSE at

\* The state d is c with other counts of verdicts and adopters.
Recounts(d, c) ==
  /\ IsState(d) /\ d.members = c.members /\ d.occurrences = c.occurrences
  /\ d.snapshots = c.snapshots /\ d.maturity = c.maturity /\ d.since = c.since
  /\ d.adopters \in Nat /\ d.adopters <= c.occurrences
  /\ d.supported \in Nat /\ d.refuted \in Nat
SameCounts(r, d) ==
  r.adopters = d.adopters /\ r.supported = d.supported /\ r.refuted = d.refuted

LEMMA JudgedIsGraded ==
  ASSUME NEW c, NEW d, NEW r, NEW at \in Time, IsGraded(c), Recounts(d, c),
         at >= c.signal, r = Regraded(d, at)
  PROVE  Judges(r, c, at) /\ SameCounts(r, d)
<1>0. IsState(d) /\ d.members = c.members /\ d.occurrences = c.occurrences
      /\ d.snapshots = c.snapshots /\ d.maturity = c.maturity /\ d.since = c.since
      /\ d.adopters \in Nat /\ d.adopters <= c.occurrences
      /\ d.supported \in Nat /\ d.refuted \in Nat
  BY DEF Recounts
<1>1. GradedAs(r, d, at)
  BY <1>0, Regrading
<1>2. /\ r.members = c.members /\ r.occurrences = c.occurrences /\ r.snapshots = c.snapshots
      /\ r.adopters = d.adopters /\ r.supported = d.supported /\ r.refuted = d.refuted
      /\ r.signal = at /\ IsState(r)
  BY <1>0, <1>1 DEF GradedAs
<1>3. MaturityOf(r) = MaturityOf(d)
  BY <1>0, <1>2 DEF MaturityOf
<1>4. /\ r.maturity = MaturityOf(r)
      /\ r.since = IF r.maturity # "candidate" THEN Never
                   ELSE IF c.maturity = "candidate" THEN c.since ELSE at
  BY <1>0, <1>1, <1>3 DEF GradedAs
<1>5. /\ c.since \in Nat /\ c.signal \in Nat /\ c.since <= c.signal
      /\ (c.maturity = "candidate") = (c.since # Never) /\ at \in Nat /\ at # Never
  BY TimeIs DEF IsGraded, GradeWellFormed
<1>6. r.since <= at /\ r.since \in Nat /\ (r.maturity = "candidate") = (r.since # Never)
  BY <1>4, <1>5 DEF Never
<1>7. IsGraded(r)
  BY <1>0, <1>2, <1>4, <1>6 DEF IsGraded, GradeWellFormed
<1> QED BY <1>2, <1>4, <1>7 DEF Judges, SameCounts

LEMMA FieldsOf ==
  /\ \A c : LET f == Fields(c, EvaluationFields)
            IN /\ f.supported = c.supported /\ f.refuted = c.refuted
               /\ f.maturity = c.maturity /\ f.since = c.since /\ f.signal = c.signal
  /\ \A c : LET f == Fields(c, AdoptionFields)
            IN /\ f.adopters = c.adopters
               /\ f.maturity = c.maturity /\ f.since = c.since /\ f.signal = c.signal
BY DEF Fields, EvaluationFields, AdoptionFields

LEMMA MaturityTransition ==
  ASSUME NEW c, NEW r, NEW at, NEW f, NEW g, IsGraded(c), Judges(r, c, at),
         f.maturity = c.maturity, f.since = c.since, f.signal = c.signal,
         g.maturity = r.maturity, g.since = r.since, g.signal = r.signal
  PROVE  MaturityTransitionWellFormed(f, g)
<1>1. GradeWellFormed(f) /\ GradeWellFormed(g)
  BY DEF Judges, IsGraded, GradeWellFormed
<1>2. g.signal >= f.signal
  BY DEF Judges
<1>3. g.maturity = "candidate" =>
        g.since = IF f.maturity = "candidate" THEN f.since ELSE g.signal
  BY DEF Judges
<1> QED BY <1>1, <1>2, <1>3 DEF MaturityTransitionWellFormed

\* What a plan makes of a cluster.
RevisedTo(r, c, previous, current, at) ==
  /\ Judges(r, c, at) /\ r.adopters = c.adopters
  /\ r.supported = c.supported - Contribution(previous, "supported")
                     + Contribution(current, "supported")
  /\ r.refuted = c.refuted - Contribution(previous, "refuted")
                     + Contribution(current, "refuted")
  /\ EvaluationTransitionWellFormed(Fields(c, EvaluationFields),
       Fields(r, EvaluationFields), previous, current)
JoinedTo(r, c, again, at) ==
  /\ Judges(r, c, at) /\ r.supported = c.supported /\ r.refuted = c.refuted
  /\ r.adopters = c.adopters + (IF again THEN 0 ELSE 1)
  /\ AdoptionTransitionWellFormed(Fields(c, AdoptionFields), Fields(r, AdoptionFields))

\* A verdict takes the place of the one before it.
LEMMA EvaluationIsGraded ==
  ASSUME NEW c, NEW previous, NEW current, NEW at \in Time, NEW r, IsGraded(c),
         r = PlanEvaluation(c, previous, current, at), r # None
  PROVE  RevisedTo(r, c, previous, current, at)
<1> PICK supported : supported = c.supported - Contribution(previous, "supported")
                                    + Contribution(current, "supported")
  OBVIOUS
<1> PICK refuted : refuted = c.refuted - Contribution(previous, "refuted")
                                + Contribution(current, "refuted")
  OBVIOUS
<1> PICK d : d = [c EXCEPT !.supported = supported, !.refuted = refuted]
  OBVIOUS
<1>1. ~(at < c.signal \/ c.maturity # MaturityOf(c) \/ supported < 0 \/ refuted < 0)
      /\ r = Regraded(d, at)
  BY DEF PlanEvaluation
<1>2. supported \in Nat /\ refuted \in Nat
  <2>1. \A v, k : Contribution(v, k) \in Nat
    BY DEF Contribution
  <2>2. c.supported \in Nat /\ c.refuted \in Nat
    BY DEF IsGraded
  <2>3. supported \in Int /\ refuted \in Int
    BY <2>1, <2>2
  <2> QED BY <1>1, <2>3
<1>3. /\ IsState(d) /\ d.members = c.members /\ d.occurrences = c.occurrences
      /\ d.snapshots = c.snapshots /\ d.maturity = c.maturity /\ d.since = c.since
      /\ d.adopters = c.adopters /\ d.supported = supported /\ d.refuted = refuted
  BY DEF IsGraded, IsState
<1>4. at >= c.signal
  BY <1>1, TimeIs DEF IsGraded
<1>5. Recounts(d, c)
  BY <1>2, <1>3 DEF IsGraded, Recounts
<1>6. /\ Judges(r, c, at) /\ r.adopters = c.adopters
      /\ r.supported = supported /\ r.refuted = refuted
  <2>1. r = Regraded(d, at)
    BY <1>1
  <2>2. Judges(r, c, at) /\ SameCounts(r, d)
    BY <1>4, <1>5, <2>1, JudgedIsGraded, Zenon
  <2> QED BY <1>3, <2>2 DEF SameCounts
<1> PICK f, g : f = Fields(c, EvaluationFields) /\ g = Fields(r, EvaluationFields)
  OBVIOUS
<1>7. /\ f.supported = c.supported /\ f.refuted = c.refuted
      /\ f.maturity = c.maturity /\ f.since = c.since /\ f.signal = c.signal
      /\ g.supported = r.supported /\ g.refuted = r.refuted
      /\ g.maturity = r.maturity /\ g.since = r.since /\ g.signal = r.signal
  BY FieldsOf
<1>8. MaturityTransitionWellFormed(f, g)
  BY <1>6, <1>7, MaturityTransition
<1>9. EvaluationTransitionWellFormed(f, g, previous, current)
  BY <1>2, <1>6, <1>7, <1>8 DEF EvaluationTransitionWellFormed
<1> QED BY <1>6, <1>9 DEF RevisedTo

\* One owner more may have adopted.
LEMMA AdoptionIsGraded ==
  ASSUME NEW c, NEW again, NEW at \in Time, NEW r, IsGraded(c),
         r = PlanAdoption(c, again, at), r # None
  PROVE  JoinedTo(r, c, again, at)
<1> PICK adopters : adopters = c.adopters + (IF again THEN 0 ELSE 1)
  OBVIOUS
<1> PICK d : d = [c EXCEPT !.adopters = adopters]
  OBVIOUS
<1>1. ~(at < c.signal \/ c.maturity # MaturityOf(c) \/ adopters > c.occurrences)
      /\ r = Regraded(d, at)
  BY DEF PlanAdoption
<1>2. adopters \in Nat /\ c.adopters \in Nat /\ c.occurrences \in Nat
      /\ adopters - c.adopters \in {0, 1}
  BY DEF IsGraded
<1>3. /\ IsState(d) /\ d.members = c.members /\ d.occurrences = c.occurrences
      /\ d.snapshots = c.snapshots /\ d.maturity = c.maturity /\ d.since = c.since
      /\ d.adopters = adopters /\ d.supported = c.supported /\ d.refuted = c.refuted
  BY DEF IsGraded, IsState
<1>4. at >= c.signal
  BY <1>1, TimeIs DEF IsGraded
<1>5. Recounts(d, c)
  BY <1>1, <1>2, <1>3 DEF IsGraded, Recounts
<1>6. /\ Judges(r, c, at) /\ r.adopters = adopters
      /\ r.supported = c.supported /\ r.refuted = c.refuted
  <2>1. r = Regraded(d, at)
    BY <1>1
  <2>2. Judges(r, c, at) /\ SameCounts(r, d)
    BY <1>4, <1>5, <2>1, JudgedIsGraded, Zenon
  <2> QED BY <1>3, <2>2 DEF SameCounts
<1> PICK f, g : f = Fields(c, AdoptionFields) /\ g = Fields(r, AdoptionFields)
  OBVIOUS
<1>7. /\ f.adopters = c.adopters
      /\ f.maturity = c.maturity /\ f.since = c.since /\ f.signal = c.signal
      /\ g.adopters = r.adopters
      /\ g.maturity = r.maturity /\ g.since = r.since /\ g.signal = r.signal
  BY FieldsOf
<1>8. MaturityTransitionWellFormed(f, g)
  BY <1>6, <1>7, MaturityTransition
<1>9. AdoptionTransitionWellFormed(f, g)
  BY <1>2, <1>6, <1>7, <1>8 DEF AdoptionTransitionWellFormed
<1> QED BY <1>6, <1>9 DEF JoinedTo

-----------------------------------------------------------------------------
(* Clusters stay apart: no mechanism of one is fully similar to one of     *)
(* another, so an idea that is found again is found in the same cluster.   *)

Sim(m, n) == Similarity[m, n]

LEMMA Similar ==
  ASSUME NEW m \in Mechanism, NEW n \in Mechanism
  PROVE  /\ Sim(m, n) \in Nat /\ Sim(m, n) = Sim(n, m)
         /\ Sim(m, m) >= Sim(m, n) /\ Sim(m, m) >= NearDuplicate
         /\ NearDuplicate \in Nat
<1>1. NearDuplicate \in Nat /\ Similarity \in [Mechanism \X Mechanism -> Nat]
  BY SimilarityAssumption, Zenon
<1>2. \A x, y \in Mechanism :
        /\ Similarity[x, y] = Similarity[y, x]
        /\ Similarity[x, x] >= Similarity[x, y]
        /\ Similarity[x, x] >= NearDuplicate
  BY SimilarityAssumption, Zenon
<1>3. Sim(m, n) \in Nat
  <2>1. <<m, n>> \in Mechanism \X Mechanism
    OBVIOUS
  <2> QED BY <1>1, <2>1, Zenon DEF Sim
<1>4. Sim(m, n) = Sim(n, m) /\ Sim(m, m) >= Sim(m, n) /\ Sim(m, m) >= NearDuplicate
  BY <1>2, Zenon DEF Sim
<1> QED BY <1>1, <1>3, <1>4

\* Full similarity goes both ways, and fully similar mechanisms resemble every
\* other one alike.
LEMMA Alike ==
  ASSUME NEW m \in Mechanism, NEW n \in Mechanism, Sim(m, n) = Sim(m, m)
  PROVE  /\ Sim(n, m) = Sim(n, n) /\ Sim(n, n) = Sim(m, m)
         /\ \A o \in Mechanism : Sim(m, o) = Sim(n, o)
<1>a. \A x, y \in Mechanism : Similarity[x, y] = Similarity[x, x] =>
        \A o \in Mechanism : Similarity[x, o] = Similarity[y, o]
  BY SimilarityAssumption, Zenon
<1>1. \A o \in Mechanism : Sim(m, o) = Sim(n, o)
  BY <1>a, Zenon DEF Sim
<1>2. Sim(m, n) = Sim(n, n) /\ Sim(m, m) = Sim(n, m)
  BY <1>1
<1> QED BY <1>1, <1>2

MechanismsIn(loaded) == {x.mechanism : x \in ToSet(loaded.members)}

LEMMA LikenessIs ==
  ASSUME NEW m \in Mechanism, NEW l, MechanismsIn(l) \subseteq Mechanism, MechanismsIn(l) # {}
  PROVE  /\ Likeness(m, l) \in Nat
         /\ \E x \in MechanismsIn(l) : Likeness(m, l) = Sim(m, x)
         /\ \A x \in MechanismsIn(l) : Likeness(m, l) >= Sim(m, x)
<1> PICK S : S = {Sim(m, x) : x \in MechanismsIn(l)}
  OBVIOUS
<1>1. S = {Sim(m, x.mechanism) : x \in ToSet(l.members)}
  BY DEF MechanismsIn
<1>2. \A x \in MechanismsIn(l) : Sim(m, x) \in 0..Sim(m, m)
  <2> SUFFICES ASSUME NEW x \in MechanismsIn(l) PROVE Sim(m, x) \in 0..Sim(m, m)
    OBVIOUS
  <2>1. x \in Mechanism
    OBVIOUS
  <2>2. Sim(m, x) \in Nat /\ Sim(m, m) \in Nat /\ Sim(m, m) >= Sim(m, x)
    BY <2>1, Similar
  <2> QED BY <2>2
<1>3. S # {} /\ S \subseteq 0..Sim(m, m) /\ Sim(m, m) \in Nat
  BY <1>1, <1>2, Similar
<1>4. Max(S) \in S /\ \A x \in S : Max(S) >= x
  BY <1>3, Greatest
<1>5. Likeness(m, l) = Max(S)
  BY <1>1, Zenon DEF Likeness, Sim
<1> PICK b : b = Max(S)
  OBVIOUS
<1>6. b \in Nat
  BY <1>3, <1>4
<1>7. \E x \in MechanismsIn(l) : b = Sim(m, x)
  BY <1>4
<1>8. \A x \in MechanismsIn(l) : b >= Sim(m, x)
  BY <1>4
<1> QED BY <1>5, <1>6, <1>7, <1>8

\* Loaded clusters of which each has mechanisms, its name among them.
IsLoaded(ls) ==
  \A c \in DOMAIN ls : MechanismsIn(ls[c]) \subseteq Mechanism /\ c \in MechanismsIn(ls[c])
ApartIn(ls) ==
  \A c, d \in DOMAIN ls : c # d =>
    \A m \in MechanismsIn(ls[c]), n \in MechanismsIn(ls[d]) :
      Sim(m, n) # Sim(m, m)

\* The mechanism m may enter cluster c.
Fits(ls, c, m) ==
  \A d \in DOMAIN ls : d # c => \A n \in MechanismsIn(ls[d]) :
    Sim(m, n) # Sim(m, m) /\ Sim(n, m) # Sim(n, n)

LEMMA AssignedIs ==
  ASSUME NEW m \in Mechanism, NEW ls, IsLoaded(ls), Eligible(m, ls) # {}
  PROVE  /\ Assigned(m, ls) \in DOMAIN ls
         /\ \A c \in DOMAIN ls : Likeness(m, ls[Assigned(m, ls)]) >= Likeness(m, ls[c])
<1> PICK eligible : eligible = Eligible(m, ls)
  OBVIOUS
<1> PICK S : S = {Likeness(m, ls[c]) : c \in eligible}
  OBVIOUS
<1> PICK best : best = Max(S)
  OBVIOUS
<1> PICK T : T = {c \in eligible : Likeness(m, ls[c]) = best}
  OBVIOUS
<1>1. \A c \in DOMAIN ls : Likeness(m, ls[c]) \in 0..Sim(m, m)
  <2> SUFFICES ASSUME NEW c \in DOMAIN ls PROVE Likeness(m, ls[c]) \in 0..Sim(m, m)
    OBVIOUS
  <2>1. MechanismsIn(ls[c]) \subseteq Mechanism /\ MechanismsIn(ls[c]) # {}
    BY DEF IsLoaded
  <2>2. PICK x \in MechanismsIn(ls[c]) : Likeness(m, ls[c]) = Sim(m, x)
    BY <2>1, LikenessIs
  <2>3. Likeness(m, ls[c]) \in Nat
    BY <2>1, LikenessIs
  <2>4. Sim(m, x) \in Nat /\ Sim(m, m) \in Nat /\ Sim(m, m) >= Sim(m, x)
    BY <2>1, Similar
  <2> QED BY <2>2, <2>3, <2>4
<1>2. eligible \subseteq DOMAIN ls /\ eligible # {}
  BY DEF Eligible
<1>3. S # {} /\ S \subseteq 0..Sim(m, m) /\ Sim(m, m) \in Nat
  BY <1>1, <1>2, Similar
<1>4. best \in S /\ \A x \in S : best >= x
  BY <1>3, Greatest
<1>5. T \subseteq Nat /\ T # {}
  <2>1. T # {}
    BY <1>4
  <2>2. DOMAIN ls \subseteq Nat
    BY MechanismAssumption DEF IsLoaded
  <2> QED BY <1>2, <2>1, <2>2
<1>6. Min(T) \in T
  BY <1>5, Smallest
<1>7. Assigned(m, ls) = Min(T)
  BY DEF Assigned
<1>8. Likeness(m, ls[Min(T)]) = best /\ Min(T) \in DOMAIN ls
  BY <1>2, <1>6
<1>9. ASSUME NEW c \in DOMAIN ls PROVE best >= Likeness(m, ls[c])
  <2>1. CASE c \in eligible
    BY <1>4, <2>1
  <2>2. CASE c \notin eligible
    <3>1. ~(Likeness(m, ls[c]) >= NearDuplicate)
      BY <2>2 DEF Eligible
    <3>2. Likeness(m, ls[Min(T)]) >= NearDuplicate
      BY <1>6 DEF Eligible
    <3>3. NearDuplicate \in Nat /\ Likeness(m, ls[c]) \in Nat /\ best \in Nat
      BY <1>1, <1>3, <1>4, Similar
    <3> QED BY <1>8, <3>1, <3>2, <3>3
  <2> QED BY <2>1, <2>2
<1> QED BY <1>7, <1>8, <1>9

\* A mechanism fits in the cluster it is assigned to.
LEMMA AssignedFits ==
  ASSUME NEW m \in Mechanism, NEW ls, IsLoaded(ls), ApartIn(ls), Eligible(m, ls) # {}
  PROVE  Assigned(m, ls) \in DOMAIN ls /\ Fits(ls, Assigned(m, ls), m)
<1> PICK c : c = Assigned(m, ls)
  OBVIOUS
<1>1. c \in DOMAIN ls /\ \A d \in DOMAIN ls : Likeness(m, ls[c]) >= Likeness(m, ls[d])
  BY AssignedIs
<1>2. ASSUME NEW d \in DOMAIN ls, d # c, NEW n \in MechanismsIn(ls[d]),
             Sim(m, n) = Sim(m, m)
      PROVE  FALSE
  <2>1. /\ MechanismsIn(ls[c]) \subseteq Mechanism /\ MechanismsIn(ls[c]) # {}
        /\ MechanismsIn(ls[d]) \subseteq Mechanism /\ MechanismsIn(ls[d]) # {}
    BY <1>1 DEF IsLoaded
  <2>2. Likeness(m, ls[d]) >= Sim(m, n) /\ Likeness(m, ls[d]) \in Nat
    BY <2>1, LikenessIs
  <2>3. PICK x \in MechanismsIn(ls[c]) : Likeness(m, ls[c]) = Sim(m, x)
    BY <2>1, LikenessIs
  <2>4. x \in Mechanism /\ n \in Mechanism
    BY <2>1
  <2>5. Sim(m, x) = Sim(m, m)
    <3>1. Sim(m, x) >= Likeness(m, ls[d])
      BY <1>1, <2>3
    <3>2. Sim(m, x) \in Nat /\ Sim(m, m) \in Nat /\ Sim(m, m) >= Sim(m, x)
      BY <2>4, Similar
    <3> QED BY <1>2, <2>2, <3>1, <3>2
  <2>6. Sim(x, x) = Sim(m, m) /\ Sim(m, n) = Sim(x, n)
    BY <2>4, <2>5, Alike
  <2>7. Sim(x, n) = Sim(x, x)
    BY <1>2, <2>6
  <2> QED BY <1>1, <1>2, <2>7 DEF ApartIn
<1>3. ASSUME NEW d \in DOMAIN ls, d # c, NEW n \in MechanismsIn(ls[d])
      PROVE  Sim(m, n) # Sim(m, m) /\ Sim(n, m) # Sim(n, n)
  <2>1. n \in Mechanism
    BY DEF IsLoaded
  <2>2. Sim(m, n) # Sim(m, m)
    BY <1>2, <1>3
  <2> QED BY <2>1, <2>2, Alike
<1> QED BY <1>1, <1>3 DEF Fits

\* A mechanism that is near none gets a new cluster, which is apart of all.
LEMMA NewFits ==
  ASSUME NEW m \in Mechanism, NEW ls, IsLoaded(ls), Eligible(m, ls) = {}
  PROVE  m \notin DOMAIN ls /\ Fits(ls, m, m)
<1>1. ASSUME NEW d \in DOMAIN ls, NEW n \in MechanismsIn(ls[d])
      PROVE  Sim(m, n) # Sim(m, m) /\ Sim(n, m) # Sim(n, n)
  <2>1. /\ MechanismsIn(ls[d]) \subseteq Mechanism /\ MechanismsIn(ls[d]) # {} /\ n \in Mechanism
    BY DEF IsLoaded
  <2>2. ~(Likeness(m, ls[d]) >= NearDuplicate)
    BY DEF Eligible
  <2>3. Likeness(m, ls[d]) \in Nat /\ Likeness(m, ls[d]) >= Sim(m, n)
    BY <2>1, LikenessIs
  <2>4. /\ Sim(m, n) \in Nat /\ Sim(m, m) \in Nat /\ Sim(n, n) \in Nat
        /\ Sim(m, m) >= NearDuplicate /\ Sim(n, n) >= NearDuplicate
        /\ Sim(n, m) = Sim(m, n) /\ NearDuplicate \in Nat
    BY <2>1, Similar
  <2> QED BY <2>2, <2>3, <2>4
<1>2. m \notin DOMAIN ls
  <2> SUFFICES ASSUME m \in DOMAIN ls PROVE FALSE
    OBVIOUS
  <2>1. m \in MechanismsIn(ls[m])
    BY DEF IsLoaded
  <2> QED BY <1>1, <2>1
<1> QED BY <1>1, <1>2 DEF Fits

-----------------------------------------------------------------------------
(* The invariant: a source s of which n events went through the reducers,  *)
(* and the tables t that they left.                                        *)

Signals == {"generated", "evaluated", "adopted"}

IsRows(s) == s = [ledger |-> s.ledger, ideas |-> s.ideas, runs |-> s.runs,
                  adoptions |-> s.adoptions, receipts |-> s.receipts]
IsRun(r) ==
  /\ r = [owner |-> r.owner, snapshot |-> r.snapshot, at |-> r.at,
          receipt |-> r.receipt, ended |-> r.ended]
  /\ r.owner \in Agent /\ r.at \in Time
IsIdea(i) == i.owner \in Agent /\ i.mechanism \in Mechanism
Sourced(s) ==
  /\ IsRows(s) /\ IsLog(s.ledger) /\ IsLog(s.ideas) /\ IsLog(s.runs)
  /\ \A r \in 1..Len(s.runs) : IsRun(s.runs[r])
  /\ \A i \in 1..Len(s.ideas) : IsIdea(s.ideas[i])

\* The payload of an event has the shape of its type.
Shaped(e) ==
  /\ e.type = "generated" => OccurrenceWellFormed(e.data.mechanism, e.data)
  /\ e.type = "evaluated" => EvaluationWellFormed(e.data)
  /\ e.type = "adopted" => AdoptionWellFormed(e.data)
  /\ e.type = "rejected" => RejectionWellFormed(e.data)
  /\ e.type = "archived" => ArchiveWellFormed(e.data)
IsEvent(s, e) ==
  /\ Shaped(e)
  /\ e.type \in Signals => e.subject \in 1..Len(s.ideas) /\ e.at \in Time
  /\ e.type = "evaluated" => e.data.revision \in Nat \ {0} /\ e.data.current \in Verdict
Told(s, n) == \A k \in 1..n : IsEvent(s, s.ledger[k])

IsIdeaRow(row) ==
  /\ row = [owner |-> row.owner, cluster |-> row.cluster, decision |-> row.decision,
            latest |-> row.latest, reason |-> row.reason, experience |-> row.experience,
            version |-> row.version, signal |-> row.signal, event |-> row.event]
  /\ row.decision \in Decision /\ row.signal \in Time
IsClusterRow(row, name) ==
  /\ row = [state |-> row.state, event |-> row.event]
  /\ IsGraded(row.state) /\ IsNamed(row.state, name)
IsTables(t) == t = [clusters |-> t.clusters, states |-> t.states]
Tabled(s, t) ==
  /\ IsTables(t) /\ DOMAIN t.states = 1..Len(s.ideas)
  /\ \A i \in 1..Len(s.ideas) : IsIdeaRow(t.states[i]) /\ t.states[i].cluster \in DOMAIN t.clusters
  /\ \A c \in DOMAIN t.clusters : IsClusterRow(t.clusters[c], c)

\* What the ideas M of a cluster amount to.
Mine(s, t, c) == {i \in 1..Len(s.ideas) : t.states[i].cluster = c}
SnapshotsOf(s, M) == {s.ideas[i].snapshot : i \in M}
MechanismsOf(s, M) == {s.ideas[i].mechanism : i \in M}
AdoptersOf(s, t, M) == {s.ideas[i].owner : i \in {j \in M : t.states[j].decision = "adopted"}}
Evaluations(s, n, i) ==
  {k \in 1..n : s.ledger[k].type = "evaluated" /\ s.ledger[k].subject = i}
VerdictOf(s, n, i) ==
  IF Evaluations(s, n, i) = {} THEN None
  ELSE s.ledger[Max(Evaluations(s, n, i))].data.current
Judged(s, n, M, v) == {i \in M : VerdictOf(s, n, i) = v}
SignalsOf(s, n, M) ==
  {s.ledger[k].at : k \in {j \in 1..n : s.ledger[j].type \in Signals /\ s.ledger[j].subject \in M}}
LastSignal(c, S) == c.signal \in S /\ \A at \in S : c.signal >= at

AmountsTo(c, s, n, t, M) ==
  /\ c.occurrences = Cardinality(M)
  /\ c.snapshots = Cardinality(SnapshotsOf(s, M))
  /\ c.adopters = Cardinality(AdoptersOf(s, t, M))
  /\ c.supported = Cardinality(Judged(s, n, M, "supported"))
  /\ c.refuted = Cardinality(Judged(s, n, M, "refuted"))
  /\ LastSignal(c, SignalsOf(s, n, M))
  /\ ToSet(c.members) = MechanismsOf(s, M)
Counted(s, n, t) ==
  \A c \in DOMAIN t.clusters : AmountsTo(t.clusters[c].state, s, n, t, Mine(s, t, c))

MembersIn(t, c) == ToSet(t.clusters[c].state.members)
Apart(t) ==
  \A c, d \in DOMAIN t.clusters : c # d =>
    \A m \in MembersIn(t, c), o \in MembersIn(t, d) : Sim(m, o) # Sim(m, m)

\* The adopted ideas are those that the ledger has adoptions of.
SaysAdopted(s, t, e) ==
  /\ t.states[e.subject].decision = "adopted"
  /\ t.states[e.subject].cluster = e.data.cluster
  /\ s.ideas[e.subject].owner = e.actor
AdoptionOf(e, i) == e.type = "adopted" /\ e.subject = i
AdoptionsTold(s, n, t) ==
  /\ \A k \in 1..n : s.ledger[k].type = "adopted" => SaysAdopted(s, t, s.ledger[k])
  /\ \A i \in 1..Len(s.ideas) : t.states[i].decision = "adopted" =>
       \E k \in 1..n : AdoptionOf(s.ledger[k], i)

Good(s, n, t) ==
  /\ Sourced(s) /\ Told(s, n) /\ Tabled(s, t) /\ Counted(s, n, t)
  /\ Apart(t) /\ AdoptionsTold(s, n, t)

\* The same ideas, and the same events up to n.
SameUpTo(s, r, n) ==
  r.ideas = s.ideas /\ \A k \in 1..n : r.ledger[k] = s.ledger[k]

LEMMA GoodStill ==
  ASSUME NEW s, NEW r, NEW n \in Nat, NEW t, Good(s, n, t), Sourced(r), SameUpTo(s, r, n)
  PROVE  Good(r, n, t)
<1>1. Told(r, n)
  BY DEF Good, Told, IsEvent, SameUpTo
<1>2. Tabled(r, t) /\ \A c : Mine(r, t, c) = Mine(s, t, c)
  BY DEF Good, Tabled, SameUpTo, Mine
<1>3. \A M : /\ SnapshotsOf(r, M) = SnapshotsOf(s, M) /\ MechanismsOf(r, M) = MechanismsOf(s, M)
             /\ AdoptersOf(r, t, M) = AdoptersOf(s, t, M)
  BY DEF SameUpTo, SnapshotsOf, MechanismsOf, AdoptersOf
<1>4. \A i : Evaluations(r, n, i) = Evaluations(s, n, i)
  BY DEF SameUpTo, Evaluations
<1>5. \A i : VerdictOf(r, n, i) = VerdictOf(s, n, i)
  <2> SUFFICES ASSUME NEW i PROVE VerdictOf(r, n, i) = VerdictOf(s, n, i)
    OBVIOUS
  <2> PICK S : S = Evaluations(s, n, i)
    OBVIOUS
  <2>1. Evaluations(r, n, i) = S
    BY <1>4
  <2>2. S \subseteq 1..n
    BY DEF Evaluations
  <2>3. S # {} => Max(S) \in 1..n
    <3>1. S \subseteq 0..n
      BY <2>2
    <3> QED BY <2>2, <3>1, Greatest
  <2> QED BY <2>1, <2>3 DEF VerdictOf, SameUpTo
<1>6. \A M, v : Judged(r, n, M, v) = Judged(s, n, M, v)
  BY <1>5 DEF Judged
<1>7. \A M : SignalsOf(r, n, M) = SignalsOf(s, n, M)
  BY DEF SameUpTo, SignalsOf
<1>8. Counted(r, n, t)
  <2> SUFFICES ASSUME NEW c \in DOMAIN t.clusters
               PROVE  AmountsTo(t.clusters[c].state, r, n, t, Mine(r, t, c))
    BY DEF Counted
  <2>1. AmountsTo(t.clusters[c].state, s, n, t, Mine(r, t, c))
    BY <1>2 DEF Good, Counted
  <2> QED BY <2>1, <1>3, <1>6, <1>7 DEF AmountsTo
<1>9. AdoptionsTold(r, n, t)
  BY DEF Good, AdoptionsTold, SaysAdopted, SameUpTo
<1> QED BY <1>1, <1>2, <1>8, <1>9 DEF Good

-----------------------------------------------------------------------------
(* One event.  What an idea amounts to in its cluster changes only with an *)
(* event of its own.                                                       *)

\* The ledger of r has that of s, as far as n, and one event more.
Follows(r, s, n) == \A k \in 1..n : r.ledger[k] = s.ledger[k]

\* What the two reducers make of event k.
Clustered(s, t, k) == ApplyToIncubation(s, t.clusters, t.states, k, FALSE)
Stated(s, cl, t, k) == ApplyToIdeaState(s, cl, t.states, k, FALSE)

Splits(u, s, t, k, cl, st) ==
  /\ cl = Clustered(s, t, k) /\ cl # None /\ st = Stated(s, cl, t, k) /\ st # None
  /\ u = [clusters |-> cl, states |-> st]

LEMMA OnlineIs ==
  ASSUME NEW s, NEW t, NEW k, Online(s, t, k) # None
  PROVE  \E cl, st : Splits(Online(s, t, k), s, t, k, cl, st)
<1> PICK cl : cl = Clustered(s, t, k)
  OBVIOUS
<1> PICK st : st = Stated(s, cl, t, k)
  OBVIOUS
<1>1. Online(s, t, k) = IF cl = None THEN None
                        ELSE IF st = None THEN None ELSE [clusters |-> cl, states |-> st]
  BY DEF Online, Given, Clustered, Stated
<1>2. cl # None /\ st # None
  BY <1>1
<1>3. Splits(Online(s, t, k), s, t, k, cl, st)
  BY <1>1, <1>2 DEF Splits
<1> QED BY <1>3

LEMMA EvaluationsAre ==
  ASSUME NEW s, NEW n \in Nat, NEW i, NEW S, S = Evaluations(s, n, i), S # {}
  PROVE  Max(S) \in S /\ Max(S) \in 1..n /\ \A k \in S : Max(S) >= k
<1>1. S \subseteq 1..n /\ S \subseteq 0..n
  BY DEF Evaluations
<1>2. Max(S) \in S /\ \A k \in S : Max(S) >= k
  BY <1>1, Greatest
<1> QED BY <1>1, <1>2

LEMMA VerdictStill ==
  ASSUME NEW s, NEW r, NEW n \in Nat, NEW i, Follows(r, s, n),
         ~(r.ledger[n + 1].type = "evaluated" /\ r.ledger[n + 1].subject = i)
  PROVE  VerdictOf(r, n + 1, i) = VerdictOf(s, n, i)
<1> PICK S : S = Evaluations(s, n, i)
  OBVIOUS
<1>1. Evaluations(r, n + 1, i) = S
  <2>1. \A k : k \in 1..n + 1 <=> k \in 1..n \/ k = n + 1
    OBVIOUS
  <2> QED BY <2>1 DEF Evaluations, Follows
<1>2. CASE S = {}
  BY <1>1, <1>2 DEF VerdictOf
<1>3. CASE S # {}
  <2>1. Max(S) \in 1..n
    BY <1>3, EvaluationsAre
  <2>2. r.ledger[Max(S)] = s.ledger[Max(S)]
    BY <2>1 DEF Follows
  <2> QED BY <1>1, <1>3, <2>2 DEF VerdictOf
<1> QED BY <1>2, <1>3

LEMMA VerdictNext ==
  ASSUME NEW r, NEW n \in Nat, NEW i,
         r.ledger[n + 1].type = "evaluated", r.ledger[n + 1].subject = i
  PROVE  VerdictOf(r, n + 1, i) = r.ledger[n + 1].data.current
<1> PICK S : S = Evaluations(r, n + 1, i)
  OBVIOUS
<1>1. n + 1 \in S
  BY DEF Evaluations
<1>2. Max(S) \in 1..n + 1 /\ Max(S) >= n + 1
  BY <1>1, EvaluationsAre
<1>3. Max(S) = n + 1
  BY <1>2
<1> QED BY <1>1, <1>3 DEF VerdictOf

Adds(T, S, e, M) == T = S \cup (IF e.type \in Signals /\ e.subject \in M THEN {e.at} ELSE {})

LEMMA SignalsStill ==
  ASSUME NEW s, NEW r, NEW n \in Nat, NEW M, NEW e, Follows(r, s, n), e = r.ledger[n + 1]
  PROVE  Adds(SignalsOf(r, n + 1, M), SignalsOf(s, n, M), e, M)
<1> PICK A : A = {k \in 1..n : s.ledger[k].type \in Signals /\ s.ledger[k].subject \in M}
  OBVIOUS
<1> PICK B : B = {k \in 1..n + 1 : r.ledger[k].type \in Signals /\ r.ledger[k].subject \in M}
  OBVIOUS
<1>1. \A k : k \in 1..n + 1 <=> k \in 1..n \/ k = n + 1
  OBVIOUS
<1>2. B = A \cup (IF e.type \in Signals /\ e.subject \in M THEN {n + 1} ELSE {})
  BY <1>1 DEF Follows
<1>3. \A k \in A : r.ledger[k] = s.ledger[k]
  BY DEF Follows
<1>4. SignalsOf(s, n, M) = {s.ledger[k].at : k \in A}
      /\ SignalsOf(r, n + 1, M) = {r.ledger[k].at : k \in B}
  BY DEF SignalsOf
<1>5. {r.ledger[k].at : k \in A} = {s.ledger[k].at : k \in A}
  BY <1>3
<1>6. CASE e.type \in Signals /\ e.subject \in M
  <2>1. {r.ledger[k].at : k \in B} = {r.ledger[k].at : k \in A} \cup {r.ledger[n + 1].at}
    BY <1>2, <1>6
  <2> QED BY <1>4, <1>5, <1>6, <2>1 DEF Adds
<1>7. CASE ~(e.type \in Signals /\ e.subject \in M)
  <2>1. B = A
    BY <1>2, <1>7
  <2> QED BY <1>4, <1>5, <1>7, <2>1 DEF Adds
<1> QED BY <1>6, <1>7

\* The same ideas of these, of which the same are adopted.
SameIdeas(r, s, u, t, M) ==
  \A i \in M : /\ r.ideas[i] = s.ideas[i]
               /\ (u.states[i].decision = "adopted") = (t.states[i].decision = "adopted")

LEMMA SameOf ==
  ASSUME NEW s, NEW r, NEW t, NEW u, NEW M, SameIdeas(r, s, u, t, M)
  PROVE  /\ SnapshotsOf(r, M) = SnapshotsOf(s, M) /\ MechanismsOf(r, M) = MechanismsOf(s, M)
         /\ AdoptersOf(r, u, M) = AdoptersOf(s, t, M)
<1>1. \A i \in M : r.ideas[i] = s.ideas[i]
  BY DEF SameIdeas
<1>2. SnapshotsOf(r, M) = SnapshotsOf(s, M)
  BY <1>1 DEF SnapshotsOf
<1>3. MechanismsOf(r, M) = MechanismsOf(s, M)
  BY <1>1 DEF MechanismsOf
<1> PICK A : A = {j \in M : t.states[j].decision = "adopted"}
  OBVIOUS
<1>4. A = {j \in M : u.states[j].decision = "adopted"}
  BY DEF SameIdeas
<1>5. AdoptersOf(r, u, M) = {r.ideas[i].owner : i \in A}
      /\ AdoptersOf(s, t, M) = {s.ideas[i].owner : i \in A}
  BY <1>4 DEF AdoptersOf
<1>6. \A i \in A : r.ideas[i] = s.ideas[i]
  BY <1>1
<1> QED BY <1>2, <1>3, <1>5, <1>6

\* An event of another idea.
LEMMA AmountsStill ==
  ASSUME NEW s, NEW r, NEW t, NEW u, NEW n \in Nat, NEW M, NEW c, NEW e,
         Follows(r, s, n), e = r.ledger[n + 1], SameIdeas(r, s, u, t, M),
         e.type \in Signals => e.subject \notin M, AmountsTo(c, s, n, t, M)
  PROVE  AmountsTo(c, r, n + 1, u, M)
<1>1. /\ SnapshotsOf(r, M) = SnapshotsOf(s, M) /\ MechanismsOf(r, M) = MechanismsOf(s, M)
      /\ AdoptersOf(r, u, M) = AdoptersOf(s, t, M)
  BY SameOf
<1>2. \A i \in M : VerdictOf(r, n + 1, i) = VerdictOf(s, n, i)
  <2> SUFFICES ASSUME NEW i \in M PROVE VerdictOf(r, n + 1, i) = VerdictOf(s, n, i)
    OBVIOUS
  <2>1. ~(r.ledger[n + 1].type = "evaluated" /\ r.ledger[n + 1].subject = i)
    BY DEF Signals
  <2> QED BY <2>1, VerdictStill
<1>3. \A v : Judged(r, n + 1, M, v) = Judged(s, n, M, v)
  BY <1>2 DEF Judged
<1>4. SignalsOf(r, n + 1, M) = SignalsOf(s, n, M)
  <2>1. Adds(SignalsOf(r, n + 1, M), SignalsOf(s, n, M), e, M)
    BY SignalsStill, Zenon
  <2> QED BY <2>1 DEF Adds
<1> QED BY <1>1, <1>3, <1>4 DEF AmountsTo

\* The ideas stay in their clusters.
Keeps(u, t, d) ==
  /\ IsTables(u) /\ DOMAIN u.states = 1..d
  /\ \A i \in 1..d : IsIdeaRow(u.states[i]) /\ u.states[i].cluster = t.states[i].cluster
\* The clusters keep their mechanisms, and count what happened.
Recounted(r, n, u, t) ==
  /\ DOMAIN u.clusters = DOMAIN t.clusters
  /\ \A c \in DOMAIN t.clusters :
       /\ IsClusterRow(u.clusters[c], c) /\ MembersIn(u, c) = MembersIn(t, c)
       /\ AmountsTo(u.clusters[c].state, r, n, u, Mine(r, t, c))

LEMMA GoodNext ==
  ASSUME NEW r, NEW n \in Nat, NEW t, NEW u, Good(r, n, t), IsEvent(r, r.ledger[n + 1]),
         Keeps(u, t, Len(r.ideas)), Recounted(r, n + 1, u, t), AdoptionsTold(r, n + 1, u)
  PROVE  Good(r, n + 1, u)
<1>1. Told(r, n + 1)
  <2>1. \A k \in 1..n + 1 : k \in 1..n \/ k = n + 1
    OBVIOUS
  <2> QED BY <2>1 DEF Good, Told
<1>2. Tabled(r, u)
  BY DEF Good, Tabled, Keeps, Recounted
<1>3. \A c : Mine(r, u, c) = Mine(r, t, c)
  BY DEF Keeps, Mine
<1>4. Counted(r, n + 1, u)
  BY <1>3 DEF Counted, Recounted
<1>5. Apart(u)
  BY DEF Good, Apart, Recounted
<1> QED BY <1>1, <1>2, <1>4, <1>5 DEF Good

\* The clusters of which no idea has an event keep their row.
LEMMA OtherClusters ==
  ASSUME NEW r, NEW n \in Nat, NEW t, NEW u, NEW c, Good(r, n, t),
         c \in DOMAIN t.clusters, u.clusters[c] = t.clusters[c],
         SameIdeas(r, r, u, t, Mine(r, t, c)),
         r.ledger[n + 1].type \in Signals => r.ledger[n + 1].subject \notin Mine(r, t, c)
  PROVE  /\ IsClusterRow(u.clusters[c], c) /\ MembersIn(u, c) = MembersIn(t, c)
         /\ AmountsTo(u.clusters[c].state, r, n + 1, u, Mine(r, t, c))
<1>1. Follows(r, r, n)
  BY DEF Follows
<1>2. AmountsTo(u.clusters[c].state, r, n, t, Mine(r, t, c))
  BY DEF Good, Counted
<1>3. AmountsTo(u.clusters[c].state, r, n + 1, u, Mine(r, t, c))
  BY <1>1, <1>2, AmountsStill, Zenon
<1>4. IsClusterRow(u.clusters[c], c) /\ MembersIn(u, c) = MembersIn(t, c)
  BY DEF Good, Tabled, MembersIn
<1> QED BY <1>3, <1>4

\* An event that is no signal leaves the clusters as they are.
LEMMA QuietIsGood ==
  ASSUME NEW r, NEW n \in Nat, NEW t, NEW u, Good(r, n, t), IsEvent(r, r.ledger[n + 1]),
         r.ledger[n + 1].type \notin Signals, Keeps(u, t, Len(r.ideas)),
         u.clusters = t.clusters, SameIdeas(r, r, u, t, 1..Len(r.ideas))
  PROVE  Good(r, n + 1, u)
<1>1. Recounted(r, n + 1, u, t)
  <2>1. DOMAIN u.clusters = DOMAIN t.clusters
    OBVIOUS
  <2>2. ASSUME NEW c \in DOMAIN t.clusters
        PROVE  /\ IsClusterRow(u.clusters[c], c) /\ MembersIn(u, c) = MembersIn(t, c)
               /\ AmountsTo(u.clusters[c].state, r, n + 1, u, Mine(r, t, c))
    <3>1. SameIdeas(r, r, u, t, Mine(r, t, c))
      BY DEF SameIdeas, Mine
    <3>2. u.clusters[c] = t.clusters[c]
      OBVIOUS
    <3> QED BY <3>1, <3>2, OtherClusters, Zenon
  <2> QED BY <2>1, <2>2 DEF Recounted
<1>2. AdoptionsTold(r, n + 1, u)
  <2>1. ASSUME NEW k \in 1..n + 1, r.ledger[k].type = "adopted"
        PROVE  SaysAdopted(r, u, r.ledger[k])
    <3>1. k \in 1..n
      BY <2>1 DEF Signals
    <3>2. SaysAdopted(r, t, r.ledger[k]) /\ r.ledger[k].subject \in 1..Len(r.ideas)
      BY <2>1, <3>1 DEF Good, AdoptionsTold, Told, IsEvent, Signals
    <3> QED BY <3>2 DEF SaysAdopted, SameIdeas, Keeps
  <2>2. ASSUME NEW i \in 1..Len(r.ideas), u.states[i].decision = "adopted"
        PROVE  \E k \in 1..n + 1 : AdoptionOf(r.ledger[k], i)
    <3>1. \E k \in 1..n : AdoptionOf(r.ledger[k], i)
      BY <2>2 DEF Good, AdoptionsTold, SameIdeas
    <3> QED BY <3>1
  <2> QED BY <2>1, <2>2 DEF AdoptionsTold
<1> QED BY <1>1, <1>2, GoodNext, Zenon

\* Only the row of idea f has changed.
Moved(st, states, f) ==
  /\ DOMAIN st = DOMAIN states /\ \A i \in DOMAIN states : i # f => st[i] = states[i]
  /\ IsIdeaRow(st[f]) /\ st[f].cluster = states[f].cluster

AreRows(states) == \A i \in DOMAIN states : IsIdeaRow(states[i])
\* The decision on the idea takes the place of the one that the event names.
Decides(st, states, e, decision) ==
  /\ e.subject \in DOMAIN states /\ states[e.subject].decision = e.data.decision
  /\ Moved(st, states, e.subject) /\ st[e.subject].decision = decision

\* The idea of an event of its cluster is adopted.
Joins(st, states, e) ==
  states[e.subject].cluster = e.data.cluster /\ Decides(st, states, e, "adopted")
\* The idea is where it was, after an event of its cluster.
Revisits(st, states, e) ==
  /\ e.subject \in DOMAIN states /\ states[e.subject].cluster = e.data.cluster
  /\ Moved(st, states, e.subject)
  /\ st[e.subject].decision = states[e.subject].decision

LEMMA ArchivedRow ==
  ASSUME NEW rebuild, NEW r, NEW cl, NEW states, NEW k, NEW st, NEW e, e = r.ledger[k],
         st = StateArchived(r, cl, states, k, rebuild), st # None,
         AreRows(states)
  PROVE  Decides(st, states, e, "archived")
<1> PICK f : f = e.subject
  OBVIOUS
<1>1. StateContinues(r, states, k)
      /\ st = [states EXCEPT ![f].decision = "archived",
                 ![f].reason = e.data.reason, ![f].event = k]
  BY DEF StateArchived
<1>2. f \in DOMAIN states /\ states[f].decision = e.data.decision
  BY <1>1 DEF StateContinues
<1>3. st[f] = [states[f] EXCEPT !.decision = "archived", !.reason = e.data.reason, !.event = k]
      /\ DOMAIN st = DOMAIN states /\ \A i \in DOMAIN states : i # f => st[i] = states[i]
  BY <1>1, <1>2
<1>4. IsIdeaRow(st[f]) /\ st[f].cluster = states[f].cluster /\ st[f].decision = "archived"
  <2> PICK p, q, x : p = states[f] /\ q = st[f] /\ x = e.data.reason
    OBVIOUS
  <2>1. IsIdeaRow(p)
    BY <1>2 DEF AreRows
  <2>2. q = [p EXCEPT !.decision = "archived", !.reason = x, !.event = k]
    BY <1>3
  <2>3. IsIdeaRow(q) /\ q.cluster = p.cluster /\ q.decision = "archived"
    BY <2>1, <2>2 DEF IsIdeaRow, Decision
  <2> QED BY <2>3
<1> QED BY <1>2, <1>3, <1>4 DEF Decides, Moved

LEMMA RejectedRow ==
  ASSUME NEW r, NEW states, NEW k, NEW st, NEW e, e = r.ledger[k],
         st = StateRejected(r, states, k), st # None,
         AreRows(states)
  PROVE  Decides(st, states, e, "rejected")
<1> PICK f : f = e.subject
  OBVIOUS
<1>1. StateContinues(r, states, k)
      /\ st = [states EXCEPT ![f].decision = "rejected",
                 ![f].reason = e.data.reason, ![f].event = k]
  BY DEF StateRejected
<1>2. f \in DOMAIN states /\ states[f].decision = e.data.decision
  BY <1>1 DEF StateContinues
<1>3. st[f] = [states[f] EXCEPT !.decision = "rejected", !.reason = e.data.reason, !.event = k]
      /\ DOMAIN st = DOMAIN states /\ \A i \in DOMAIN states : i # f => st[i] = states[i]
  BY <1>1, <1>2
<1>4. IsIdeaRow(st[f]) /\ st[f].cluster = states[f].cluster /\ st[f].decision = "rejected"
  <2> PICK p, q, x : p = states[f] /\ q = st[f] /\ x = e.data.reason
    OBVIOUS
  <2>1. IsIdeaRow(p)
    BY <1>2 DEF AreRows
  <2>2. q = [p EXCEPT !.decision = "rejected", !.reason = x, !.event = k]
    BY <1>3
  <2>3. IsIdeaRow(q) /\ q.cluster = p.cluster /\ q.decision = "rejected"
    BY <2>1, <2>2 DEF IsIdeaRow, Decision
  <2> QED BY <2>3
<1> QED BY <1>2, <1>3, <1>4 DEF Decides, Moved

LEMMA EvaluatedRow ==
  ASSUME NEW rebuild, NEW r, NEW cl, NEW states, NEW k, NEW st, NEW e, e = r.ledger[k], e.at \in Time,
         st = StateEvaluated(r, cl, states, k, rebuild), st # None,
         AreRows(states)
  PROVE  Revisits(st, states, e)
<1> PICK f : f = e.subject
  OBVIOUS
<1> PICK v : v = [revision |-> e.data.revision, verdict |-> e.data.current]
  OBVIOUS
<1>1. StateContinues(r, states, k) /\ states[f].cluster = e.data.cluster
      /\ st = [states EXCEPT ![f].latest = v, ![f].signal = e.at, ![f].event = k]
  BY DEF StateEvaluated
<1>2. f \in DOMAIN states /\ states[f].decision = e.data.decision
  BY <1>1 DEF StateContinues
<1>3. st[f] = [states[f] EXCEPT !.latest = v, !.signal = e.at, !.event = k]
      /\ DOMAIN st = DOMAIN states /\ \A i \in DOMAIN states : i # f => st[i] = states[i]
  BY <1>1, <1>2
<1>4. IsIdeaRow(st[f]) /\ st[f].cluster = states[f].cluster
      /\ st[f].decision = states[f].decision
  <2> PICK p, q, at : p = states[f] /\ q = st[f] /\ at = e.at
    OBVIOUS
  <2>1. IsIdeaRow(p) /\ at \in Time
    BY <1>2 DEF AreRows
  <2>2. q = [p EXCEPT !.latest = v, !.signal = at, !.event = k]
    BY <1>3
  <2>3. IsIdeaRow(q) /\ q.cluster = p.cluster /\ q.decision = p.decision
    BY <2>1, <2>2 DEF IsIdeaRow
  <2> QED BY <2>3
<1>5. Moved(st, states, f)
  BY <1>3, <1>4 DEF Moved
<1> QED BY <1>1, <1>2, <1>4, <1>5 DEF Revisits

LEMMA AdoptedRow ==
  ASSUME NEW r, NEW states, NEW k, NEW st, NEW e, e = r.ledger[k], e.at \in Time,
         st = StateAdopted(r, states, k), st # None,
         AreRows(states)
  PROVE  Joins(st, states, e)
<1>a. PICK f, x, v, at : /\ f = e.subject /\ x = e.data.experience
                         /\ v = e.data.version /\ at = e.at
  OBVIOUS
<1>1. StateContinues(r, states, k) /\ states[f].cluster = e.data.cluster
      /\ st = [states EXCEPT ![f].decision = "adopted", ![f].reason = None,
                 ![f].experience = x, ![f].version = v, ![f].signal = at, ![f].event = k]
  BY <1>a DEF StateAdopted
<1>2. f \in DOMAIN states /\ states[f].decision = e.data.decision
  BY <1>1, <1>a DEF StateContinues
<1>3. st[f] = [states[f] EXCEPT !.decision = "adopted", !.reason = None,
                 !.experience = x, !.version = v, !.signal = at, !.event = k]
      /\ DOMAIN st = DOMAIN states /\ \A i \in DOMAIN states : i # f => st[i] = states[i]
  BY <1>1, <1>2
<1>4. IsIdeaRow(st[f]) /\ st[f].cluster = states[f].cluster /\ st[f].decision = "adopted"
  <2> PICK row : row = states[f]
    OBVIOUS
  <2>1. IsIdeaRow(row)
    BY <1>2 DEF AreRows
  <2>2. st[f] = [owner |-> row.owner, cluster |-> row.cluster, decision |-> "adopted",
                 latest |-> row.latest, reason |-> None, experience |-> x,
                 version |-> v, signal |-> at, event |-> k]
    BY <1>3, <2>1 DEF IsIdeaRow
  <2>3. at \in Time /\ "adopted" \in Decision
    BY <1>a DEF Decision
  <2> QED BY <2>2, <2>3 DEF IsIdeaRow
<1>5. Moved(st, states, f)
  BY <1>3, <1>4 DEF Moved
<1> QED BY <1>1, <1>2, <1>4, <1>5, <1>a DEF Decides, Joins

LEMMA QuietEvent ==
  ASSUME NEW r, NEW n \in Nat, NEW t, NEW u, NEW e, Good(r, n, t), e = r.ledger[n + 1],
         IsEvent(r, e), e.type \in {"experience", "archived", "rejected"},
         u = Online(r, t, n + 1), u # None
  PROVE  Good(r, n + 1, u)
<1>0. Online(r, t, n + 1) # None
  OBVIOUS
<1>1. PICK cl, st : Splits(Online(r, t, n + 1), r, t, n + 1, cl, st)
  BY <1>0, OnlineIs, Zenon
<1>2. cl = t.clusters
  BY <1>1 DEF Splits, Clustered, ApplyToIncubation
<1>3. /\ IsTables(u) /\ u.clusters = t.clusters /\ u.states = st
      /\ r.ledger[n + 1].type \notin Signals /\ IsEvent(r, r.ledger[n + 1])
  <2>1. u.clusters = cl /\ u.states = st
    BY <1>1 DEF Splits
  <2>2. IsTables(u)
    BY <1>1 DEF Splits, IsTables
  <2>3. e.type \notin Signals
    BY DEF Signals
  <2> QED BY <1>2, <2>1, <2>2, <2>3
<1>4. /\ DOMAIN t.states = 1..Len(r.ideas)
      /\ AreRows(t.states)
  BY DEF Good, Tabled, AreRows
<1>5. CASE e.type = "experience"
  <2>1. st = t.states
    BY <1>1, <1>5 DEF Splits, Stated, ApplyToIdeaState
  <2>2. Keeps(u, t, Len(r.ideas))
    BY <1>3, <1>4, <2>1 DEF Keeps, AreRows
  <2>3. SameIdeas(r, r, u, t, 1..Len(r.ideas))
    BY <1>3, <2>1 DEF SameIdeas
  <2> QED BY <1>3, <2>2, <2>3, QuietIsGood, Zenon
<1>6. CASE e.type \in {"archived", "rejected"}
  <2>1. /\ e.subject \in DOMAIN t.states /\ t.states[e.subject].decision = e.data.decision
        /\ Moved(st, t.states, e.subject) /\ st[e.subject].decision # "adopted"
    <3>1. CASE e.type = "archived"
      <4> PICK b : b = FALSE
        OBVIOUS
      <4>1. st = StateArchived(r, cl, t.states, n + 1, b)
        BY <1>1, <3>1 DEF Splits, Stated, ApplyToIdeaState
      <4>2. st # None
        BY <1>1 DEF Splits
      <4>3. Decides(st, t.states, e, "archived")
        BY <1>4, <4>1, <4>2, ArchivedRow, Zenon
      <4> QED BY <4>3 DEF Decides
    <3>2. CASE e.type = "rejected"
      <4>1. st = StateRejected(r, t.states, n + 1)
        BY <1>1, <3>2 DEF Splits, Stated, ApplyToIdeaState
      <4>2. st # None
        BY <1>1 DEF Splits
      <4>3. Decides(st, t.states, e, "rejected")
        BY <1>4, <4>1, <4>2, RejectedRow, Zenon
      <4> QED BY <4>3 DEF Decides
    <3> QED BY <1>6, <3>1, <3>2
  <2>2. t.states[e.subject].decision # "adopted"
    BY <1>6, <2>1 DEF IsEvent, Shaped, ArchiveWellFormed, RejectionWellFormed
  <2>3. Keeps(u, t, Len(r.ideas))
    BY <1>3, <1>4, <2>1 DEF Keeps, Moved, AreRows
  <2>4. SameIdeas(r, r, u, t, 1..Len(r.ideas))
    BY <1>3, <1>4, <2>1, <2>2 DEF SameIdeas, Moved
  <2> QED BY <1>3, <2>3, <2>4, QuietIsGood, Zenon
<1> QED BY <1>5, <1>6

\* The row that an evaluation and an adoption leave.
EvaluatedTo(a, cl, clusters, c, e, k) ==
  /\ a = PlanEvaluation(clusters[c].state, e.data.previous, e.data.current, e.at)
  /\ a # None /\ cl = With(clusters, c, Row(a, k))
AdoptedTo(a, cl, clusters, c, e, owners, k) ==
  /\ a = PlanAdoption(clusters[c].state, e.actor \in owners, e.at)
  /\ a # None /\ cl = With(clusters, c, Row(a, k))

LEMMA EvaluatedCluster ==
  ASSUME NEW rebuild, NEW r, NEW clusters, NEW states, NEW k, NEW cl, NEW e, NEW c,
         e = r.ledger[k], c = e.data.cluster,
         cl = IncubationEvaluated(r, clusters, states, k, rebuild), cl # None
  PROVE  c \in DOMAIN clusters /\ \E a : EvaluatedTo(a, cl, clusters, c, e, k)
<1>1. ConcernsCluster(r, clusters, k)
  BY DEF IncubationEvaluated
<1> PICK a : a = PlanEvaluation(clusters[c].state, e.data.previous, e.data.current, e.at)
  OBVIOUS
<1>2. cl = ReplannedRow(clusters, k, e.data, EvaluationFields, a)
  BY DEF IncubationEvaluated, Given
<1>3. a # None /\ cl = With(clusters, c, Row(a, k))
  BY <1>2 DEF ReplannedRow
<1>4. c \in DOMAIN clusters
  BY <1>1 DEF ConcernsCluster
<1>5. EvaluatedTo(a, cl, clusters, c, e, k)
  BY <1>3 DEF EvaluatedTo
<1> QED BY <1>4, <1>5

LEMMA AdoptedCluster ==
  ASSUME NEW r, NEW clusters, NEW k, NEW cl, NEW e, NEW c, NEW owners,
         e = r.ledger[k], c = e.data.cluster, owners = AdopterOwnersBefore(r, c, k),
         cl = IncubationAdopted(r, clusters, k), cl # None
  PROVE  /\ c \in DOMAIN clusters /\ AdoptionSourceAgrees(r, k)
         /\ \E a : AdoptedTo(a, cl, clusters, c, e, owners, k)
<1>1. ConcernsCluster(r, clusters, k) /\ AdoptionSourceAgrees(r, k)
  BY DEF IncubationAdopted
<1> PICK a : a = PlanAdoption(clusters[c].state, e.actor \in owners, e.at)
  OBVIOUS
<1>2. cl = ReplannedRow(clusters, k, e.data, AdoptionFields, a)
  BY DEF IncubationAdopted, Given
<1>3. a # None /\ cl = With(clusters, c, Row(a, k))
  BY <1>2 DEF ReplannedRow
<1>4. c \in DOMAIN clusters
  BY <1>1 DEF ConcernsCluster
<1>5. AdoptedTo(a, cl, clusters, c, e, owners, k)
  BY <1>3 DEF AdoptedTo
<1> QED BY <1>1, <1>4, <1>5

LEMMA AdoptionOwner ==
  ASSUME NEW r, NEW k, AdoptionSourceAgrees(r, k)
  PROVE  r.ledger[k].actor = r.ideas[r.ledger[k].subject].owner
BY DEF AdoptionSourceAgrees


LEMMA SignalsAreTimes ==
  ASSUME NEW s, NEW n, NEW M, Told(s, n)
  PROVE  SignalsOf(s, n, M) \subseteq Time
<1>1. \A k \in 1..n : s.ledger[k].type \in Signals => s.ledger[k].at \in Time
  BY DEF Told, IsEvent
<1> QED BY <1>1 DEF SignalsOf

\* A later signal becomes the last one.
LEMMA LaterSignal ==
  ASSUME NEW S, S \subseteq Time, NEW b, NEW a, NEW at \in Time, LastSignal(b, S),
         a.signal = at, at >= b.signal
  PROVE  LastSignal(a, S \cup {at})
<1>1. b.signal \in Nat /\ at \in Nat /\ \A x \in S : x \in Nat /\ b.signal >= x
  BY TimeIs DEF LastSignal
<1>2. \A x \in S : at >= x
  BY <1>1
<1> QED BY <1>1, <1>2 DEF LastSignal

\* A verdict on f is counted in place of the one before.
CountsVerdict(T, S, previous, current, v) ==
  Cardinality(T) = Cardinality(S) - Contribution(previous, v) + Contribution(current, v)

LEMMA CountedVerdict ==
  ASSUME NEW S, IsFiniteSet(S), NEW f, NEW previous, NEW current, NEW v, NEW T,
         (f \in S) <=> (previous = v), T = IF current = v THEN S \cup {f} ELSE S \ {f}
  PROVE  CountsVerdict(T, S, previous, current, v)
<1>1. CASE current = v
  <2>1. /\ Cardinality(T) = IF f \in S THEN Cardinality(S) ELSE Cardinality(S) + 1
        /\ Cardinality(S) \in Nat
    BY <1>1, CountWith
  <2> QED BY <1>1, <2>1 DEF CountsVerdict, Contribution
<1>2. CASE current # v
  <2>1. /\ Cardinality(T) = IF f \in S THEN Cardinality(S) - 1 ELSE Cardinality(S)
        /\ Cardinality(S) \in Nat
    BY <1>2, CountWithout
  <2> QED BY <1>2, <2>1 DEF CountsVerdict, Contribution
<1> QED BY <1>1, <1>2

\* Idea f of the cluster gets a verdict.
Revised(a, b, e) ==
  /\ Judges(a, b, e.at) /\ a.adopters = b.adopters
  /\ a.supported = b.supported - Contribution(e.data.previous, "supported")
                     + Contribution(e.data.current, "supported")
  /\ a.refuted = b.refuted - Contribution(e.data.previous, "refuted")
                     + Contribution(e.data.current, "refuted")

LEMMA EvaluationCounted ==
  ASSUME NEW r, NEW n \in Nat, NEW d \in Nat, NEW t, NEW u, NEW M, M \subseteq 1..d,
         NEW f \in M, NEW a, NEW b, NEW e, e = r.ledger[n + 1], e.type = "evaluated",
         e.subject = f, e.at \in Time, e.data.previous = VerdictOf(r, n, f), Told(r, n),
         Revised(a, b, e), SameIdeas(r, r, u, t, M), AmountsTo(b, r, n, t, M)
  PROVE  AmountsTo(a, r, n + 1, u, M)
<1>1. /\ AdoptersOf(r, u, M) = AdoptersOf(r, t, M)
  BY SameOf
<1>2. Follows(r, r, n)
  BY DEF Follows
<1>3. ASSUME NEW v
      PROVE  Cardinality(Judged(r, n + 1, M, v))
               = Cardinality(Judged(r, n, M, v)) - Contribution(e.data.previous, v)
                   + Contribution(e.data.current, v)
  <2> PICK S, T : S = Judged(r, n, M, v) /\ T = Judged(r, n + 1, M, v)
    OBVIOUS
  <2>1. \A i \in M : i # f => VerdictOf(r, n + 1, i) = VerdictOf(r, n, i)
    BY <1>2, VerdictStill
  <2>2. VerdictOf(r, n + 1, f) = e.data.current
    BY VerdictNext
  <2>3. T = IF e.data.current = v THEN S \cup {f} ELSE S \ {f}
    BY <2>1, <2>2 DEF Judged
  <2>4. (f \in S) <=> (e.data.previous = v)
    BY DEF Judged
  <2>5. IsFiniteSet(S)
    <3>1. S \subseteq 1..d
      BY DEF Judged
    <3> QED BY <3>1, FiniteBelow
  <2>6. CountsVerdict(T, S, e.data.previous, e.data.current, v)
    BY <2>3, <2>4, <2>5, CountedVerdict, Zenon
  <2> QED BY <2>6 DEF CountsVerdict
<1>4. LastSignal(a, SignalsOf(r, n + 1, M))
  <2>1. SignalsOf(r, n + 1, M) = SignalsOf(r, n, M) \cup {e.at}
    <3>1. Adds(SignalsOf(r, n + 1, M), SignalsOf(r, n, M), e, M)
      BY <1>2, SignalsStill, Zenon
    <3> QED BY <3>1 DEF Adds, Signals
  <2>2. SignalsOf(r, n, M) \subseteq Time
    BY SignalsAreTimes
  <2>3. LastSignal(b, SignalsOf(r, n, M)) /\ a.signal = e.at /\ e.at >= b.signal
    BY DEF AmountsTo, Revised, Judges
  <2>4. LastSignal(a, SignalsOf(r, n, M) \cup {e.at})
    BY <2>2, <2>3, LaterSignal, Zenon
  <2> QED BY <2>1, <2>4
<1>5. /\ a.members = b.members /\ a.occurrences = b.occurrences /\ a.snapshots = b.snapshots
      /\ a.adopters = b.adopters
  BY DEF Revised, Judges
<1>6. a.supported = Cardinality(Judged(r, n + 1, M, "supported"))
  BY <1>3 DEF AmountsTo, Revised
<1>7. a.refuted = Cardinality(Judged(r, n + 1, M, "refuted"))
  BY <1>3 DEF AmountsTo, Revised
<1> QED BY <1>1, <1>4, <1>5, <1>6, <1>7 DEF AmountsTo

\* The cluster c has the row of state a, the others keep theirs.
LEMMA JudgedCluster ==
  ASSUME NEW r, NEW n \in Nat, NEW t, NEW u, NEW c \in DOMAIN t.clusters, NEW a, NEW at,
         Good(r, n, t), u.clusters = With(t.clusters, c, Row(a, n + 1)),
         Judges(a, t.clusters[c].state, at),
         r.ledger[n + 1].type \in Signals, t.states[r.ledger[n + 1].subject].cluster = c,
         AmountsTo(a, r, n + 1, u, Mine(r, t, c)),
         \A i \in 1..Len(r.ideas) : t.states[i].cluster # c =>
           (u.states[i].decision = "adopted") = (t.states[i].decision = "adopted")
  PROVE  Recounted(r, n + 1, u, t)
<1>1. DOMAIN u.clusters = DOMAIN t.clusters
  BY DEF With
<1>2. ASSUME NEW x \in DOMAIN t.clusters
      PROVE  /\ IsClusterRow(u.clusters[x], x) /\ MembersIn(u, x) = MembersIn(t, x)
             /\ AmountsTo(u.clusters[x].state, r, n + 1, u, Mine(r, t, x))
  <2>1. CASE x = c
    <3>1. u.clusters[x] = [state |-> a, event |-> n + 1]
      BY <2>1 DEF With, Row
    <3>2. IsNamed(t.clusters[c].state, c)
      BY DEF Good, Tabled, IsClusterRow
    <3>3. IsGraded(a) /\ IsNamed(a, c) /\ a.members = t.clusters[c].state.members
      BY <3>2 DEF Judges, IsNamed
    <3> QED BY <2>1, <3>1, <3>3 DEF IsClusterRow, MembersIn
  <2>2. CASE x # c
    <3>1. u.clusters[x] = t.clusters[x]
      BY <2>2 DEF With
    <3>2. SameIdeas(r, r, u, t, Mine(r, t, x))
      BY <2>2 DEF SameIdeas, Mine
    <3>3. r.ledger[n + 1].subject \notin Mine(r, t, x)
      BY <2>2 DEF Mine
    <3> QED BY <3>1, <3>2, <3>3, OtherClusters, Zenon
  <2> QED BY <2>1, <2>2
<1> QED BY <1>1, <1>2 DEF Recounted


\* What the reducers refuse or keep, an event at a time.
LEMMA EvaluatedEvent ==
  ASSUME NEW r, NEW n \in Nat, NEW t, NEW u, NEW e, Good(r, n, t), e = r.ledger[n + 1],
         IsEvent(r, e), e.type = "evaluated", e.data.previous = VerdictOf(r, n, e.subject),
         u = Online(r, t, n + 1), u # None
  PROVE  Good(r, n + 1, u)
<1>0. Online(r, t, n + 1) # None
  OBVIOUS
<1>1. PICK cl, st : Splits(Online(r, t, n + 1), r, t, n + 1, cl, st)
  BY <1>0, OnlineIs, Zenon
<1>2. /\ u.clusters = cl /\ u.states = st /\ IsTables(u) /\ cl # None /\ st # None
  BY <1>1 DEF Splits, IsTables
<1> PICK c, f, b : c = e.data.cluster /\ f = e.subject /\ b = FALSE
  OBVIOUS
<1>3. /\ cl = IncubationEvaluated(r, t.clusters, t.states, n + 1, b)
      /\ st = StateEvaluated(r, cl, t.states, n + 1, b)
  BY <1>1 DEF Splits, Clustered, Stated, ApplyToIncubation, ApplyToIdeaState
<1>4. c \in DOMAIN t.clusters /\ \E a : EvaluatedTo(a, cl, t.clusters, c, e, n + 1)
  BY <1>2, <1>3, EvaluatedCluster, Zenon
<1>5. PICK a : EvaluatedTo(a, cl, t.clusters, c, e, n + 1)
  BY <1>4
<1>6. AreRows(t.states) /\ DOMAIN t.states = 1..Len(r.ideas) /\ e.at \in Time
      /\ f \in 1..Len(r.ideas) /\ Len(r.ideas) \in Nat
  BY LogLength DEF Good, Tabled, AreRows, IsEvent, Signals, Sourced
<1>7. /\ t.states[f].cluster = c /\ Moved(st, t.states, f)
      /\ st[f].decision = t.states[f].decision
  <2>1. Revisits(st, t.states, e)
    BY <1>2, <1>3, <1>6, EvaluatedRow, Zenon
  <2> QED BY <2>1 DEF Revisits
<1>8. Keeps(u, t, Len(r.ideas))
  BY <1>2, <1>6, <1>7 DEF Keeps, Moved, AreRows
<1>9. SameIdeas(r, r, u, t, 1..Len(r.ideas))
  BY <1>2, <1>6, <1>7 DEF SameIdeas, Moved
<1> PICK before : before = t.clusters[c].state
  OBVIOUS
<1>10. Revised(a, before, e)
  <2>1. IsGraded(before)
    BY <1>4 DEF Good, Tabled, IsClusterRow
  <2>2. a = PlanEvaluation(before, e.data.previous, e.data.current, e.at) /\ a # None
    BY <1>5 DEF EvaluatedTo
  <2>3. RevisedTo(a, before, e.data.previous, e.data.current, e.at)
    BY <1>6, <2>1, <2>2, EvaluationIsGraded, Zenon
  <2> QED BY <2>3 DEF RevisedTo, Revised
<1>11. AmountsTo(a, r, n + 1, u, Mine(r, t, c))
  <2> PICK M : M = Mine(r, t, c)
    OBVIOUS
  <2>1. M \subseteq 1..Len(r.ideas) /\ f \in M
    BY <1>6, <1>7 DEF Mine
  <2>2. AmountsTo(before, r, n, t, M) /\ Told(r, n)
    BY <1>4 DEF Good, Counted
  <2>3. SameIdeas(r, r, u, t, M)
    BY <1>9, <2>1 DEF SameIdeas
  <2>4. e.data.previous = VerdictOf(r, n, f) /\ e.subject = f
    OBVIOUS
  <2> QED BY <1>6, <1>10, <2>1, <2>2, <2>3, <2>4, EvaluationCounted, Zenon
<1>12. Recounted(r, n + 1, u, t)
  <2>1. u.clusters = With(t.clusters, c, Row(a, n + 1))
    BY <1>2, <1>5 DEF EvaluatedTo
  <2>2. Judges(a, t.clusters[c].state, e.at)
    BY <1>10 DEF Revised
  <2>3. r.ledger[n + 1].type \in Signals /\ t.states[r.ledger[n + 1].subject].cluster = c
    BY <1>7 DEF Signals
  <2>4. \A i \in 1..Len(r.ideas) : t.states[i].cluster # c =>
           (u.states[i].decision = "adopted") = (t.states[i].decision = "adopted")
    BY <1>9 DEF SameIdeas
  <2> QED BY <1>4, <1>11, <2>1, <2>2, <2>3, <2>4, JudgedCluster, Zenon
<1>13. AdoptionsTold(r, n + 1, u)
  <2>1. ASSUME NEW k \in 1..n + 1, r.ledger[k].type = "adopted"
        PROVE  SaysAdopted(r, u, r.ledger[k])
    <3>1. k \in 1..n
      BY <2>1
    <3>2. SaysAdopted(r, t, r.ledger[k]) /\ r.ledger[k].subject \in 1..Len(r.ideas)
      BY <2>1, <3>1 DEF Good, AdoptionsTold, Told, IsEvent, Signals
    <3> QED BY <1>8, <1>9, <3>2 DEF SaysAdopted, SameIdeas, Keeps
  <2>2. ASSUME NEW i \in 1..Len(r.ideas), u.states[i].decision = "adopted"
        PROVE  \E k \in 1..n + 1 : AdoptionOf(r.ledger[k], i)
    <3>1. \E k \in 1..n : AdoptionOf(r.ledger[k], i)
      BY <1>9, <2>2 DEF Good, AdoptionsTold, SameIdeas
    <3> QED BY <3>1
  <2> QED BY <2>1, <2>2 DEF AdoptionsTold
<1>14. IsEvent(r, r.ledger[n + 1])
  OBVIOUS
<1> QED BY <1>8, <1>12, <1>13, <1>14, GoodNext, Zenon


\* The owners that have adopted an idea of the cluster, as the ledger says.
LEMMA OwnersBefore ==
  ASSUME NEW r, NEW n \in Nat, NEW t, NEW c, Good(r, n, t), n <= Len(r.ledger)
  PROVE  AdopterOwnersBefore(r, c, n + 1) = AdoptersOf(r, t, Mine(r, t, c))
<1> PICK s, m : s = r.ledger /\ m = Len(s)
  OBVIOUS
<1> PICK S : S = {s[k] : k \in 1..n}
  OBVIOUS
<1>1. ToSet(SubSeq(s, 1, n)) = S
  <2>1. IsLog(s) /\ m \in Nat
    BY LogLength DEF Good, Sourced
  <2>2. s \in Seq({s[k] : k \in DOMAIN s})
    BY <2>1 DEF IsLog
  <2>3. SubSeq(s, 1, n) = [k \in 1..n |-> s[k]]
    BY <2>1, <2>2
  <2>4. DOMAIN SubSeq(s, 1, n) = 1..n /\ \A k \in 1..n : SubSeq(s, 1, n)[k] = s[k]
    BY <2>3
  <2> QED BY <2>4 DEF ToSet
<1>2. AdopterOwnersBefore(r, c, n + 1)
        = {e.actor : e \in {f \in S : f.type = "adopted" /\ f.data.cluster = c}}
  <2>1. (n + 1) - 1 = n
    OBVIOUS
  <2> QED BY <1>1, <2>1 DEF AdopterOwnersBefore
<1> PICK M : M = Mine(r, t, c)
  OBVIOUS
<1>3. ASSUME NEW k \in 1..n, s[k].type = "adopted", s[k].data.cluster = c
      PROVE  s[k].actor \in AdoptersOf(r, t, M)
  <2> PICK i : i = s[k].subject
    OBVIOUS
  <2>1. i \in 1..Len(r.ideas)
    BY <1>3 DEF Good, Told, IsEvent, Signals
  <2>2. t.states[i].decision = "adopted" /\ t.states[i].cluster = c
        /\ r.ideas[i].owner = s[k].actor
    BY <1>3 DEF Good, AdoptionsTold, SaysAdopted
  <2> QED BY <2>1, <2>2 DEF AdoptersOf, Mine
<1>4. ASSUME NEW i \in M, t.states[i].decision = "adopted"
      PROVE  \E k \in 1..n : /\ s[k].type = "adopted" /\ s[k].data.cluster = c
                             /\ s[k].actor = r.ideas[i].owner
  <2>1. i \in 1..Len(r.ideas) /\ t.states[i].cluster = c
    BY DEF Mine
  <2>2. PICK k \in 1..n : AdoptionOf(s[k], i)
    BY <1>4, <2>1 DEF Good, AdoptionsTold
  <2>3. SaysAdopted(r, t, s[k]) /\ s[k].subject = i /\ s[k].type = "adopted"
    BY <2>2 DEF Good, AdoptionsTold, AdoptionOf
  <2> QED BY <2>1, <2>3 DEF SaysAdopted
<1>5. AdoptersOf(r, t, M) \subseteq AdopterOwnersBefore(r, c, n + 1)
  <2> SUFFICES ASSUME NEW i \in M, t.states[i].decision = "adopted"
               PROVE  r.ideas[i].owner \in AdopterOwnersBefore(r, c, n + 1)
    BY DEF AdoptersOf
  <2>1. PICK k \in 1..n : /\ s[k].type = "adopted" /\ s[k].data.cluster = c
                          /\ s[k].actor = r.ideas[i].owner
    BY <1>4
  <2>2. s[k] \in S
    OBVIOUS
  <2> QED BY <1>2, <2>1, <2>2
<1>6. AdopterOwnersBefore(r, c, n + 1) \subseteq AdoptersOf(r, t, M)
  BY <1>2, <1>3
<1> QED BY <1>5, <1>6

LEMMA AdoptionCounted ==
  ASSUME NEW r, NEW n \in Nat, NEW d \in Nat, NEW t, NEW u, NEW M, M \subseteq 1..d,
         NEW f \in M, NEW a, NEW b, NEW e, NEW again, e = r.ledger[n + 1], e.type = "adopted",
         e.subject = f, e.at \in Time, Told(r, n), JoinedTo(a, b, again, e.at),
         again <=> r.ideas[f].owner \in AdoptersOf(r, t, M),
         SameIdeas(r, r, u, t, M \ {f}), u.states[f].decision = "adopted",
         IsGraded(b), AmountsTo(b, r, n, t, M)
  PROVE  AmountsTo(a, r, n + 1, u, M)
<1>1. Follows(r, r, n)
  BY DEF Follows
<1>a. PICK S, T, o : S = AdoptersOf(r, t, M) /\ T = AdoptersOf(r, u, M) /\ o = r.ideas[f].owner
  OBVIOUS
<1>2. T = S \cup {o} /\ IsFiniteSet(S)
  <2> PICK A, B : /\ A = {j \in M : t.states[j].decision = "adopted"}
                  /\ B = {j \in M : u.states[j].decision = "adopted"}
    OBVIOUS
  <2>1. B = A \cup {f}
    <3>1. \A j \in M : j # f =>
            (u.states[j].decision = "adopted" <=> t.states[j].decision = "adopted")
      BY DEF SameIdeas
    <3> QED BY <3>1
  <2> PICK owner : owner = [i \in M |-> r.ideas[i].owner]
    OBVIOUS
  <2>2. S = {owner[i] : i \in A} /\ T = {owner[i] : i \in B} /\ o = owner[f]
    <3>1. S = {r.ideas[i].owner : i \in A} /\ T = {r.ideas[i].owner : i \in B}
      BY <1>a DEF AdoptersOf
    <3> QED BY <1>a, <3>1
  <2>3. T = S \cup {o}
    <3>1. ASSUME NEW x \in T PROVE x \in S \cup {o}
      <4>1. PICK i \in B : x = owner[i]
        BY <2>2, Zenon
      <4>2. CASE i = f
        BY <2>2, <4>1, <4>2, Zenon
      <4>3. CASE i \in A
        BY <2>2, <4>1, <4>3, Zenon
      <4> QED BY <2>1, <4>2, <4>3, Zenon
    <3>2. S \subseteq T /\ o \in T
      BY <2>1, <2>2, Zenon
    <3> QED BY <3>1, <3>2, Zenon
  <2>4. IsFiniteSet(A)
    <3>1. A \subseteq 1..d
      OBVIOUS
    <3> QED BY <3>1, FiniteBelow
  <2>5. IsFiniteSet(S)
    <3>1. IsFiniteSet(ImageOf(owner, A))
      BY <2>4, ImageFinite, Zenon
    <3> QED BY <2>2, <3>1 DEF ImageOf
  <2> QED BY <2>3, <2>5
<1>3. a.adopters = Cardinality(T)
  <2>1. /\ Cardinality(T) = IF o \in S THEN Cardinality(S) ELSE Cardinality(S) + 1
        /\ Cardinality(S) \in Nat
    BY <1>2, CountWith
  <2>2. a.adopters = Cardinality(S) + (IF again THEN 0 ELSE 1)
    BY <1>a DEF AmountsTo, JoinedTo
  <2> QED BY <1>a, <2>1, <2>2
<1>4. \A v : Judged(r, n + 1, M, v) = Judged(r, n, M, v)
  <2>1. \A i \in M : VerdictOf(r, n + 1, i) = VerdictOf(r, n, i)
    BY <1>1, VerdictStill
  <2> QED BY <2>1 DEF Judged
<1>5. LastSignal(a, SignalsOf(r, n + 1, M))
  <2>1. SignalsOf(r, n + 1, M) = SignalsOf(r, n, M) \cup {e.at}
    <3>1. Adds(SignalsOf(r, n + 1, M), SignalsOf(r, n, M), e, M)
      BY <1>1, SignalsStill, Zenon
    <3> QED BY <3>1 DEF Adds, Signals
  <2>2. SignalsOf(r, n, M) \subseteq Time
    BY SignalsAreTimes
  <2>3. LastSignal(b, SignalsOf(r, n, M)) /\ a.signal = e.at /\ e.at >= b.signal
    BY DEF AmountsTo, JoinedTo, Judges
  <2>4. LastSignal(a, SignalsOf(r, n, M) \cup {e.at})
    BY <2>2, <2>3, LaterSignal, Zenon
  <2> QED BY <2>1, <2>4
<1>6. /\ a.members = b.members /\ a.occurrences = b.occurrences /\ a.snapshots = b.snapshots
      /\ a.supported = b.supported /\ a.refuted = b.refuted
  BY DEF JoinedTo, Judges
<1> QED BY <1>3, <1>4, <1>5, <1>6, <1>a DEF AmountsTo

LEMMA AdoptedEvent ==
  ASSUME NEW r, NEW n \in Nat, NEW t, NEW u, NEW e, Good(r, n, t), e = r.ledger[n + 1],
         n <= Len(r.ledger), IsEvent(r, e), e.type = "adopted",
         u = Online(r, t, n + 1), u # None
  PROVE  Good(r, n + 1, u)
<1>0. Online(r, t, n + 1) # None
  OBVIOUS
<1>1. PICK cl, st : Splits(Online(r, t, n + 1), r, t, n + 1, cl, st)
  BY <1>0, OnlineIs, Zenon
<1>2. /\ u.clusters = cl /\ u.states = st /\ IsTables(u) /\ cl # None /\ st # None
  BY <1>1 DEF Splits, IsTables
<1> PICK c, f, owners : /\ c = e.data.cluster /\ f = e.subject
                        /\ owners = AdopterOwnersBefore(r, c, n + 1)
  OBVIOUS
<1>3. cl = IncubationAdopted(r, t.clusters, n + 1) /\ st = StateAdopted(r, t.states, n + 1)
  BY <1>1 DEF Splits, Clustered, Stated, ApplyToIncubation, ApplyToIdeaState
<1>4. /\ c \in DOMAIN t.clusters /\ AdoptionSourceAgrees(r, n + 1)
      /\ \E a : AdoptedTo(a, cl, t.clusters, c, e, owners, n + 1)
  BY <1>2, <1>3, AdoptedCluster, Zenon
<1>5. PICK a : AdoptedTo(a, cl, t.clusters, c, e, owners, n + 1)
  BY <1>4
<1>6. AreRows(t.states) /\ DOMAIN t.states = 1..Len(r.ideas) /\ e.at \in Time
      /\ f \in 1..Len(r.ideas) /\ Len(r.ideas) \in Nat
  BY LogLength DEF Good, Tabled, AreRows, IsEvent, Signals, Sourced
<1>7. /\ t.states[f].cluster = c /\ Moved(st, t.states, f)
      /\ st[f].decision = "adopted" /\ t.states[f].decision = e.data.decision
  <2>1. Joins(st, t.states, e)
    BY <1>2, <1>3, <1>6, AdoptedRow, Zenon
  <2> QED BY <2>1 DEF Joins, Decides
<1>8. Keeps(u, t, Len(r.ideas))
  BY <1>2, <1>6, <1>7 DEF Keeps, Moved, AreRows
<1>9. SameIdeas(r, r, u, t, 1..Len(r.ideas) \ {f})
  BY <1>2, <1>6, <1>7 DEF SameIdeas, Moved
<1> PICK before, again : before = t.clusters[c].state /\ again = (e.actor \in owners)
  OBVIOUS
<1>10. JoinedTo(a, before, again, e.at) /\ IsGraded(before)
  <2>1. IsGraded(before)
    BY <1>4 DEF Good, Tabled, IsClusterRow
  <2>2. a = PlanAdoption(before, again, e.at) /\ a # None
    BY <1>5 DEF AdoptedTo
  <2>3. JoinedTo(a, before, again, e.at)
    BY <1>6, <2>1, <2>2, AdoptionIsGraded, Zenon
  <2> QED BY <2>1, <2>3
<1>11. AmountsTo(a, r, n + 1, u, Mine(r, t, c))
  <2> PICK M : M = Mine(r, t, c)
    OBVIOUS
  <2>1. M \subseteq 1..Len(r.ideas) /\ f \in M
    BY <1>6, <1>7 DEF Mine
  <2>2. AmountsTo(before, r, n, t, M) /\ Told(r, n)
    BY <1>4 DEF Good, Counted
  <2>3. SameIdeas(r, r, u, t, M \ {f}) /\ u.states[f].decision = "adopted"
    BY <1>2, <1>7, <1>9, <2>1 DEF SameIdeas
  <2>4. again <=> r.ideas[f].owner \in AdoptersOf(r, t, M)
    <3>1. owners = AdoptersOf(r, t, M)
      BY OwnersBefore
    <3>2. e.actor = r.ideas[f].owner
      BY <1>4, AdoptionOwner
    <3> QED BY <3>1, <3>2
  <2>5. e.subject = f /\ e = r.ledger[n + 1] /\ e.type = "adopted"
    OBVIOUS
  <2> QED BY <1>6, <1>10, <2>1, <2>2, <2>3, <2>4, <2>5, AdoptionCounted, Zenon
<1>12. Recounted(r, n + 1, u, t)
  <2>1. u.clusters = With(t.clusters, c, Row(a, n + 1))
    BY <1>2, <1>5 DEF AdoptedTo
  <2>2. Judges(a, t.clusters[c].state, e.at)
    BY <1>10 DEF JoinedTo
  <2>3. r.ledger[n + 1].type \in Signals /\ t.states[r.ledger[n + 1].subject].cluster = c
    BY <1>7 DEF Signals
  <2>4. \A i \in 1..Len(r.ideas) : t.states[i].cluster # c =>
           (u.states[i].decision = "adopted") = (t.states[i].decision = "adopted")
    BY <1>7, <1>9 DEF SameIdeas
  <2> QED BY <1>4, <1>11, <2>1, <2>2, <2>3, <2>4, JudgedCluster, Zenon
<1>13. AdoptionsTold(r, n + 1, u)
  <2>1. ASSUME NEW k \in 1..n + 1, r.ledger[k].type = "adopted"
        PROVE  SaysAdopted(r, u, r.ledger[k])
    <3>1. CASE k \in 1..n
      <4>1. SaysAdopted(r, t, r.ledger[k]) /\ r.ledger[k].subject \in 1..Len(r.ideas)
        BY <2>1, <3>1 DEF Good, AdoptionsTold, Told, IsEvent, Signals
      <4>2. u.states[r.ledger[k].subject].decision = "adopted"
        BY <1>2, <1>7, <1>9, <4>1 DEF SaysAdopted, SameIdeas
      <4> QED BY <1>8, <4>1, <4>2 DEF SaysAdopted, Keeps
    <3>2. CASE k = n + 1
      <4>1. u.states[f].decision = "adopted" /\ u.states[f].cluster = c
        BY <1>2, <1>7 DEF Moved
      <4>2. r.ideas[f].owner = e.actor
        BY <1>4, AdoptionOwner
      <4> QED BY <3>2, <4>1, <4>2 DEF SaysAdopted
    <3> QED BY <3>1, <3>2
  <2>2. ASSUME NEW i \in 1..Len(r.ideas), u.states[i].decision = "adopted"
        PROVE  \E k \in 1..n + 1 : AdoptionOf(r.ledger[k], i)
    <3>1. CASE i = f
      <4>1. n + 1 \in 1..n + 1 /\ AdoptionOf(r.ledger[n + 1], i)
        BY <3>1 DEF AdoptionOf
      <4> QED BY <4>1
    <3>2. CASE i # f
      <4>1. \E k \in 1..n : AdoptionOf(r.ledger[k], i)
        BY <1>9, <2>2, <3>2 DEF Good, AdoptionsTold, SameIdeas
      <4> QED BY <4>1
    <3> QED BY <3>1, <3>2
  <2> QED BY <2>1, <2>2 DEF AdoptionsTold
<1>14. IsEvent(r, r.ledger[n + 1])
  OBVIOUS
<1> QED BY <1>8, <1>12, <1>13, <1>14, GoodNext, Zenon


-----------------------------------------------------------------------------
(* An idea that a run retains: where the planner puts it.                  *)

\* The clusters as the planner loads them.
Loads(ls, s, t) ==
  /\ DOMAIN ls = DOMAIN t.clusters
  /\ \A c \in DOMAIN ls : /\ ls[c].state = t.clusters[c].state
                          /\ ls[c].snapshots = SnapshotsOf(s, Mine(s, t, c))
                          /\ MechanismsIn(ls[c]) = MembersIn(t, c)

LEMMA LoadedIs ==
  ASSUME NEW s, NEW n, NEW t, Good(s, n, t)
  PROVE  Loads(LoadedClusters(s, t), s, t)
<1> PICK ls : ls = LoadedClusters(s, t)
  OBVIOUS
<1>1. DOMAIN ls = DOMAIN t.clusters
  BY DEF LoadedClusters
<1>2. ASSUME NEW c \in DOMAIN ls
      PROVE  /\ ls[c].state = t.clusters[c].state
             /\ ls[c].snapshots = SnapshotsOf(s, Mine(s, t, c))
             /\ MechanismsIn(ls[c]) = MembersIn(t, c)
  <2> PICK M, e, d : M = Mine(s, t, c) /\ e = MembersOf(s, t, c) /\ d = Len(s.ideas)
    OBVIOUS
  <2>1. d \in Nat /\ DOMAIN s.ideas = 1..d /\ DOMAIN t.states = 1..d
    BY LogLength DEF Good, Sourced, Tabled
  <2>2. e = Ascending(M)
    BY <2>1 DEF MembersOf, Mine
  <2>3. M \subseteq 1..d
    BY DEF Mine
  <2>4. ToSet(e) = M
    BY <2>1, <2>2, <2>3, Enumerates, Zenon
  <2>5. {e[k] : k \in DOMAIN e} = M
    BY <2>4 DEF ToSet
  <2> PICK ms : ms = [k \in DOMAIN e |->
                 [idea |-> e[k], owner |-> s.ideas[e[k]].owner,
                  mechanism |-> s.ideas[e[k]].mechanism]]
    OBVIOUS
  <2>6. /\ ls[c].state = t.clusters[c].state /\ ls[c].members = ms
        /\ ls[c].snapshots = {s.ideas[i].snapshot : i \in ToSet(e)}
    BY <1>1 DEF LoadedClusters
  <2>7. MechanismsIn(ls[c]) = {ms[k].mechanism : k \in DOMAIN e}
    <3>1. DOMAIN ms = DOMAIN e
      OBVIOUS
    <3> QED BY <2>6, <3>1 DEF MechanismsIn, ToSet
  <2>8. \A k \in DOMAIN e : ms[k].mechanism = s.ideas[e[k]].mechanism
    OBVIOUS
  <2>9. {ms[k].mechanism : k \in DOMAIN e} = MechanismsOf(s, M)
    <3>1. \A k \in DOMAIN e : e[k] \in M
      BY <2>5
    <3>2. \A i \in M : \E k \in DOMAIN e : e[k] = i
      BY <2>5
    <3> QED BY <2>8, <3>1, <3>2 DEF MechanismsOf
  <2>10. MechanismsOf(s, M) = MembersIn(t, c)
    BY <1>1, <1>2 DEF Good, Counted, AmountsTo, MembersIn
  <2>11. ls[c].snapshots = SnapshotsOf(s, M)
    BY <2>4, <2>6 DEF SnapshotsOf
  <2> QED BY <2>6, <2>7, <2>9, <2>10, <2>11
<1> QED BY <1>1, <1>2 DEF Loads

LEMMA LoadedApart ==
  ASSUME NEW s, NEW n, NEW t, NEW ls, Good(s, n, t), Loads(ls, s, t)
  PROVE  IsLoaded(ls) /\ ApartIn(ls) /\ PlannableClusters(ls)
<1>1. ASSUME NEW c \in DOMAIN ls
      PROVE  MechanismsIn(ls[c]) \subseteq Mechanism /\ c \in MechanismsIn(ls[c])
  <2> PICK ms : ms = t.clusters[c].state.members
    OBVIOUS
  <2>1. ms \in Seq(Mechanism) /\ ms # << >> /\ ms[1] = c
    BY DEF Good, Tabled, IsClusterRow, IsNamed, Loads
  <2>2. 1 \in DOMAIN ms
    BY <2>1
  <2>3. ToSet(ms) \subseteq Mechanism /\ c \in ToSet(ms)
    BY <2>1, <2>2 DEF ToSet
  <2> QED BY <2>3 DEF Loads, MembersIn
<1>2. IsLoaded(ls)
  BY <1>1 DEF IsLoaded
<1>3. ApartIn(ls)
  BY DEF Loads, Good, Apart, ApartIn
<1>4. ASSUME NEW c \in DOMAIN ls, NEW d \in DOMAIN ls, c # d,
             NEW m, m \in ToSet(ls[c].state.members), m \in ToSet(ls[d].state.members)
      PROVE  FALSE
  <2>1. m \in MechanismsIn(ls[c]) /\ m \in MechanismsIn(ls[d])
    BY <1>4 DEF Loads, MembersIn
  <2>2. Sim(m, m) # Sim(m, m)
    BY <1>3, <1>4, <2>1 DEF ApartIn
  <2> QED BY <2>2
<1>5. PlannableClusters(ls)
  BY <1>4 DEF PlannableClusters
<1> QED BY <1>2, <1>3, <1>5

\* A new cluster, or one more idea in the one it was found like.
Founds(plan, t, ls, m, at) ==
  /\ plan.cluster = m /\ m \notin DOMAIN t.clusters
  /\ plan.before = None /\ plan.after = NewCluster(m, at)
Recurs(plan, t, ls, m, h, at) ==
  /\ plan.cluster \in DOMAIN t.clusters
  /\ plan.before = t.clusters[plan.cluster].state
  /\ plan.after = Recurrence(ls[plan.cluster], m, h, at)

LEMMA PlanIs ==
  ASSUME NEW s, NEW n, NEW t, NEW ls, NEW owner, NEW m \in Mechanism, NEW h, NEW at, NEW plan,
         Good(s, n, t), Loads(ls, s, t), plan = PlanOccurrence(owner, m, h, at, ls)
  PROVE  /\ Fits(ls, plan.cluster, m)
         /\ Founds(plan, t, ls, m, at) \/ Recurs(plan, t, ls, m, h, at)
<1>1. IsLoaded(ls) /\ ApartIn(ls) /\ PlannableClusters(ls)
  BY LoadedApart
<1>2. CASE Eligible(m, ls) = {}
  <2>1. m \notin DOMAIN ls /\ Fits(ls, m, m)
    BY <1>1, <1>2, NewFits
  <2>2. plan = [cluster |-> m, duplicate |-> None,
                before |-> None, after |-> NewCluster(m, at)]
    BY <1>1, <1>2 DEF PlanOccurrence
  <2> QED BY <2>1, <2>2 DEF Founds, Loads
<1>3. CASE Eligible(m, ls) # {}
  <2> PICK c : c = Assigned(m, ls)
    OBVIOUS
  <2>1. c \in DOMAIN ls /\ Fits(ls, c, m)
    BY <1>1, <1>3, AssignedFits
  <2> PICK dup : dup = DuplicateRelation(owner, ls[c])
    OBVIOUS
  <2>2. plan = [cluster |-> c, duplicate |-> dup, before |-> ls[c].state,
                after |-> Recurrence(ls[c], m, h, at)]
    BY <1>1, <1>3 DEF PlanOccurrence
  <2> QED BY <2>1, <2>2 DEF Recurs, Loads
<1> QED BY <1>2, <1>3

\* The clusters stay apart when the idea has entered.
LEMMA ApartStill ==
  ASSUME NEW s, NEW t, NEW u, NEW ls, NEW c, NEW m, Apart(t), Loads(ls, s, t), Fits(ls, c, m),
         DOMAIN u.clusters = DOMAIN t.clusters \cup {c},
         \A x \in DOMAIN t.clusters : x # c => MembersIn(u, x) = MembersIn(t, x),
         MembersIn(u, c) = {m} \cup (IF c \in DOMAIN t.clusters THEN MembersIn(t, c) ELSE {})
  PROVE  Apart(u)
<1> SUFFICES ASSUME NEW x \in DOMAIN u.clusters, NEW y \in DOMAIN u.clusters, x # y,
                    NEW p \in MembersIn(u, x), NEW o \in MembersIn(u, y)
             PROVE  Sim(p, o) # Sim(p, p)
  BY DEF Apart
<1>1. \A d \in DOMAIN t.clusters : d # c => \A q \in MembersIn(t, d) :
        Sim(m, q) # Sim(m, m) /\ Sim(q, m) # Sim(q, q)
  BY DEF Fits, Loads
<1>2. CASE x = c /\ p = m
  <2>1. y \in DOMAIN t.clusters /\ y # c /\ o \in MembersIn(t, y)
    BY <1>2
  <2> QED BY <1>1, <1>2, <2>1
<1>3. CASE y = c /\ o = m
  <2>1. x \in DOMAIN t.clusters /\ x # c /\ p \in MembersIn(t, x)
    BY <1>3
  <2> QED BY <1>1, <1>3, <2>1
<1>4. CASE ~(x = c /\ p = m) /\ ~(y = c /\ o = m)
  <2>1. x \in DOMAIN t.clusters /\ p \in MembersIn(t, x)
    BY <1>4
  <2>2. y \in DOMAIN t.clusters /\ o \in MembersIn(t, y)
    BY <1>4
  <2> QED BY <2>1, <2>2 DEF Apart
<1> QED BY <1>2, <1>3, <1>4


\* Idea i, the next one, is generated by event n + 1.
Enters(s, u, s0, t, n, i, m, h, at) ==
  /\ Follows(s, s0, n) /\ \A j \in 1..i - 1 : s.ideas[j] = s0.ideas[j]
  /\ s.ideas[i].mechanism = m /\ s.ideas[i].snapshot = h
  /\ s.ledger[n + 1].type = "generated" /\ s.ledger[n + 1].subject = i
  /\ s.ledger[n + 1].at = at
  /\ \A j \in 1..i - 1 : u.states[j] = t.states[j]
  /\ u.states[i].decision = "active"
\* What the ideas N, those of M with idea i, amount to.
With1(s, u, s0, t, n, M, N, m, h, at) ==
  /\ Cardinality(M) \in Nat /\ Cardinality(N) = Cardinality(M) + 1
  /\ SnapshotsOf(s, N) = SnapshotsOf(s0, M) \cup {h} /\ IsFiniteSet(SnapshotsOf(s0, M))
  /\ AdoptersOf(s, u, N) = AdoptersOf(s0, t, M)
  /\ MechanismsOf(s, N) = MechanismsOf(s0, M) \cup {m}
  /\ \A v \in Verdict : Judged(s, n + 1, N, v) = Judged(s0, n, M, v)
  /\ SignalsOf(s, n + 1, N) = SignalsOf(s0, n, M) \cup {at}

LEMMA Entered ==
  ASSUME NEW s, NEW u, NEW s0, NEW t, NEW n \in Nat, NEW d \in Nat, NEW m, NEW h, NEW at,
         NEW M, NEW N, Told(s0, n), d = Len(s0.ideas),
         Enters(s, u, s0, t, n, d + 1, m, h, at), M \subseteq 1..d, N = M \cup {d + 1}
  PROVE  With1(s, u, s0, t, n, M, N, m, h, at)
<1> PICK i \in Nat : i = d + 1
  OBVIOUS
<1>1. /\ Follows(s, s0, n) /\ \A j \in 1..d : s.ideas[j] = s0.ideas[j]
      /\ s.ideas[i].mechanism = m /\ s.ideas[i].snapshot = h
      /\ s.ledger[n + 1].type = "generated" /\ s.ledger[n + 1].subject = i
      /\ s.ledger[n + 1].at = at
      /\ \A j \in 1..d : u.states[j] = t.states[j]
      /\ u.states[i].decision = "active"
  BY DEF Enters
<1>2. i \notin M /\ IsFiniteSet(M)
  <2>1. i \notin 1..d
    OBVIOUS
  <2>2. IsFiniteSet(M)
    BY FiniteBelow, Zenon
  <2> QED BY <2>1, <2>2
<1>3. SameIdeas(s, s0, u, t, M)
  BY <1>1 DEF SameIdeas
<1>4. /\ SnapshotsOf(s, M) = SnapshotsOf(s0, M) /\ MechanismsOf(s, M) = MechanismsOf(s0, M)
      /\ AdoptersOf(s, u, M) = AdoptersOf(s0, t, M)
  BY <1>3, SameOf
<1>5. Cardinality(M) \in Nat /\ Cardinality(N) = Cardinality(M) + 1
  <2>1. N = M \cup {i}
    OBVIOUS
  <2> QED BY <1>2, <2>1, CountWith
<1>6. SnapshotsOf(s, N) = SnapshotsOf(s0, M) \cup {h}
  <2>1. SnapshotsOf(s, N) = SnapshotsOf(s, M) \cup {s.ideas[i].snapshot}
    BY DEF SnapshotsOf
  <2> QED BY <1>1, <1>4, <2>1
<1>7. MechanismsOf(s, N) = MechanismsOf(s0, M) \cup {m}
  <2>1. MechanismsOf(s, N) = MechanismsOf(s, M) \cup {s.ideas[i].mechanism}
    BY DEF MechanismsOf
  <2> QED BY <1>1, <1>4, <2>1
<1>8. AdoptersOf(s, u, N) = AdoptersOf(s0, t, M)
  <2>1. u.states[i].decision # "adopted"
    BY <1>1
  <2>2. {j \in N : u.states[j].decision = "adopted"} = {j \in M : u.states[j].decision = "adopted"}
    BY <2>1
  <2> QED BY <1>4, <2>2 DEF AdoptersOf
<1>9. ASSUME NEW v \in Verdict
      PROVE  Judged(s, n + 1, N, v) = Judged(s0, n, M, v)
  <2>1. \A j \in N : VerdictOf(s, n + 1, j) = VerdictOf(s0, n, j)
    BY <1>1, VerdictStill
  <2>2. VerdictOf(s0, n, i) = None
    <3>1. Evaluations(s0, n, i) = {}
      <4>1. ASSUME NEW k \in 1..n, s0.ledger[k].type = "evaluated", s0.ledger[k].subject = i
            PROVE  FALSE
        <5>1. i \in 1..d
          BY <4>1 DEF Told, IsEvent, Signals
        <5> QED BY <5>1
      <4> QED BY <4>1 DEF Evaluations
    <3> QED BY <3>1 DEF VerdictOf
  <2>3. v # None
    BY NoneAssumption
  <2> QED BY <2>1, <2>2, <2>3 DEF Judged
<1>10. SignalsOf(s, n + 1, N) = SignalsOf(s0, n, M) \cup {at}
  <2> PICK e : e = s.ledger[n + 1]
    OBVIOUS
  <2>1. SignalsOf(s, n + 1, N) = SignalsOf(s0, n, N) \cup {at}
    <3>1. Adds(SignalsOf(s, n + 1, N), SignalsOf(s0, n, N), e, N)
      <4>1. Follows(s, s0, n)
        BY <1>1
      <4> QED BY <4>1, SignalsStill, Zenon
    <3>2. e.type \in Signals /\ e.subject \in N /\ e.at = at
      BY <1>1 DEF Signals
    <3> QED BY <3>1, <3>2 DEF Adds
  <2>2. SignalsOf(s0, n, N) = SignalsOf(s0, n, M)
    <3>1. ASSUME NEW k \in 1..n, s0.ledger[k].type \in Signals
          PROVE  s0.ledger[k].subject # i
      <4>1. s0.ledger[k].subject \in 1..d
        BY <3>1 DEF Told, IsEvent
      <4> QED BY <4>1
    <3> QED BY <3>1 DEF SignalsOf
  <2> QED BY <2>1, <2>2
<1>11. IsFiniteSet(SnapshotsOf(s0, M))
  <2> PICK f : f = [j \in M |-> s0.ideas[j].snapshot]
    OBVIOUS
  <2>1. SnapshotsOf(s0, M) = ImageOf(f, M)
    BY DEF SnapshotsOf, ImageOf
  <2>2. IsFiniteSet(ImageOf(f, M))
    BY <1>2, ImageFinite, Zenon
  <2> QED BY <2>1, <2>2
<1> QED BY <1>5, <1>6, <1>7, <1>8, <1>9, <1>10, <1>11 DEF With1

\* A signal, late or not, moves the last one at most forward.
LEMMA LatestSignal ==
  ASSUME NEW S, S \subseteq Time, NEW b, NEW a, NEW at \in Time, LastSignal(b, S),
         a.signal = (IF b.signal >= at THEN b.signal ELSE at)
  PROVE  LastSignal(a, S \cup {at})
<1>1. b.signal \in Nat /\ at \in Nat /\ b.signal \in S /\ \A x \in S : x \in Nat /\ b.signal >= x
  BY TimeIs DEF LastSignal
<1>2. \A x \in S \cup {at} : a.signal >= x
  BY <1>1
<1>3. a.signal \in S \cup {at}
  BY <1>1
<1> QED BY <1>2, <1>3 DEF LastSignal

LEMMA RecurrenceCounted ==
  ASSUME NEW s, NEW u, NEW s0, NEW t, NEW n, NEW M, NEW N, NEW m, NEW h, NEW at \in Time,
         NEW a, NEW b, NEW name, Told(s0, n), With1(s, u, s0, t, n, M, N, m, h, at),
         AmountsTo(b, s0, n, t, M), GrownTo(a, b, name, m, h \notin SnapshotsOf(s0, M), at)
  PROVE  AmountsTo(a, s, n + 1, u, N)
<1>1. a.occurrences = Cardinality(N) /\ a.adopters = Cardinality(AdoptersOf(s, u, N))
      /\ ToSet(a.members) = MechanismsOf(s, N)
  BY DEF With1, AmountsTo, GrownTo
<1>2. a.snapshots = Cardinality(SnapshotsOf(s, N))
  <2> PICK S, T : S = SnapshotsOf(s0, M) /\ T = SnapshotsOf(s, N)
    OBVIOUS
  <2>1. T = S \cup {h} /\ IsFiniteSet(S)
    BY DEF With1
  <2>2. /\ Cardinality(T) = IF h \in S THEN Cardinality(S) ELSE Cardinality(S) + 1
        /\ Cardinality(S) \in Nat
    BY <2>1, CountWith
  <2>3. a.snapshots = Cardinality(S) + (IF h \notin S THEN 1 ELSE 0)
    BY DEF AmountsTo, GrownTo
  <2> QED BY <2>2, <2>3
<1>3. \A v \in Verdict : Judged(s, n + 1, N, v) = Judged(s0, n, M, v)
  BY DEF With1
<1>4. /\ a.supported = Cardinality(Judged(s, n + 1, N, "supported"))
      /\ a.refuted = Cardinality(Judged(s, n + 1, N, "refuted"))
  BY <1>3 DEF AmountsTo, GrownTo, Verdict
<1>5. LastSignal(a, SignalsOf(s, n + 1, N))
  <2>1. SignalsOf(s, n + 1, N) = SignalsOf(s0, n, M) \cup {at}
    BY DEF With1
  <2>2. SignalsOf(s0, n, M) \subseteq Time
    BY SignalsAreTimes
  <2>3. LastSignal(b, SignalsOf(s0, n, M))
        /\ a.signal = (IF b.signal >= at THEN b.signal ELSE at)
    BY DEF AmountsTo, GrownTo
  <2> QED BY <2>1, <2>2, <2>3, LatestSignal
<1> QED BY <1>1, <1>2, <1>4, <1>5 DEF AmountsTo

LEMMA NewCounted ==
  ASSUME NEW s, NEW u, NEW s0, NEW t, NEW n, NEW N, NEW m \in Mechanism, NEW h, NEW at \in Time,
         With1(s, u, s0, t, n, {}, N, m, h, at)
  PROVE  AmountsTo(NewCluster(m, at), s, n + 1, u, N)
<1> PICK a : a = NewCluster(m, at)
  OBVIOUS
<1>1. /\ a.occurrences = 1 /\ a.snapshots = 1 /\ a.adopters = 0 /\ a.supported = 0
      /\ a.refuted = 0 /\ a.signal = at
  BY DEF NewCluster
<1>2. ToSet(a.members) = {m}
  BY NewIsGraded
<1>3. Cardinality({}) = 0 /\ Cardinality({h}) = 1
  BY FS_EmptySet, FS_Singleton
<1>4. /\ SnapshotsOf(s0, {}) = {} /\ AdoptersOf(s0, t, {}) = {} /\ MechanismsOf(s0, {}) = {}
      /\ SignalsOf(s0, n, {}) = {} /\ \A v : Judged(s0, n, {}, v) = {}
  BY DEF SnapshotsOf, AdoptersOf, MechanismsOf, SignalsOf, Judged
<1>5. /\ Cardinality(N) = 1 /\ SnapshotsOf(s, N) = {h} /\ AdoptersOf(s, u, N) = {}
      /\ MechanismsOf(s, N) = {m} /\ SignalsOf(s, n + 1, N) = {at}
      /\ \A v \in Verdict : Judged(s, n + 1, N, v) = {}
  BY <1>3, <1>4 DEF With1
<1>6. LastSignal(a, {at})
  BY <1>1, TimeIs DEF LastSignal
<1>7. Judged(s, n + 1, N, "supported") = {} /\ Judged(s, n + 1, N, "refuted") = {}
  BY <1>5 DEF Verdict
<1> QED BY <1>1, <1>2, <1>3, <1>5, <1>6, <1>7 DEF AmountsTo


\* The idea and the event that a run adds to the source s0.
Retains(s, s0, n, run, m, plan) ==
  /\ Sourced(s) /\ s.runs = s0.runs /\ s.receipts = s0.receipts
  /\ Grew(s.ideas, s0.ideas, 1) /\ Grew(s.ledger, s0.ledger, 1)
  /\ s.ideas[Len(s0.ideas) + 1].mechanism = m
  /\ s.ideas[Len(s0.ideas) + 1].snapshot = run.snapshot
  /\ s.ledger[n + 1].type = "generated" /\ s.ledger[n + 1].subject = Len(s0.ideas) + 1
  /\ s.ledger[n + 1].at = run.at
  /\ s.ledger[n + 1].data.mechanism = m /\ s.ledger[n + 1].data.cluster = plan.cluster
  /\ s.ledger[n + 1].data.before = plan.before /\ s.ledger[n + 1].data.after = plan.after

LEMMA RetainedIs ==
  ASSUME NEW s0, NEW t, NEW n, NEW r, NEW m \in Mechanism, NEW s, NEW run, NEW plan,
         Sourced(s0), n = Len(s0.ledger), r \in 1..Len(s0.runs), run = s0.runs[r],
         plan = PlanOccurrence(run.owner, m, run.snapshot, run.at, LoadedClusters(s0, t)),
         s = Retained(s0, t, r, m)
  PROVE  Retains(s, s0, n, run, m, plan)
<1>a. PICK i, idea, e :
      /\ i = Len(s0.ideas) + 1
      /\ idea = [owner |-> run.owner, run |-> r, mechanism |-> m,
                 snapshot |-> run.snapshot, duplicate |-> plan.duplicate, at |-> run.at]
      /\ e = [Event(s0, "generated", i, run.owner, run.at,
              [run |-> r, mechanism |-> m, snapshot |-> run.snapshot,
               cluster |-> plan.cluster, duplicate |-> plan.duplicate,
               before |-> plan.before, after |-> plan.after])
          EXCEPT !.cause = run.receipt]
  OBVIOUS
<1>b. PICK ideas, ledger : ideas = Append(s0.ideas, idea) /\ ledger = Append(s0.ledger, e)
  OBVIOUS
<1>1. s = [[s0 EXCEPT !.ideas = ideas] EXCEPT !.ledger = ledger]
  <2>1. s = Appended([s0 EXCEPT !.ideas = ideas], e)
    BY <1>a, <1>b DEF Retained
  <2>2. [s0 EXCEPT !.ideas = ideas].ledger = s0.ledger
    BY DEF Sourced, IsRows
  <2> QED BY <1>b, <2>1, <2>2 DEF Appended
<1>2. /\ s.ledger = ledger /\ s.ideas = ideas /\ s.runs = s0.runs
      /\ s.adoptions = s0.adoptions /\ s.receipts = s0.receipts /\ IsRows(s)
  BY <1>1 DEF Sourced, IsRows
<1>3. /\ e.type = "generated" /\ e.subject = i /\ e.at = run.at
      /\ e.data.mechanism = m /\ e.data.cluster = plan.cluster
      /\ e.data.before = plan.before /\ e.data.after = plan.after
  BY <1>a DEF Event
<1>4. /\ Grew(s.ideas, s0.ideas, 1) /\ s.ideas[i] = idea
      /\ Grew(s.ledger, s0.ledger, 1) /\ s.ledger[n + 1] = e
  <2>1. /\ IsLog(s0.ideas) /\ IsLog(s0.ledger)
        /\ ideas = Append(s0.ideas, idea) /\ ledger = Append(s0.ledger, e)
    BY <1>b DEF Sourced
  <2>2. Grew(ideas, s0.ideas, 1) /\ ideas[Len(s0.ideas) + 1] = idea
    BY <2>1, LogAppend
  <2>3. Grew(ledger, s0.ledger, 1) /\ ledger[Len(s0.ledger) + 1] = e
    BY <2>1, LogAppend
  <2> QED BY <1>a, <1>2, <2>2, <2>3
<1>5. Sourced(s)
  <2>1. IsIdea(idea)
    BY <1>a DEF Sourced, IsRun, IsIdea
  <2>2. Len(s.ideas) = Len(s0.ideas) + 1 /\ Len(s0.ideas) \in Nat
    BY <1>4, LogLength DEF Grew, Sourced
  <2>3. \A j \in 1..Len(s.ideas) : IsIdea(s.ideas[j])
    <3> PICK d \in Nat : d = Len(s0.ideas)
      BY <2>2
    <3>0. \A j \in 1..d + 1 : j \in 1..d \/ j = d + 1
      OBVIOUS
    <3>1. \A j \in 1..Len(s.ideas) : j \in 1..Len(s0.ideas) \/ j = i
      BY <1>a, <2>2, <3>0
    <3> QED BY <1>4, <1>a, <2>1, <3>1 DEF Grew, Sourced
  <2> QED BY <1>2, <1>4, <2>3 DEF Sourced, Grew
<1>6. idea.mechanism = m /\ idea.snapshot = run.snapshot
  BY <1>a
<1> QED BY <1>a, <1>2, <1>3, <1>4, <1>5, <1>6, ZenonT(60) DEF Retains

LEMMA GeneratedReduced ==
  ASSUME NEW s, NEW t, NEW k, NEW u, NEW e, e = s.ledger[k], e.type = "generated",
         u = Online(s, t, k), u # None
  PROVE  /\ IsTables(u) /\ u.clusters = With(t.clusters, e.data.cluster, Row(e.data.after, k))
         /\ e.subject \notin DOMAIN t.states
         /\ u.states = With(t.states, e.subject,
               [owner |-> e.actor, cluster |-> e.data.cluster,
                decision |-> "active", latest |-> NoEvaluation, reason |-> None,
                experience |-> None, version |-> None,
                signal |-> e.data.after.signal, event |-> k])
<1>0. Online(s, t, k) # None
  OBVIOUS
<1>1. PICK cl, st : Splits(Online(s, t, k), s, t, k, cl, st)
  BY <1>0, OnlineIs, Zenon
<1>2. /\ u.clusters = cl /\ u.states = st /\ IsTables(u) /\ cl # None /\ st # None
  BY <1>1 DEF Splits, IsTables
<1> PICK b : b = FALSE
  OBVIOUS
<1>3. /\ cl = IncubationGenerated(s, t.clusters, k, b)
      /\ st = StateGenerated(s, cl, t.states, k)
  BY <1>1 DEF Splits, Clustered, Stated, ApplyToIncubation, ApplyToIdeaState
<1>4. cl = With(t.clusters, e.data.cluster, Row(e.data.after, k))
  BY <1>2, <1>3 DEF IncubationGenerated
<1>5. /\ e.subject \notin DOMAIN t.states
      /\ st = With(t.states, e.subject,
               [owner |-> e.actor, cluster |-> e.data.cluster,
                decision |-> "active", latest |-> NoEvaluation, reason |-> None,
                experience |-> None, version |-> None,
                signal |-> e.data.after.signal, event |-> k])
  BY <1>2, <1>3 DEF StateGenerated
<1> QED BY <1>2, <1>4, <1>5


\* The row that the planner leaves.
Placed(a, t, c, m, before) ==
  /\ IsGraded(a) /\ IsNamed(a, c)
  /\ ToSet(a.members) = {m} \cup (IF c \in DOMAIN t.clusters THEN MembersIn(t, c) ELSE {})
  /\ \A p : p.after = a /\ p.before = before /\ p.cluster = c => OccurrenceWellFormed(m, p)

LEMMA PlacedAndCounted ==
  ASSUME NEW s, NEW u, NEW s0, NEW t, NEW n \in Nat, NEW d \in Nat, NEW m \in Mechanism,
         NEW h, NEW at \in Time, NEW plan, NEW ls, NEW c, NEW a, NEW N,
         Good(s0, n, t), d = Len(s0.ideas), Loads(ls, s0, t),
         Enters(s, u, s0, t, n, d + 1, m, h, at), c = plan.cluster, a = plan.after,
         Founds(plan, t, ls, m, at) \/ Recurs(plan, t, ls, m, h, at),
         N = Mine(s0, t, c) \cup {d + 1}
  PROVE  Placed(a, t, c, m, plan.before) /\ AmountsTo(a, s, n + 1, u, N)
<1> PICK M : M = Mine(s0, t, c)
  OBVIOUS
<1>1. M \subseteq 1..d /\ Told(s0, n)
  BY DEF Mine, Good
<1>2. With1(s, u, s0, t, n, M, N, m, h, at)
  BY <1>1, Entered, Zenon
<1>3. CASE Founds(plan, t, ls, m, at)
  <2>1. c = m /\ m \notin DOMAIN t.clusters /\ plan.before = None /\ a = NewCluster(m, at)
    BY <1>3 DEF Founds
  <2>2. M = {}
    <3>1. \A i \in 1..d : t.states[i].cluster \in DOMAIN t.clusters
      BY DEF Good, Tabled
    <3> QED BY <2>1, <3>1 DEF Mine
  <2>3. AmountsTo(a, s, n + 1, u, N)
    <3>1. With1(s, u, s0, t, n, {}, N, m, h, at)
      BY <1>2, <2>2
    <3>2. AmountsTo(NewCluster(m, at), s, n + 1, u, N)
      BY <3>1, NewCounted, Zenon
    <3> QED BY <2>1, <3>2
  <2>4. /\ IsGraded(a) /\ IsNamed(a, m) /\ ToSet(a.members) = {m}
        /\ \A p : p.after = a /\ p.before = None /\ p.cluster = m => OccurrenceWellFormed(m, p)
    BY <2>1, NewIsGraded
  <2>5. Placed(a, t, c, m, plan.before)
    BY <2>1, <2>4 DEF Placed
  <2> QED BY <2>3, <2>5
<1>4. CASE Recurs(plan, t, ls, m, h, at)
  <2> PICK b : b = t.clusters[c].state
    OBVIOUS
  <2>1. c \in DOMAIN t.clusters /\ plan.before = b /\ a = Recurrence(ls[c], m, h, at)
    BY <1>4 DEF Recurs
  <2>2. b = ls[c].state /\ ls[c].snapshots = SnapshotsOf(s0, M)
    BY <2>1 DEF Loads
  <2>3. IsGraded(b) /\ IsNamed(b, c) /\ AmountsTo(b, s0, n, t, M)
    BY <2>1 DEF Good, Tabled, IsClusterRow, Counted
  <2>4. GrownTo(a, b, c, m, h \notin ls[c].snapshots, at)
    BY <2>1, <2>2, <2>3, RecurrenceIsGraded, Zenon
  <2>5. GrownTo(a, b, c, m, h \notin SnapshotsOf(s0, M), at)
    BY <2>2, <2>4
  <2>6. AmountsTo(a, s, n + 1, u, N)
    BY <1>1, <1>2, <2>3, <2>5, RecurrenceCounted, Zenon
  <2>7. Placed(a, t, c, m, plan.before)
    BY <2>1, <2>4 DEF GrownTo, Placed, MembersIn
  <2> QED BY <2>6, <2>7
<1> QED BY <1>3, <1>4

\* A retained idea that the reducers accept.
LEMMA GeneratedIsGood ==
  ASSUME NEW s0, NEW t, NEW n \in Nat, NEW run, NEW m \in Mechanism, NEW s, NEW u, NEW plan,
         NEW ls, Good(s0, n, t), n = Len(s0.ledger), IsRun(run), Loads(ls, s0, t),
         Fits(ls, plan.cluster, m),
         Founds(plan, t, ls, m, run.at) \/ Recurs(plan, t, ls, m, run.snapshot, run.at),
         Retains(s, s0, n, run, m, plan), u = Online(s, t, n + 1), u # None
  PROVE  Good(s, n + 1, u)
<1> PICK at, h, c, a, e : /\ at = run.at /\ h = run.snapshot /\ c = plan.cluster
                          /\ a = plan.after /\ e = s.ledger[n + 1]
  OBVIOUS
<1>1. Len(s0.ideas) \in Nat /\ DOMAIN t.states = 1..Len(s0.ideas)
  BY LogLength DEF Good, Sourced, Tabled
<1> PICK d \in Nat : d = Len(s0.ideas)
  BY <1>1
<1> PICK i \in Nat : i = d + 1
  OBVIOUS
<1>2. /\ at \in Time /\ e.type = "generated" /\ e.subject = i /\ e.at = at
      /\ e.data.mechanism = m /\ e.data.cluster = c /\ e.data.before = plan.before
      /\ e.data.after = a /\ s.ideas[i].mechanism = m /\ s.ideas[i].snapshot = h
      /\ Sourced(s) /\ Len(s.ideas) = d + 1 /\ \A j \in 1..d : s.ideas[j] = s0.ideas[j]
      /\ \A k \in 1..n : s.ledger[k] = s0.ledger[k]
  BY DEF Retains, Grew, IsRun
<1> PICK row : row = [owner |-> e.actor, cluster |-> c,
                decision |-> "active", latest |-> NoEvaluation, reason |-> None,
                experience |-> None, version |-> None,
                signal |-> a.signal, event |-> n + 1]
  OBVIOUS
<1>3. /\ IsTables(u) /\ u.clusters = With(t.clusters, c, Row(a, n + 1))
      /\ u.states = With(t.states, i, row)
  BY <1>2, GeneratedReduced
<1>4. /\ DOMAIN u.states = 1..d + 1 /\ u.states[i] = row
      /\ \A j \in 1..d : u.states[j] = t.states[j]
  <2>1. 1..d + 1 = (1..d) \cup {i} /\ i \notin 1..d
    OBVIOUS
  <2> QED BY <1>1, <1>3, <2>1 DEF With
<1>5. /\ DOMAIN u.clusters = DOMAIN t.clusters \cup {c} /\ u.clusters[c] = Row(a, n + 1)
      /\ \A x \in DOMAIN t.clusters : x # c => u.clusters[x] = t.clusters[x]
  BY <1>3 DEF With
<1>6. Enters(s, u, s0, t, n, d + 1, m, h, at)
  <2>1. (d + 1) - 1 = d
    OBVIOUS
  <2> QED BY <1>2, <1>4, <2>1 DEF Enters, Follows
<1> PICK N : N = Mine(s0, t, c) \cup {d + 1}
  OBVIOUS
<1>7. Placed(a, t, c, m, plan.before) /\ AmountsTo(a, s, n + 1, u, N)
  <2>1. Founds(plan, t, ls, m, at) \/ Recurs(plan, t, ls, m, h, at)
    OBVIOUS
  <2>2. c = plan.cluster /\ a = plan.after /\ at \in Time
    BY <1>2
  <2> QED BY <1>6, <2>1, <2>2, PlacedAndCounted, Zenon
<1>8. \A x : Mine(s, u, x) = IF x = c THEN N ELSE Mine(s0, t, x)
  <2>1. 1..d + 1 = (1..d) \cup {i} /\ i \notin 1..d
    OBVIOUS
  <2>2. row.cluster = c
    OBVIOUS
  <2> QED BY <1>2, <1>4, <2>1, <2>2, SMTT(60) DEF Mine
<1>9. Told(s, n + 1)
  <2>1. \A k \in 1..n + 1 : k \in 1..n \/ k = n + 1
    OBVIOUS
  <2>2. ASSUME NEW k \in 1..n
        PROVE  IsEvent(s, s.ledger[k])
    <3>1. IsEvent(s0, s.ledger[k])
      BY <1>2 DEF Good, Told
    <3>2. \A j : j \in 1..d => j \in 1..d + 1
      OBVIOUS
    <3> QED BY <1>2, <3>1, <3>2 DEF IsEvent
  <2>3. IsEvent(s, e)
    <3>1. OccurrenceWellFormed(e.data.mechanism, e.data)
      BY <1>2, <1>7 DEF Placed
    <3>2. i \in 1..d + 1
      OBVIOUS
    <3> QED BY <1>2, <3>1, <3>2 DEF IsEvent, Shaped
  <2> QED BY <2>1, <2>2, <2>3 DEF Told
<1>10. Tabled(s, u)
  <2>1. IsIdeaRow(row) /\ row.cluster = c
    BY <1>7 DEF IsIdeaRow, Placed, IsGraded, Decision
  <2>2. IsClusterRow(u.clusters[c], c)
    BY <1>5, <1>7 DEF IsClusterRow, Row, Placed
  <2>3. \A j \in 1..d + 1 : IsIdeaRow(u.states[j]) /\ u.states[j].cluster \in DOMAIN u.clusters
    <3>1. \A j \in 1..d + 1 : j \in 1..d \/ j = i
      OBVIOUS
    <3>2. \A j \in 1..d : IsIdeaRow(t.states[j]) /\ t.states[j].cluster \in DOMAIN t.clusters
      BY DEF Good, Tabled
    <3> QED BY <1>4, <1>5, <2>1, <3>1, <3>2
  <2>4. \A x \in DOMAIN u.clusters : IsClusterRow(u.clusters[x], x)
    BY <1>5, <2>2 DEF Good, Tabled
  <2> QED BY <1>2, <1>3, <1>4, <2>3, <2>4 DEF Tabled
<1>11. Counted(s, n + 1, u)
  <2> SUFFICES ASSUME NEW x \in DOMAIN u.clusters
               PROVE  AmountsTo(u.clusters[x].state, s, n + 1, u, Mine(s, u, x))
    BY DEF Counted
  <2>1. CASE x = c
    <3>1. u.clusters[x].state = a
      BY <1>5, <2>1 DEF Row
    <3>2. Mine(s, u, x) = N
      BY <1>8, <2>1
    <3> QED BY <1>7, <3>1, <3>2
  <2>2. CASE x # c
    <3> PICK M, b : M = Mine(s0, t, x) /\ b = t.clusters[x].state
      OBVIOUS
    <3>1. u.clusters[x].state = b /\ Mine(s, u, x) = M /\ x \in DOMAIN t.clusters
      BY <1>5, <1>8, <2>2
    <3>2. AmountsTo(b, s0, n, t, M)
      BY <3>1 DEF Good, Counted
    <3>3. M \subseteq 1..d
      BY DEF Mine
    <3>4. SameIdeas(s, s0, u, t, M)
      BY <1>2, <1>4, <3>3 DEF SameIdeas
    <3>5. e.subject \notin M
      BY <1>2, <3>3
    <3>6. Follows(s, s0, n)
      BY <1>2 DEF Follows
    <3>7. AmountsTo(b, s, n + 1, u, M)
      BY <3>2, <3>4, <3>5, <3>6, AmountsStill, Zenon
    <3> QED BY <3>1, <3>7
  <2> QED BY <2>1, <2>2
<1>12. Apart(u)
  <2>1. \A x \in DOMAIN t.clusters : x # c => MembersIn(u, x) = MembersIn(t, x)
    BY <1>5 DEF MembersIn
  <2>2. MembersIn(u, c) = {m} \cup (IF c \in DOMAIN t.clusters THEN MembersIn(t, c) ELSE {})
    <3>1. MembersIn(u, c) = ToSet(a.members)
      BY <1>5 DEF MembersIn, Row
    <3> QED BY <1>7, <3>1 DEF Placed
  <2>3. Apart(t) /\ Fits(ls, c, m)
    BY DEF Good
  <2>4. DOMAIN u.clusters = DOMAIN t.clusters \cup {c}
    BY <1>5
  <2> QED BY <2>1, <2>2, <2>3, <2>4, ApartStill, Zenon
<1>13. AdoptionsTold(s, n + 1, u)
  <2>1. ASSUME NEW k \in 1..n + 1, s.ledger[k].type = "adopted"
        PROVE  SaysAdopted(s, u, s.ledger[k])
    <3>1. k \in 1..n /\ s.ledger[k] = s0.ledger[k]
      <4>1. k # n + 1
        BY <1>2, <2>1
      <4>2. k \in 1..n
        BY <4>1
      <4> QED BY <1>2, <4>2
    <3>2. SaysAdopted(s0, t, s.ledger[k]) /\ s.ledger[k].subject \in 1..d
      BY <2>1, <3>1 DEF Good, AdoptionsTold, Told, IsEvent, Signals
    <3> QED BY <1>2, <1>4, <3>2 DEF SaysAdopted
  <2>2. ASSUME NEW j \in 1..Len(s.ideas), u.states[j].decision = "adopted"
        PROVE  \E k \in 1..n + 1 : AdoptionOf(s.ledger[k], j)
    <3>1. j # i
      BY <1>4, <2>2
    <3>2. j \in 1..d /\ t.states[j].decision = "adopted"
      BY <1>2, <1>4, <2>2, <3>1
    <3>3. PICK k \in 1..n : AdoptionOf(s0.ledger[k], j)
      BY <3>2 DEF Good, AdoptionsTold
    <3>4. k \in 1..n + 1 /\ AdoptionOf(s.ledger[k], j)
      BY <1>2, <3>3
    <3> QED BY <3>4
  <2> QED BY <2>1, <2>2 DEF AdoptionsTold
<1> QED BY <1>2, <1>9, <1>10, <1>11, <1>12, <1>13 DEF Good


-----------------------------------------------------------------------------
(* Several events: those that a command appends, and the ideas of a run.   *)

\* Event n + 1 may follow the n before it.
Ensues(r, n) ==
  /\ IsEvent(r, r.ledger[n + 1])
  /\ r.ledger[n + 1].type \in {"experience", "archived", "rejected", "evaluated", "adopted"}
  /\ r.ledger[n + 1].type = "evaluated" =>
       r.ledger[n + 1].data.previous = VerdictOf(r, n, r.ledger[n + 1].subject)

LEMMA NextEvent ==
  ASSUME NEW r, NEW n \in Nat, NEW t, NEW u, Good(r, n, t), Ensues(r, n),
         n <= Len(r.ledger), u = Online(r, t, n + 1), u # None
  PROVE  Good(r, n + 1, u)
<1> PICK e : e = r.ledger[n + 1]
  OBVIOUS
<1>1. /\ IsEvent(r, e)
      /\ e.type \in {"experience", "archived", "rejected", "evaluated", "adopted"}
      /\ e.type = "evaluated" => e.data.previous = VerdictOf(r, n, e.subject)
  BY DEF Ensues
<1>2. CASE e.type \in {"experience", "archived", "rejected"}
  BY <1>1, <1>2, QuietEvent, Zenon
<1>3. CASE e.type = "evaluated"
  BY <1>1, <1>3, EvaluatedEvent, Zenon
<1>4. CASE e.type = "adopted"
  BY <1>1, <1>4, AdoptedEvent, Zenon
<1> QED BY <1>1, <1>2, <1>3, <1>4

\* The tables after each of N events.
Projection(f, s, t, k, N) ==
  f = [n \in 0..N |-> IF n = 0 THEN t
                      ELSE LET before == f[n - 1]
                           IN IF before = None THEN None ELSE Online(s, before, k + n)]

LEMMA ProjectionExists ==
  ASSUME NEW s, NEW t, NEW k
  PROVE  \A N \in Nat : \E f : Projection(f, s, t, k, N)
<1> PICK S : S = {N \in Nat : ~ \E f : Projection(f, s, t, k, N)}
  OBVIOUS
<1> SUFFICES ASSUME S # {} PROVE FALSE
  OBVIOUS
<1>1. PICK N \in S : \A M \in S : ~(<<M, N>> \in OpToRel(<, Nat))
  BY WFMin, NatLessThanWellFounded
<1>2. \A M \in S : ~(M < N)
  BY <1>1 DEF OpToRel
<1>3. N \in Nat /\ ~ \E f : Projection(f, s, t, k, N)
  OBVIOUS
<1>4. CASE N = 0
  <2> PICK g : g = [n \in 0..0 |-> t]
    OBVIOUS
  <2>1. 0..0 = {0}
    OBVIOUS
  <2>2. Projection(g, s, t, k, 0)
    BY <2>1 DEF Projection
  <2> QED BY <1>3, <1>4, <2>2
<1>5. CASE N # 0
  <2> PICK M \in Nat : N = M + 1
    <3>1. N - 1 \in Nat /\ N = (N - 1) + 1
      BY <1>3, <1>5
    <3> QED BY <3>1
  <2>1. PICK f : Projection(f, s, t, k, M)
    <3>1. M < N
      OBVIOUS
    <3>2. M \notin S
      BY <1>2, <3>1
    <3> QED BY <3>2
  <2> PICK last : last = IF f[M] = None THEN None ELSE Online(s, f[M], k + N)
    OBVIOUS
  <2>2. PICK g : g = [n \in 0..N |-> IF n = N THEN last ELSE f[n]]
    OBVIOUS
  <2>3. g[N] = last /\ \A n \in 0..M : g[n] = f[n]
    BY <2>2
  <2>4. \A n \in 0..N : g[n] = IF n = 0 THEN t
                               ELSE LET before == g[n - 1]
                                    IN IF before = None THEN None ELSE Online(s, before, k + n)
    <3> TAKE n \in 0..N
    <3>1. CASE n = N
      <4>1. n - 1 = M /\ M \in 0..M /\ n # 0
        BY <3>1
      <4>2. g[n - 1] = f[M] /\ g[n] = last
        BY <2>3, <3>1, <4>1
      <4> QED BY <3>1, <4>1, <4>2
    <3>2. CASE n # N
      <4>1. n \in 0..M /\ (n # 0 => n - 1 \in 0..M)
        BY <3>2
      <4>2. f[n] = IF n = 0 THEN t
                   ELSE LET before == f[n - 1]
                        IN IF before = None THEN None ELSE Online(s, before, k + n)
        BY <2>1, <4>1 DEF Projection
      <4>3. g[n] = f[n] /\ (n # 0 => g[n - 1] = f[n - 1])
        BY <2>3, <4>1
      <4> QED BY <4>2, <4>3
    <3> QED BY <3>1, <3>2
  <2>5. g = [n \in 0..N |-> g[n]]
    BY <2>2
  <2>6. Projection(g, s, t, k, N)
    BY <2>4, <2>5 DEF Projection
  <2> QED BY <1>3, <2>6
<1> QED BY <1>4, <1>5

LEMMA ProjectedIs ==
  ASSUME NEW s, NEW t, NEW k, NEW N \in Nat, N = Len(s.ledger) - k
  PROVE  \E f : Projection(f, s, t, k, N) /\ Projected(s, t, k) = f[N]
<1> PICK f : f = CHOOSE g : Projection(g, s, t, k, N)
  OBVIOUS
<1>1. Projection(f, s, t, k, N)
  BY ProjectionExists
<1>2. Projected(s, t, k) = f[N]
  BY DEF Projected, Projection
<1> QED BY <1>1, <1>2

\* The reducers keep the invariant through all the events of a command.
LEMMA AllEvents ==
  ASSUME NEW r, NEW t, NEW k \in Nat, NEW N \in Nat, N = Len(r.ledger) - k,
         k + N = Len(r.ledger), Good(r, k, t),
         \A n \in 0..N - 1 : Ensues(r, k + n), Projected(r, t, k) # None
  PROVE  Good(r, Len(r.ledger), Projected(r, t, k))
<1>1. PICK f : Projection(f, r, t, k, N) /\ Projected(r, t, k) = f[N]
  BY ProjectedIs
<1>2. \A n \in 0..N : f[n] = IF n = 0 THEN t
                             ELSE LET before == f[n - 1]
                                  IN IF before = None THEN None ELSE Online(r, before, k + n)
  BY <1>1 DEF Projection
<1> PICK S : S = {n \in 0..N : f[n] # None /\ ~Good(r, k + n, f[n])}
  OBVIOUS
<1>3. S = {}
  <2> SUFFICES ASSUME S # {} PROVE FALSE
    OBVIOUS
  <2>0. S \subseteq Nat
    OBVIOUS
  <2>1. PICK n \in S : \A m \in S : ~(<<m, n>> \in OpToRel(<, Nat))
    BY <2>0, WFMin, NatLessThanWellFounded
  <2>2. \A m \in S : ~(m < n)
    BY <2>0, <2>1 DEF OpToRel
  <2>3. n \in 0..N /\ f[n] # None /\ ~Good(r, k + n, f[n])
    OBVIOUS
  <2>4. n # 0
    <3>1. f[0] = t /\ k + 0 = k
      BY <1>2
    <3> QED BY <2>3, <3>1
  <2> PICK m \in Nat : n = m + 1
    <3>1. n - 1 \in Nat /\ n = (n - 1) + 1
      BY <2>3, <2>4
    <3> QED BY <3>1
  <2>5. m \in 0..N /\ m \in 0..N - 1 /\ m < n /\ n - 1 = m
    BY <2>3
  <2>6. f[m] # None /\ f[n] = Online(r, f[m], k + n)
    BY <1>2, <2>3, <2>4, <2>5
  <2>7. Good(r, k + m, f[m])
    BY <2>2, <2>5, <2>6
  <2> PICK p \in Nat : p = k + m
    OBVIOUS
  <2>8. k + n = p + 1 /\ p <= Len(r.ledger)
    BY <2>5
  <2>9. Ensues(r, p) /\ Good(r, p, f[m]) /\ f[n] = Online(r, f[m], p + 1)
    BY <2>5, <2>6, <2>7, <2>8
  <2>10. Good(r, p + 1, f[n])
    BY <2>3, <2>8, <2>9, NextEvent, Zenon
  <2> QED BY <2>3, <2>8, <2>10
<1>4. N \in 0..N
  OBVIOUS
<1> QED BY <1>1, <1>3, <1>4


\* A run has retained some of its ideas; runs are those that had started.
IsAcc(acc, runs, receipts) ==
  /\ acc = [source |-> acc.source, tables |-> acc.tables, failure |-> acc.failure]
  /\ acc.source.runs = runs /\ acc.source.receipts = receipts
  /\ Good(acc.source, Len(acc.source.ledger), acc.tables)
  /\ acc.failure \in {None, "clusters", "reducers"}

LEMMA RetainIsGood ==
  ASSUME NEW acc, NEW runs, NEW receipts, NEW r \in 1..Len(runs), NEW m \in Mechanism, NEW b,
         IsAcc(acc, runs, receipts), b = RetainNext(acc, r, m)
  PROVE  IsAcc(b, runs, receipts)
<1> PICK s0, t, s, u : /\ s0 = acc.source /\ t = acc.tables /\ s = Retained(s0, t, r, m)
                       /\ u = Online(s, t, Len(s.ledger))
  OBVIOUS
<1>1. b = IF acc.failure # None THEN acc
          ELSE IF ~ClustersLoad(s0, t) THEN [acc EXCEPT !.failure = "clusters"]
          ELSE IF u = None THEN [acc EXCEPT !.failure = "reducers"]
          ELSE [source |-> s, tables |-> u, failure |-> None]
  BY DEF RetainNext, Given
<1>2. CASE b = acc
  BY <1>2
<1>3. CASE b = [acc EXCEPT !.failure = "clusters"] \/ b = [acc EXCEPT !.failure = "reducers"]
  <2>1. b.failure \in {"clusters", "reducers"} /\ b.source = acc.source /\ b.tables = acc.tables
        /\ b = [source |-> b.source, tables |-> b.tables, failure |-> b.failure]
    BY <1>3 DEF IsAcc
  <2> QED BY <2>1 DEF IsAcc
<1>4. CASE u # None /\ b = [source |-> s, tables |-> u, failure |-> None]
  <2> PICK n, run, ls, plan :
        /\ n = Len(s0.ledger) /\ run = s0.runs[r] /\ ls = LoadedClusters(s0, t)
        /\ plan = PlanOccurrence(run.owner, m, run.snapshot, run.at, ls)
    OBVIOUS
  <2>1. Good(s0, n, t) /\ s0.runs = runs /\ s0.receipts = receipts
    BY DEF IsAcc
  <2>2. Sourced(s0) /\ n \in Nat /\ IsRun(run)
    BY <2>1, LogLength DEF Good, Sourced
  <2>3. Loads(ls, s0, t)
    BY <2>1, LoadedIs
  <2>4. /\ Fits(ls, plan.cluster, m)
        /\ Founds(plan, t, ls, m, run.at) \/ Recurs(plan, t, ls, m, run.snapshot, run.at)
    BY <2>1, <2>3, PlanIs
  <2>5. Retains(s, s0, n, run, m, plan)
    <3>1. r \in 1..Len(s0.runs)
      BY <2>1
    <3> QED BY <2>2, <3>1, RetainedIs
  <2>6. Len(s.ledger) = n + 1 /\ s.runs = runs /\ s.receipts = receipts
    BY <2>1, <2>5 DEF Retains, Grew
  <2>7. u = Online(s, t, n + 1)
    BY <2>6
  <2>8. Good(s, n + 1, u)
    BY <1>4, <2>1, <2>2, <2>3, <2>4, <2>5, <2>7, GeneratedIsGood
  <2>9. b.source = s /\ b.tables = u /\ b.failure = None
        /\ b = [source |-> b.source, tables |-> b.tables, failure |-> b.failure]
    BY <1>4
  <2> QED BY <2>6, <2>8, <2>9 DEF IsAcc
<1> QED BY <1>1, <1>2, <1>3, <1>4

\* What a run has after each of its N ideas.
Retention(f, start, r, ms, N) ==
  f = [n \in 0..N |-> IF n = 0 THEN start
                      ELSE LET before == f[n - 1] IN RetainNext(before, r, ms[n])]

LEMMA RetentionExists ==
  ASSUME NEW start, NEW r, NEW ms
  PROVE  \A N \in Nat : \E f : Retention(f, start, r, ms, N)
<1> PICK S : S = {N \in Nat : ~ \E f : Retention(f, start, r, ms, N)}
  OBVIOUS
<1> SUFFICES ASSUME S # {} PROVE FALSE
  OBVIOUS
<1>1. PICK N \in S : \A M \in S : ~(<<M, N>> \in OpToRel(<, Nat))
  BY WFMin, NatLessThanWellFounded
<1>2. \A M \in S : ~(M < N)
  BY <1>1 DEF OpToRel
<1>3. N \in Nat /\ ~ \E f : Retention(f, start, r, ms, N)
  OBVIOUS
<1>4. CASE N = 0
  <2> PICK g : g = [n \in 0..0 |-> start]
    OBVIOUS
  <2>1. 0..0 = {0}
    OBVIOUS
  <2>2. Retention(g, start, r, ms, 0)
    BY <2>1 DEF Retention
  <2> QED BY <1>3, <1>4, <2>2
<1>5. CASE N # 0
  <2> PICK M \in Nat : N = M + 1
    <3>1. N - 1 \in Nat /\ N = (N - 1) + 1
      BY <1>3, <1>5
    <3> QED BY <3>1
  <2>1. PICK f : Retention(f, start, r, ms, M)
    <3>1. M < N
      OBVIOUS
    <3>2. M \notin S
      BY <1>2, <3>1
    <3> QED BY <3>2
  <2> PICK last : last = RetainNext(f[M], r, ms[N])
    OBVIOUS
  <2>2. PICK g : g = [n \in 0..N |-> IF n = N THEN last ELSE f[n]]
    OBVIOUS
  <2>3. g[N] = last /\ \A n \in 0..M : g[n] = f[n]
    BY <2>2
  <2>4. \A n \in 0..N : g[n] = IF n = 0 THEN start
                               ELSE LET before == g[n - 1] IN RetainNext(before, r, ms[n])
    <3> TAKE n \in 0..N
    <3>1. CASE n = N
      <4>1. n - 1 = M /\ M \in 0..M /\ n # 0
        BY <3>1
      <4>2. g[n - 1] = f[M] /\ g[n] = last
        BY <2>3, <3>1, <4>1
      <4> QED BY <3>1, <4>1, <4>2
    <3>2. CASE n # N
      <4>1. n \in 0..M /\ (n # 0 => n - 1 \in 0..M)
        BY <3>2
      <4>2. f[n] = IF n = 0 THEN start
                   ELSE LET before == f[n - 1] IN RetainNext(before, r, ms[n])
        BY <2>1, <4>1 DEF Retention
      <4>3. g[n] = f[n] /\ (n # 0 => g[n - 1] = f[n - 1])
        BY <2>3, <4>1
      <4> QED BY <4>2, <4>3
    <3> QED BY <3>1, <3>2
  <2>5. g = [n \in 0..N |-> g[n]]
    BY <2>2
  <2>6. Retention(g, start, r, ms, N)
    BY <2>4, <2>5 DEF Retention
  <2> QED BY <1>3, <2>6
<1> QED BY <1>4, <1>5

LEMMA AllRetainedIs ==
  ASSUME NEW r, NEW ms, NEW N \in Nat, NEW start, N = Len(ms),
         start = [source |-> source, tables |-> tables, failure |-> None]
  PROVE  \E f : Retention(f, start, r, ms, N) /\ AllRetained(r, ms) = f[N]
<1> PICK f : f = CHOOSE g : Retention(g, start, r, ms, N)
  OBVIOUS
<1>1. Retention(f, start, r, ms, N)
  BY RetentionExists
<1>2. AllRetained(r, ms) = f[N]
  BY DEF AllRetained, Retention
<1> QED BY <1>1, <1>2

\* All the ideas of a run find their cluster.
LEMMA RunIsGood ==
  ASSUME NEW r \in 1..Len(source.runs), NEW N \in Nat, NEW ms \in [1..N -> Mechanism],
         Good(source, Len(source.ledger), tables)
  PROVE  IsAcc(AllRetained(r, ms), source.runs, source.receipts)
<1> PICK start : start = [source |-> source, tables |-> tables, failure |-> None]
  OBVIOUS
<1> PICK runs, receipts : runs = source.runs /\ receipts = source.receipts
  OBVIOUS
<1>1. IsAcc(start, runs, receipts)
  <2>1. start.source = source /\ start.tables = tables /\ start.failure = None
        /\ start = [source |-> start.source, tables |-> start.tables, failure |-> start.failure]
    OBVIOUS
  <2> QED BY <2>1 DEF IsAcc
<1>2. N = Len(ms)
  OBVIOUS
<1>3. PICK f : Retention(f, start, r, ms, N) /\ AllRetained(r, ms) = f[N]
  BY <1>2, AllRetainedIs, ZenonT(30)
<1>4. \A n \in 0..N : f[n] = IF n = 0 THEN start
                             ELSE LET before == f[n - 1] IN RetainNext(before, r, ms[n])
  BY <1>3 DEF Retention
<1> PICK S : S = {n \in 0..N : ~IsAcc(f[n], runs, receipts)}
  OBVIOUS
<1>5. S = {}
  <2> SUFFICES ASSUME S # {} PROVE FALSE
    OBVIOUS
  <2>0. S \subseteq Nat
    OBVIOUS
  <2>1. PICK n \in S : \A m \in S : ~(<<m, n>> \in OpToRel(<, Nat))
    BY <2>0, WFMin, NatLessThanWellFounded
  <2>2. \A m \in S : ~(m < n)
    BY <2>0, <2>1 DEF OpToRel
  <2>3. n \in 0..N /\ ~IsAcc(f[n], runs, receipts)
    OBVIOUS
  <2>4. n # 0
    <3>1. f[0] = start
      BY <1>4
    <3> QED BY <1>1, <2>3, <3>1
  <2> PICK m \in Nat : n = m + 1
    <3>1. n - 1 \in Nat /\ n = (n - 1) + 1
      BY <2>3, <2>4
    <3> QED BY <3>1
  <2>5. m \in 0..N /\ m < n /\ n - 1 = m /\ n \in 1..N
    BY <2>3
  <2>6. f[n] = RetainNext(f[m], r, ms[n]) /\ ms[n] \in Mechanism
    BY <1>4, <2>3, <2>4, <2>5
  <2>7. IsAcc(f[m], runs, receipts)
    BY <2>2, <2>5
  <2>8. r \in 1..Len(runs)
    OBVIOUS
  <2>9. IsAcc(f[n], runs, receipts)
    BY <2>6, <2>7, <2>8, RetainIsGood, Zenon
  <2> QED BY <2>3, <2>9
<1>6. N \in 0..N
  OBVIOUS
<1> QED BY <1>3, <1>5, <1>6


-----------------------------------------------------------------------------
(* The commands.                                                           *)

Components == {"clusters", "reducers", "plan", "adoption"}
IInv == Good(source, Len(source.ledger), tables) /\ refused \subseteq Components

\* The source s has N events more, of the same ideas.
Prolongs(s, N) ==
  /\ Sourced(s) /\ s.ideas = source.ideas /\ Grew(s.ledger, source.ledger, N)
  /\ \A n \in 0..N - 1 : Ensues(s, Len(source.ledger) + n)

LEMMA DeathIsGood ==
  ASSUME IInv, NEW c \in Components, Dies(c)
  PROVE  IInv'
BY DEF IInv, Dies

LEMMA CommitIsGood ==
  ASSUME IInv, NEW s, NEW N \in Nat, Prolongs(s, N), Commit(s)
  PROVE  IInv'
<1> PICK k : k = Len(source.ledger)
  OBVIOUS
<1> PICK t : t = Projected(s, tables, k)
  OBVIOUS
<1>1. IF t = None
      THEN refused' = refused \cup {"reducers"} /\ UNCHANGED <<source, tables>>
      ELSE source' = s /\ tables' = t /\ UNCHANGED refused
  BY DEF Commit
<1>2. CASE t = None
  <2>1. IInv'
    BY <1>1, <1>2 DEF IInv, Components
  <2> QED BY <2>1
<1>3. CASE t # None
  <2>1. Good(source, k, tables) /\ k \in Nat
    BY LogLength DEF IInv, Good, Sourced
  <2>2. Sourced(s) /\ SameUpTo(source, s, k) /\ Len(s.ledger) = k + N
    BY DEF Prolongs, Grew, SameUpTo
  <2>3. Good(s, k, tables)
    BY <2>1, <2>2, GoodStill, Zenon
  <2>4. \A n \in 0..N - 1 : Ensues(s, k + n)
    BY DEF Prolongs
  <2>5. N = Len(s.ledger) - k /\ k + N = Len(s.ledger)
    BY <2>1, <2>2
  <2>6. Good(s, Len(s.ledger), Projected(s, tables, k))
    BY <1>3, <2>1, <2>3, <2>4, <2>5, AllEvents, Zenon
  <2> QED BY <1>1, <1>3, <2>6 DEF IInv
<1> QED BY <1>2, <1>3

\* The rows of a command before it appends its events.
Reserves(s) == Sourced(s) /\ s.ideas = source.ideas /\ s.ledger = source.ledger

LEMMA ReservedIs ==
  ASSUME IInv, NEW receipt, NEW s, s = Reserved(source, receipt)
  PROVE  /\ Reserves(s) /\ s.runs = source.runs /\ s.adoptions = source.adoptions
         /\ IsRows(s)
<1> PICK receipts : receipts = Append(source.receipts, receipt)
  OBVIOUS
<1>1. s = [source EXCEPT !.receipts = receipts] /\ Sourced(source)
  BY DEF Reserved, IInv, Good
<1>2. /\ s.ledger = source.ledger /\ s.ideas = source.ideas /\ s.runs = source.runs
      /\ s.adoptions = source.adoptions /\ s.receipts = receipts
      /\ IsRows(s)
  BY <1>1 DEF Sourced, IsRows
<1>3. Sourced(s)
  BY <1>1, <1>2 DEF Sourced
<1> QED BY <1>2, <1>3 DEF Reserves

\* An event that a command may append.
Appendable(e) ==
  /\ IsEvent(source, e)
  /\ e.type \in {"experience", "archived", "rejected", "evaluated", "adopted"}
  /\ e.type = "evaluated" =>
       e.data.previous = VerdictOf(source, Len(source.ledger), e.subject)

LEMMA VerdictSame ==
  ASSUME NEW s, NEW r, NEW n \in Nat, NEW i, Follows(r, s, n)
  PROVE  VerdictOf(r, n, i) = VerdictOf(s, n, i)
<1> PICK S : S = Evaluations(s, n, i)
  OBVIOUS
<1>1. Evaluations(r, n, i) = S
  BY DEF Evaluations, Follows
<1>2. CASE S = {}
  BY <1>1, <1>2 DEF VerdictOf
<1>3. CASE S # {}
  <2>1. Max(S) \in 1..n
    BY <1>3, EvaluationsAre
  <2>2. r.ledger[Max(S)] = s.ledger[Max(S)]
    BY <2>1 DEF Follows
  <2> QED BY <1>1, <1>3, <2>2 DEF VerdictOf
<1> QED BY <1>2, <1>3

\* The event e at the end of the ledger of s ensues.
LEMMA EnsuesAt ==
  ASSUME IInv, NEW s, NEW n \in Nat, NEW e, s.ideas = source.ideas, e = s.ledger[n + 1],
         Follows(s, source, Len(source.ledger)), Appendable(e),
         e.type = "evaluated" => n = Len(source.ledger)
  PROVE  Ensues(s, n)
<1>1. IsEvent(s, e)
  BY DEF Appendable, IsEvent
<1>2. e.type = "evaluated" => e.data.previous = VerdictOf(s, n, e.subject)
  BY VerdictSame DEF Appendable
<1>3. e.type \in {"experience", "archived", "rejected", "evaluated", "adopted"}
  BY DEF Appendable
<1> QED BY <1>1, <1>2, <1>3 DEF Ensues

LEMMA AppendedIs ==
  ASSUME NEW s0, NEW e, NEW s, s = Appended(s0, e), Sourced(s0)
  PROVE  /\ Sourced(s) /\ s.ideas = s0.ideas /\ s.runs = s0.runs
         /\ Grew(s.ledger, s0.ledger, 1) /\ s.ledger[Len(s0.ledger) + 1] = e
<1> PICK ledger : ledger = Append(s0.ledger, e)
  OBVIOUS
<1>1. s = [s0 EXCEPT !.ledger = ledger] /\ IsLog(s0.ledger)
  BY DEF Appended, Sourced
<1>2. /\ s.ledger = ledger /\ s.ideas = s0.ideas /\ s.runs = s0.runs /\ IsRows(s)
  BY <1>1 DEF Sourced, IsRows
<1>3. Grew(ledger, s0.ledger, 1) /\ ledger[Len(s0.ledger) + 1] = e
  BY <1>1, LogAppend
<1>4. Sourced(s)
  BY <1>2, <1>3 DEF Sourced, Grew
<1> QED BY <1>2, <1>3, <1>4

\* A command with one event.
LEMMA OneEvent ==
  ASSUME IInv, NEW s0, Reserves(s0), NEW e, Appendable(e), Commit(Appended(s0, e))
  PROVE  IInv'
<1> PICK s : s = Appended(s0, e)
  OBVIOUS
<1>1. /\ Sourced(s) /\ s.ideas = s0.ideas
      /\ Grew(s.ledger, s0.ledger, 1) /\ s.ledger[Len(s0.ledger) + 1] = e
  BY AppendedIs DEF Reserves
<1>2. /\ s.ideas = source.ideas /\ Grew(s.ledger, source.ledger, 1)
      /\ s.ledger[Len(source.ledger) + 1] = e
  BY <1>1 DEF Reserves
<1>3. Len(source.ledger) \in Nat
  BY LogLength DEF IInv, Good, Sourced
<1>4. Ensues(s, Len(source.ledger))
  <2>1. Follows(s, source, Len(source.ledger))
    BY <1>2 DEF Grew, Follows
  <2> QED BY <1>2, <1>3, <2>1, EnsuesAt
<1>5. \A n \in 0..1 - 1 : Ensues(s, Len(source.ledger) + n)
  <2>1. \A n \in 0..1 - 1 : Len(source.ledger) + n = Len(source.ledger)
    BY <1>3
  <2> QED BY <1>4, <2>1
<1>6. Prolongs(s, 1)
  BY <1>1, <1>2, <1>5 DEF Prolongs
<1>7. 1 \in Nat /\ Commit(s)
  OBVIOUS
<1> QED BY <1>6, <1>7, CommitIsGood, Zenon


LEMMA StartRunIsGood ==
  ASSUME IInv, NEW owner \in Agent, NEW snapshot, NEW clock \in Time,
         StartRun(owner, snapshot, clock)
  PROVE  IInv'
<1>a. PICK r, run, runs :
      /\ r = Reserved(source, Receipt("run", owner, snapshot, clock, None,
                                      Len(source.runs) + 1, None))
      /\ run = [owner |-> owner, snapshot |-> snapshot, at |-> clock,
                receipt |-> Len(r.receipts), ended |-> None]
      /\ runs = Append(r.runs, run)
  OBVIOUS
<1>b. PICK s : s = [r EXCEPT !.runs = runs]
  OBVIOUS
<1>1. source' = s /\ UNCHANGED <<tables, refused>>
  BY <1>a, <1>b DEF StartRun
<1>2. Reserves(r) /\ r.runs = source.runs /\ IsRows(r)
  BY <1>a, ReservedIs
<1>3. /\ s.ledger = source.ledger /\ s.ideas = source.ideas /\ s.runs = runs /\ IsRows(s)
  BY <1>b, <1>2 DEF Reserves, IsRows
<1>4. Sourced(s)
  <2> PICK old : old = source.runs
    OBVIOUS
  <2>1. Sourced(source) /\ IsLog(old)
    BY DEF IInv, Good, Sourced
  <2>a. runs = Append(old, run)
    BY <1>a, <1>2
  <2>2. Grew(runs, old, 1) /\ runs[Len(old) + 1] = run
    BY <2>1, <2>a, LogAppend
  <2>3. IsRun(run)
    BY <1>a DEF IsRun
  <2>4. \A j \in 1..Len(runs) : IsRun(runs[j])
    <3> PICK d \in Nat : d = Len(old)
      BY <2>1, LogLength
    <3>1. \A j \in 1..d + 1 : j \in 1..d \/ j = d + 1
      OBVIOUS
    <3>2. Len(runs) = d + 1 /\ \A j \in 1..d : runs[j] = old[j]
      BY <2>2 DEF Grew
    <3>3. \A j \in 1..d : IsRun(old[j])
      BY <2>1 DEF Sourced
    <3> QED BY <2>2, <2>3, <3>1, <3>2, <3>3
  <2> QED BY <1>3, <2>1, <2>2, <2>4 DEF Sourced, Grew
<1>5. Good(s, Len(source.ledger), tables)
  <2> PICK n \in Nat : n = Len(source.ledger)
    BY LogLength DEF IInv, Good, Sourced
  <2>1. Good(source, n, tables)
    BY DEF IInv
  <2>2. SameUpTo(source, s, n)
    BY <1>3 DEF SameUpTo
  <2>3. Good(s, n, tables)
    BY <1>4, <2>1, <2>2, GoodStill, Zenon
  <2> QED BY <2>3
<1> QED BY <1>1, <1>3, <1>5 DEF IInv

LEMMA LogExcept ==
  ASSUME NEW s, IsLog(s), NEW i \in DOMAIN s, NEW x, NEW t, t = [s EXCEPT ![i] = x]
  PROVE  /\ IsLog(t) /\ Len(t) = Len(s) /\ t[i] = x
         /\ \A j \in 1..Len(s) : j # i => t[j] = s[j]
<1> PICK S : S = {s[n] : n \in DOMAIN s} \cup {x}
  OBVIOUS
<1>1. s \in Seq(S) /\ x \in S
  BY SeqMonotonic DEF IsLog
<1>2. t \in Seq(S) /\ Len(t) = Len(s) /\ t[i] = x /\ \A j \in 1..Len(s) : j # i => t[j] = s[j]
  BY <1>1
<1>3. IsLog(t)
  BY <1>2, LogOf
<1> QED BY <1>2, <1>3

LEMMA FinalizeIsGood ==
  ASSUME IInv, NEW r \in DOMAIN source.runs, NEW ms \in Retainable, Finalize(r, ms)
  PROVE  IInv'
<1>1. PICK N \in Nat : ms \in [1..N -> Mechanism]
  BY BoundsAssumption DEF Retainable
<1>2. r \in 1..Len(source.runs)
  BY LogLength DEF IInv, Good, Sourced
<1> PICK done : done = AllRetained(r, ms)
  OBVIOUS
<1>3. IsAcc(done, source.runs, source.receipts)
  BY <1>1, <1>2, RunIsGood DEF IInv
<1>4. CASE done.failure # None
  <2>1. Dies(done.failure)
    BY <1>4 DEF Finalize
  <2>2. done.failure \in Components
    BY <1>3, <1>4 DEF IsAcc, Components
  <2> QED BY <2>1, <2>2, DeathIsGood
<1>5. CASE done.failure = None
  <2>a. PICK s0, run, runs, receipts :
        /\ s0 = done.source
        /\ run = [s0.runs[r] EXCEPT !.ended = Len(s0.ledger)]
        /\ runs = [s0.runs EXCEPT ![r] = run]
        /\ receipts = [s0.receipts EXCEPT ![source.runs[r].receipt] =
                         [@ EXCEPT !.completed = source.runs[r].at]]
    OBVIOUS
  <2>b. PICK s : s = [[s0 EXCEPT !.runs = runs] EXCEPT !.receipts = receipts]
    OBVIOUS
  <2>1. Good(s0, Len(s0.ledger), done.tables) /\ s0.runs = source.runs
    BY <1>3, <2>a DEF IsAcc
  <2>2. Sourced(s0) /\ IsRows(s0) /\ IsLog(s0.runs)
    BY <2>1 DEF Good, Sourced
  <2>3. source' = s /\ tables' = done.tables /\ UNCHANGED refused
    <3>1. s = [done.source EXCEPT
               !.runs[r].ended = Len(done.source.ledger),
               !.receipts[source.runs[r].receipt].completed = source.runs[r].at]
      BY <2>2, <2>a, <2>b DEF IsRows
    <3> QED BY <1>5, <2>a, <3>1 DEF Finalize
  <2>4. /\ s.ledger = s0.ledger /\ s.ideas = s0.ideas /\ s.runs = runs /\ IsRows(s)
    BY <2>2, <2>b DEF IsRows
  <2>5. IsRun(run)
    <3>1. IsRun(s0.runs[r])
      BY <1>2, <2>1, <2>2 DEF Sourced
    <3> QED BY <2>a, <3>1 DEF IsRun
  <2>6. /\ IsLog(runs) /\ Len(runs) = Len(s0.runs) /\ runs[r] = run
        /\ \A j \in 1..Len(s0.runs) : j # r => runs[j] = s0.runs[j]
    <3>1. runs = [s0.runs EXCEPT ![r] = run] /\ r \in DOMAIN s0.runs
      BY <2>1, <2>a
    <3> QED BY <2>2, <3>1, LogExcept
  <2>7. Sourced(s)
    BY <2>2, <2>4, <2>5, <2>6 DEF Sourced
  <2>8. Good(s, Len(s0.ledger), done.tables)
    <3> PICK n \in Nat : n = Len(s0.ledger)
      BY <2>2, LogLength DEF Sourced
    <3>1. SameUpTo(s0, s, n)
      BY <2>4 DEF SameUpTo
    <3> PICK t : t = done.tables
      OBVIOUS
    <3>3. Good(s0, n, t)
      BY <2>1
    <3>2. Good(s, n, t)
      BY <2>7, <3>1, <3>3, GoodStill, Zenon
    <3> QED BY <3>2
  <2> QED BY <2>3, <2>4, <2>8 DEF IInv
<1> QED BY <1>4, <1>5

\* What the invariant says of an idea and of its cluster.
Belongs(i, c) ==
  /\ i \in 1..Len(source.ideas) /\ IsIdeaRow(State(i))
  /\ c = ClusterRow(i).state /\ IsGraded(c)

LEMMA IdeaBelongs ==
  ASSUME IInv, NEW i \in IdeaIds
  PROVE  Belongs(i, ClusterRow(i).state)
<1>1. i \in 1..Len(source.ideas)
  BY LogLength DEF IInv, Good, Sourced, IdeaIds
<1>2. IsIdeaRow(State(i)) /\ State(i).cluster \in DOMAIN tables.clusters
  BY <1>1 DEF IInv, Good, Tabled, State
<1>3. IsGraded(ClusterRow(i).state)
  BY <1>2 DEF IInv, Good, Tabled, IsClusterRow, ClusterRow
<1> QED BY <1>1, <1>2, <1>3 DEF Belongs

\* The latest evaluation is the last in the ledger, and the first has none
\* before it.
LEMMA LatestIs ==
  ASSUME IInv, NEW i, NEW previous, previous = LatestEvaluation(i)
  PROVE  /\ previous.verdict = VerdictOf(source, Len(source.ledger), i)
         /\ previous.revision \in Nat
         /\ (previous.revision + 1 = 1) = (previous.verdict = None)
<1>1. PICK n \in Nat : n = Len(source.ledger) /\ DOMAIN source.ledger = 1..n
  BY LogLength DEF IInv, Good, Sourced
<1> PICK S : S = Evaluations(source, n, i)
  OBVIOUS
<1>2. S = {k \in DOMAIN source.ledger : /\ source.ledger[k].type = "evaluated"
                                        /\ source.ledger[k].subject = i}
  BY <1>1 DEF Evaluations
<1>3. CASE S = {}
  <2>1. previous = NoEvaluation
    BY <1>2, <1>3 DEF LatestEvaluation
  <2> QED BY <1>1, <1>3, <2>1 DEF VerdictOf, NoEvaluation
<1>4. CASE S # {}
  <2> PICK latest : latest = source.ledger[Max(S)]
    OBVIOUS
  <2>1. previous = [revision |-> latest.data.revision, verdict |-> latest.data.current]
    BY <1>2, <1>4 DEF LatestEvaluation
  <2>2. Max(S) \in S /\ Max(S) \in 1..n
    BY <1>4, EvaluationsAre
  <2>3. IsEvent(source, latest) /\ latest.type = "evaluated"
    BY <1>1, <2>2 DEF IInv, Good, Told, Evaluations
  <2>4. latest.data.revision \in Nat \ {0} /\ latest.data.current \in Verdict
    BY <2>3 DEF IsEvent
  <2>5. latest.data.current # None
    BY <2>4, NoneAssumption
  <2>6. previous.revision \in Nat /\ previous.revision + 1 # 1
    BY <2>1, <2>4
  <2>7. previous.verdict = latest.data.current /\ previous.verdict # None
    BY <2>1, <2>5
  <2> QED BY <1>1, <1>4, <2>6, <2>7 DEF VerdictOf
<1> QED BY <1>3, <1>4

LEMMA EvaluateIsGood ==
  ASSUME IInv, NEW i \in IdeaIds, NEW verdict \in Verdict, NEW evidence,
         NEW at \in Time, NEW clock, Evaluate(i, verdict, at, evidence, clock)
  PROVE  IInv'
<1>a. PICK previous, before, after, revision :
        /\ previous = LatestEvaluation(i) /\ before = ClusterRow(i).state
        /\ after = PlanEvaluation(before, previous.verdict, verdict, at)
        /\ revision = previous.revision + 1
  OBVIOUS
<1>b. PICK s, data :
        /\ s = Reserved(source, Receipt("evaluate", Owner(i),
                 [idea |-> i, verdict |-> verdict, evidence |-> evidence, at |-> at],
                 clock, clock, i,
                 [idea |-> i, maturity |-> after.maturity,
                  decision |-> State(i).decision, revision |-> revision]))
        /\ data = [cluster |-> State(i).cluster, revision |-> revision,
                   previous |-> previous.verdict, current |-> verdict,
                   evidence |-> evidence, decision |-> State(i).decision,
                   before |-> Fields(before, EvaluationFields),
                   after |-> Fields(after, EvaluationFields)]
  OBVIOUS
<1>c. PICK e : e = Event(s, "evaluated", i, Owner(i), at, data)
  OBVIOUS
<1>1. /\ Evaluable(i, at, evidence)
      /\ IF after = None THEN Dies("plan") ELSE Commit(Appended(s, e))
  BY <1>a, <1>b, <1>c DEF Evaluate
<1>2. CASE after = None
  <2>1. Dies("plan") /\ "plan" \in Components
    BY <1>1, <1>2 DEF Components
  <2> QED BY <2>1, DeathIsGood
<1>3. CASE after # None
  <2>1. Belongs(i, before)
    BY <1>a, IdeaBelongs
  <2>2. RevisedTo(after, before, previous.verdict, verdict, at)
    <3> PICK v : v = previous.verdict
      OBVIOUS
    <3>1. IsGraded(before) /\ after = PlanEvaluation(before, v, verdict, at)
      BY <1>a, <2>1 DEF Belongs
    <3>2. RevisedTo(after, before, v, verdict, at)
      BY <1>3, <3>1, EvaluationIsGraded
    <3> QED BY <3>2
  <2>3. /\ previous.verdict = VerdictOf(source, Len(source.ledger), i)
        /\ previous.revision \in Nat /\ (revision = 1) = (previous.verdict = None)
    BY <1>a, LatestIs
  <2>4. revision \in Nat \ {0}
    BY <1>a, <2>3
  <2>5. EvaluationWellFormed(data)
    <3>1. EvaluationTransitionWellFormed(data.before, data.after, data.previous, data.current)
      BY <1>b, <2>2 DEF RevisedTo
    <3>2. data.decision \in {"active", "archived"}
      BY <1>1, <1>b DEF Evaluable
    <3>3. (data.revision = 1) = (data.previous = None)
      BY <1>b, <2>3
    <3> QED BY <3>1, <3>2, <3>3 DEF EvaluationWellFormed
  <2>6. /\ e.type = "evaluated" /\ e.subject = i /\ e.at = at /\ e.data = data
    BY <1>c DEF Event
  <2>7. Shaped(e)
    BY <2>5, <2>6 DEF Shaped
  <2>8. IsEvent(source, e)
    <3>1. data.revision = revision /\ data.current = verdict
      BY <1>b
    <3> QED BY <2>1, <2>4, <2>6, <2>7, <3>1 DEF IsEvent, Belongs
  <2>9. Appendable(e)
    <3>1. data.previous = previous.verdict
      BY <1>b
    <3> QED BY <2>3, <2>6, <2>8, <3>1 DEF Appendable
  <2>10. Reserves(s)
    BY <1>b, ReservedIs
  <2>11. Commit(Appended(s, e))
    BY <1>1, <1>3
  <2> QED BY <2>9, <2>10, <2>11, OneEvent
<1> QED BY <1>2, <1>3

LEMMA TimeOfCommand ==
  ASSUME NEW clock \in Time, NEW now \in Later(clock)
  PROVE  Max({clock, now}) \in Time
<1>1. clock \in Nat /\ now \in Nat /\ now \in Time
  BY TimeIs DEF Later
<1> QED BY <1>1, GreaterOfTwo

LEMMA DecideIsGood ==
  ASSUME IInv, NEW i \in IdeaIds, NEW decision \in {"rejected", "archived"},
         NEW clock \in Time, NEW now \in Later(clock), Decide(i, decision, clock, now)
  PROVE  IInv'
<1>a. PICK at, s, data :
        /\ at = Max({clock, now})
        /\ s = Reserved(source, Receipt(decision, Owner(i),
                 [idea |-> i, reason |-> "owner"], clock, now, i,
                 [idea |-> i, decision |-> decision]))
        /\ data = IF decision = "archived"
                  THEN [reason |-> "owner", decision |-> State(i).decision, cycle |-> None]
                  ELSE [reason |-> "owner", decision |-> State(i).decision]
  OBVIOUS
<1>b. PICK e : e = Event(s, decision, i, Owner(i), at, data)
  OBVIOUS
<1>1. Decidable(i, decision) /\ Commit(Appended(s, e))
  BY <1>a, <1>b DEF Decide
<1>2. e.type = decision /\ e.data = data
  BY <1>b DEF Event
<1>3. Shaped(e)
  <2>1. CASE decision = "archived"
    <3>1. data = [reason |-> "owner", decision |-> State(i).decision, cycle |-> None]
      BY <1>a, <2>1
    <3>2. State(i).decision = "active"
      BY <1>1, <2>1 DEF Decidable
    <3> QED BY <1>2, <2>1, <3>1, <3>2 DEF Shaped, ArchiveWellFormed
  <2>2. CASE decision = "rejected"
    <3>1. data = [reason |-> "owner", decision |-> State(i).decision]
      BY <1>a, <2>2
    <3>2. State(i).decision \in {"active", "archived"}
      BY <1>1, <2>2 DEF Decidable
    <3> QED BY <1>2, <2>2, <3>1, <3>2 DEF Shaped, RejectionWellFormed
  <2> QED BY <2>1, <2>2
<1>4. Appendable(e)
  BY <1>2, <1>3 DEF Appendable, IsEvent, Signals
<1>5. Reserves(s)
  BY <1>a, ReservedIs
<1> QED BY <1>1, <1>4, <1>5, OneEvent

\* A command with two events, of which the second is no evaluation.
LEMMA TwoEvents ==
  ASSUME IInv, NEW m, Sourced(m), m.ideas = source.ideas, Grew(m.ledger, source.ledger, 1),
         NEW d, d = m.ledger[Len(source.ledger) + 1], Appendable(d),
         NEW e, Appendable(e), e.type # "evaluated", Commit(Appended(m, e))
  PROVE  IInv'
<1> PICK s : s = Appended(m, e)
  OBVIOUS
<1>1. PICK n \in Nat : n = Len(source.ledger)
  BY LogLength DEF IInv, Good, Sourced
<1>2. Len(m.ledger) = n + 1
  BY <1>1 DEF Grew
<1>3. /\ Sourced(s) /\ s.ideas = source.ideas
      /\ Grew(s.ledger, m.ledger, 1) /\ s.ledger[Len(m.ledger) + 1] = e
  BY AppendedIs
<1>4. /\ IsLog(s.ledger) /\ Len(s.ledger) = n + 2 /\ s.ledger[(n + 1) + 1] = e
      /\ \A k \in 1..n + 1 : s.ledger[k] = m.ledger[k]
  BY <1>2, <1>3 DEF Grew
<1>5. \A k \in 1..n : k \in 1..n + 1
  OBVIOUS
<1>6. Follows(s, source, n)
  BY <1>1, <1>4, <1>5 DEF Grew, Follows
<1>7. Grew(s.ledger, source.ledger, 2)
  BY <1>1, <1>4, <1>6 DEF Grew, Follows
<1>8. Ensues(s, n)
  <2>1. n + 1 \in 1..n + 1
    OBVIOUS
  <2>2. s.ledger[n + 1] = d
    BY <1>1, <1>4, <2>1
  <2> QED BY <1>1, <1>3, <1>6, <2>2, EnsuesAt
<1>9. Ensues(s, n + 1)
  <2> PICK j \in Nat : j = n + 1
    OBVIOUS
  <2>1. e = s.ledger[j + 1]
    BY <1>4
  <2>2. Ensues(s, j)
    BY <1>1, <1>3, <1>6, <2>1, EnsuesAt
  <2> QED BY <2>2
<1>10. \A k \in 0..2 - 1 : Ensues(s, Len(source.ledger) + k)
  <2> SUFFICES ASSUME NEW k \in 0..1 PROVE Ensues(s, n + k)
    BY <1>1
  <2>1. CASE k = 0
    <3>1. n + k = n
      BY <2>1
    <3> QED BY <1>8, <3>1
  <2>2. CASE k = 1
    BY <1>9, <2>2
  <2> QED BY <2>1, <2>2
<1>11. Prolongs(s, 2)
  BY <1>3, <1>7, <1>10 DEF Prolongs
<1>12. 2 \in Nat /\ Commit(s)
  OBVIOUS
<1> QED BY <1>11, <1>12, CommitIsGood, Zenon

\* Rows other than ideas and events may be added.
LEMMA AdoptionsAside ==
  ASSUME NEW m, Sourced(m), NEW a, NEW s, s = [m EXCEPT !.adoptions = Append(@, a)]
  PROVE  Sourced(s) /\ s.ideas = m.ideas /\ s.ledger = m.ledger
<1>1. IsRows(m)
  BY DEF Sourced
<1>2. IsRows(s) /\ s.ideas = m.ideas /\ s.ledger = m.ledger /\ s.runs = m.runs
  BY <1>1 DEF IsRows
<1> QED BY <1>2 DEF Sourced

LEMMA AdoptAsIsGood ==
  ASSUME IInv, NEW i \in IdeaIds, State(i).decision \in {"active", "archived"},
         NEW importance, NEW x, NEW created, NEW clock \in Time, NEW now \in Later(clock),
         AdoptAs(i, importance, x, created, clock, now)
  PROVE  IInv'
<1>a. PICK at, before, again, adoption :
        /\ at = Max({clock, now}) /\ before = ClusterRow(i).state
        /\ again = AlreadyAdopted(i) /\ adoption = Len(source.adoptions) + 1
  OBVIOUS
<1>b. PICK r, d, a :
        /\ r = Reserved(source, Receipt("adopt", Owner(i),
                 [idea |-> i, importance |-> importance], clock, now, adoption,
                 AdoptionResponse(x, created)))
        /\ d = ExperienceEvent(r, x.id, Owner(i), at, x.content, x.version, x.temperature)
        /\ a = [idea |-> i, owner |-> Owner(i), run |-> source.ideas[i].run,
                snapshot |-> source.ideas[i].snapshot, experience |-> x.id,
                version |-> x.version, at |-> at]
  OBVIOUS
<1>c. PICK m, s : /\ m = IF created THEN Appended(r, d) ELSE r
                  /\ s = [m EXCEPT !.adoptions = Append(@, a)]
  OBVIOUS
<1>d. PICK after : after = PlanAdoption(before, again, at)
  OBVIOUS
<1>e. PICK data : data =
        [adoption |-> adoption, run |-> source.ideas[i].run,
         snapshot |-> source.ideas[i].snapshot,
         cluster |-> State(i).cluster, experience |-> x.id,
         version |-> x.version, created |-> created,
         importance |-> importance, decision |-> State(i).decision,
         before |-> Fields(before, AdoptionFields),
         after |-> Fields(after, AdoptionFields)]
  OBVIOUS
<1>f. PICK e : e = Event(s, "adopted", i, Owner(i), at, data)
  OBVIOUS
<1>1. IF after = None THEN Dies("plan") ELSE Commit(Appended(s, e))
  <2>1. \E p \in {PlanAdoption(before, again, at)} :
          IF p = None THEN Dies("plan")
          ELSE Commit(Appended(s, Event(s, "adopted", i, Owner(i), at,
                 [adoption |-> adoption, run |-> source.ideas[i].run,
                  snapshot |-> source.ideas[i].snapshot,
                  cluster |-> State(i).cluster, experience |-> x.id,
                  version |-> x.version, created |-> created,
                  importance |-> importance, decision |-> State(i).decision,
                  before |-> Fields(before, AdoptionFields),
                  after |-> Fields(p, AdoptionFields)])))
    BY <1>a, <1>b, <1>c, SMTT(90) DEF AdoptAs
  <2> QED BY <1>d, <1>e, <1>f, <2>1, Zenon
<1>2. CASE after = None
  <2>1. Dies("plan") /\ "plan" \in Components
    BY <1>1, <1>2 DEF Components
  <2> QED BY <2>1, DeathIsGood
<1>3. CASE after # None
  <2>1. Belongs(i, before) /\ at \in Time
    BY <1>a, IdeaBelongs, TimeOfCommand
  <2>2. JoinedTo(after, before, again, at)
    BY <1>3, <1>d, <2>1, AdoptionIsGraded DEF Belongs
  <2>3. AdoptionWellFormed(data)
    <3>1. AdoptionTransitionWellFormed(data.before, data.after)
      BY <1>e, <2>2 DEF JoinedTo
    <3>2. data.decision \in {"active", "archived"}
      BY <1>e
    <3> QED BY <3>1, <3>2 DEF AdoptionWellFormed
  <2>4. e.type = "adopted" /\ e.subject = i /\ e.at = at /\ e.data = data
    BY <1>f DEF Event
  <2>5. Shaped(e)
    BY <2>3, <2>4 DEF Shaped
  <2>6. Appendable(e)
    BY <2>1, <2>4, <2>5 DEF Appendable, IsEvent, Belongs
  <2>7. Reserves(r)
    BY <1>b, ReservedIs
  <2>8. Commit(Appended(s, e))
    BY <1>1, <1>3
  <2>9. CASE ~created
    <3>1. s = [r EXCEPT !.adoptions = Append(@, a)]
      BY <1>c, <2>9
    <3>2. Reserves(s)
      <4>1. Sourced(s) /\ s.ideas = r.ideas /\ s.ledger = r.ledger
        BY <2>7, <3>1, AdoptionsAside DEF Reserves
      <4> QED BY <2>7, <4>1 DEF Reserves
    <3> QED BY <2>6, <2>8, <3>2, OneEvent
  <2>10. CASE created
    <3>1. m = Appended(r, d) /\ Sourced(r)
      BY <1>c, <2>7, <2>10 DEF Reserves
    <3>2. /\ Sourced(m) /\ m.ideas = r.ideas
          /\ Grew(m.ledger, r.ledger, 1) /\ m.ledger[Len(r.ledger) + 1] = d
      BY <3>1, AppendedIs
    <3>a. s = [m EXCEPT !.adoptions = Append(@, a)]
      BY <1>c
    <3>3. Sourced(s) /\ s.ideas = m.ideas /\ s.ledger = m.ledger
      BY <3>2, <3>a, AdoptionsAside
    <3>4. /\ s.ideas = source.ideas /\ Grew(s.ledger, source.ledger, 1)
          /\ d = s.ledger[Len(source.ledger) + 1]
      BY <2>7, <3>2, <3>3 DEF Reserves
    <3>5. d.type = "experience"
      BY <1>b DEF ExperienceEvent, Event
    <3>6. Appendable(d)
      BY <3>5 DEF Appendable, IsEvent, Shaped, Signals
    <3>7. e.type # "evaluated"
      BY <2>4
    <3> QED BY <2>6, <2>8, <3>3, <3>4, <3>6, <3>7, TwoEvents
  <2> QED BY <2>9, <2>10
<1> QED BY <1>2, <1>3

LEMMA AdoptIsGood ==
  ASSUME IInv, NEW i \in IdeaIds, NEW importance, NEW clock \in Time,
         NEW now \in Later(clock), Adopt(i, importance, clock, now)
  PROVE  IInv'
<1>1. PICK x : AdoptAs(i, importance, x, x.id \notin Experiences, clock, now)
  BY DEF Adopt
<1>2. PICK created : created = (x.id \notin Experiences)
  OBVIOUS
<1>3. AdoptAs(i, importance, x, created, clock, now)
  BY <1>1, <1>2
<1>4. State(i).decision \in {"active", "archived"}
  BY DEF Adopt
<1> QED BY <1>3, <1>4, AdoptAsIsGood

LEMMA AdoptAgainIsGood ==
  ASSUME IInv, NEW i, NEW importance, NEW clock, NEW now,
         AdoptAgain(i, importance, clock, now)
  PROVE  IInv'
<1>1. \/ Dies("adoption")
      \/ \E receipt : Commit(Reserved(source, receipt))
  BY DEF AdoptAgain
<1>2. CASE Dies("adoption")
  BY <1>2, DeathIsGood DEF Components
<1>3. CASE \E receipt : Commit(Reserved(source, receipt))
  <2>1. PICK receipt : Commit(Reserved(source, receipt))
    BY <1>3
  <2> PICK s : s = Reserved(source, receipt)
    OBVIOUS
  <2>2. Reserves(s) /\ Commit(s)
    BY <2>1, ReservedIs
  <2>3. PICK n \in Nat : n = Len(source.ledger)
    BY LogLength DEF IInv, Good, Sourced
  <2>4. Grew(s.ledger, source.ledger, 0)
    BY <2>2, <2>3 DEF Grew, Reserves, Sourced
  <2>5. Prolongs(s, 0)
    BY <2>2, <2>4 DEF Prolongs, Reserves
  <2>6. 0 \in Nat
    OBVIOUS
  <2> QED BY <2>2, <2>5, <2>6, CommitIsGood, Zenon
<1> QED BY <1>1, <1>2, <1>3

LEMMA ArchiveCycleIsGood ==
  ASSUME IInv, NEW given, NEW clock, ArchiveCycle(given, clock)
  PROVE  IInv'
<1>a. PICK at, due, cycle :
        /\ at = IF given = None THEN clock ELSE given
        /\ due = Ascending(Due(at)) /\ cycle = Len(source.receipts) + 1
  OBVIOUS
<1>b. PICK r : r = Reserved(source, Receipt("cycle", None, [at |-> given], clock, clock,
                              cycle, [at |-> at, archived |-> Len(due)]))
  OBVIOUS
<1>c. PICK f : f = [n \in DOMAIN due |->
                     [Event(r, "archived", due[n], None, at,
                        [reason |-> "policy", decision |-> "active", cycle |-> cycle])
                        EXCEPT !.id = Len(r.ledger) + n]]
  OBVIOUS
<1>d. PICK s : s = [r EXCEPT !.ledger = @ \o f]
  OBVIOUS
<1>1. Commit(s)
  <2>1. Commit([r EXCEPT !.ledger = @ \o [n \in DOMAIN due |->
                     [Event(r, "archived", due[n], None, at,
                        [reason |-> "policy", decision |-> "active", cycle |-> cycle])
                        EXCEPT !.id = Len(r.ledger) + n]]])
    BY <1>a, <1>b, SMTT(90) DEF ArchiveCycle
  <2> QED BY <1>c, <1>d, <2>1, Zenon
<1>2. Reserves(r) /\ IsRows(r)
  BY <1>b, ReservedIs
<1>3. PICK n \in Nat : n = Len(source.ledger)
  BY LogLength DEF IInv, Good, Sourced
<1>4. PICK N \in Nat : N = Len(due) /\ DOMAIN due = 1..N
  <2>1. Due(at) \subseteq 1..Len(source.ideas) /\ Len(source.ideas) \in Nat
    BY LogLength DEF Due, IdeaIds, IInv, Good, Sourced
  <2>2. Len(due) \in Nat /\ due = [k \in 1..Len(due) |-> due[k]]
    BY <1>a, <2>1, Enumerates
  <2>3. DOMAIN due = 1..Len(due)
    BY <2>2
  <2> QED BY <2>2, <2>3
<1>5. f = [k \in 1..N |-> f[k]]
  BY <1>c, <1>4
<1>6. \A k \in 1..N : Appendable(f[k]) /\ f[k].type = "archived"
  <2> SUFFICES ASSUME NEW k \in 1..N
               PROVE  Appendable(f[k]) /\ f[k].type = "archived"
    OBVIOUS
  <2> PICK data : data = [reason |-> "policy", decision |-> "active", cycle |-> cycle]
    OBVIOUS
  <2>1. f[k].type = "archived" /\ f[k].data = data
    BY <1>c, <1>4 DEF Event
  <2>2. Shaped(f[k])
    BY <2>1 DEF Shaped, ArchiveWellFormed
  <2> QED BY <2>1, <2>2 DEF Appendable, IsEvent, Signals
<1>7. /\ s.ideas = source.ideas /\ s.runs = r.runs /\ IsRows(s)
      /\ s.ledger = source.ledger \o f
  BY <1>2, <1>d DEF Reserves, IsRows
<1>8. Grew(s.ledger, source.ledger, N) /\ \A k \in 1..N : s.ledger[n + k] = f[k]
  <2> PICK old : old = source.ledger
    OBVIOUS
  <2>1. IsLog(old)
    BY DEF IInv, Good, Sourced
  <2>2. Grew(old \o f, old, N) /\ \A k \in 1..N : (old \o f)[Len(old) + k] = f[k]
    BY <1>5, <2>1, LogConcat
  <2> QED BY <1>3, <1>7, <2>2
<1>9. Sourced(s)
  BY <1>2, <1>7, <1>8 DEF Sourced, Reserves, Grew
<1>10. Follows(s, source, n)
  BY <1>3, <1>8 DEF Grew, Follows
<1>11. \A k \in 0..N - 1 : Ensues(s, Len(source.ledger) + k)
  <2> SUFFICES ASSUME NEW k \in 0..N - 1 PROVE Ensues(s, n + k)
    BY <1>3
  <2> PICK j \in Nat : j = n + k
    OBVIOUS
  <2>1. k + 1 \in 1..N /\ j + 1 = n + (k + 1)
    OBVIOUS
  <2> PICK e : e = f[k + 1]
    OBVIOUS
  <2>2. e = s.ledger[j + 1]
    BY <1>8, <2>1
  <2>3. Appendable(e) /\ e.type # "evaluated"
    BY <1>6, <2>1
  <2>4. Ensues(s, j)
    BY <1>3, <1>7, <1>10, <2>2, <2>3, EnsuesAt
  <2> QED BY <2>4
<1>12. Prolongs(s, N)
  BY <1>7, <1>8, <1>9, <1>11 DEF Prolongs
<1> QED BY <1>1, <1>12, CommitIsGood, Zenon

\* An event of an experience changes nothing here.
LEMMA ExperienceIsGood ==
  ASSUME IInv, NEW receipt, NEW s, s = Reserved(source, receipt), NEW x, NEW owner, NEW at,
         NEW content, NEW version, NEW temperature,
         Commit(Appended(s, ExperienceEvent(s, x, owner, at, content, version, temperature)))
  PROVE  IInv'
<1> PICK e : e = ExperienceEvent(s, x, owner, at, content, version, temperature)
  OBVIOUS
<1>1. e.type = "experience"
  BY DEF ExperienceEvent, Event
<1>2. Appendable(e)
  BY <1>1 DEF Appendable, IsEvent, Shaped, Signals
<1>3. Reserves(s)
  BY ReservedIs
<1>4. Commit(Appended(s, e))
  OBVIOUS
<1> QED BY <1>2, <1>3, <1>4, OneEvent

LEMMA WriteExperienceIsGood ==
  ASSUME IInv, NEW owner, NEW content, NEW clock, WriteExperience(owner, content, clock)
  PROVE  IInv'
<1> PICK receipt, s, x :
      /\ receipt = Receipt("create", owner, content, clock, clock, None, None)
      /\ s = Reserved(source, receipt) /\ x = NextExperience
  OBVIOUS
<1>1. Commit(Appended(s, ExperienceEvent(s, x, owner, clock, content, 1, "warm")))
  BY DEF WriteExperience
<1> QED BY <1>1, ExperienceIsGood

LEMMA ChangeExperienceIsGood ==
  ASSUME IInv, NEW x, NEW content, NEW temperature, NEW clock,
         ChangeExperience(x, content, temperature, clock)
  PROVE  IInv'
<1> PICK before, receipt, s, version :
      /\ before = Current(x).data
      /\ receipt = Receipt("change", before.owner, x, clock, clock, None, None)
      /\ s = Reserved(source, receipt)
      /\ version = IF content # before.content THEN before.version + 1 ELSE before.version
  OBVIOUS
<1>1. Commit(Appended(s, ExperienceEvent(s, x, before.owner, clock, content, version, temperature)))
  BY DEF ChangeExperience
<1> QED BY <1>1, ExperienceIsGood
-----------------------------------------------------------------------------
(* The specification.                                                      *)
LEMMA InitIsGood ==
  ASSUME Init
  PROVE  IInv
<1>1. /\ source.ledger = << >> /\ source.ideas = << >> /\ source.runs = << >>
      /\ IsRows(source) /\ tables = [clusters |-> NoRows, states |-> NoRows] /\ refused = {}
  BY DEF Init, IsRows
<1>2. IsLog(<< >>) /\ Len(<< >>) = 0
  <2>1. << >> \in Seq({}) /\ Len(<< >>) = 0
    OBVIOUS
  <2> QED BY <2>1, LogOf
<1>3. Sourced(source)
  BY <1>1, <1>2 DEF Sourced
<1>4. DOMAIN NoRows = {} /\ NoRows = [x \in {} |-> None]
  BY DEF NoRows
<1>5. Told(source, 0) /\ AdoptionsTold(source, 0, tables)
  BY <1>1, <1>2 DEF Told, AdoptionsTold
<1>6. IsTables(tables) /\ DOMAIN tables.clusters = {} /\ DOMAIN tables.states = {}
  BY <1>1, <1>4 DEF IsTables
<1>7. Tabled(source, tables) /\ Counted(source, 0, tables) /\ Apart(tables)
  BY <1>1, <1>2, <1>6 DEF Tabled, Counted, Apart
<1> QED BY <1>1, <1>2, <1>3, <1>5, <1>7 DEF IInv, Good

LEMMA StepIsGood ==
  ASSUME IInv, [Next]_vars
  PROVE  IInv'
<1>1. CASE \E r \in DOMAIN source.runs, ms \in Retainable : Finalize(r, ms)
  BY <1>1, FinalizeIsGood
<1>2. CASE \E a \in Agent, h \in Snapshot, clock \in Time : StartRun(a, h, clock)
  BY <1>2, StartRunIsGood
<1>3. CASE \E i \in IdeaIds, v \in Verdict, x \in {None} \cup Evidenced :
             \E at \in Time, clock \in Time : Evaluate(i, v, at, x, clock)
  BY <1>3, EvaluateIsGood
<1>4. CASE \E i \in IdeaIds, d \in {"rejected", "archived"}, clock \in Time :
             \E now \in Later(clock) : Decide(i, d, clock, now)
  BY <1>4, DecideIsGood
<1>5. CASE \E i \in IdeaIds, p \in Importance, clock \in Time :
             \E now \in Later(clock) : Adopt(i, p, clock, now)
  BY <1>5, AdoptIsGood
<1>6. CASE \E i \in IdeaIds, p \in Importance, clock \in Time :
             \E now \in Later(clock) : AdoptAgain(i, p, clock, now)
  BY <1>6, AdoptAgainIsGood
<1>7. CASE \E given \in Time \cup {None}, clock \in Time : ArchiveCycle(given, clock)
  BY <1>7, ArchiveCycleIsGood
<1>8. CASE \E a \in Agent, c \in Mechanism, clock \in Time : WriteExperience(a, c, clock)
  BY <1>8, WriteExperienceIsGood
<1>9. CASE \E x \in Experiences, c \in Mechanism, t \in {"warm", "archived"} :
             \E clock \in Time : ChangeExperience(x, c, t, clock)
  BY <1>9, ChangeExperienceIsGood
<1>10. CASE UNCHANGED vars
  BY <1>10 DEF vars, IInv
<1> QED BY <1>1, <1>2, <1>3, <1>4, <1>5, <1>6, <1>7, <1>8, <1>9, <1>10 DEF Next

\* In every reachable state each payload has its shape, the clusters are apart,
\* and the row of a cluster is what the ideas and events so far amount to: what
\* the commands of inspiration/service.py and lifecycle.py leave behind is what
\* the next one can rely on.
THEOREM Invariance == Spec => []IInv
<1>1. Init => IInv
  BY InitIsGood
<1>2. IInv /\ [Next]_vars => IInv'
  BY StepIsGood
<1> QED BY <1>1, <1>2, PTL DEF Spec

\* The types, and the shape of every payload, follow from the invariant.
LEMMA IsTyped ==
  ASSUME IInv
  PROVE  TypeOK
<1>1. PICK n \in Nat : n = Len(source.ledger) /\ DOMAIN source.ledger = 1..n
  BY LogLength DEF IInv, Good, Sourced
<1>2. IdeaIds = 1..Len(source.ideas)
  BY LogLength DEF IInv, Good, Sourced, IdeaIds
<1>3. \A i \in IdeaIds : source.ideas[i].owner \in Agent /\ source.ideas[i].mechanism \in Mechanism
  BY <1>2 DEF IInv, Good, Sourced, IsIdea
<1>4. \A i \in IdeaIds : State(i).decision \in Decision /\ State(i).signal \in Time
  BY <1>2 DEF IInv, Good, Tabled, IsIdeaRow, State
<1>5. DOMAIN tables.states = IdeaIds
  BY <1>2 DEF IInv, Good, Tabled
<1>6. PayloadsWellFormed
  <2>1. \A e \in ToSet(source.ledger) : \E k \in 1..n : e = source.ledger[k]
    BY <1>1 DEF ToSet
  <2>2. \A k \in 1..n : Shaped(source.ledger[k])
    BY <1>1 DEF IInv, Good, Told, IsEvent
  <2>3. \A e \in ToSet(source.ledger) : Shaped(e)
    BY <2>1, <2>2
  <2> QED BY <2>3 DEF PayloadsWellFormed, Shaped
<1>7. refused \subseteq {"clusters", "reducers", "plan", "adoption"}
  BY DEF IInv, Components
<1> QED BY <1>3, <1>4, <1>5, <1>6, <1>7 DEF TypeOK

\* What the invariant counts is what CountersRecounted counts.
LEMMA IsRecounted ==
  ASSUME IInv
  PROVE  CountersRecounted
<1>1. PICK n \in Nat : n = Len(source.ledger) /\ DOMAIN source.ledger = 1..n
  BY LogLength DEF IInv, Good, Sourced
<1>2. IdeaIds = 1..Len(source.ideas)
  BY LogLength DEF IInv, Good, Sourced, IdeaIds
<1> SUFFICES ASSUME NEW c \in DOMAIN tables.clusters,
                    NEW row, row = tables.clusters[c].state,
                    NEW M, M = {i \in IdeaIds : State(i).cluster = c}
             PROVE  /\ row.occurrences = Cardinality(M)
                    /\ row.snapshots = Cardinality({source.ideas[i].snapshot : i \in M})
                    /\ row.adopters = Cardinality({Owner(i) : i \in
                                        {j \in M : State(j).decision = "adopted"}})
                    /\ row.supported = Cardinality({i \in M : LatestEvaluation(i).verdict = "supported"})
                    /\ row.refuted = Cardinality({i \in M : LatestEvaluation(i).verdict = "refuted"})
                    /\ row.signal = Max({e.at : e \in {f \in ToSet(source.ledger) :
                          f.type \in {"generated", "evaluated", "adopted"} /\ f.subject \in M}})
                    /\ ToSet(row.members) = {source.ideas[i].mechanism : i \in M}
  BY ZenonT(60) DEF CountersRecounted
<1>3. M = Mine(source, tables, c)
  BY <1>2 DEF Mine, State
<1>4. AmountsTo(row, source, n, tables, M)
  BY <1>1, <1>3 DEF IInv, Good, Counted
<1>5. \A i : LatestEvaluation(i).verdict = VerdictOf(source, n, i)
  <2> SUFFICES ASSUME NEW i PROVE LatestEvaluation(i).verdict = VerdictOf(source, n, i)
    OBVIOUS
  <2> PICK previous : previous = LatestEvaluation(i)
    OBVIOUS
  <2>1. previous.verdict = VerdictOf(source, n, i)
    BY <1>1, LatestIs
  <2> QED BY <2>1
<1>6. \A v : {i \in M : LatestEvaluation(i).verdict = v} = Judged(source, n, M, v)
  BY <1>5 DEF Judged
<1>7. row.signal = Max({e.at : e \in {f \in ToSet(source.ledger) :
                          f.type \in {"generated", "evaluated", "adopted"} /\ f.subject \in M}})
  <2> PICK S : S = SignalsOf(source, n, M)
    OBVIOUS
  <2>1. {e.at : e \in {f \in ToSet(source.ledger) :
            f.type \in {"generated", "evaluated", "adopted"} /\ f.subject \in M}} = S
    BY <1>1 DEF SignalsOf, ToSet, Signals
  <2>2. LastSignal(row, S)
    BY <1>4 DEF AmountsTo
  <2>3. S \subseteq Time
    BY <1>1, SignalsAreTimes DEF IInv, Good
  <2>4. S # {} /\ S \subseteq 0..MaxTime /\ MaxTime \in Nat
    <3>1. MaxTime \in Nat
      BY BoundsAssumption
    <3>2. Time \subseteq 0..MaxTime
      BY <3>1 DEF Time
    <3> QED BY <2>2, <2>3, <3>1, <3>2 DEF LastSignal
  <2>5. Max(S) \in S /\ \A x \in S : Max(S) >= x
    BY <2>4, Greatest
  <2>6. row.signal \in S /\ row.signal >= Max(S) /\ Max(S) >= row.signal
    BY <2>2, <2>5 DEF LastSignal
  <2>7. row.signal \in Nat /\ Max(S) \in Nat
    BY <2>4, <2>5, <2>6
  <2>8. row.signal = Max(S)
    BY <2>6, <2>7
  <2> QED BY <2>1, <2>8
<1>8. /\ SnapshotsOf(source, M) = {source.ideas[i].snapshot : i \in M}
      /\ MechanismsOf(source, M) = {source.ideas[i].mechanism : i \in M}
  BY DEF SnapshotsOf, MechanismsOf
<1>9. AdoptersOf(source, tables, M) =
        {Owner(i) : i \in {j \in M : State(j).decision = "adopted"}}
  BY DEF AdoptersOf, Owner, State
<1> QED BY <1>4, <1>6, <1>7, <1>8, <1>9 DEF AmountsTo

\* Every idea has its row, with a decision and a signal of its types, every
\* payload that a command wrote has the shape that the events demand of it,
\* and no other component refuses a command (inspiration/events.py).
THEOREM Typing == Spec => []TypeOK
<1>1. IInv => TypeOK
  BY IsTyped
<1> QED BY <1>1, Invariance, PTL

\* The counters of every cluster are what its ideas amount to, however runs,
\* verdicts, decisions, adoptions and archives follow each other, and however
\* late a run finishes (inspiration/incubation.py, inspiration/projector.py).
THEOREM Recounting == Spec => []CountersRecounted
<1>1. IInv => CountersRecounted
  BY IsRecounted
<1> QED BY <1>1, Invariance, PTL

=============================================================================
