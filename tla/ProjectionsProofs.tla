------------------------- MODULE ProjectionsProofs --------------------------
(***************************************************************************)
(* Proofs about Projections, for every number of processes, reducers,      *)
(* event types and releases, every declaration of what a reducer handles   *)
(* and of its versions, and every MaxEvents and MaxBatch: type             *)
(* correctness, that the committed tables are the replay of the committed  *)
(* ledger, and that the verdict of a verification is exact.                *)
(***************************************************************************)
EXTENDS Projections, WellFoundedInduction, SequenceTheorems, TLAPS

\* The events a table of r has seen, when those in `due` are still to apply.
Seen(r, es, due) == Relevant(r, es) \ due

\* The replay of the events seen.
ReplaySeen(r, v, es, due) ==
  {[id |-> i, version |-> v,
    after |-> {j \in Relevant(r, es) : j < i}] : i \in Seen(r, es, due)}

\* What Checkpoint chooses, without the choice.
IsGreatest(at, S) == IF S = {} THEN at = 0
                     ELSE at \in S /\ \A i \in S : i <= at

\* A table was made by one version from the events seen; it is their replay,
\* or lacks one of them if it was damaged.
TableFaithful(table, row, r, es, due, hurt) ==
  LET seen == Seen(r, es, due)
  IN /\ IsGreatest(row.at, seen)
     /\ ~row.stored => seen = {}
     /\ \A a \in table : a.version = row.version /\ a.id \in seen
     /\ hurt => \E i \in seen : \A a \in table : a.id # i
     /\ ~hurt => table = ReplaySeen(r, row.version, es, due)
Faithful(d, due, hurt) ==
  \A r \in Reducer :
    TableFaithful(d.table[r], d.version[r], r, d.events, due, r \in hurt)

\* The events still to apply are the last ones.
LastIds(due, es) == \A i \in due : \A j \in Ids(es) : i <= j => j \in due

\* The ledger only grows.
Extends(es, fs) == /\ Len(es) <= Len(fs)
                   /\ \A i \in Ids(es) : fs[i] = es[i]

\* The writer's copy: an idle one is the committed database.
WorkFaithful ==
  /\ LastIds(pending, work.events)
  /\ Extends(db.events, work.events)
  /\ writer = None => work = db /\ pending = {}
  /\ \A p \in Process :
       /\ writer = p => running(p) \in {"serving", "repairing", "swapped"}
       /\ writer = p /\ running(p) # "swapped" => Faithful(work, pending, damaged)
       /\ writer = p /\ running(p) # "serving" => pending = {}
       /\ running(p) = "swapped" => writer = p /\ Faithful(work, {}, {})

\* The reducers a loop of the verification has left behind.
Passed(p) == {Registry[i] : i \in 1..(view[p].next - 1)}
Checking == {"verifying", "checked"}
Comparing == {"hashing", "hashed", "compared"}
Counted == {"replaying", "replayed"} \cup Comparing

\* The reducers whose table is rebuilt, whose checkpoint is known, and whose
\* hashes are compared.
Replayed(p) == CASE running(p) = "replaying" -> Passed(p)
                 [] running(p) = "replayed" -> Passed(p) \cup {current(p)}
                 [] running(p) \in Comparing -> Reducer
                 [] OTHER -> {}
Placed(p) == CASE running(p) \in {"replaying", "replayed"} -> Passed(p)
               [] running(p) \in Comparing -> Reducer
               [] OTHER -> {}
Compared(p) == CASE running(p) \in {"hashing", "hashed"} -> Passed(p)
                 [] running(p) = "compared" -> Reducer
                 [] OTHER -> {}

\* The table read is the table rebuilt, and nobody damaged it, or somebody
\* did or it is the work of another release.
Exact(v, r) == IF r \in v.differ THEN r \notin v.whole \cap v.own
               ELSE r \in v.whole

\* What the verification has so far if every read saw the ledger es.
ReadsOne(p, es) ==
  /\ \A r \in Replayed(p) : view[p].rebuilt[r] = Replay(r, versionIn(p, r), es)
  /\ \A r \in Placed(p) : view[p].checkpoint[r] = Checkpoint(r, es)
  /\ running(p) = "hashed" => view[p].at = Checkpoint(current(p), es)
  /\ \A r \in Compared(p) : Exact(view[p], r)

\* The reads of a verification come from several commits, but the ledger only
\* grows: if it ends where the head was, every read saw the same events.
Ledger(p) == Sees(p).db.events
ReadsFaithful(p) ==
  running(p) \in Counted =>
    /\ view[p].head <= Len(Ledger(p))
    /\ Len(Ledger(p)) = view[p].head => ReadsOne(p, Ledger(p))
ViewFaithful(p) ==
  /\ view[p].fixed => Faithful(view[p].db, {}, view[p].damaged)
  /\ running(p) # "stopped" => report[p] = "none"
  /\ running(p) = "checked" => view[p].next = 1
  /\ ReadsFaithful(p)
  /\ report[p] = "match" => view[p].whole = Reducer
  /\ report[p] = "mismatch" => view[p].whole \cap view[p].own # Reducer

IInv ==
  /\ TypeOK
  /\ Faithful(db, {}, damaged)
  /\ WorkFaithful
  /\ \A p \in Process : ViewFaithful(p)
-----------------------------------------------------------------------------
\* A set of naturals with an upper bound has a least upper bound in it.
LEMMA GreatestExists ==
  ASSUME NEW S \in SUBSET Nat, S # {},
         NEW n \in Nat, \A i \in S : i <= n
  PROVE  \E i \in S : \A j \in S : j <= i
<1> DEFINE Bounds == {b \in Nat : \A i \in S : i <= b}
<1>1. PICK b \in Bounds : \A c \in Bounds : ~(<<c, b>> \in OpToRel(<, Nat))
  <2>1. n \in Bounds /\ Bounds \subseteq Nat
    OBVIOUS
  <2> HIDE DEF Bounds
  <2> QED
    BY <2>1, WFMin, NatLessThanWellFounded
<1>2. \A c \in Bounds : ~(c < b)
  BY <1>1 DEF OpToRel
<1>3. b \in S
  <2> SUFFICES ASSUME b \notin S PROVE FALSE
    OBVIOUS
  <2>1. b # 0
    <3>1. PICK i \in S : i <= b
      OBVIOUS
    <3> QED
      BY <3>1
  <2>2. b - 1 \in Bounds
    BY <2>1
  <2> QED
    BY <1>2, <2>2
<1> QED
  BY <1>3

\* Events are numbered from one.
LEMMA RelevantIds ==
  ASSUME NEW r \in Reducer, NEW es \in Seq(EventType)
  PROVE  /\ Len(es) \in Nat
         /\ Relevant(r, es) \subseteq 1..Len(es)
         /\ Relevant(r, es) \subseteq Nat
BY LenProperties DEF Relevant, Ids

\* Checkpoint returns the greatest relevant event id, and nothing else is it.
LEMMA CheckpointGreatest ==
  ASSUME NEW r \in Reducer, NEW es \in Seq(EventType)
  PROVE  /\ Checkpoint(r, es) \in Nat
         /\ IsGreatest(Checkpoint(r, es), Relevant(r, es))
         /\ \A at \in Nat : IsGreatest(at, Relevant(r, es))
                              => at = Checkpoint(r, es)
<1> DEFINE R == Relevant(r, es)
<1>1. R \subseteq Nat /\ Len(es) \in Nat /\ \A i \in R : i <= Len(es)
  BY RelevantIds
<1>2. CASE R = {}
  BY <1>2 DEF Checkpoint, IsGreatest
<1>3. CASE R # {}
  <2>1. \E i \in R : \A j \in R : j <= i
    BY <1>1, <1>3, GreatestExists
  <2>2. Checkpoint(r, es) \in R /\ \A j \in R : j <= Checkpoint(r, es)
    BY <1>3, <2>1 DEF Checkpoint
  <2>3. \A at \in R : (\A j \in R : j <= at) => at = Checkpoint(r, es)
    BY <1>1, <2>2
  <2> QED
    BY <1>1, <1>3, <2>2, <2>3 DEF IsGreatest
<1> QED
  BY <1>2, <1>3

\* With no event to apply, an undamaged table is the replay of the ledger.
LEMMA NothingDue ==
  \A r, v, es : /\ Seen(r, es, {}) = Relevant(r, es)
                /\ ReplaySeen(r, v, es, {}) = Replay(r, v, es)
BY DEF Seen, ReplaySeen, Replay

\* A replay is made of applications.
LEMMA ReplayType ==
  ASSUME NEW r \in Reducer, NEW es \in Seq(EventType), NEW v \in Nat
  PROVE  Replay(r, v, es) \in SUBSET Application
BY RelevantIds DEF Replay, Application

-----------------------------------------------------------------------------
\* EmptyDatabase
LEMMA EmptyFaithful ==
  /\ EmptyDatabase \in Database
  /\ \A due, hurt : hurt = {} => Faithful(EmptyDatabase, due, hurt)
<1>1. EmptyDatabase \in Database
  BY EmptySeq DEF EmptyDatabase, Database, VersionRow, NoVersion
<1>2. \A r \in Reducer : \A due : Seen(r, << >>, due) = {}
  BY EmptySeq DEF Seen, Relevant, Ids
<1>3. \A r \in Reducer : \A v, due : ReplaySeen(r, v, << >>, due) = {}
  BY <1>2 DEF ReplaySeen
<1>4. /\ EmptyDatabase.events = << >>
      /\ \A r \in Reducer : EmptyDatabase.table[r] = {}
      /\ \A r \in Reducer : EmptyDatabase.version[r] = NoVersion
  BY DEF EmptyDatabase
<1>5. \A r \in Reducer : \A due, hurt :
        hurt = {} => TableFaithful({}, NoVersion, r, << >>, due, r \in hurt)
  <2> SUFFICES ASSUME NEW r \in Reducer, NEW due, NEW hurt, hurt = {}
               PROVE  TableFaithful({}, NoVersion, r, << >>, due, r \in hurt)
    OBVIOUS
  <2>1. r \notin hurt
    OBVIOUS
  <2> QED
    BY <1>2, <1>3, <2>1 DEF TableFaithful, NoVersion, IsGreatest
<1> QED
  BY <1>1, <1>4, <1>5 DEF Faithful

\* EventStore.append adds events that are all still to be applied.
LEMMA AppendFaithful ==
  ASSUME NEW d \in Database, NEW batch \in Batches, NEW hurt,
         Faithful(d, {}, hurt)
  PROVE  LET e == [d EXCEPT !.events = @ \o batch]
             due == Ids(e.events) \ Ids(d.events)
         IN /\ e \in Database
            /\ LastIds(due, e.events)
            /\ Extends(d.events, e.events)
            /\ Faithful(e, due, hurt)
<1> DEFINE e == [d EXCEPT !.events = @ \o batch]
           due == Ids(e.events) \ Ids(d.events)
<1>1. batch \in Seq(EventType)
  BY DEF Batches
<1>2. /\ e.events = d.events \o batch /\ e.table = d.table
      /\ e.version = d.version /\ e \in Database /\ d.events \in Seq(EventType)
      /\ e.events \in Seq(EventType)
  BY <1>1, ConcatProperties DEF Database
<1>3. /\ Len(d.events) \in Nat /\ Len(batch) \in Nat
      /\ Len(e.events) = Len(d.events) + Len(batch)
      /\ \A i \in 1..Len(d.events) : e.events[i] = d.events[i]
  BY <1>1, <1>2, ConcatProperties, LenProperties
<1>4. LastIds(due, e.events)
  BY <1>3 DEF LastIds, Ids
<1>5. \A r \in Reducer : /\ Seen(r, e.events, due) = Relevant(r, d.events)
                         /\ Seen(r, d.events, {}) = Relevant(r, d.events)
  BY <1>3 DEF Seen, Relevant, Ids
<1>6. \A r \in Reducer : \A i \in Relevant(r, d.events) :
        {j \in Relevant(r, e.events) : j < i}
          = {j \in Relevant(r, d.events) : j < i}
  BY <1>3 DEF Relevant, Ids
<1>7. \A r \in Reducer : \A v : ReplaySeen(r, v, e.events, due)
                              = ReplaySeen(r, v, d.events, {})
  BY <1>5, <1>6 DEF ReplaySeen
<1>9. Extends(d.events, e.events)
  BY <1>3 DEF Extends, Ids
<1>8. Faithful(e, due, hurt)
  <2> SUFFICES ASSUME NEW r \in Reducer
               PROVE  TableFaithful(e.table[r], e.version[r], r, e.events, due, r \in hurt)
    BY DEF Faithful
  <2>1. TableFaithful(d.table[r], d.version[r], r, d.events, {}, r \in hurt)
    BY DEF Faithful
  <2> QED BY <1>2, <1>5, <1>7, <2>1 DEF TableFaithful
<1> QED
  BY <1>2, <1>4, <1>8, <1>9

\* AppliedTo on the first event that is due: every reducer that handles it
\* runs, the others and their checkpoints stay.
LEMMA AppliedTable ==
  ASSUME NEW d \in Database, NEW release \in Release, NEW due, NEW hurt,
         due \subseteq Ids(d.events), LastIds(due, d.events),
         Faithful(d, due, hurt),
         NEW i \in due, \A j \in due : i <= j, CanApply(d, i, release),
         NEW r \in Reducer
  PROVE  LET e == AppliedTo(d, i, release)
         IN /\ e.table[r] \in SUBSET Application
            /\ e.version[r] \in VersionRow
            /\ TableFaithful(e.table[r], e.version[r], r, d.events, due \ {i},
                             r \in hurt)
<1> DEFINE e == AppliedTo(d, i, release)
           v == VersionOf[release][r]
           row == d.version[r]
           R == Relevant(r, d.events)
           S == Seen(r, d.events, due)
<1>1. /\ d.events \in Seq(EventType) /\ row \in VersionRow /\ v \in Nat
      /\ d.table[r] \in SUBSET Application
  BY VersionOfAssumption DEF Database
<1>2. /\ R \subseteq Nat /\ R \subseteq Ids(d.events) /\ i \in Ids(d.events)
      /\ i \in Nat /\ Ids(d.events) \subseteq Nat
  BY <1>1, RelevantIds DEF Ids
<1>3. TableFaithful(d.table[r], row, r, d.events, due, r \in hurt)
  BY DEF Faithful
<1>4. S \subseteq R /\ \A j \in S : j < i
  BY <1>2 DEF Seen, LastIds
<1>5. \A j \in R : j < i => j \in S
  BY <1>2 DEF Seen
<1>6. CASE d.events[i] \notin Handles[r]
  <2>1. e.table[r] = d.table[r] /\ e.version[r] = row
    BY <1>6 DEF AppliedTo, Due, Database
  <2>2. Seen(r, d.events, due \ {i}) = S
    BY <1>6 DEF Seen, Relevant
  <2>3. \A w : ReplaySeen(r, w, d.events, due \ {i})
                 = ReplaySeen(r, w, d.events, due)
    BY <2>2 DEF ReplaySeen
  <2> QED
    BY <1>1, <1>3, <2>1, <2>2, <2>3 DEF TableFaithful
<1>7. CASE d.events[i] \in Handles[r]
  <2>1. i \in R /\ i \notin S
    BY <1>2, <1>7 DEF Relevant, Seen
  <2>2. row.at \in Nat /\ row.stored \in BOOLEAN /\ row.version \in Nat
    BY <1>1 DEF VersionRow
  <2>3. row.stored => row.at < i /\ row.version = v
    <3>1. row.stored => row.version = v
      BY <1>7 DEF CanApply
    <3>2. row.at < i
      BY <1>2, <1>3, <1>4, <2>1, RelevantIds, <1>1
         DEF TableFaithful, IsGreatest, Relevant, Ids
    <3> QED
      BY <3>1, <3>2
  <2>4. /\ e.table[r] = ApplyTo(d.table[r], i, v)
        /\ e.version[r] = Advance(row, i, v)
    BY <1>7, <2>3 DEF AppliedTo, Due, Database
  <2> DEFINE new == [id |-> i, version |-> v,
                     after |-> {a.id : a \in d.table[r]}]
             next == Advance(row, i, v)
  <2>5. next.version = v /\ next.at = i /\ next.stored = TRUE
        /\ next \in VersionRow
    BY <1>1, <1>2, <2>2, <2>3 DEF Advance, VersionRow
  <2>6. {a.id : a \in d.table[r]} \subseteq S
    BY <1>3 DEF TableFaithful
  <2>7. new \in Application
    BY <1>1, <1>2, <1>4, <2>6 DEF Application
  <2>8. Seen(r, d.events, due \ {i}) = S \cup {i}
    BY <2>1 DEF Seen
  <2>9. \A a \in d.table[r] : a.version = v /\ a.id \in S
    <3>1. \A a \in d.table[r] : a.version = row.version /\ a.id \in S
      BY <1>3 DEF TableFaithful
    <3>2. ~row.stored => S = {}
      BY <1>3 DEF TableFaithful
    <3> QED
      BY <2>2, <2>3, <3>1, <3>2
  <2>10. IsGreatest(i, S \cup {i})
    BY <1>2, <1>4 DEF IsGreatest
  <2>11. r \in hurt => \E j \in S \cup {i} :
                         \A a \in d.table[r] \cup {new} : a.id # j
    BY <1>3, <1>4, <2>1 DEF TableFaithful
  <2>12. r \notin hurt => d.table[r] \cup {new}
                            = ReplaySeen(r, v, d.events, due \ {i})
    <3> SUFFICES ASSUME r \notin hurt
                 PROVE  d.table[r] \cup {new}
                          = ReplaySeen(r, v, d.events, due \ {i})
      OBVIOUS
    <3>1. d.table[r] = ReplaySeen(r, row.version, d.events, due)
      BY <1>3 DEF TableFaithful
    <3>2. {a.id : a \in d.table[r]} = S
      <4>1. \A j \in S : \E a \in ReplaySeen(r, row.version, d.events, due) :
              a.id = j
        <5> TAKE j \in S
        <5> DEFINE app == [id |-> j, version |-> row.version,
                           after |-> {k \in R : k < j}]
        <5>1. app \in ReplaySeen(r, row.version, d.events, due)
          BY DEF ReplaySeen
        <5> QED
          BY <5>1
      <4> QED
        BY <2>6, <3>1, <4>1
    <3>3. S = {j \in R : j < i}
      BY <1>4, <1>5
    <3>4. S # {} => row.version = v
      BY <1>3, <2>2, <2>3 DEF TableFaithful
    <3>5. d.table[r] = ReplaySeen(r, v, d.events, due)
      BY <3>1, <3>4 DEF ReplaySeen
    <3> QED
      BY <2>8, <3>2, <3>3, <3>5 DEF ReplaySeen
  <2>13. e.table[r] = d.table[r] \cup {new}
    BY <2>4 DEF ApplyTo
  <2>14. TableFaithful(d.table[r] \cup {new}, next, r, d.events, due \ {i},
                       r \in hurt)
    <3> HIDE DEF new, next, S
    <3>1. \A a \in d.table[r] \cup {new} : a.version = v /\ a.id \in S \cup {i}
      BY <2>9 DEF new
    <3>2. CASE r \in hurt
      BY <2>5, <2>8, <2>10, <2>11, <3>1, <3>2 DEF TableFaithful
    <3>3. CASE r \notin hurt
      BY <2>5, <2>8, <2>10, <2>12, <3>1, <3>3 DEF TableFaithful
    <3> QED
      BY <3>2, <3>3
  <2> QED
    BY <1>1, <2>4, <2>5, <2>7, <2>13, <2>14
<1> QED
  BY <1>6, <1>7

\* ProjectionManager.apply on the first of the events that are due.
LEMMA ApplyFaithful ==
  ASSUME NEW d \in Database, NEW release \in Release, NEW due, NEW hurt,
         due \subseteq Ids(d.events), LastIds(due, d.events),
         Faithful(d, due, hurt),
         NEW i \in due, \A j \in due : i <= j, CanApply(d, i, release)
  PROVE  LET e == AppliedTo(d, i, release)
         IN /\ e \in Database
            /\ e.events = d.events
            /\ LastIds(due \ {i}, d.events)
            /\ Faithful(e, due \ {i}, hurt)
<1> DEFINE e == AppliedTo(d, i, release)
<1>1. \A r \in Reducer :
        /\ e.table[r] \in SUBSET Application /\ e.version[r] \in VersionRow
        /\ TableFaithful(e.table[r], e.version[r], r, d.events, due \ {i},
                         r \in hurt)
  BY AppliedTable
<1>2. /\ e.events = d.events /\ e.inflight = d.inflight
      /\ e = [events |-> e.events, table |-> e.table, version |-> e.version,
              inflight |-> e.inflight]
      /\ e.table = [r \in Reducer |-> e.table[r]]
      /\ e.version = [r \in Reducer |-> e.version[r]]
  <2>1. PICK ta : ta = e.table
    OBVIOUS
  <2>2. PICK ve : ve = e.version
    OBVIOUS
  <2>3. /\ ta = [r \in Reducer |-> ta[r]] /\ ve = [r \in Reducer |-> ve[r]]
    BY <2>1, <2>2 DEF AppliedTo, Database
  <2>4. e = [d EXCEPT !.table = ta, !.version = ve]
    BY <2>1, <2>2 DEF AppliedTo, Database
  <2>5. e.events = d.events /\ e.inflight = d.inflight
    BY DEF AppliedTo, Database
  <2> QED
    BY <2>1, <2>2, <2>3, <2>4, <2>5 DEF Database
<1>3. e \in Database
  <2> HIDE DEF e
  <2>1. e.table \in [Reducer -> SUBSET Application]
    BY <1>1, <1>2
  <2>2. e.version \in [Reducer -> VersionRow]
    BY <1>1, <1>2
  <2>3. e.events \in Seq(EventType) /\ e.inflight \in BOOLEAN
    BY <1>2 DEF Database
  <2> QED
    BY <1>2, <2>1, <2>2, <2>3 DEF Database
<1>4. LastIds(due \ {i}, d.events)
  <2>1. Ids(d.events) \subseteq Int
    BY DEF Ids
  <2> QED
    BY <2>1 DEF LastIds
<1>5. Faithful(e, due \ {i}, hurt)
  BY <1>1, <1>2 DEF Faithful
<1> QED
  BY <1>2, <1>3, <1>4, <1>5

\* _swap: whatever the tables were, they are replays of the whole ledger.
LEMMA SwapFaithful ==
  ASSUME NEW d \in Database, NEW release \in Release
  PROVE  LET e == Swapped(d, release)
         IN /\ e \in Database
            /\ e.events = d.events
            /\ Faithful(e, {}, {})
<1> DEFINE e == Swapped(d, release)
           v(r) == VersionOf[release][r]
           es == d.events
<1>1. /\ es \in Seq(EventType) /\ d.inflight \in BOOLEAN
      /\ \A r \in Reducer : v(r) \in Nat
  BY VersionOfAssumption DEF Database
<1>2. /\ e.events = es
      /\ e.table = [r \in Reducer |-> Replay(r, v(r), es)]
      /\ e.version = [r \in Reducer |->
           [version |-> v(r), at |-> Checkpoint(r, es), stored |-> TRUE]]
      /\ e = [events |-> e.events, table |-> e.table, version |-> e.version,
              inflight |-> d.inflight]
  <2>1. PICK ta : ta = [r \in Reducer |-> Replay(r, v(r), es)]
    OBVIOUS
  <2>2. PICK ve : ve = [r \in Reducer |->
          [version |-> v(r), at |-> Checkpoint(r, es), stored |-> TRUE]]
    OBVIOUS
  <2>3. e = [d EXCEPT !.table = ta, !.version = ve]
    BY <2>1, <2>2 DEF Swapped
  <2> HIDE DEF e
  <2>4. /\ e.events = es /\ e.table = ta /\ e.version = ve
        /\ e = [events |-> es, table |-> ta, version |-> ve,
                inflight |-> d.inflight]
    BY <2>3 DEF Database
  <2> QED
    BY <2>1, <2>2, <2>4
<1>3. e \in Database
  <2>1. e.table \in [Reducer -> SUBSET Application]
    BY <1>1, <1>2, ReplayType
  <2>2. e.version \in [Reducer -> VersionRow]
    BY <1>1, <1>2, CheckpointGreatest DEF VersionRow
  <2> QED
    BY <1>1, <1>2, <2>1, <2>2 DEF Database
<1>4. ASSUME NEW r \in Reducer
      PROVE  TableFaithful(e.table[r], e.version[r], r, es, {}, FALSE)
  <2>1. /\ e.table[r] = Replay(r, v(r), es)
        /\ e.version[r].version = v(r) /\ e.version[r].stored = TRUE
        /\ e.version[r].at = Checkpoint(r, es)
    BY <1>2
  <2>2. \A a \in Replay(r, v(r), es) :
          a.version = v(r) /\ a.id \in Relevant(r, es)
    BY DEF Replay
  <2> QED
    BY <1>1, <2>1, <2>2, NothingDue, CheckpointGreatest DEF TableFaithful
<1>5. Faithful(e, {}, {})
  <2>1. \A r \in Reducer : (r \in {}) = FALSE
    OBVIOUS
  <2> QED
    BY <1>2, <1>4, <2>1 DEF Faithful
<1> QED
  BY <1>2, <1>3, <1>5

\* A table that lost a row is not a replay any more; the others are.
LEMMA DamageFaithful ==
  ASSUME NEW d \in Database, NEW hurt, Faithful(d, {}, hurt),
         NEW r \in Reducer, NEW a \in d.table[r]
  PROVE  LET e == [d EXCEPT !.table[r] = @ \ {a}]
         IN /\ e \in Database
            /\ e.events = d.events
            /\ Faithful(e, {}, hurt \cup {r})
<1> DEFINE e == [d EXCEPT !.table[r] = @ \ {a}]
           seen == Seen(r, d.events, {})
<1>1. /\ e.events = d.events /\ e.version = d.version
      /\ e.table = [d.table EXCEPT ![r] = @ \ {a}]
      /\ e.table[r] = d.table[r] \ {a}
      /\ \A s \in Reducer \ {r} : e.table[s] = d.table[s]
      /\ e \in Database
  BY DEF Database
<1>2. \A s \in Reducer :
        TableFaithful(d.table[s], d.version[s], s, d.events, {}, s \in hurt)
  BY DEF Faithful
<1>3. \A s \in Reducer \ {r} : (s \in hurt \cup {r}) = (s \in hurt)
  OBVIOUS
<1>4. \A s \in Reducer \ {r} :
        TableFaithful(e.table[s], e.version[s], s, e.events, {},
                      s \in hurt \cup {r})
  BY <1>1, <1>2, <1>3
<1>5. \E i \in seen : \A b \in d.table[r] \ {a} : b.id # i
  <2>1. CASE r \in hurt
    BY <1>2, <2>1 DEF TableFaithful
  <2>2. CASE r \notin hurt
    <3>1. d.table[r] = ReplaySeen(r, d.version[r].version, d.events, {})
      BY <1>2, <2>2 DEF TableFaithful
    <3> DEFINE w == d.version[r].version
               before(i) == {j \in Relevant(r, d.events) : j < i}
    <3>2. \A b \in d.table[r] :
            b = [id |-> b.id, version |-> w, after |-> before(b.id)]
      <4>1. \A b \in ReplaySeen(r, w, d.events, {}) :
              \E i \in seen : b = [id |-> i, version |-> w, after |-> before(i)]
        BY DEF ReplaySeen
      <4> HIDE DEF before
      <4> QED
        BY <3>1, <4>1
    <3>3. a.id \in seen
      BY <1>2 DEF TableFaithful
    <3>4. ASSUME NEW b \in d.table[r], b.id = a.id
          PROVE  b = a
      <4> HIDE DEF w, before
      <4> QED
        BY <3>2, <3>4
    <3> QED
      BY <3>3, <3>4
  <2> QED
    BY <2>1, <2>2
<1>6. TableFaithful(e.table[r], e.version[r], r, e.events, {},
                    r \in hurt \cup {r})
  <2>1. r \in hurt \cup {r}
    OBVIOUS
  <2>2. TableFaithful(d.table[r], d.version[r], r, d.events, {}, r \in hurt)
    BY <1>2
  <2> QED
    BY <1>1, <1>5, <2>1, <2>2 DEF TableFaithful
<1> QED
  BY <1>1, <1>4, <1>6 DEF Faithful

\* A table that nobody damaged and that the release v made is the replay; a
\* damaged one is the replay of no release.
LEMMA TableExact ==
  ASSUME NEW d \in Database, NEW hurt \in SUBSET Reducer, NEW r \in Reducer,
         NEW v \in Nat, Faithful(d, {}, hurt)
  PROVE  /\ d.version[r].at = Checkpoint(r, d.events)
         /\ r \in hurt => d.table[r] # Replay(r, v, d.events)
         /\ r \notin hurt /\ (d.version[r].stored => d.version[r].version = v)
              => d.table[r] = Replay(r, v, d.events)
<1> DEFINE es == d.events
           row == d.version[r]
<1>1. es \in Seq(EventType) /\ row \in VersionRow /\ row.at \in Nat
  BY DEF Database, VersionRow
<1>2. TableFaithful(d.table[r], row, r, es, {}, r \in hurt)
  BY DEF Faithful
<1>3. row.at = Checkpoint(r, es)
  <2>1. IsGreatest(row.at, Relevant(r, es))
    BY <1>2, NothingDue DEF TableFaithful
  <2> QED
    BY <1>1, <2>1, CheckpointGreatest
<1>4. ASSUME r \in hurt
      PROVE  d.table[r] # Replay(r, v, es)
  <2>1. PICK i \in Relevant(r, es) : \A a \in d.table[r] : a.id # i
    BY <1>2, <1>4, NothingDue DEF TableFaithful
  <2> DEFINE app == [id |-> i, version |-> v,
                     after |-> {j \in Relevant(r, es) : j < i}]
  <2>2. app \in Replay(r, v, es) /\ app.id = i
    BY DEF Replay
  <2> QED
    BY <2>1, <2>2
<1>5. ASSUME r \notin hurt, row.stored => row.version = v
      PROVE  d.table[r] = Replay(r, v, es)
  <2>1. d.table[r] = ReplaySeen(r, row.version, es, {})
    BY <1>2, <1>5 DEF TableFaithful
  <2>2. CASE row.stored
    BY <1>5, <2>1, <2>2, NothingDue
  <2>3. CASE ~row.stored
    <3>1. Seen(r, es, {}) = {}
      BY <1>2, <2>3 DEF TableFaithful
    <3> QED
      BY <2>1, <3>1, NothingDue DEF ReplaySeen
  <2> QED
    BY <2>2, <2>3
<1> QED
  BY <1>3, <1>4, <1>5

\* A ledger that has grown by nothing is the same.
LEMMA SameLength ==
  ASSUME NEW es \in Seq(EventType), NEW fs \in Seq(EventType), Extends(es, fs)
  PROVE  /\ Len(es) \in Nat /\ Len(fs) \in Nat /\ Len(es) <= Len(fs)
         /\ Len(fs) = Len(es) => fs = es
<1>1. \A i \in 1..Len(es) : fs[i] = es[i]
  BY DEF Extends, Ids
<1>2. Len(fs) = Len(es) => fs = es
  BY <1>1, SeqEqual
<1> QED
  BY <1>2, LenProperties DEF Extends

\* The part of a ledger up to its head is the ledger.
LEMMA WholeLedger ==
  ASSUME NEW es \in Seq(EventType)
  PROVE  SubSeq(es, 1, Len(es)) = es
<1>1. Len(es) \in Nat /\ \A i \in 1..Len(es) : es[i] \in EventType
  BY LenProperties, ElementOfSeq
<1>2. /\ SubSeq(es, 1, Len(es)) \in Seq(EventType)
      /\ Len(SubSeq(es, 1, Len(es))) = Len(es)
      /\ \A i \in 1..Len(es) : SubSeq(es, 1, Len(es))[i] = es[i]
  BY <1>1, SubSeqProperties
<1> QED
  BY <1>2, SeqEqual

LEMMA SameLedger ==
  ASSUME NEW es \in Seq(EventType)
  PROVE  Extends(es, es)
BY LenProperties DEF Extends

LEMMA StillExtends ==
  ASSUME NEW es \in Seq(EventType), NEW fs \in Seq(EventType),
         NEW gs \in Seq(EventType), Extends(es, fs), Extends(fs, gs)
  PROVE  Extends(es, gs)
<1>1. Len(es) \in Nat /\ Len(fs) \in Nat /\ Len(gs) \in Nat
  BY LenProperties
<1> QED
  BY <1>1 DEF Extends, Ids

-----------------------------------------------------------------------------
\* The four parts of the invariant after a step that leaves alone what they
\* are about.
LEMMA DbKept ==
  ASSUME IInv, UNCHANGED <<db, damaged>>
  PROVE  Faithful(db, {}, damaged)'
BY DEF IInv, Faithful

LEMMA WorkKept ==
  ASSUME IInv, UNCHANGED <<db, transaction, damaged>>,
         \A p \in Process : \/ running(p)' = running(p)
                            \/ writer # p /\ running(p)' # "swapped"
  PROVE  WorkFaithful'
<1>1. LastIds(pending, work.events)'
  BY DEF IInv, WorkFaithful, LastIds, transaction
<1>2. /\ (writer = None => work = db /\ pending = {})'
      /\ Extends(db.events, work.events)'
  BY DEF IInv, WorkFaithful, transaction
<1>3. ASSUME NEW p \in Process
      PROVE  /\ writer' = p => running(p)' \in {"serving", "repairing", "swapped"}
             /\ writer' = p /\ running(p)' # "swapped"
                  => Faithful(work, pending, damaged)'
             /\ writer' = p /\ running(p)' # "serving" => pending' = {}
             /\ running(p)' = "swapped"
                  => writer' = p /\ Faithful(work, {}, {})'
  <2>1. /\ Faithful(work, pending, damaged)' <=> Faithful(work, pending, damaged)
        /\ Faithful(work, {}, {})' <=> Faithful(work, {}, {})
    BY DEF transaction
  <2>2. writer' = writer /\ pending' = pending
    BY DEF transaction
  <2> QED
    BY <2>1, <2>2 DEF IInv, WorkFaithful
<1> QED
  BY <1>1, <1>2, <1>3 DEF WorkFaithful

LEMMA WorkDropped ==
  ASSUME IInv, RolledBack, UNCHANGED db, NEW w \in Process, writer = w,
         \A p \in Process : running(p)' = "swapped"
                              => running(p) = "swapped" /\ p # w
  PROVE  WorkFaithful'
<1>1. LastIds(pending, work.events)'
  BY DEF RolledBack, LastIds
<1>2. /\ (writer = None => work = db /\ pending = {})'
      /\ Extends(db.events, work.events)'
  BY SameLedger DEF RolledBack, IInv, TypeOK, Database
<1>3. \A p \in Process : writer' # p /\ running(p)' # "swapped"
  BY NoneAssumption DEF IInv, WorkFaithful, RolledBack
<1> QED
  BY <1>1, <1>2, <1>3 DEF WorkFaithful

LEMMA DbType == IInv => db \in Database /\ Extends(db.events, db.events)
BY SameLedger DEF IInv, TypeOK, Database

LEMMA ViewKept ==
  ASSUME IInv, NEW p \in Process, view'[p] = view[p],
         db' \in Database, Extends(db.events, db'.events),
         \/ proc'[p] = proc[p] /\ report'[p] = report[p]
         \/ /\ running(p)' \notin Checking \cup Counted
            /\ \/ report'[p] = report[p] /\ report[p] = "none"
               \/ running(p)' = "stopped" /\ report'[p] \notin {"match", "mismatch"}
  PROVE  ViewFaithful(p)'
<1>1. ViewFaithful(p) /\ view[p] \in View /\ db \in Database
  BY DEF IInv, TypeOK
<1>2. /\ (view[p].fixed => Faithful(view[p].db, {}, view[p].damaged))'
      /\ (running(p) # "stopped" => report[p] = "none")'
      /\ (running(p) = "checked" => view[p].next = 1)'
      /\ (report[p] = "match" => view[p].whole = Reducer)'
      /\ (report[p] = "mismatch" => view[p].whole \cap view[p].own # Reducer)'
  BY <1>1 DEF ViewFaithful, running, Checking
<1>3. ReadsFaithful(p)'
  <2>1. CASE running(p)' \notin Checking \cup Counted
    BY <2>1 DEF ReadsFaithful
  <2>2. CASE proc'[p] = proc[p]
    <3>1. /\ Ledger(p) \in Seq(EventType) /\ Ledger(p)' \in Seq(EventType)
          /\ Extends(Ledger(p), Ledger(p)')
      <4>1. CASE view[p].fixed
        <5>1. Ledger(p) = view[p].db.events /\ Ledger(p)' = view[p].db.events
          BY <4>1 DEF Ledger, Sees
        <5>2. view[p].db.events \in Seq(EventType)
          BY <1>1 DEF View, Database
        <5> QED
          BY <5>1, <5>2, SameLedger
      <4>2. CASE ~view[p].fixed
        BY <1>1, <4>2 DEF Ledger, Sees, Database
      <4> QED
        BY <4>1, <4>2
    <3>2. running(p)' = running(p) /\ current(p)' = current(p)
      BY <2>2 DEF running, current
    <3>3. /\ Replayed(p)' = Replayed(p) /\ Placed(p)' = Placed(p)
          /\ Compared(p)' = Compared(p)
      BY <3>2 DEF Replayed, Placed, Compared, Passed
    <3>4. \A r : versionIn(p, r)' = versionIn(p, r)
      BY <2>2 DEF versionIn
    <3>5. ASSUME Ledger(p)' = Ledger(p), ReadsOne(p, Ledger(p))
          PROVE  ReadsOne(p, Ledger(p))'
      BY <3>2, <3>3, <3>4, <3>5 DEF ReadsOne
    <3>6. view[p].head \in Nat
      BY <1>1 DEF View
    <3> QED
      BY <1>1, <3>1, <3>2, <3>5, <3>6, SameLength DEF ReadsFaithful, ViewFaithful
  <2> QED
    BY <2>1, <2>2
<1> QED
  BY <1>2, <1>3 DEF ViewFaithful

-----------------------------------------------------------------------------
\* A process that has read nothing.
LEMMA NoViewType == NoView \in View
<1>1. 1 \in DOMAIN Registry
  BY RegistryAssumption, EmptySeq, LenProperties
<1>2. /\ [r \in Reducer |-> {}] \in [Reducer -> SUBSET Application]
      /\ [r \in Reducer |-> 0] \in [Reducer -> Nat]
  OBVIOUS
<1> QED
  BY <1>1, <1>2, EmptyFaithful DEF NoView, View

\* The empty database, and processes that run nothing.
LEMMA InitIInv == Init => IInv
<1> SUFFICES ASSUME Init PROVE IInv
  OBVIOUS
<1> USE DEF Init
<1>1. db \in Database /\ Faithful(db, {}, {})
  BY EmptyFaithful
<1>2. NoView \in View
  BY NoViewType
<1>3. TypeOK
  <2>1. 1 \in Release
    BY ReleasesAssumption DEF Release
  <2>2. proc \in [Process -> [state : State, release : Release]]
    BY <2>1 DEF State
  <2> QED
    BY <1>1, <1>2, <2>1, <2>2 DEF TypeOK, Report
<1>4. WorkFaithful
  BY <1>1, NoneAssumption, SameLedger DEF WorkFaithful, LastIds, running, Database
<1>5. \A p \in Process : ViewFaithful(p)
  BY DEF ViewFaithful, ReadsFaithful, Counted, Comparing, NoView, running
<1> QED
  BY <1>1, <1>3, <1>4, <1>5 DEF IInv

\* Install
LEMMA InstallStep == IInv /\ Install => IInv'
<1> SUFFICES ASSUME IInv, Install PROVE IInv'
  OBVIOUS
<1>1. TypeOK'
  BY ReleasesAssumption DEF IInv, TypeOK, Install, Release, transaction, maintenance
<1>2. WorkFaithful'
  BY WorkKept DEF Install, running
<1>3. \A p \in Process : ViewFaithful(p)'
  BY ViewKept, DbType DEF Install, maintenance
<1> QED
  BY <1>1, <1>2, <1>3, DbKept DEF IInv, Install

\* Start and StartRefused
LEMMA StartStep ==
  ASSUME IInv, NEW p \in Process,
         (\E mode \in Mode : Start(p, mode)) \/ StartRefused(p)
  PROVE  IInv'
<1>1. CASE \E mode \in Mode : Start(p, mode)
  <2>1. PICK mode \in Mode : Start(p, mode)
    BY <1>1
  <2>2. /\ running(p) = "stopped" /\ proc'[p] = [state |-> mode, release |-> installed]
        /\ report'[p] = "none" /\ view'[p] = NoView
        /\ \A q \in Process \ {p} : /\ proc'[q] = proc[q] /\ report'[q] = report[q]
                                    /\ view'[q] = view[q]
        /\ UNCHANGED <<installed, db, transaction, damaged>>
    BY <2>1 DEF Start, IInv, TypeOK
  <2>3. TypeOK'
    <3>2. view' \in [Process -> View]
      BY <2>1, NoViewType DEF Start, IInv, TypeOK
    <3>3. proc' \in [Process -> [state : State, release : Release]]
      BY <2>1 DEF Start, IInv, TypeOK, State
    <3>4. report' \in [Process -> Report]
      BY <2>1 DEF Start, IInv, TypeOK, Report
    <3> QED
      BY <2>2, <3>2, <3>3, <3>4 DEF IInv, TypeOK, transaction
  <2>4. writer # p
    BY <2>2 DEF IInv, WorkFaithful
  <2>5. WorkFaithful'
    <3>1. running(p)' # "swapped"
      BY <2>2 DEF Mode, running
    <3> QED
      BY <2>2, <2>4, <3>1, WorkKept DEF running
  <2>6. ViewFaithful(p)'
    <3>1. /\ running(p)' = mode /\ mode \notin Counted /\ mode # "checked"
          /\ ~view'[p].fixed
      BY <2>2 DEF running, Mode, Counted, Comparing, NoView
    <3> QED
      BY <2>2, <3>1 DEF ViewFaithful, ReadsFaithful
  <2> QED
    BY <2>2, <2>3, <2>5, <2>6, DbKept, ViewKept, DbType DEF IInv
<1>2. CASE StartRefused(p)
  <2>1. /\ running(p) = "stopped" /\ report'[p] = "refused"
        /\ \A q \in Process \ {p} : report'[q] = report[q]
        /\ UNCHANGED <<installed, proc, db, transaction, view, damaged>>
    BY <1>2 DEF StartRefused, IInv, TypeOK
  <2>2. TypeOK'
    <3>1. report' \in [Process -> Report]
      BY <1>2 DEF StartRefused, IInv, TypeOK, Report
    <3> QED
      BY <2>1, <3>1 DEF IInv, TypeOK, transaction
  <2>3. WorkFaithful'
    BY <2>1, WorkKept DEF running
  <2>4. \A q \in Process : ViewFaithful(q)'
    <3>1. running(p)' = "stopped" /\ "stopped" \notin Checking \cup Counted
      BY <2>1 DEF running, Checking, Counted, Comparing
    <3> QED
      BY <2>1, <3>1, ViewKept, DbType DEF running
  <2> QED
    BY <2>1, <2>2, <2>3, <2>4, DbKept DEF IInv
<1> QED
  BY <1>1, <1>2

\* The process that ends is not in the middle of a swap any more, and the
\* transaction it held is gone.
LEMMA ExitKeeps ==
  ASSUME IInv, NEW p \in Process, Exit(p), UNCHANGED <<db, damaged>>
  PROVE  /\ WorkFaithful'
         /\ proc' \in [Process -> [state : State, release : Release]]
         /\ work' \in Database /\ writer' \in Process \cup {None}
         /\ pending' \subseteq Ids(work'.events)
         /\ running(p)' = "stopped"
         /\ \A q \in Process \ {p} : proc'[q] = proc[q]
<1>1. /\ proc' \in [Process -> [state : State, release : Release]]
      /\ running(p)' = "stopped"
      /\ \A q \in Process \ {p} : proc'[q] = proc[q]
  BY DEF Exit, IInv, TypeOK, State, running
<1>2. /\ work' \in Database /\ writer' \in Process \cup {None}
      /\ pending' \subseteq Ids(work'.events)
  BY DEF Exit, IInv, TypeOK, RolledBack, transaction
<1>3. WorkFaithful'
  <2>1. CASE writer = p
    BY <1>1, <2>1, WorkDropped DEF Exit, running
  <2>2. CASE writer # p
    BY <1>1, <2>2, WorkKept DEF Exit, running
  <2> QED
    BY <2>1, <2>2
<1> QED
  BY <1>1, <1>2, <1>3

\* Stop
LEMMA StopStep == ASSUME IInv, NEW p \in Process, Stop(p) PROVE IInv'
<1>1. /\ Exit(p) /\ view' = [view EXCEPT ![p] = NoView] /\ running(p) # "stopped"
      /\ UNCHANGED <<installed, db, report, damaged>>
  BY DEF Stop
<1>2. TypeOK'
  BY <1>1, ExitKeeps, NoViewType DEF IInv, TypeOK
<1>3. \A q \in Process \ {p} : ViewFaithful(q)'
  BY <1>1, ExitKeeps, ViewKept, DbType DEF IInv, TypeOK
<1>4. ViewFaithful(p)'
  <2>1. report'[p] = "none"
    BY <1>1 DEF IInv, ViewFaithful
  <2>2. running(p)' = "stopped" /\ view'[p] = NoView
    BY <1>1, ExitKeeps DEF IInv, TypeOK
  <2> QED
    BY <2>1, <2>2 DEF ViewFaithful, ReadsFaithful, Counted, Comparing, NoView
<1> QED
  BY <1>1, <1>2, <1>3, <1>4, ExitKeeps, DbKept DEF IInv

\* A maintenance run that ends without a swap.
LEMMA FinishStep ==
  ASSUME IInv, NEW p \in Process, NEW result \in Report,
         Finish(p, result), UNCHANGED <<db, damaged>>,
         result = "match" => view[p].whole = Reducer,
         result = "mismatch" => view[p].whole \cap view[p].own # Reducer
  PROVE  IInv'
<1> DEFINE kept == [NoView EXCEPT !.whole = view[p].whole, !.own = view[p].own]
<1>1. /\ kept \in View /\ kept.fixed = FALSE
      /\ kept.whole = view[p].whole /\ kept.own = view[p].own
  <2>1. view[p].whole \in SUBSET Reducer /\ view[p].own \in SUBSET Reducer
    BY DEF IInv, TypeOK, View
  <2>2. NoView.fixed = FALSE
    BY DEF NoView
  <2> QED
    BY <2>1, <2>2, NoViewType DEF View
<1>2. /\ Exit(p) /\ UNCHANGED <<installed, db, damaged>>
      /\ report' \in [Process -> Report] /\ report'[p] = result
      /\ view' = [view EXCEPT ![p] = kept]
      /\ \A q \in Process \ {p} : report'[q] = report[q]
  BY DEF Finish, IInv, TypeOK
<1> HIDE DEF kept
<1>3. /\ view' \in [Process -> View] /\ view'[p] = kept
      /\ \A q \in Process \ {p} : view'[q] = view[q]
  BY <1>1, <1>2 DEF IInv, TypeOK
<1>4. TypeOK'
  BY <1>2, <1>3, ExitKeeps DEF IInv, TypeOK
<1>5. \A q \in Process \ {p} : ViewFaithful(q)'
  BY <1>2, <1>3, ExitKeeps, ViewKept, DbType
<1>6. ViewFaithful(p)'
  <2>1. running(p)' = "stopped"
    BY <1>2, ExitKeeps
  <2> QED
    BY <1>1, <1>2, <1>3, <2>1 DEF ViewFaithful, ReadsFaithful, Counted, Comparing
<1> QED
  BY <1>2, <1>4, <1>5, <1>6, ExitKeeps, DbKept DEF IInv

\* VerifyRefused, RepairBusy and RepairBlocked
LEMMA RefusedStep ==
  ASSUME IInv, NEW p \in Process,
         VerifyRefused(p) \/ RepairBusy(p) \/ RepairBlocked(p)
  PROVE  IInv'
<1>1. PICK result \in {"refused", "busy", "blocked"} :
        Finish(p, result) /\ UNCHANGED <<db, damaged>>
  BY DEF VerifyRefused, RepairBusy, RepairBlocked
<1>2. result \in Report /\ result \notin {"match", "mismatch"}
  BY DEF Report
<1> QED
  BY <1>1, <1>2, FinishStep

-----------------------------------------------------------------------------
\* What the next read of a verification sees, and what it changes.
LEMMA Seeing ==
  ASSUME IInv, NEW p \in Process
  PROVE  /\ Sees(p).db \in Database /\ Sees(p).damaged \in SUBSET Reducer
         /\ Faithful(Sees(p).db, {}, Sees(p).damaged)
         /\ Ledger(p) \in Seq(EventType) /\ Len(Ledger(p)) \in Nat
         /\ view[p] \in View /\ AfterRead(p) \in View
         /\ AfterRead(p).fixed => /\ AfterRead(p).db = Sees(p).db
                                  /\ AfterRead(p).damaged = Sees(p).damaged
         /\ ~AfterRead(p).fixed => ~view[p].fixed
<1>1. /\ view[p] \in View /\ db \in Database /\ damaged \in SUBSET Reducer
      /\ Faithful(db, {}, damaged)
      /\ view[p].fixed => Faithful(view[p].db, {}, view[p].damaged)
  BY DEF IInv, TypeOK, ViewFaithful
<1>2. CASE view[p].fixed
  <2>1. /\ Sees(p).db = view[p].db /\ Sees(p).damaged = view[p].damaged
        /\ AfterRead(p) = view[p]
    BY <1>2 DEF Sees, AfterRead
  <2>2. view[p].db \in Database /\ view[p].damaged \in SUBSET Reducer
    BY <1>1 DEF View
  <2>3. view[p].db.events \in Seq(EventType)
    BY <2>2 DEF Database
  <2> QED
    BY <1>1, <1>2, <2>1, <2>2, <2>3, LenProperties DEF Ledger
<1>3. CASE ~view[p].fixed
  <2>1. /\ Sees(p).db = db /\ Sees(p).damaged = damaged
        /\ AfterRead(p) = IF view[p].begun
                          THEN [view[p] EXCEPT !.fixed = TRUE, !.db = db,
                                               !.damaged = damaged]
                          ELSE view[p]
    BY <1>3 DEF Sees, AfterRead
  <2>2. db.events \in Seq(EventType)
    BY <1>1 DEF Database
  <2>3. CASE view[p].begun
    <3>1. AfterRead(p) = [view[p] EXCEPT !.fixed = TRUE, !.db = db, !.damaged = damaged]
      BY <2>1, <2>3
    <3>2. /\ AfterRead(p).fixed = TRUE /\ AfterRead(p).db = db
          /\ AfterRead(p).damaged = damaged
      BY <1>1, <3>1 DEF View
    <3>3. db \in Database /\ damaged \in SUBSET Reducer
      BY <1>1
    <3>4. AfterRead(p) \in View
      BY <1>1, <3>1, <3>3, Zenon DEF View
    <3> QED
      BY <1>1, <2>1, <2>2, <2>3, <3>2, <3>4, LenProperties DEF Ledger
  <2>4. CASE ~view[p].begun
    <3> QED
      BY <1>1, <1>3, <2>1, <2>2, <2>4, LenProperties DEF Ledger
  <2> QED
    BY <2>3, <2>4
<1> QED
  BY <1>2, <1>3

LEMMA ReadKeeps ==
  ASSUME IInv, NEW p \in Process
  PROVE  /\ AfterRead(p) \in View /\ view[p] \in View
         /\ AfterRead(p).next = view[p].next /\ AfterRead(p).head = view[p].head
         /\ AfterRead(p).rebuilt = view[p].rebuilt
         /\ AfterRead(p).checkpoint = view[p].checkpoint
         /\ AfterRead(p).at = view[p].at /\ AfterRead(p).differ = view[p].differ
         /\ AfterRead(p).whole = view[p].whole /\ AfterRead(p).own = view[p].own
<1>1. view[p] \in View /\ db \in Database /\ damaged \in SUBSET Reducer
  BY DEF IInv, TypeOK
<1> QED
  BY <1>1 DEF AfterRead, View

\* A step of a verification changes nothing but its own view, and what the
\* next read sees is what this one saw.
LEMMA VerifyChanges ==
  ASSUME IInv, NEW p \in Process, NEW from \in State, NEW to \in State,
         NEW kept \in View, Verify(p, from, kept, to),
         kept.fixed = AfterRead(p).fixed, kept.db = AfterRead(p).db,
         kept.damaged = AfterRead(p).damaged
  PROVE  /\ running(p) = from /\ running(p)' = to /\ view'[p] = kept
         /\ \A r : versionIn(p, r)' = versionIn(p, r)
         /\ Ledger(p)' = Ledger(p)
         /\ UNCHANGED <<installed, db, transaction, report, damaged>>
         /\ proc' \in [Process -> [state : State, release : Release]]
         /\ view' \in [Process -> View]
         /\ \A q \in Process \ {p} : proc'[q] = proc[q] /\ view'[q] = view[q]
<1>1. /\ running(p) = from /\ view' = [view EXCEPT ![p] = kept]
      /\ proc' = [proc EXCEPT ![p].state = to]
      /\ UNCHANGED <<installed, db, transaction, report, damaged>>
  BY DEF Verify
<1>2. /\ proc' \in [Process -> [state : State, release : Release]]
      /\ running(p)' = to /\ proc'[p].release = proc[p].release
      /\ \A q \in Process \ {p} : proc'[q] = proc[q]
  BY <1>1 DEF IInv, TypeOK, running
<1>3. /\ view' \in [Process -> View] /\ view'[p] = kept
      /\ \A q \in Process \ {p} : view'[q] = view[q]
  BY <1>1 DEF IInv, TypeOK
<1>4. Ledger(p)' = Ledger(p)
  <2>1. CASE kept.fixed
    BY <1>3, <2>1, Seeing DEF Ledger, Sees
  <2>2. CASE ~kept.fixed
    <3>1. ~view[p].fixed
      BY <2>2, Seeing
    <3> QED
      BY <1>1, <1>3, <2>2, <3>1 DEF Ledger, Sees
  <2> QED
    BY <2>1, <2>2
<1> QED
  BY <1>1, <1>2, <1>3, <1>4 DEF versionIn

LEMMA VerifyKeeps ==
  ASSUME IInv, NEW p \in Process,
         NEW from \in Checking \cup Counted, NEW to \in Checking \cup Counted,
         NEW kept \in View, Verify(p, from, kept, to),
         kept.fixed = AfterRead(p).fixed, kept.db = AfterRead(p).db,
         kept.damaged = AfterRead(p).damaged,
         to = "checked" => kept.next = 1, ReadsFaithful(p)'
  PROVE  IInv'
<1>0. from \in State /\ to \in State /\ from # "stopped"
      /\ from \notin {"serving", "repairing", "swapped"}
      /\ to \notin {"serving", "repairing", "swapped", "stopped"}
  BY DEF Checking, Counted, Comparing, State, Mode
<1>1. /\ running(p) = from /\ running(p)' = to /\ view'[p] = kept
      /\ UNCHANGED <<installed, db, transaction, report, damaged>>
      /\ proc' \in [Process -> [state : State, release : Release]]
      /\ view' \in [Process -> View]
      /\ \A q \in Process \ {p} : proc'[q] = proc[q] /\ view'[q] = view[q]
  BY <1>0, VerifyChanges
<1>2. TypeOK'
  BY <1>1 DEF IInv, TypeOK, transaction
<1>3. WorkFaithful'
  <2>1. writer # p
    BY <1>0, <1>1 DEF IInv, WorkFaithful
  <2> QED
    BY <1>0, <1>1, <2>1, WorkKept DEF running
<1>4. ViewFaithful(p)'
  <2>1. (view[p].fixed => Faithful(view[p].db, {}, view[p].damaged))'
    BY <1>1, Seeing
  <2>2. report'[p] = "none"
    BY <1>0, <1>1 DEF IInv, ViewFaithful
  <2> QED
    BY <1>1, <2>1, <2>2 DEF ViewFaithful
<1>5. \A q \in Process \ {p} : ViewFaithful(q)'
  BY <1>1, ViewKept, DbType
<1> QED
  BY <1>1, <1>2, <1>3, <1>4, <1>5, DbKept DEF IInv

\* The loops visit every reducer.
LEMMA Looping ==
  ASSUME IInv, NEW p \in Process
  PROVE  /\ view[p].next \in DOMAIN Registry /\ current(p) \in Reducer
         /\ Following(p) \in DOMAIN Registry
         /\ Passed(p) \subseteq Reducer
         /\ IsLast(p) => Following(p) = 1 /\ Passed(p) \cup {current(p)} = Reducer
         /\ ~IsLast(p) => {Registry[i] : i \in 1..(Following(p) - 1)}
                            = Passed(p) \cup {current(p)}
<1>1. /\ Registry \in Seq(Reducer) /\ Len(Registry) \in Nat \ {0}
      /\ DOMAIN Registry = 1..Len(Registry)
      /\ \A i \in 1..Len(Registry) : Registry[i] \in Reducer
  BY RegistryAssumption, EmptySeq, LenProperties, ElementOfSeq
<1> DEFINE n == view[p].next
<1>2. n \in 1..Len(Registry)
  BY <1>1 DEF IInv, TypeOK, View
<1> HIDE DEF n
<1>3. /\ current(p) = Registry[n] /\ Passed(p) = {Registry[i] : i \in 1..(n - 1)}
      /\ IsLast(p) <=> n = Len(Registry)
      /\ Following(p) = IF n = Len(Registry) THEN 1 ELSE n + 1
  BY DEF n, current, Passed, IsLast, Following
<1>4. {Registry[i] : i \in 1..n} = Passed(p) \cup {current(p)}
  <2>1. 1..n = (1..(n - 1)) \cup {n}
    BY <1>2
  <2> QED
    BY <1>3, <2>1
<1>5. ASSUME n = Len(Registry) PROVE Passed(p) \cup {current(p)} = Reducer
  <2>1. \A r \in Reducer : r \in {Registry[i] : i \in 1..n}
    BY <1>1, <1>5, RegistryAssumption
  <2>2. {Registry[i] : i \in 1..n} \subseteq Reducer
    BY <1>1, <1>5
  <2> QED
    BY <1>4, <2>1, <2>2
<1>6. Passed(p) \subseteq Reducer /\ current(p) \in Reducer
  <2>1. \A i \in 1..n : Registry[i] \in Reducer
    BY <1>1, <1>2
  <2>2. {Registry[i] : i \in 1..n} \subseteq Reducer
    BY <2>1
  <2> QED
    BY <1>4, <2>2
<1>7. n # Len(Registry) => (n + 1) - 1 = n
  BY <1>2
<1> QED
  BY <1>1, <1>2, <1>3, <1>4, <1>5, <1>6, <1>7 DEF n

\* VerifyVersion
LEMMA VerifyVersionStep ==
  ASSUME IInv, NEW p \in Process, VerifyVersion(p)
  PROVE  IInv'
<1> DEFINE kept == [AfterRead(p) EXCEPT !.next = Following(p)]
           to == IF IsLast(p) THEN "checked" ELSE "verifying"
<1>1. /\ kept \in View /\ kept.fixed = AfterRead(p).fixed
      /\ kept.db = AfterRead(p).db /\ kept.damaged = AfterRead(p).damaged
      /\ kept.next = Following(p)
  <2>1. AfterRead(p) \in View /\ Following(p) \in DOMAIN Registry
    BY ReadKeeps, Looping
  <2> QED
    BY <2>1 DEF View
<1>2. Verify(p, "verifying", kept, to)
  BY DEF VerifyVersion
<1>3. to \in Checking /\ "verifying" \in Checking /\ Checking \subseteq State
  BY DEF Checking, State, Mode
<1>4. to = "checked" => kept.next = 1
  BY <1>1, Looping
<1> HIDE DEF kept, to
<1>5. running(p)' = to
  BY <1>1, <1>2, <1>3, VerifyChanges
<1>6. ReadsFaithful(p)'
  BY <1>3, <1>5 DEF ReadsFaithful, Checking, Counted, Comparing
<1> QED
  BY <1>1, <1>2, <1>3, <1>4, <1>6, VerifyKeeps

\* VerifyHead
LEMMA VerifyHeadStep ==
  ASSUME IInv, NEW p \in Process, VerifyHead(p)
  PROVE  IInv'
<1> DEFINE kept == [AfterRead(p) EXCEPT !.head = Len(Ledger(p))]
<1>1. /\ kept \in View /\ kept.fixed = AfterRead(p).fixed
      /\ kept.db = AfterRead(p).db /\ kept.damaged = AfterRead(p).damaged
      /\ kept.head = Len(Ledger(p)) /\ kept.next = view[p].next
  <2>1. /\ AfterRead(p) \in View /\ Len(Ledger(p)) \in Nat
        /\ AfterRead(p).next = view[p].next
    BY ReadKeeps, Seeing
  <2> QED
    BY <2>1 DEF View
<1>2. Verify(p, "checked", kept, "replaying")
  BY DEF VerifyHead, Ledger
<1>3. /\ "checked" \in Checking /\ "replaying" \in Counted
      /\ "checked" \in State /\ "replaying" \in State
  BY DEF Checking, Counted, State
<1> HIDE DEF kept
<1>4. /\ running(p) = "checked" /\ running(p)' = "replaying"
      /\ view'[p] = kept /\ Ledger(p)' = Ledger(p)
  BY <1>1, <1>2, <1>3, VerifyChanges
<1>5. ReadsFaithful(p)'
  <2>1. view'[p].next = 1
    BY <1>1, <1>4 DEF IInv, ViewFaithful
  <2>2. Passed(p)' = {}
    BY <2>1 DEF Passed
  <2>3. Replayed(p)' = {} /\ Placed(p)' = {} /\ Compared(p)' = {}
    BY <1>4, <2>2 DEF Replayed, Placed, Compared, Comparing
  <2>4. \A es : ReadsOne(p, es)'
    BY <1>4, <2>3 DEF ReadsOne
  <2>5. view'[p].head <= Len(Ledger(p)')
    BY <1>1, <1>4, Seeing
  <2> QED
    BY <1>4, <2>3, <2>5 DEF ReadsFaithful, ReadsOne
<1> QED
  BY <1>1, <1>2, <1>3, <1>5, VerifyKeeps

\* VerifyReplay
LEMMA VerifyReplayStep ==
  ASSUME IInv, NEW p \in Process, VerifyReplay(p)
  PROVE  IInv'
<1> DEFINE r == current(p)
           L == Ledger(p)
           table == Replay(r, versionIn(p, r), L)
           kept == [AfterRead(p) EXCEPT !.rebuilt[r] = table,
                                        !.begun = @ \/ Relevant(r, L) # {}]
<1>1. r \in Reducer /\ table \in SUBSET Application
  <2>1. versionIn(p, r) \in Nat
    BY Looping, VersionOfAssumption DEF versionIn, IInv, TypeOK
  <2> QED
    BY <2>1, Looping, Seeing, ReplayType
<1>2. /\ kept \in View /\ kept.fixed = AfterRead(p).fixed
      /\ kept.db = AfterRead(p).db /\ kept.damaged = AfterRead(p).damaged
      /\ kept.rebuilt = [view[p].rebuilt EXCEPT ![r] = table]
      /\ kept.next = view[p].next /\ kept.head = view[p].head
      /\ kept.checkpoint = view[p].checkpoint
  <2> HIDE DEF table, r
  <2>1. AfterRead(p) \in View /\ view[p] \in View
    BY ReadKeeps
  <2>2. /\ AfterRead(p).rebuilt = view[p].rebuilt
        /\ AfterRead(p).next = view[p].next /\ AfterRead(p).head = view[p].head
        /\ AfterRead(p).checkpoint = view[p].checkpoint
    BY ReadKeeps
  <2> QED
    BY <1>1, <2>1, <2>2 DEF View
<1>3. Verify(p, "replaying", kept, "replayed")
  BY DEF VerifyReplay, Ledger
<1>4. /\ {"replaying", "replayed"} \subseteq Counted
      /\ {"replaying", "replayed"} \subseteq State
  BY DEF Counted, State
<1> HIDE DEF kept, table
<1>5. /\ running(p) = "replaying" /\ running(p)' = "replayed"
      /\ view'[p] = kept /\ Ledger(p)' = L
      /\ \A q : versionIn(p, q)' = versionIn(p, q)
  BY <1>2, <1>3, <1>4, VerifyChanges
<1>6. ReadsFaithful(p)'
  <2>1. current(p)' = r /\ Passed(p)' = Passed(p)
    BY <1>2, <1>5 DEF current, Passed
  <2>2. /\ Replayed(p)' = Passed(p) \cup {r} /\ Placed(p)' = Passed(p)
        /\ Compared(p)' = {} /\ Replayed(p) = Passed(p) /\ Placed(p) = Passed(p)
    BY <1>5, <2>1 DEF Replayed, Placed, Compared, Comparing
  <2>3. ReadsFaithful(p) /\ running(p) \in Counted
    BY <1>4, <1>5 DEF IInv, ViewFaithful
  <2>4. \A q \in Reducer : view'[p].rebuilt[q] = IF q = r THEN table
                                                ELSE view[p].rebuilt[q]
    BY <1>2, <1>5, Seeing DEF View
  <2>5. ASSUME ReadsOne(p, L) PROVE ReadsOne(p, Ledger(p))'
    <3>1. \A q \in Passed(p) \cup {r} :
            view'[p].rebuilt[q] = Replay(q, versionIn(p, q), L)
      BY <1>1, <2>2, <2>4, <2>5, Looping DEF ReadsOne, table
    <3>2. \A q \in Passed(p) : view'[p].checkpoint[q] = Checkpoint(q, L)
      BY <1>2, <1>5, <2>2, <2>5 DEF ReadsOne
    <3> QED
      BY <1>5, <2>2, <3>1, <3>2 DEF ReadsOne
  <2> QED
    BY <1>2, <1>5, <2>3, <2>5 DEF ReadsFaithful
<1> QED
  BY <1>2, <1>3, <1>4, <1>6, VerifyKeeps

\* VerifyCheckpoint
LEMMA VerifyCheckpointStep ==
  ASSUME IInv, NEW p \in Process, VerifyCheckpoint(p)
  PROVE  IInv'
<1> DEFINE r == current(p)
           L == Ledger(p)
           at == Checkpoint(r, SubSeq(L, 1, view[p].head))
           kept == [AfterRead(p) EXCEPT !.checkpoint[r] = at, !.next = Following(p)]
           to == IF IsLast(p) THEN "hashing" ELSE "replaying"
<1>0. running(p) = "replayed" /\ Verify(p, "replayed", kept, to)
  BY DEF VerifyCheckpoint, Ledger, Verify
<1>1. /\ r \in Reducer /\ at \in Nat /\ view[p].head \in Nat
      /\ Len(L) = view[p].head => at = Checkpoint(r, L)
  <2>1. view[p].head \in Nat /\ L \in Seq(EventType) /\ Len(L) \in Nat
    BY Seeing DEF View
  <2>2. view[p].head <= Len(L)
    BY <1>0 DEF IInv, ViewFaithful, ReadsFaithful, Counted
  <2>3. \A i \in 1..view[p].head : L[i] \in EventType
    BY <2>1, <2>2, ElementOfSeq
  <2>4. SubSeq(L, 1, view[p].head) \in Seq(EventType)
    BY <2>1, <2>3, SubSeqProperties
  <2> QED
    BY <2>1, <2>4, Looping, CheckpointGreatest, WholeLedger
<1>2. /\ kept \in View /\ kept.fixed = AfterRead(p).fixed
      /\ kept.db = AfterRead(p).db /\ kept.damaged = AfterRead(p).damaged
      /\ kept.checkpoint = [view[p].checkpoint EXCEPT ![r] = at]
      /\ kept.next = Following(p) /\ kept.head = view[p].head
      /\ kept.rebuilt = view[p].rebuilt
  <2> HIDE DEF at, r
  <2>1. AfterRead(p) \in View /\ view[p] \in View /\ Following(p) \in DOMAIN Registry
    BY ReadKeeps, Looping
  <2>2. /\ AfterRead(p).rebuilt = view[p].rebuilt
        /\ AfterRead(p).head = view[p].head
        /\ AfterRead(p).checkpoint = view[p].checkpoint
    BY ReadKeeps
  <2> QED
    BY <1>1, <2>1, <2>2 DEF View
<1>3. to \in Counted /\ "replayed" \in Counted /\ Counted \subseteq State
  BY DEF Counted, Comparing, State
<1> HIDE DEF kept, at
<1>4. /\ running(p)' = to /\ view'[p] = kept /\ Ledger(p)' = L
      /\ \A q : versionIn(p, q)' = versionIn(p, q)
  BY <1>0, <1>2, <1>3, VerifyChanges
<1>5. ReadsFaithful(p)'
  <2>1. Replayed(p) = Passed(p) \cup {r} /\ Placed(p) = Passed(p)
    BY <1>0 DEF Replayed, Placed, Comparing
  <2>2. /\ Replayed(p)' \subseteq Passed(p) \cup {r}
        /\ Placed(p)' \subseteq Passed(p) \cup {r}
        /\ Compared(p)' = {}
    <3>1. CASE IsLast(p)
      <4>1. /\ running(p)' = "hashing" /\ Passed(p) \cup {r} = Reducer
            /\ view'[p].next = 1
        BY <1>2, <1>4, <3>1, Looping
      <4>2. Passed(p)' = {}
        BY <4>1 DEF Passed
      <4> QED
        BY <4>1, <4>2 DEF Replayed, Placed, Compared, Comparing
    <3>2. CASE ~IsLast(p)
      <4>1. running(p)' = "replaying" /\ view'[p].next = Following(p)
        BY <1>2, <1>4, <3>2
      <4>2. Passed(p)' = Passed(p) \cup {r}
        BY <3>2, <4>1, Looping DEF Passed
      <4> QED
        BY <4>1, <4>2 DEF Replayed, Placed, Compared, Comparing
    <3> QED
      BY <3>1, <3>2
  <2>3. ReadsFaithful(p) /\ running(p) \in Counted
    BY <1>0, <1>3 DEF IInv, ViewFaithful
  <2>4. \A q \in Reducer : view'[p].checkpoint[q] = IF q = r THEN at
                                                   ELSE view[p].checkpoint[q]
    BY <1>2, <1>4, Seeing DEF View
  <2>5. ASSUME Len(L) = view[p].head PROVE ReadsOne(p, Ledger(p))'
    <3>1. ReadsOne(p, L)
      BY <2>3, <2>5 DEF ReadsFaithful
    <3>2. \A q \in Passed(p) \cup {r} :
            view'[p].rebuilt[q] = Replay(q, versionIn(p, q), L)
      BY <1>2, <1>4, <2>1, <3>1 DEF ReadsOne
    <3>3. \A q \in Passed(p) \cup {r} : view'[p].checkpoint[q] = Checkpoint(q, L)
      BY <1>1, <2>1, <2>4, <2>5, <3>1, Looping DEF ReadsOne
    <3>4. running(p)' # "hashed"
      BY <1>4
    <3> QED
      BY <1>4, <2>2, <3>2, <3>3, <3>4 DEF ReadsOne
  <2> QED
    BY <1>2, <1>4, <2>3, <2>5 DEF ReadsFaithful
<1>6. to # "checked"
  OBVIOUS
<1> QED
  BY <1>0, <1>2, <1>3, <1>5, <1>6, VerifyKeeps

\* VerifyRow
LEMMA VerifyRowStep ==
  ASSUME IInv, NEW p \in Process, VerifyRow(p)
  PROVE  IInv'
<1> DEFINE r == current(p)
           L == Ledger(p)
           at == Sees(p).db.version[r].at
           kept == [AfterRead(p) EXCEPT !.at = at]
<1>1. at \in Nat /\ at = Checkpoint(r, L)
  <2>1. /\ Sees(p).db \in Database /\ Sees(p).damaged \in SUBSET Reducer
        /\ Faithful(Sees(p).db, {}, Sees(p).damaged) /\ r \in Reducer /\ 0 \in Nat
    BY Seeing, Looping
  <2>2. at = Checkpoint(r, L)
    BY <2>1, TableExact DEF Ledger
  <2>3. Sees(p).db.version[r] \in VersionRow
    BY <2>1 DEF Database
  <2> QED
    BY <2>2, <2>3 DEF VersionRow
<1>2. /\ kept \in View /\ kept.fixed = AfterRead(p).fixed
      /\ kept.db = AfterRead(p).db /\ kept.damaged = AfterRead(p).damaged
      /\ kept.checkpoint = view[p].checkpoint /\ kept.at = at
      /\ kept.next = view[p].next /\ kept.head = view[p].head
      /\ kept.rebuilt = view[p].rebuilt /\ kept.differ = view[p].differ
      /\ kept.whole = view[p].whole /\ kept.own = view[p].own
  <2> HIDE DEF at, r
  <2>1. /\ AfterRead(p).next = view[p].next /\ AfterRead(p).head = view[p].head
        /\ AfterRead(p).rebuilt = view[p].rebuilt
        /\ AfterRead(p).checkpoint = view[p].checkpoint
        /\ AfterRead(p).differ = view[p].differ
        /\ AfterRead(p).whole = view[p].whole /\ AfterRead(p).own = view[p].own
        /\ AfterRead(p) \in View
    BY ReadKeeps
  <2> QED
    BY <1>1, <2>1 DEF View
<1>3. Verify(p, "hashing", kept, "hashed")
  BY DEF VerifyRow
<1>4. {"hashing", "hashed"} \subseteq Counted /\ {"hashing", "hashed"} \subseteq State
  BY DEF Counted, Comparing, State
<1> HIDE DEF kept, at
<1>5. /\ running(p) = "hashing" /\ running(p)' = "hashed"
      /\ view'[p] = kept /\ Ledger(p)' = L
      /\ \A q : versionIn(p, q)' = versionIn(p, q)
  BY <1>2, <1>3, <1>4, VerifyChanges
<1>6. ReadsFaithful(p)'
  <2>1. current(p)' = r /\ Passed(p)' = Passed(p)
    BY <1>2, <1>5 DEF current, Passed
  <2>2. /\ Replayed(p)' = Replayed(p) /\ Placed(p)' = Placed(p)
        /\ Compared(p)' = Compared(p)
    BY <1>5, <2>1 DEF Replayed, Placed, Compared, Comparing
  <2>3. ReadsFaithful(p) /\ running(p) \in Counted
    BY <1>4, <1>5 DEF IInv, ViewFaithful
  <2>4. ASSUME ReadsOne(p, L) PROVE ReadsOne(p, Ledger(p))'
    <3>1. /\ \A q \in Replayed(p) :
               view'[p].rebuilt[q] = Replay(q, versionIn(p, q), L)
          /\ \A q \in Placed(p) : view'[p].checkpoint[q] = Checkpoint(q, L)
          /\ \A q \in Compared(p) : Exact(view'[p], q)
      BY <1>2, <1>5, <2>4 DEF ReadsOne, Exact
    <3> QED
      BY <1>1, <1>2, <1>5, <2>1, <2>2, <3>1 DEF ReadsOne, Exact
  <2> QED
    BY <1>2, <1>5, <2>3, <2>4 DEF ReadsFaithful
<1> QED
  BY <1>2, <1>3, <1>4, <1>6, VerifyKeeps

\* VerifyTable: what differs was damaged, or is not of the running release.
LEMMA VerifyTableStep ==
  ASSUME IInv, NEW p \in Process, VerifyTable(p)
  PROVE  IInv'
<1> DEFINE r == current(p)
           v == view[p]
           L == Ledger(p)
           now == Sees(p)
           same == v.rebuilt[r] = now.db.table[r] /\ v.checkpoint[r] = v.at
           kept == [AfterRead(p) EXCEPT
                     !.next = Following(p),
                     !.differ = Noted(@, r, ~same),
                     !.whole = Noted(@, r, r \notin now.damaged),
                     !.own = Noted(@, r, RowAgrees(p))]
           to == IF IsLast(p) THEN "compared" ELSE "hashing"
<1>0. running(p) = "hashed" /\ Verify(p, "hashed", kept, to)
  BY DEF VerifyTable, Verify
<1>1. /\ r \in Reducer /\ view[p] \in View /\ AfterRead(p) \in View
      /\ Following(p) \in DOMAIN Registry
      /\ AfterRead(p).rebuilt = v.rebuilt /\ AfterRead(p).checkpoint = v.checkpoint
      /\ AfterRead(p).head = v.head /\ AfterRead(p).differ = v.differ
      /\ AfterRead(p).whole = v.whole /\ AfterRead(p).own = v.own
  BY ReadKeeps, Looping
<1>2. /\ kept \in View /\ kept.fixed = AfterRead(p).fixed
      /\ kept.db = AfterRead(p).db /\ kept.damaged = AfterRead(p).damaged
      /\ kept.checkpoint = v.checkpoint /\ kept.next = Following(p)
      /\ kept.head = v.head /\ kept.rebuilt = v.rebuilt
      /\ kept.differ = Noted(v.differ, r, ~same)
      /\ kept.whole = Noted(v.whole, r, r \notin now.damaged)
      /\ kept.own = Noted(v.own, r, RowAgrees(p))
  <2>1. PICK differ : differ = Noted(v.differ, r, ~same)
    OBVIOUS
  <2>2. PICK whole : whole = Noted(v.whole, r, r \notin now.damaged)
    OBVIOUS
  <2>3. PICK own : own = Noted(v.own, r, RowAgrees(p))
    OBVIOUS
  <2>4. kept = [AfterRead(p) EXCEPT !.next = Following(p), !.differ = differ,
                                    !.whole = whole, !.own = own]
    BY <1>1, <2>1, <2>2, <2>3
  <2>5. /\ differ \in SUBSET Reducer /\ whole \in SUBSET Reducer
        /\ own \in SUBSET Reducer
    BY <1>1, <2>1, <2>2, <2>3 DEF Noted, View
  <2> HIDE DEF kept, same, r, now
  <2>6. kept \in View
    BY <1>1, <2>4, <2>5, Zenon DEF View
  <2>7. /\ kept.fixed = AfterRead(p).fixed /\ kept.db = AfterRead(p).db
        /\ kept.damaged = AfterRead(p).damaged /\ kept.head = AfterRead(p).head
        /\ kept.rebuilt = AfterRead(p).rebuilt
        /\ kept.checkpoint = AfterRead(p).checkpoint
    BY <1>1, <2>4, Zenon DEF View
  <2>8. /\ kept.next = Following(p) /\ kept.differ = differ
        /\ kept.whole = whole /\ kept.own = own
    BY <1>1, <2>4, Zenon DEF View
  <2> QED
    BY <1>1, <2>1, <2>2, <2>3, <2>6, <2>7, <2>8
<1>3. to \in Counted /\ "hashed" \in Counted /\ Counted \subseteq State
  BY DEF Counted, Comparing, State
<1> HIDE DEF kept
<1>4. /\ running(p)' = to /\ view'[p] = kept /\ Ledger(p)' = L
      /\ \A q : versionIn(p, q)' = versionIn(p, q)
  BY <1>0, <1>2, <1>3, VerifyChanges
<1>5. ASSUME ReadsOne(p, L) PROVE Exact(kept, r)
  <2>1. /\ v.rebuilt[r] = Replay(r, versionIn(p, r), L)
        /\ v.checkpoint[r] = Checkpoint(r, L) /\ v.at = Checkpoint(r, L)
    BY <1>0, <1>1, <1>5 DEF ReadsOne, Replayed, Placed, Comparing
  <2>2. versionIn(p, r) \in Nat
    BY <1>1, VersionOfAssumption DEF versionIn, IInv, TypeOK
  <2>3. /\ r \in now.damaged => now.db.table[r] # Replay(r, versionIn(p, r), L)
        /\ r \notin now.damaged /\ RowAgrees(p)
             => now.db.table[r] = Replay(r, versionIn(p, r), L)
    <3>1. /\ now.db \in Database /\ now.damaged \in SUBSET Reducer
          /\ Faithful(now.db, {}, now.damaged)
      BY Seeing
    <3>2. RowAgrees(p) => (now.db.version[r].stored
                             => now.db.version[r].version = versionIn(p, r))
      BY DEF RowAgrees
    <3> HIDE DEF now
    <3>3. /\ r \in now.damaged
               => now.db.table[r] # Replay(r, versionIn(p, r), now.db.events)
          /\ r \notin now.damaged
             /\ (now.db.version[r].stored
                  => now.db.version[r].version = versionIn(p, r))
               => now.db.table[r] = Replay(r, versionIn(p, r), now.db.events)
      BY <1>1, <2>2, <3>1, TableExact
    <3> QED
      BY <3>2, <3>3 DEF Ledger, now
  <2>4. /\ r \in kept.differ <=> ~same
        /\ r \in kept.whole <=> r \notin now.damaged
        /\ r \in kept.own <=> RowAgrees(p)
    BY <1>2 DEF Noted
  <2>5. same <=> now.db.table[r] = Replay(r, versionIn(p, r), L)
    BY <2>1
  <2> HIDE DEF same, now
  <2> QED
    BY <2>3, <2>4, <2>5 DEF Exact
<1>6. ASSUME NEW q \in Reducer \ {r} PROVE Exact(kept, q) <=> Exact(v, q)
  BY <1>2 DEF Exact, Noted
<1>7. ReadsFaithful(p)'
  <2>1. /\ Replayed(p) = Reducer /\ Placed(p) = Reducer /\ Compared(p) = Passed(p)
    BY <1>0 DEF Replayed, Placed, Compared, Comparing
  <2>2. /\ Replayed(p)' = Reducer /\ Placed(p)' = Reducer
        /\ Compared(p)' = Passed(p) \cup {r}
    <3>1. CASE IsLast(p)
      <4>1. running(p)' = "compared" /\ Passed(p) \cup {r} = Reducer
        BY <1>4, <3>1, Looping
      <4> QED
        BY <4>1 DEF Replayed, Placed, Compared, Comparing
    <3>2. CASE ~IsLast(p)
      <4>1. running(p)' = "hashing" /\ view'[p].next = Following(p)
        BY <1>2, <1>4, <3>2
      <4>2. Passed(p)' = Passed(p) \cup {r}
        BY <3>2, <4>1, Looping DEF Passed
      <4> QED
        BY <4>1, <4>2 DEF Replayed, Placed, Compared, Comparing
    <3> QED
      BY <3>1, <3>2
  <2>3. ReadsFaithful(p) /\ running(p) \in Counted
    BY <1>0, <1>3 DEF IInv, ViewFaithful
  <2>4. ASSUME ReadsOne(p, L) PROVE ReadsOne(p, Ledger(p))'
    <3>1. /\ \A q \in Reducer : kept.rebuilt[q] = Replay(q, versionIn(p, q), L)
          /\ \A q \in Reducer : kept.checkpoint[q] = Checkpoint(q, L)
      BY <1>2, <2>1, <2>4 DEF ReadsOne
    <3>2. \A q \in Passed(p) \cup {r} : Exact(kept, q)
      BY <1>1, <1>5, <1>6, <2>1, <2>4, Looping DEF ReadsOne
    <3>3. running(p)' # "hashed"
      BY <1>4
    <3> QED
      BY <1>4, <2>2, <3>1, <3>2, <3>3 DEF ReadsOne
  <2> QED
    BY <1>2, <1>4, <2>3, <2>4 DEF ReadsFaithful
<1>8. to # "checked"
  OBVIOUS
<1> QED
  BY <1>0, <1>2, <1>3, <1>7, <1>8, VerifyKeeps

\* VerifyEnd: if the head is where it was, the verdict is about one ledger.
LEMMA VerifyEndStep ==
  ASSUME IInv, NEW p \in Process, VerifyEnd(p)
  PROVE  IInv'
<1> DEFINE v == view[p]
           result == IF Len(Ledger(p)) # v.head THEN "moved" ELSE Verdict(p)
<1>1. /\ running(p) = "compared" /\ Finish(p, result)
      /\ UNCHANGED <<db, damaged>>
  BY DEF VerifyEnd, Ledger
<1>2. result \in Report
  BY DEF Report, Verdict
<1>3. result \in {"match", "mismatch"} => \A r \in Reducer : Exact(v, r)
  <2>1. ReadsFaithful(p)
    BY DEF IInv, ViewFaithful
  <2> QED
    BY <1>1, <2>1 DEF ReadsFaithful, ReadsOne, Counted, Comparing, Compared
<1>4. v.differ \subseteq Reducer /\ v.whole \subseteq Reducer
  BY Seeing DEF View
<1>5. result = "match" => v.whole = Reducer
  <2>1. result = "match" => v.differ = {}
    BY DEF Verdict
  <2> QED
    BY <1>3, <1>4, <2>1 DEF Exact
<1>6. result = "mismatch" => v.whole \cap v.own # Reducer
  <2>1. result = "mismatch" => v.differ # {}
    BY DEF Verdict
  <2> QED
    BY <1>3, <1>4, <2>1 DEF Exact
<1> HIDE DEF result
<1> QED
  BY <1>1, <1>2, <1>5, <1>6, FinishStep

-----------------------------------------------------------------------------
\* A step of the writer of a transaction leaves the other processes, the
\* committed database and the verifications alone.
LEMMA WriterStep ==
  ASSUME IInv, NEW p \in Process,
         UNCHANGED <<installed, proc, db, maintenance, damaged>>,
         work' \in Database, writer' \in Process \cup {None},
         pending' \subseteq Ids(work'.events), WorkFaithful'
  PROVE  IInv'
<1>1. TypeOK'
  BY DEF IInv, TypeOK, maintenance
<1>2. \A q \in Process : ViewFaithful(q)'
  BY ViewKept, DbType DEF maintenance
<1> QED
  BY <1>1, <1>2, DbKept DEF IInv

\* While p writes, what is left to show about the working copy is about p.
LEMMA WorkOf ==
  ASSUME IInv, NEW p \in Process, UNCHANGED proc, writer' = p,
         writer = p \/ running(p) # "swapped",
         writer \in {None, p}, running(p) \in {"serving", "repairing"},
         LastIds(pending', work'.events), Faithful(work', pending', damaged'),
         Extends(db'.events, work'.events),
         running(p) # "serving" => pending' = {}
  PROVE  WorkFaithful'
<1>1. \A q \in Process : running(q)' = running(q)
  BY DEF running
<1>2. (writer = None => work = db /\ pending = {})'
  BY NoneAssumption
<1>3. /\ LastIds(pending, work.events)' /\ Faithful(work, pending, damaged)'
      /\ Extends(db.events, work.events)'
  BY DEF LastIds, Faithful, Extends
<1>4. \A q \in Process : running(q)' # "swapped"
  BY <1>1, NoneAssumption DEF IInv, WorkFaithful
<1> QED
  BY <1>1, <1>2, <1>3, <1>4 DEF WorkFaithful

\* Begin
LEMMA BeginStep == ASSUME IInv, NEW p \in Process, Begin(p) PROVE IInv'
<1>1. /\ running(p) \in {"serving", "repairing"} /\ writer = None
      /\ writer' = p /\ work' = db /\ pending' = {}
      /\ UNCHANGED <<installed, proc, db, maintenance, damaged>>
  BY DEF Begin
<1>2. /\ LastIds(pending', work'.events) /\ Faithful(work', pending', damaged')
      /\ Extends(db'.events, work'.events)
  BY <1>1, DbType DEF LastIds, IInv
<1>3. WorkFaithful'
  BY <1>1, <1>2, WorkOf
<1>4. work' \in Database
  BY <1>1 DEF IInv, TypeOK
<1> QED
  BY <1>1, <1>3, <1>4, WriterStep

\* AppendEvents
LEMMA AppendStep ==
  ASSUME IInv, NEW p \in Process, NEW batch \in Batches, AppendEvents(p, batch)
  PROVE  IInv'
<1>1. /\ writer = p /\ running(p) = "serving" /\ pending = {}
      /\ work' = [work EXCEPT !.events = @ \o batch]
      /\ pending' = Ids(work'.events) \ Ids(work.events)
      /\ UNCHANGED <<installed, proc, db, writer, maintenance, damaged>>
  BY DEF AppendEvents
<1>2. work \in Database /\ Faithful(work, {}, damaged)
  BY <1>1 DEF IInv, TypeOK, WorkFaithful
<1>3. /\ work' \in Database /\ LastIds(pending', work'.events)
      /\ Extends(work.events, work'.events) /\ Faithful(work', pending', damaged)
  BY <1>1, <1>2, AppendFaithful
<1>4. Extends(db'.events, work'.events)
  <2>1. Extends(db.events, work.events)
    BY DEF IInv, WorkFaithful
  <2>2. /\ db.events \in Seq(EventType) /\ work.events \in Seq(EventType)
        /\ work'.events \in Seq(EventType)
    BY <1>2, <1>3 DEF IInv, TypeOK, Database
  <2> QED
    BY <1>1, <1>3, <2>1, <2>2, StillExtends
<1>5. WorkFaithful'
  BY <1>1, <1>3, <1>4, WorkOf
<1> QED
  BY <1>1, <1>3, <1>5, WriterStep

\* Apply
LEMMA ApplyStep == ASSUME IInv, NEW p \in Process, Apply(p) PROVE IInv'
<1>1. PICK i \in pending :
        /\ writer = p
        /\ \A j \in pending : i <= j
        /\ CanApply(work, i, proc[p].release)
        /\ work' = AppliedTo(work, i, proc[p].release)
        /\ pending' = pending \ {i}
        /\ UNCHANGED <<installed, proc, db, writer, maintenance, damaged>>
  BY DEF Apply
<1>2. /\ work \in Database /\ proc[p].release \in Release
      /\ pending \subseteq Ids(work.events)
  BY DEF IInv, TypeOK
<1>3. /\ running(p) = "serving" /\ LastIds(pending, work.events)
      /\ Faithful(work, pending, damaged)
  BY <1>1 DEF IInv, WorkFaithful
<1>4. /\ work' \in Database /\ work'.events = work.events
      /\ LastIds(pending', work'.events) /\ Faithful(work', pending', damaged)
  BY <1>1, <1>2, <1>3, ApplyFaithful
<1>5. Extends(db'.events, work'.events)
  BY <1>1, <1>4 DEF IInv, WorkFaithful
<1>6. WorkFaithful'
  BY <1>1, <1>3, <1>4, <1>5, WorkOf
<1> QED
  BY <1>1, <1>2, <1>4, <1>6, WriterStep

\* ApplyRefused and Rollback
LEMMA RollbackStep ==
  ASSUME IInv, NEW p \in Process, ApplyRefused(p) \/ Rollback(p)
  PROVE  IInv'
<1>1. /\ writer = p /\ RolledBack
      /\ UNCHANGED <<installed, proc, db, maintenance, damaged>>
  BY DEF ApplyRefused, Rollback
<1>2. running(p) # "swapped"
  BY DEF ApplyRefused, Rollback, IInv, WorkFaithful
<1>3. WorkFaithful'
  BY <1>1, <1>2, WorkDropped DEF running
<1>4. work' \in Database /\ writer' = None /\ pending' = {}
  BY <1>1 DEF RolledBack, IInv, TypeOK
<1> QED
  BY <1>1, <1>3, <1>4, WriterStep

\* MarkInflight
LEMMA MarkStep ==
  ASSUME IInv, NEW p \in Process, NEW b \in BOOLEAN, MarkInflight(p, b)
  PROVE  IInv'
<1>1. /\ writer = p /\ running(p) = "serving"
      /\ work' = [work EXCEPT !.inflight = b]
      /\ UNCHANGED <<installed, proc, db, writer, pending, maintenance, damaged>>
  BY DEF MarkInflight
<1>2. /\ work' \in Database /\ work'.events = work.events
      /\ work'.table = work.table /\ work'.version = work.version
  BY <1>1 DEF IInv, TypeOK, Database
<1>3. LastIds(pending, work.events) /\ Faithful(work, pending, damaged)
  BY <1>1 DEF IInv, WorkFaithful
<1>4. /\ LastIds(pending', work'.events) /\ Faithful(work', pending', damaged')
      /\ Extends(db'.events, work'.events)
  BY <1>1, <1>2, <1>3 DEF Faithful, IInv, WorkFaithful
<1>5. WorkFaithful'
  BY <1>1, <1>4, WorkOf
<1>6. pending' \subseteq Ids(work'.events)
  BY <1>1, <1>2 DEF IInv, TypeOK
<1> QED
  BY <1>1, <1>2, <1>5, <1>6, WriterStep

\* Commit
LEMMA CommitStep == ASSUME IInv, NEW p \in Process, Commit(p) PROVE IInv'
<1>1. /\ writer = p /\ running(p) = "serving" /\ pending = {}
      /\ db' = work /\ writer' = None
      /\ UNCHANGED <<installed, proc, work, pending, maintenance, damaged>>
  BY DEF Commit
<1>2. work \in Database /\ Faithful(work, {}, damaged)
  BY <1>1 DEF IInv, TypeOK, WorkFaithful
<1>3. TypeOK'
  BY <1>1, <1>2 DEF IInv, TypeOK, maintenance
<1>4. Faithful(db, {}, damaged)'
  BY <1>1, <1>2 DEF Faithful
<1>5. WorkFaithful'
  <2>1. \A q \in Process : running(q)' # "swapped"
    BY <1>1 DEF IInv, WorkFaithful, running
  <2> QED
    BY <1>1, <1>2, <2>1, NoneAssumption, SameLedger
       DEF WorkFaithful, LastIds, Database
<1>6. \A q \in Process : ViewFaithful(q)'
  <2>1. Extends(db.events, db'.events)
    BY <1>1 DEF IInv, WorkFaithful
  <2> QED
    BY <1>1, <1>2, <2>1, ViewKept DEF maintenance
<1> QED
  BY <1>3, <1>4, <1>5, <1>6 DEF IInv

\* RepairSwap
LEMMA SwapStep == ASSUME IInv, NEW p \in Process, RepairSwap(p) PROVE IInv'
<1>1. /\ running(p) = "repairing" /\ writer = p
      /\ work' = Swapped(work, proc[p].release)
      /\ proc' = [proc EXCEPT ![p].state = "swapped"]
      /\ UNCHANGED <<installed, db, writer, pending, maintenance, damaged>>
  BY DEF RepairSwap
<1>2. /\ proc' \in [Process -> [state : State, release : Release]]
      /\ running(p)' = "swapped"
      /\ \A q \in Process \ {p} : proc'[q] = proc[q]
  BY <1>1 DEF IInv, TypeOK, State, running
<1>3. pending = {} /\ \A q \in Process : running(q) # "swapped"
  BY <1>1 DEF IInv, WorkFaithful
<1>4. /\ work \in Database /\ proc[p].release \in Release
  BY DEF IInv, TypeOK
<1>5. /\ work' \in Database /\ work'.events = work.events
      /\ Faithful(work', {}, {})
  BY <1>1, <1>4, SwapFaithful
<1>6. TypeOK'
  BY <1>1, <1>2, <1>3, <1>5 DEF IInv, TypeOK, maintenance
<1>7. WorkFaithful'
  <2>1. Faithful(work, {}, {})'
    BY <1>5 DEF Faithful
  <2>2. \A q \in Process \ {p} : running(q)' # "swapped"
    BY <1>2, <1>3 DEF running
  <2>3. Extends(db.events, work.events)'
    BY <1>1, <1>5 DEF IInv, WorkFaithful, Extends
  <2> QED
    BY <1>1, <1>2, <1>3, <2>1, <2>2, <2>3, NoneAssumption DEF WorkFaithful, LastIds
<1>8. \A q \in Process : ViewFaithful(q)'
  <2>1. report[p] = "none"
    BY <1>1 DEF IInv, ViewFaithful
  <2>2. running(p)' \notin Checking \cup Counted
    BY <1>2 DEF Checking, Counted, Comparing
  <2> QED
    BY <1>1, <1>2, <2>1, <2>2, ViewKept, DbType DEF maintenance
<1> QED
  BY <1>1, <1>6, <1>7, <1>8, DbKept DEF IInv

\* RepairCommit
LEMMA RepairCommitStep ==
  ASSUME IInv, NEW p \in Process, RepairCommit(p)
  PROVE  IInv'
<1>1. /\ running(p) = "swapped" /\ db' = work /\ writer' = None /\ damaged' = {}
      /\ proc' = [proc EXCEPT ![p].state = "stopped"]
      /\ report' = [report EXCEPT ![p] = "repaired"]
      /\ UNCHANGED <<installed, work, pending, view>>
  BY DEF RepairCommit
<1>2. /\ proc' \in [Process -> [state : State, release : Release]]
      /\ running(p)' = "stopped"
      /\ \A q \in Process \ {p} : proc'[q] = proc[q]
  BY <1>1 DEF IInv, TypeOK, State, running
<1>3. /\ report' \in [Process -> Report] /\ report'[p] = "repaired"
      /\ \A q \in Process \ {p} : report'[q] = report[q]
  BY <1>1 DEF IInv, TypeOK, Report
<1>4. writer = p /\ pending = {} /\ work \in Database /\ Faithful(work, {}, {})
  BY <1>1 DEF IInv, WorkFaithful, TypeOK
<1>5. TypeOK'
  BY <1>1, <1>2, <1>3, <1>4 DEF IInv, TypeOK
<1>6. Faithful(db, {}, damaged)'
  BY <1>1, <1>4 DEF Faithful
<1>7. WorkFaithful'
  <2>1. \A q \in Process : running(q)' # "swapped"
    BY <1>1, <1>2, <1>4 DEF IInv, WorkFaithful, running
  <2> QED
    BY <1>1, <1>4, <2>1, NoneAssumption, SameLedger
       DEF WorkFaithful, LastIds, Database
<1>8. \A q \in Process : ViewFaithful(q)'
  <2>1. Extends(db.events, db'.events)
    BY <1>1 DEF IInv, WorkFaithful
  <2>2. running(p)' \notin Checking \cup Counted
    BY <1>2 DEF Checking, Counted, Comparing
  <2> QED
    BY <1>1, <1>2, <1>3, <1>4, <2>1, <2>2, ViewKept
<1> QED
  BY <1>5, <1>6, <1>7, <1>8 DEF IInv

\* Damage
LEMMA DamageStep == ASSUME IInv, NEW r \in Reducer, Damage(r) PROVE IInv'
<1>1. PICK a \in db.table[r] :
        /\ writer = None
        /\ db' = [db EXCEPT !.table[r] = @ \ {a}]
        /\ damaged' = damaged \cup {r}
        /\ work' = db'
        /\ UNCHANGED <<installed, proc, writer, pending, maintenance>>
  BY DEF Damage
<1>2. db \in Database /\ Faithful(db, {}, damaged)
  BY DEF IInv, TypeOK
<1>3. /\ db' \in Database /\ db'.events = db.events
      /\ Faithful(db', {}, damaged')
  BY <1>1, <1>2, DamageFaithful
<1>4. pending = {}
  BY <1>1 DEF IInv, WorkFaithful
<1>5. TypeOK'
  BY <1>1, <1>3, <1>4 DEF IInv, TypeOK, maintenance
<1>6. Faithful(db, {}, damaged)'
  BY <1>3 DEF Faithful
<1>7. WorkFaithful'
  <2>1. \A q \in Process : running(q)' # "swapped"
    BY <1>1, NoneAssumption DEF IInv, WorkFaithful, running
  <2> QED
    BY <1>1, <1>3, <1>4, <2>1, NoneAssumption, SameLedger
       DEF WorkFaithful, LastIds, Database
<1>8. \A q \in Process : ViewFaithful(q)'
  <2>1. Extends(db.events, db'.events)
    BY <1>3, DbType
  <2> QED
    BY <1>1, <1>3, <2>1, ViewKept DEF maintenance
<1> QED
  BY <1>5, <1>6, <1>7, <1>8 DEF IInv

-----------------------------------------------------------------------------
\* Every step of every process, release and damage keeps the invariant.
LEMMA Inductive == IInv /\ [Next]_vars => IInv'
<1> SUFFICES ASSUME IInv, [Next]_vars PROVE IInv'
  OBVIOUS
<1>1. CASE Install
  BY <1>1, InstallStep
<1>2. ASSUME NEW p \in Process,
             (\E mode \in Runs[p] : Start(p, mode)) \/ StartRefused(p)
      PROVE  IInv'
  BY <1>2, StartStep, RunsAssumption
<1>3. ASSUME NEW p \in Process, Stop(p) PROVE IInv'
  BY <1>3, StopStep
<1>4. ASSUME NEW p \in Process, Command(p) PROVE IInv'
  BY <1>4, BeginStep, ApplyStep, RollbackStep, CommitStep, AppendStep, MarkStep
     DEF Command
<1>5. ASSUME NEW p \in Process, Maintenance(p) PROVE IInv'
  BY <1>5, VerifyVersionStep, VerifyHeadStep, VerifyReplayStep,
     VerifyCheckpointStep, VerifyRowStep, VerifyTableStep, VerifyEndStep,
     RefusedStep, SwapStep, RepairCommitStep DEF Maintenance
<1>6. ASSUME NEW r \in Reducer, Damage(r) PROVE IInv'
  BY <1>6, DamageStep
<1>7. CASE UNCHANGED vars
  <2>1. UNCHANGED <<installed, proc, db, transaction, maintenance, damaged>>
    BY <1>7 DEF vars
  <2>2. UNCHANGED <<writer, work, pending, view, report>>
    BY <2>1 DEF transaction, maintenance
  <2>3. TypeOK'
    BY <2>1, <2>2 DEF IInv, TypeOK
  <2>4. WorkFaithful'
    BY <2>1, WorkKept DEF running
  <2>5. \A q \in Process : ViewFaithful(q)'
    BY <2>1, <2>2, ViewKept, DbType
  <2> QED
    BY <2>1, <2>3, <2>4, <2>5, DbKept DEF IInv
<1> QED
  BY <1>1, <1>2, <1>3, <1>4, <1>5, <1>6, <1>7 DEF Next

\* Faithful is what ProjectionsReplay says of the committed database, and more.
LEMMA FaithfulIsReplay == IInv => ProjectionsReplay
<1> SUFFICES ASSUME IInv PROVE ProjectionsReplay
  OBVIOUS
<1>1. ASSUME NEW r \in Reducer
      PROVE  /\ TableFaithful(db.table[r], db.version[r], r, db.events, {},
                              r \in damaged)
             /\ db.events \in Seq(EventType) /\ db.version[r].at \in Nat
  BY DEF IInv, TypeOK, Faithful, Database, VersionRow
<1>2. \A r \in Reducer : \A a \in db.table[r] : a.version = db.version[r].version
  BY <1>1 DEF TableFaithful
<1>3. ASSUME NEW r \in Reducer \ damaged
      PROVE  /\ db.table[r] = Replay(r, db.version[r].version, db.events)
             /\ db.version[r].at = Checkpoint(r, db.events)
  BY <1>1, NothingDue, CheckpointGreatest DEF TableFaithful
<1> QED
  BY <1>2, <1>3 DEF ProjectionsReplay

\* The inductive invariant holds in every behaviour of the processes.
THEOREM ProjectionsInvariance == Spec => []IInv
BY InitIInv, Inductive, PTL DEF Spec

\* The database, the writer's copy and what verifications read keep their
\* types.
THEOREM ProjectionsTypeCorrect == Spec => []TypeOK
<1>1. IInv => TypeOK
  BY DEF IInv
<1> QED
  BY <1>1, ProjectionsInvariance, PTL

\* ProjectionManager.apply under the writer's lock, _swap and rollbacks: every
\* committed table that nobody damaged is the replay of the committed ledger by
\* the version its row names.
THEOREM TablesReplayTheLedger == Spec => []ProjectionsReplay
BY FaithfulIsReplay, ProjectionsInvariance, PTL

\* ProjectionManager.verify, whose reads come from several commits: a match
\* means that every table was read and none was damaged then, a mismatch that
\* one was, or was of another release.
THEOREM VerdictsAreExact == Spec => []VerifyIsExact
<1>1. IInv => VerifyIsExact
  BY DEF IInv, ViewFaithful, VerifyIsExact
<1> QED
  BY <1>1, ProjectionsInvariance, PTL
=============================================================================
