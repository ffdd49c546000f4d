---------------------------- MODULE Projections -----------------------------
(***************************************************************************)
(* The rebuildable projections: ProjectionManager (storage/projections.py) *)
(* as the processes that share the file use it.  `serve` processes append  *)
(* events and apply the reducers in the writer's transaction; the command  *)
(* line starts a process for one `projections rebuild --verify` or         *)
(* `--repair`.  Releases that declare other reducer versions may be        *)
(* installed while older processes still run.                              *)
(*                                                                         *)
(* A table is the set of applications that made it.  An application        *)
(* records the event, the reducer version and the events whose effects it  *)
(* found in the table, so that two tables are equal exactly when they were *)
(* made by the same reducer from the same events in the same order.        *)
(***************************************************************************)
EXTENDS Naturals, Sequences, FiniteSets

CONSTANTS Process,
          Runs,         \* bound, [Process -> SUBSET Mode]: what it is started for
          Reducer, EventType,
          Registry,     \* the reducers in the order of ProjectionRegistry
          Handles,      \* [Reducer -> SUBSET EventType]: reducer.event_types
          Releases,     \* bound: releases 1..Releases are installed in turn
          VersionOf,    \* [1..Releases -> [Reducer -> Nat]]: reducer.version
          MaxEvents,    \* bound: length of the ledger
          MaxBatch,     \* bound: events of one append_events call
          None

\* `serve`, `projections rebuild --verify` and `projections rebuild --repair`.
Mode == {"serving", "verifying", "repairing"}
Release == 1..Releases
ASSUME ReleasesAssumption == Releases \in Nat \ {0}
ASSUME RegistryAssumption == /\ Registry \in Seq(Reducer) /\ Registry # << >>
                             /\ \A r \in Reducer : \E i \in DOMAIN Registry :
                                  Registry[i] = r
ASSUME HandlesAssumption == Handles \in [Reducer -> SUBSET EventType]
ASSUME VersionOfAssumption == VersionOf \in [Release -> [Reducer -> Nat]]
ASSUME RunsAssumption == Runs \in [Process -> SUBSET Mode]
ASSUME NoneAssumption == None \notin Process

VARIABLES installed,   \* the release new processes run
          proc,        \* [Process -> what it runs, if it runs]
          db,          \* the committed database
          writer,      \* the process that holds the writer lock, or None
          work,        \* the database as the writer sees it
          pending,     \* events appended by the writer and not yet applied
          view,        \* [Process -> what a verification has read]
          report,      \* [Process -> how its last maintenance run ended]
          damaged      \* history: tables changed behind the program's back

transaction == <<writer, work, pending>>
maintenance == <<view, report>>
vars == <<installed, proc, db, transaction, maintenance, damaged>>

\* A row of projection_versions: the reducer version that made the table and
\* last_applied_event_id.
NoVersion == [version |-> 0, at |-> 0, stored |-> FALSE]
VersionRow == [version : Nat, at : Nat, stored : BOOLEAN]
Application == [id : Nat, version : Nat, after : SUBSET Nat]
Database == [events : Seq(EventType), table : [Reducer -> SUBSET Application],
             version : [Reducer -> VersionRow], inflight : BOOLEAN]

State == Mode \cup {"stopped", "checked", "replaying", "replayed", "hashing", "hashed",
                    "compared", "swapped"}
Report == {"none", "refused", "match", "mismatch", "moved", "busy", "blocked",
           "repaired"}
running(p) == proc[p].state
versionIn(p, r) == VersionOf[proc[p].release][r]
-----------------------------------------------------------------------------
Ids(es) == 1..Len(es)
Relevant(r, es) == {i \in Ids(es) : es[i] \in Handles[r]}

\* reducer.rebuild: replay every relevant event, in order, into an empty table.
Replay(r, v, es) ==
  {[id |-> i, version |-> v,
    after |-> {j \in Relevant(r, es) : j < i}] : i \in Relevant(r, es)}

\* The greatest relevant event id, 0 when there is none.
Checkpoint(r, es) ==
  IF Relevant(r, es) = {} THEN 0
  ELSE CHOOSE i \in Relevant(r, es) : \A j \in Relevant(r, es) : j <= i

\* reducer.apply on one event.
ApplyTo(table, i, v) ==
  table \cup {[id |-> i, version |-> v, after |-> {a.id : a \in table}]}

\* _check_versions: every stored version is the version the process runs.
VersionsAgree(d, release) ==
  \A r \in Reducer : d.version[r].stored =>
                       d.version[r].version = VersionOf[release][r]

\* The reducers that apply_event runs for event i: those that handle it,
\* unless their checkpoint says that they have seen it.
Due(d, i) == {r \in Reducer : /\ d.events[i] \in Handles[r]
                              /\ d.version[r].stored => d.version[r].at < i}

\* apply_event refuses to run a reducer over a table of another version.
CanApply(d, i, release) ==
  \A r \in Reducer :
    d.events[i] \in Handles[r] /\ d.version[r].stored =>
      d.version[r].version = VersionOf[release][r]

\* apply_event: the reducers that are due run, then their checkpoint moves; a
\* version row is written when the reducer has none.
Advance(row, i, v) == IF row.stored THEN [row EXCEPT !.at = i]
                      ELSE [version |-> v, at |-> i, stored |-> TRUE]
AppliedTo(d, i, release) ==
  LET due == Due(d, i)
      v == VersionOf[release]
  IN [d EXCEPT
       !.table = [r \in Reducer |-> IF r \in due THEN ApplyTo(@[r], i, v[r])
                                    ELSE @[r]],
       !.version = [r \in Reducer |-> IF r \in due THEN Advance(@[r], i, v[r])
                                      ELSE @[r]]]

\* _rebuild and _swap: every table and checkpoint replaced by its replay.
Swapped(d, release) ==
  [d EXCEPT
    !.table = [r \in Reducer |-> Replay(r, VersionOf[release][r], d.events)],
    !.version = [r \in Reducer |->
      [version |-> VersionOf[release][r], at |-> Checkpoint(r, d.events),
       stored |-> TRUE]]]

-----------------------------------------------------------------------------
EmptyDatabase ==
  [events |-> << >>, table |-> [r \in Reducer |-> {}],
   version |-> [r \in Reducer |-> NoVersion], inflight |-> FALSE]

\* A verification: its place in the loop over the registry, the state of its
\* transaction and what it sees once a read has fixed that, the event head, the
\* temporary tables and their checkpoints, the checkpoint of the version row in
\* hand and the reducers whose hashes differ.  History: the tables that nobody
\* had damaged, and those of the running release, when they were read.
NoView == [next |-> 1, begun |-> FALSE, fixed |-> FALSE,
           db |-> EmptyDatabase, damaged |-> {}, head |-> 0,
           rebuilt |-> [r \in Reducer |-> {}], checkpoint |-> [r \in Reducer |-> 0],
           at |-> 0, differ |-> {}, whole |-> {}, own |-> {}]
View == [next : DOMAIN Registry, begun : BOOLEAN, fixed : BOOLEAN,
         db : Database, damaged : SUBSET Reducer, head : Nat,
         rebuilt : [Reducer -> SUBSET Application], checkpoint : [Reducer -> Nat],
         at : Nat, differ : SUBSET Reducer,
         whole : SUBSET Reducer, own : SUBSET Reducer]

Init ==
  /\ installed = 1
  /\ proc = [p \in Process |-> [state |-> "stopped", release |-> 1]]
  /\ db = EmptyDatabase
  /\ writer = None /\ work = db /\ pending = {}
  /\ view = [p \in Process |-> NoView]
  /\ report = [p \in Process |-> "none"]
  /\ damaged = {}

\* The operator installs the next release; running processes keep theirs.
Install ==
  /\ installed < Releases
  /\ installed' = installed + 1
  /\ UNCHANGED <<proc, db, transaction, maintenance, damaged>>

\* ApplicationRuntime.initialize: validate_startup lets the process run ...
Start(p, mode) ==
  /\ running(p) = "stopped"
  /\ VersionsAgree(db, installed)
  /\ proc' = [proc EXCEPT ![p] = [state |-> mode, release |-> installed]]
  /\ report' = [report EXCEPT ![p] = "none"]
  /\ view' = [view EXCEPT ![p] = NoView]
  /\ UNCHANGED <<installed, db, transaction, damaged>>

\* ... or raises ReducerVersionMismatch, whatever the process was started for.
StartRefused(p) ==
  /\ running(p) = "stopped"
  /\ ~VersionsAgree(db, installed)
  /\ report' = [report EXCEPT ![p] = "refused"]
  /\ UNCHANGED <<installed, proc, db, transaction, view, damaged>>

\* Mutant: the events of the batch stay to be applied after the rollback.
RolledBackKeepsPending == writer' = None /\ work' = db /\ UNCHANGED pending

RolledBack == writer' = None /\ work' = db /\ pending' = {}

\* The process ends, in order or in a crash; its transaction is rolled back.
Exit(p) ==
  /\ proc' = [proc EXCEPT ![p].state = "stopped"]
  /\ IF writer = p THEN RolledBack ELSE UNCHANGED transaction
Stop(p) ==
  /\ running(p) # "stopped"
  /\ Exit(p)
  /\ view' = [view EXCEPT ![p] = NoView]
  /\ UNCHANGED <<installed, db, report, damaged>>

\* BEGIN IMMEDIATE of a command, BEGIN EXCLUSIVE of a repair.
Begin(p) ==
  /\ running(p) \in {"serving", "repairing"} /\ writer = None
  /\ writer' = p /\ work' = db /\ pending' = {}
  /\ UNCHANGED <<installed, proc, db, maintenance, damaged>>

\* EventStore.append: the batch gets the next event ids.
AppendEvents(p, batch) ==
  /\ writer = p /\ running(p) = "serving" /\ pending = {}
  /\ Len(work.events) + Len(batch) <= MaxEvents
  /\ work' = [work EXCEPT !.events = @ \o batch]
  /\ pending' = Ids(work'.events) \ Ids(work.events)
  /\ UNCHANGED <<installed, proc, db, writer, maintenance, damaged>>

\* Mutant: the batch is not sorted before it is applied.
ApplyAnyOrder(p) ==
  /\ writer = p
  /\ \E i \in pending :
       /\ CanApply(work, i, proc[p].release)
       /\ work' = AppliedTo(work, i, proc[p].release)
       /\ pending' = pending \ {i}
  /\ UNCHANGED <<installed, proc, db, writer, maintenance, damaged>>

\* ProjectionManager.apply: the events of the batch in the order of their ids.
Apply(p) ==
  /\ writer = p
  /\ \E i \in pending :
       /\ \A j \in pending : i <= j
       /\ CanApply(work, i, proc[p].release)
       /\ work' = AppliedTo(work, i, proc[p].release)
       /\ pending' = pending \ {i}
  /\ UNCHANGED <<installed, proc, db, writer, maintenance, damaged>>

\* ReducerVersionMismatch leaves the command through the rollback.
ApplyRefused(p) ==
  /\ writer = p
  /\ \E i \in pending : ~CanApply(work, i, proc[p].release)
  /\ RolledBack
  /\ UNCHANGED <<installed, proc, db, maintenance, damaged>>

\* An inspiration run reserves its receipt in one transaction and completes it
\* in a later one; ordinary commands leave no receipt in progress.
MarkInflight(p, b) ==
  /\ writer = p /\ running(p) = "serving" /\ work.inflight # b
  /\ work' = [work EXCEPT !.inflight = b]
  /\ UNCHANGED <<installed, proc, db, writer, pending, maintenance, damaged>>

Commit(p) ==
  /\ writer = p /\ running(p) = "serving" /\ pending = {}
  /\ db' = work
  /\ writer' = None
  /\ UNCHANGED <<installed, proc, work, pending, maintenance, damaged>>

\* The handler raises.
Rollback(p) ==
  /\ writer = p /\ running(p) = "serving"
  /\ RolledBack
  /\ UNCHANGED <<installed, proc, db, maintenance, damaged>>

\* A maintenance process reports how its run ended and exits; the temporary
\* tables are dropped and the session is closed.
Finish(p, result) ==
  /\ report' = [report EXCEPT ![p] = result]
  /\ view' = [view EXCEPT ![p] =
                [NoView EXCEPT !.whole = view[p].whole, !.own = view[p].own]]
  /\ Exit(p)
  /\ UNCHANGED installed

\* What a read of the verification sees.  The driver begins a transaction at
\* the first INSERT only: until then every SELECT sees the last commit; the
\* first SELECT after it fixes what all later ones see.
Sees(p) == IF view[p].fixed THEN [db |-> view[p].db, damaged |-> view[p].damaged]
           ELSE [db |-> db, damaged |-> damaged]
AfterRead(p) ==
  IF view[p].begun /\ ~view[p].fixed
  THEN [view[p] EXCEPT !.fixed = TRUE, !.db = db, !.damaged = damaged]
  ELSE view[p]
current(p) == Registry[view[p].next]

\* A step of the verification: what it keeps, and where the process goes on.
Verify(p, from, kept, to) ==
  /\ running(p) = from
  /\ view' = [view EXCEPT ![p] = kept]
  /\ proc' = [proc EXCEPT ![p].state = to]
  /\ UNCHANGED <<installed, db, transaction, report, damaged>>

\* The loops over the registry: on to the next reducer, or out of the loop.
IsLast(p) == view[p].next = Len(Registry)
Following(p) == IF IsLast(p) THEN 1 ELSE view[p].next + 1

\* _check_versions and _event_head: one SELECT for each version row, then one
\* for the head of the ledger.
RowAgrees(p) == LET row == Sees(p).db.version[current(p)]
                IN row.stored => row.version = versionIn(p, current(p))
VerifyVersion(p) ==
  /\ RowAgrees(p)
  /\ Verify(p, "verifying", [AfterRead(p) EXCEPT !.next = Following(p)],
            IF IsLast(p) THEN "checked" ELSE "verifying")
VerifyRefused(p) ==
  /\ running(p) = "verifying"
  /\ ~RowAgrees(p)
  /\ Finish(p, "refused")
  /\ UNCHANGED <<db, damaged>>
VerifyHead(p) ==
  Verify(p, "checked", [AfterRead(p) EXCEPT !.head = Len(Sees(p).db.events)],
         "replaying")

\* reducer.rebuild: one SELECT of all events it handles, then their INSERTs
\* into its temporary table.
VerifyReplay(p) ==
  LET r == current(p)
      es == Sees(p).db.events
  IN Verify(p, "replaying",
            [AfterRead(p) EXCEPT
              !.rebuilt[r] = Replay(r, versionIn(p, r), es),
              !.begun = @ \/ Relevant(r, es) # {}],
            "replayed")

\* _rebuild: the greatest id of these events that is not beyond the head.
VerifyCheckpoint(p) ==
  LET r == current(p)
  IN Verify(p, "replayed",
            [AfterRead(p) EXCEPT
              !.checkpoint[r] = Checkpoint(r, SubSeq(Sees(p).db.events, 1, view[p].head)),
              !.next = Following(p)],
            IF IsLast(p) THEN "hashing" ELSE "replaying")

\* _hashes: the version row of the reducer, then the rows of its table.  The
\* hash covers the rows, the running version and the checkpoint.
VerifyRow(p) ==
  Verify(p, "hashing",
         [AfterRead(p) EXCEPT !.at = Sees(p).db.version[current(p)].at], "hashed")
Noted(S, r, yes) == IF yes THEN S \cup {r} ELSE S \ {r}
VerifyTable(p) ==
  LET r == current(p)
      v == view[p]
      now == Sees(p)
      same == v.rebuilt[r] = now.db.table[r] /\ v.checkpoint[r] = v.at
  IN Verify(p, "hashed",
            [AfterRead(p) EXCEPT
              !.next = Following(p),
              !.differ = Noted(@, r, ~same),
              !.whole = Noted(@, r, r \notin now.damaged),
              !.own = Noted(@, r, RowAgrees(p))],
            IF IsLast(p) THEN "compared" ELSE "hashing")

Verdict(p) == IF view[p].differ = {} THEN "match" ELSE "mismatch"

\* Mutant: the head is not read again, or nothing is done about it.
VerifyEndUnchecked(p) ==
  /\ running(p) = "compared"
  /\ Finish(p, Verdict(p))
  /\ UNCHANGED <<db, damaged>>

\* The head read again: EventHeadChanged when it moved, else the verdict.
VerifyEnd(p) ==
  /\ running(p) = "compared"
  /\ Finish(p, IF Len(Sees(p).db.events) # view[p].head THEN "moved"
               ELSE Verdict(p))
  /\ UNCHANGED <<db, damaged>>

\* repair: the writer lock is taken, or a receipt is in progress.
RepairBusy(p) ==
  /\ running(p) = "repairing" /\ writer \notin {None, p}
  /\ Finish(p, "busy")
  /\ UNCHANGED <<db, damaged>>
RepairBlocked(p) ==
  /\ running(p) = "repairing" /\ writer = p /\ work.inflight
  /\ Finish(p, "blocked")
  /\ UNCHANGED <<db, damaged>>

\* repair does not call _check_versions: the swap writes the running versions.
RepairSwap(p) ==
  /\ running(p) = "repairing" /\ writer = p /\ ~work.inflight
  /\ work' = Swapped(work, proc[p].release)
  /\ proc' = [proc EXCEPT ![p].state = "swapped"]
  /\ UNCHANGED <<installed, db, writer, pending, maintenance, damaged>>
RepairCommit(p) ==
  /\ running(p) = "swapped"
  /\ db' = work
  /\ writer' = None
  /\ damaged' = {}
  /\ proc' = [proc EXCEPT ![p].state = "stopped"]
  /\ report' = [report EXCEPT ![p] = "repaired"]
  /\ UNCHANGED <<installed, work, pending, view>>

\* A row of a table is lost behind the program's back (a manual edit, a copy
\* of the file gone wrong); a bound: one row of a table between two repairs.
Damage(r) ==
  /\ writer = None /\ r \notin damaged
  /\ \E a \in db.table[r] : db' = [db EXCEPT !.table[r] = @ \ {a}]
  /\ damaged' = damaged \cup {r}
  /\ work' = db'
  /\ UNCHANGED <<installed, proc, writer, pending, maintenance>>

Batches == UNION {[1..n -> EventType] : n \in 1..MaxBatch}

Command(p) ==
  \/ Begin(p) \/ Apply(p) \/ ApplyRefused(p) \/ Commit(p) \/ Rollback(p)
  \/ \E batch \in Batches : AppendEvents(p, batch)
  \/ \E b \in BOOLEAN : MarkInflight(p, b)
Maintenance(p) ==
  \/ VerifyVersion(p) \/ VerifyRefused(p) \/ VerifyHead(p) \/ VerifyReplay(p)
  \/ VerifyCheckpoint(p) \/ VerifyRow(p) \/ VerifyTable(p) \/ VerifyEnd(p)
  \/ RepairBusy(p) \/ RepairBlocked(p) \/ RepairSwap(p) \/ RepairCommit(p)

Next ==
  \/ Install
  \/ \E p \in Process :
       \/ \E mode \in Runs[p] : Start(p, mode)
       \/ StartRefused(p) \/ Stop(p) \/ Command(p) \/ Maintenance(p)
  \/ \E r \in Reducer : Damage(r)

Spec == Init /\ [][Next]_vars

-----------------------------------------------------------------------------
TypeOK ==
  /\ installed \in Release
  /\ proc \in [Process -> [state : State, release : Release]]
  /\ db \in Database /\ work \in Database
  /\ writer \in Process \cup {None}
  /\ pending \subseteq Ids(work.events)
  /\ view \in [Process -> View]
  /\ report \in [Process -> Report]
  /\ damaged \subseteq Reducer

\* Every committed table that nobody damaged is the replay of the committed
\* ledger by the reducer version its version row names, up to the last event:
\* rollbacks, crashes, batches, repairs and upgrades leave no event out and
\* apply none twice or out of order.  No table, damaged or not, mixes the work
\* of two reducer versions while processes of several releases write.
ProjectionsReplay ==
  /\ \A r \in Reducer : \A a \in db.table[r] : a.version = db.version[r].version
  /\ \A r \in Reducer \ damaged :
       /\ db.table[r] = Replay(r, db.version[r].version, db.events)
       /\ db.version[r].at = Checkpoint(r, db.events)

\* A verification that runs beside writers, repairs and other releases finds a
\* match only if it read every table and nobody had damaged one, and raises an
\* alarm only over a damage or a table that another release made after the
\* version check: its first reads come from several commits, and no other
\* difference between them gets past the head read again.
VerifyIsExact ==
  \A p \in Process :
    /\ report[p] = "match" => view[p].whole = Reducer
    /\ report[p] = "mismatch" => view[p].whole \cap view[p].own # Reducer
=============================================================================
