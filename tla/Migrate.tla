------------------------------ MODULE Migrate ------------------------------
(***************************************************************************)
(* apply_migrations, as control run and admin migrate both call it when    *)
(* they open the database: the versions recorded are read first, then each *)
(* later script runs in a write transaction of its own together with its   *)
(* row in schema_migrations, and ANALYZE ends the run. Several processes,  *)
(* of different releases, may do so at once on one database; each          *)
(* statement may fail, and each process may die at any point.              *)
(***************************************************************************)
EXTENDS Integers, Sequences, FiniteSets

CONSTANTS Procs,      \* processes that open the database
          Scripts,    \* Scripts[v]: the statements of migration v
          Releases,   \* how many migrations the releases at hand have
          Absent      \* no process, no open transaction

Statements == {"create",    \* fails when what it creates exists
               "change",    \* changes data, and would again
               "COMMIT", "BEGIN IMMEDIATE"}

ASSUME ConstantsAssumption ==
    /\ Scripts \in Seq(Seq(Statements))
    /\ Releases \subseteq 0..Len(Scripts)
    /\ Absent \notin Procs

Versions == 1..Len(Scripts)
Changes == [v \in Versions |->
               {<<v, i>> : i \in {i \in DOMAIN Scripts[v] : Scripts[v][i] \in {"create", "change"}}}]
\* "A file contains plain SQL and no BEGIN or COMMIT": what holds of migrations
\* holds of those that keep to this, also when others do not.
Plain(v) == \A i \in DOMAIN Scripts[v] : Scripts[v][i] \in {"create", "change"}
AllChanges == UNION {Changes[v] : v \in Versions}
Database == [effects : [AllChanges -> Nat], recorded : SUBSET Versions]
ASSUME AbsentAssumption == Absent \notin Database

VARIABLES
    pc,        \* per process: where it is in apply_migrations
    release,   \* per process: how many migrations its release has
    version,   \* per process: the migration it is at
    next,      \* per process: the next statement of that script
    db,        \* committed: how often each change took effect, versions recorded
    image,     \* the database as the open transaction sees it
    lock,      \* the process whose transaction is open
    stats      \* the versions whose tables ANALYZE has seen

process == <<pc, release, version, next>>
vars == <<process, db, image, lock, stats>>

Init ==
    /\ pc = [p \in Procs |-> "down"]
    /\ release = [p \in Procs |-> 0]
    /\ version = [p \in Procs |-> 0]
    /\ next = [p \in Procs |-> 1]
    /\ db = [effects |-> [c \in AllChanges |-> 0], recorded |-> {}]
    /\ image = Absent
    /\ lock = Absent
    /\ stats = {}

-----------------------------------------------------------------------------
Goto(p, from, to) == pc[p] = from /\ pc' = [pc EXCEPT ![p] = to]

\* The run ends in an exception: an open transaction is rolled back, the
\* connection closed, and the process exits.
\* Mutant: the lock is given back before what was written is dropped.
RaiseLeaving(p) ==
    /\ pc' = [pc EXCEPT ![p] = "down"]
    /\ IF lock = p THEN lock' = Absent ELSE UNCHANGED lock
    /\ UNCHANGED <<release, version, next, db, image, stats>>
Raise(p) ==
    /\ pc' = [pc EXCEPT ![p] = "down"]
    /\ IF lock = p THEN lock' = Absent /\ image' = Absent ELSE UNCHANGED <<lock, image>>
    /\ UNCHANGED <<release, version, next, db, stats>>

Open(p, n) ==
    /\ Goto(p, "down", "read")
    /\ release' = [release EXCEPT ![p] = n]
    /\ UNCHANGED <<version, next, db, image, lock, stats>>

\* Where a process stands after migration v: at the next one of its release.
ToNext(p, from, v, finished) ==
    /\ Goto(p, from, IF v < release[p] THEN "begin" ELSE finished)
    /\ version' = [version EXCEPT ![p] = v + 1]

\* applied_versions; nothing keeps another process from applying some later.
Latest(recorded) == CHOOSE v \in recorded \cup {0} : \A w \in recorded : w <= v
\* Mutant: the first version recorded counts instead of the last.
ReadFirst(p) ==
    /\ ToNext(p, "read", IF db.recorded = {} THEN 0 ELSE 1, "up")
    /\ UNCHANGED <<release, next, db, image, lock, stats>>
Read(p) ==
    /\ ToNext(p, "read", Latest(db.recorded), "up")
    /\ UNCHANGED <<release, next, db, image, lock, stats>>

\* BEGIN IMMEDIATE.
Begin(p) ==
    /\ lock = Absent
    /\ Goto(p, "begin", "script")
    /\ next' = [next EXCEPT ![p] = 1]
    /\ lock' = p /\ image' = db
    /\ UNCHANGED <<release, version, db, stats>>

Statement(p) == Scripts[version[p]][next[p]]
InScript(p) == pc[p] = "script" /\ next[p] <= Len(Scripts[version[p]])
Proceed(p) == /\ next' = [next EXCEPT ![p] = @ + 1]
              /\ UNCHANGED <<pc, release, version, stats>>

\* BEGIN IMMEDIATE, ANALYZE, or a statement outside a transaction waits for the
\* lock for as long as the busy timeout lasts.
Busy(p) == /\ lock \notin {p, Absent}
           /\ pc[p] \in {"begin", "analyze"} \/ InScript(p)
           /\ Raise(p)

\* A statement that changes the schema or data, inside the transaction or, when
\* the script has ended it, in one of its own.
Effect(view, c) == [view EXCEPT !.effects[c] = @ + 1]
Change(p) ==
    LET c == <<version[p], next[p]>>
        view == IF lock = p THEN image ELSE db
    IN  /\ InScript(p) /\ lock \in {p, Absent} /\ c \in AllChanges
        /\ IF Statement(p) = "create" /\ view.effects[c] > 0
           THEN Raise(p)
           ELSE /\ IF lock = p
                   THEN image' = Effect(image, c) /\ UNCHANGED db
                   ELSE db' = Effect(db, c) /\ UNCHANGED image
                /\ UNCHANGED lock /\ Proceed(p)

\* A script with transaction statements of its own.
Transact(p) ==
    /\ InScript(p)
    /\ \/ /\ Statement(p) = "COMMIT" /\ lock = p
          /\ db' = image /\ image' = Absent /\ lock' = Absent
          /\ Proceed(p)
       \/ /\ Statement(p) = "BEGIN IMMEDIATE" /\ lock = Absent
          /\ image' = db /\ lock' = p
          /\ UNCHANGED db /\ Proceed(p)
       \/ /\ \/ Statement(p) = "COMMIT" /\ lock # p
             \/ Statement(p) = "BEGIN IMMEDIATE" /\ lock = p
          /\ Raise(p)

\* The script's last statement is followed by the look at in_transaction.
EndScript(p) ==
    /\ pc[p] = "script" /\ next[p] > Len(Scripts[version[p]])
    /\ IF lock # p
       THEN Raise(p)
       ELSE /\ Goto(p, "script", "record")
            /\ UNCHANGED <<release, version, next, db, image, lock, stats>>

\* INSERT INTO schema_migrations: the version is its primary key.
\* Mutant: a version recorded already is recorded again.
RecordAgain(p) ==
    /\ Goto(p, "record", "commit")
    /\ image' = [image EXCEPT !.recorded = @ \cup {version[p]}]
    /\ UNCHANGED <<release, version, next, db, lock, stats>>
Record(p) ==
    /\ pc[p] = "record"
    /\ IF version[p] \in image.recorded
       THEN Raise(p)
       ELSE /\ Goto(p, "record", "commit")
            /\ image' = [image EXCEPT !.recorded = @ \cup {version[p]}]
            /\ UNCHANGED <<release, version, next, db, lock, stats>>

\* Mutant: the next migration is skipped.
CommitSkipping(p) ==
    /\ ToNext(p, "commit", version[p] + 1, "analyze")
    /\ db' = image /\ image' = Absent /\ lock' = Absent
    /\ UNCHANGED <<release, next, stats>>
Commit(p) ==
    /\ ToNext(p, "commit", version[p], "analyze")
    /\ db' = image /\ image' = Absent /\ lock' = Absent
    /\ UNCHANGED <<release, next, stats>>

Analyze(p) ==
    /\ lock = Absent
    /\ Goto(p, "analyze", "up")
    /\ stats' = db.recorded
    /\ UNCHANGED <<release, version, next, db, image, lock>>

\* Opening the connection, or any statement, fails.
Fail(p) == pc[p] \notin {"down", "up"} /\ Raise(p)

\* control run stops serving, admin migrate closes the database and exits.
Stop(p) ==
    /\ Goto(p, "up", "down")
    /\ UNCHANGED <<release, version, next, db, image, lock, stats>>

\* The process dies; SQLite drops its open transaction.
Crash(p) == pc[p] # "down" /\ Raise(p)

-----------------------------------------------------------------------------
Run(p) == \/ Read(p) \/ Begin(p) \/ Busy(p) \/ Change(p) \/ Transact(p)
          \/ EndScript(p) \/ Record(p) \/ Commit(p) \/ Analyze(p)

Next == \E p \in Procs : \/ Run(p) \/ Fail(p) \/ Stop(p) \/ Crash(p)
                         \/ \E n \in Releases : Open(p, n)

Spec == Init /\ [][Next]_vars

\* A run goes on until it is up or fails; waiting ends in the lock or in the
\* busy timeout.
FairSpec == Spec /\ \A p \in Procs : WF_vars(Run(p))
-----------------------------------------------------------------------------
(* Properties *)

TypeOK ==
    /\ pc \in [Procs -> {"down", "read", "begin", "script", "record", "commit", "analyze", "up"}]
    /\ release \in [Procs -> Releases \cup {0}]
    /\ version \in [Procs -> 0..Len(Scripts) + 1]
    /\ next \in [Procs -> Nat \ {0}]
    /\ db \in Database
    /\ image \in IF lock = Absent THEN {Absent} ELSE Database
    /\ lock \in Procs \cup {Absent}
    /\ stats \in SUBSET Versions

\* "A failure partway leaves neither the file's schema changes nor its row": a
\* version is recorded exactly when each of its changes took effect once.
AppliedIffRecorded ==
    \A v \in Versions : Plain(v) => \A c \in Changes[v] :
        db.effects[c] = IF v \in db.recorded THEN 1 ELSE 0

\* A process that is up finds every table of its release, although it looked at
\* the versions before others may have been at work.
UpIsMigrated == \A p \in Procs : pc[p] = "up" => 1..release[p] \subseteq db.recorded

\* A process that lost a race against another, whose table exists by then or
\* whose version is recorded, comes up when it is started again: if processes
\* are started again whenever they are down, and what brings one down is such a
\* race only, those of a release with plain migrations all come up.
RestartsComeUp ==
    (/\ <>[][~\E p \in Procs : Crash(p) /\ ~Run(p)]_vars
     /\ \A p \in Procs : []<>(pc[p] # "down"))
    => \A p \in Procs : <>[](\A v \in 1..release[p] : Plain(v)) => []<>(pc[p] = "up")

\* A run implements the promise of MigrationLog.
PlainChanges == [v \in Versions |-> IF Plain(v) THEN Changes[v] ELSE {}]
Log == INSTANCE MigrationLog WITH
    Last <- Len(Scripts),
    Changes <- PlainChanges,
    effects <- [c \in UNION {PlainChanges[v] : v \in Versions} |-> db.effects[c]],
    version <- Cardinality(db.recorded),
    up <- {u \in Procs \X Releases : pc[u[1]] = "up" /\ release[u[1]] = u[2]}

KeepsLog == Log!Spec
=============================================================================
