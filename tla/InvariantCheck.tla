--------------------------- MODULE InvariantCheck ---------------------------
(***************************************************************************)
(* check_invariants: the queries one after the other over one snapshot,    *)
(* while others write, and the removal of tasks without open dependencies  *)
(* (Kahn's algorithm), one task at a time.                                 *)
(*                                                                         *)
(* BEGIN takes no snapshot: SQLite takes it at the first SELECT. What rows *)
(* there may be is what the schema admits, not what the handlers write:    *)
(* the checker is for the rest. The order of rows is SQLite's choice.      *)
(***************************************************************************)
EXTENDS Integers, FiniteSets

CONSTANTS Tasks, Attempts, Jobs,
          JobOf,       \* JobOf[t]: the job of task t
          Databases,   \* committed states an audit may find
          Writable,    \* those of them that writers commit meanwhile
          Absent       \* no lease, no snapshot, no verdict, no job

Leased == {"LEASED", "RUNNING"}
Terminal == {"SUCCEEDED", "FAILED", "TIMED_OUT", "INFRA_FAILED", "SKIPPED", "CANCELED"}
States == {"PENDING", "READY"} \cup Leased \cup Terminal
\* leased_by, lease_expires_at_ms and so on, besides lease_attempt_id.
Columns == {"leased_by", "expires", "leased_at", "started_at"}

\* CHECK ((state IN ('LEASED','RUNNING')) = (lease_attempt_id IS NOT NULL))
TaskRow == {row \in [state : States, lease : Attempts \cup {Absent}, held : SUBSET Columns] :
               row.state \in Leased <=> row.lease # Absent}
AttemptRow == [task : Tasks,
               state : {"ACTIVE", "COMMITTED", "REPORTED", "EXPIRED", "ABORTED"}]

\* Foreign keys hold; (task_id, seq) and (task_id, depends_on_task_id) are keys.
Legal(d) ==
    /\ DOMAIN d.tasks \subseteq Tasks
    /\ \A t \in DOMAIN d.tasks : d.tasks[t] \in TaskRow
    /\ DOMAIN d.attempts \subseteq Attempts
    /\ \A a \in DOMAIN d.attempts : /\ d.attempts[a] \in AttemptRow
                                   /\ d.attempts[a].task \in DOMAIN d.tasks
    /\ \A a, b \in DOMAIN d.attempts :        \* attempts_one_committed
          /\ d.attempts[a].state = "COMMITTED" /\ d.attempts[b].state = "COMMITTED"
          /\ d.attempts[a].task = d.attempts[b].task
          => a = b
    /\ \A t \in DOMAIN d.tasks : /\ DOMAIN d.events[t] \subseteq Nat
                                 /\ IsFiniteSet(DOMAIN d.events[t])
    /\ d.deps \subseteq (DOMAIN d.tasks) \X (DOMAIN d.tasks)

ASSUME ConstantsAssumption ==
    /\ IsFiniteSet(Tasks) /\ IsFiniteSet(Attempts)
    /\ JobOf \in [Tasks -> Jobs]
    /\ Writable \subseteq Databases
    /\ \A d \in Databases : Legal(d)
    /\ Absent \notin Databases \cup Attempts \cup Jobs

VARIABLES
    db,         \* the committed state
    view,       \* the snapshot of the open read transaction
    pc,         \* the next query
    found,      \* violations found so far
    answer,     \* what the last check returned
    todo,       \* jobs whose graph is still to be checked
    at,         \* the job whose graph is being checked
    indegree, ready, removed

vars == <<db, view, pc, found, answer, todo, at, indegree, ready, removed>>
search == <<at, indegree, ready, removed>>

NoGraph == [t \in {} |-> 0]
Init ==
    /\ db \in Databases /\ view = Absent /\ pc = "idle"
    /\ found = {} /\ answer = Absent
    /\ todo = {} /\ at = Absent /\ indegree = NoGraph /\ ready = {} /\ removed = 0

-----------------------------------------------------------------------------
(* The queries, over a state d *)

\* GROUP BY task_id HAVING COUNT( * ) > 1
OneCommittedAttemptPerTask(d) == {<<1, t>> : t \in {t \in DOMAIN d.tasks :
    Cardinality({a \in DOMAIN d.attempts : /\ d.attempts[a].task = t
                                           /\ d.attempts[a].state = "COMMITTED"}) > 1}}

ActiveOf(d, t) == {a \in DOMAIN d.attempts : d.attempts[a].task = t /\ d.attempts[a].state = "ACTIVE"}
LeasesMatch(d) == {<<2, t>> : t \in {t \in DOMAIN d.tasks :
    d.tasks[t].state \in Leased /\ ActiveOf(d, t) # {d.tasks[t].lease}}}
ActiveAttemptsMatch(d) == {<<2, a>> : a \in {a \in DOMAIN d.attempts :
    /\ d.attempts[a].state = "ACTIVE"
    /\ LET t == d.attempts[a].task
       IN  d.tasks[t].state \notin Leased \/ d.tasks[t].lease # a}}

TerminalTasksHoldNoLease(d) == {<<3, t>> : t \in {t \in DOMAIN d.tasks :
    d.tasks[t].state \in Terminal /\ (d.tasks[t].held # {} \/ d.tasks[t].lease # Absent)}}

\* Of tasks with events only. seqs != 1..len(seqs), and the last of them.
EventsAreContiguous(d) == {<<8, t>> : t \in {t \in DOMAIN d.tasks :
    LET seqs == DOMAIN d.events[t]
    IN  seqs # {} /\ seqs # 1..Cardinality(seqs)}}
EventsAreCurrent(d) == {<<8, t>> : t \in {t \in DOMAIN d.tasks :
    LET seqs == DOMAIN d.events[t]
    IN  \E n \in seqs : (\A m \in seqs : m <= n) /\ d.events[t][n] # d.tasks[t].state}}

\* The edges of a job, from upstream to task.
Edges(d, j) == {<<e[2], e[1]>> : e \in {e \in d.deps : JobOf[e[1]] = j}}

-----------------------------------------------------------------------------
BeginCheck ==
    /\ pc = "idle"
    /\ pc' = "begun" /\ found' = {}
    /\ UNCHANGED <<db, view, answer, todo, search>>

\* What a query after the first reads.
\* Mutant: no transaction, so each query sees the latest state.
SeenLatest == db
Seen == view

\* The first SELECT takes the snapshot.
FirstQuery ==
    /\ pc = "begun" /\ pc' = "leases"
    /\ view' = db /\ found' = OneCommittedAttemptPerTask(db)
    /\ UNCHANGED <<db, answer, todo, search>>

Query(from, to, violations) ==
    /\ pc = from /\ pc' = to
    /\ found' = found \cup violations
    /\ UNCHANGED <<db, view, answer, todo, search>>
LaterQueries == \/ Query("leases", "active", LeasesMatch(Seen))
                \/ Query("active", "terminal", ActiveAttemptsMatch(Seen))
                \/ Query("terminal", "events", TerminalTasksHoldNoLease(Seen))
                \/ Query("events", "deps", EventsAreContiguous(Seen) \cup EventsAreCurrent(Seen))

\* Jobs without dependencies are not looked at.
ReadDeps ==
    /\ pc = "deps" /\ pc' = "graphs"
    /\ todo' = {JobOf[e[1]] : e \in Seen.deps}
    /\ UNCHANGED <<db, view, found, answer, search>>

-----------------------------------------------------------------------------
(* _has_cycle *)

Nodes(j) == {e[1] : e \in Edges(view, j)} \cup {e[2] : e \in Edges(view, j)}
Upstream(j, t) == {u \in DOMAIN view.tasks : <<u, t>> \in Edges(view, j)}
Indegree(j) == [t \in Nodes(j) |-> Cardinality(Upstream(j, t))]

\* Mutant: every task of the graph counts as ready.
StartGraphAllReady ==
    /\ pc = "graphs" /\ at = Absent
    /\ \E j \in todo :
          /\ at' = j /\ indegree' = Indegree(j)
          /\ ready' = Nodes(j) /\ removed' = 0
    /\ UNCHANGED <<db, view, pc, found, answer, todo>>
StartGraph ==
    /\ pc = "graphs" /\ at = Absent
    /\ \E j \in todo :
          /\ at' = j /\ indegree' = Indegree(j)
          /\ ready' = {t \in Nodes(j) : indegree'[t] = 0} /\ removed' = 0
    /\ UNCHANGED <<db, view, pc, found, answer, todo>>

Downstream(t) == {n \in Nodes(at) : <<t, n>> \in Edges(view, at)}

Remove ==
    /\ pc = "graphs" /\ at # Absent
    /\ \E t \in ready :
          /\ indegree' = [n \in DOMAIN indegree |->
                             IF n \in Downstream(t) THEN indegree[n] - 1 ELSE indegree[n]]
          /\ ready' = (ready \ {t}) \cup {n \in Downstream(t) : indegree'[n] = 0}
    /\ removed' = removed + 1
    /\ UNCHANGED <<db, view, pc, found, answer, todo, at>>

EndGraph ==
    /\ pc = "graphs" /\ at # Absent /\ ready = {}
    /\ found' = found \cup IF removed # Cardinality(DOMAIN indegree) THEN {<<9, at>>} ELSE {}
    /\ todo' = todo \ {at}
    /\ at' = Absent /\ indegree' = NoGraph /\ removed' = 0
    /\ UNCHANGED <<db, view, pc, answer, ready>>

-----------------------------------------------------------------------------
\* COMMIT, which ends the read transaction, and the list of violations.
Return ==
    /\ pc = "graphs" /\ at = Absent /\ todo = {}
    /\ pc' = "idle" /\ view' = Absent /\ answer' = found
    /\ UNCHANGED <<db, found, todo, search>>

\* A query raises; the finally block ends the transaction.
QueryFails ==
    /\ pc \in {"begun", "leases", "active", "terminal", "events", "deps"}
    /\ pc' = "idle" /\ view' = Absent
    /\ UNCHANGED <<db, found, answer, todo, search>>

\* Another connection commits.
Write == /\ db' \in Writable
         /\ UNCHANGED <<view, pc, found, answer, todo, search>>

Run == \/ FirstQuery \/ LaterQueries \/ ReadDeps
       \/ StartGraph \/ Remove \/ EndGraph \/ Return
Next == BeginCheck \/ Run \/ QueryFails \/ Write

Spec == Init /\ [][Next]_vars
-----------------------------------------------------------------------------
(* Properties *)

TypeOK ==
    /\ Legal(db)
    /\ pc \in {"idle", "begun", "leases", "active", "terminal", "events", "deps", "graphs"}
    /\ IF pc \in {"idle", "begun"} THEN view = Absent ELSE Legal(view)
    /\ answer = Absent \/ answer \subseteq {1, 2, 3, 8, 9} \X (Tasks \cup Attempts \cup Jobs)
    /\ found \subseteq {1, 2, 3, 8, 9} \X (Tasks \cup Attempts \cup Jobs)
    /\ todo \subseteq Jobs /\ at \in todo \cup {Absent}
    /\ indegree \in [IF at = Absent THEN {} ELSE Nodes(at) -> Nat]
    /\ ready \subseteq DOMAIN indegree
    /\ removed \in Nat

\* Tasks of a job each of which waits for another of them.
Cyclic(j) == \E C \in SUBSET Nodes(j) : C # {} /\ \A t \in C : \E u \in C : <<u, t>> \in Edges(view, j)

\* Counting the tasks removed decides: in a graph that has been looked at, some
\* are left over exactly when it has a cycle, in whatever order ready tasks are
\* taken and however the graphs of other jobs came out.
CyclesAreFound ==
    pc = "graphs" => \A j \in {JobOf[e[1]] : e \in view.deps} \ todo :
        <<9, j>> \in found <=> Cyclic(j)

\* What others commit meanwhile never shows in an answer, nor do two of their
\* states: a check implements the promise of Audit.
Promise == INSTANCE Audit WITH asking <- pc # "idle", seen <- view
KeepsAudit == Promise!Spec
=============================================================================
