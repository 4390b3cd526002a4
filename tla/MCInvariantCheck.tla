-------------------------- MODULE MCInvariantCheck --------------------------
(* Small instances of InvariantCheck for TLC.                              *)
EXTENDS InvariantCheck

CONSTANTS t1, t2, t3, t4, a1, a2, j1, j2

MCTasks == {t1, t2, t3, t4}
MCAttempts == {a1, a2}
MCJobs == {j1, j2}
MCJobOf == [t \in MCTasks |-> IF t = t4 THEN j2 ELSE j1]

None == [x \in {} |-> x]
Row(state, lease, held) == [state |-> state, lease |-> lease, held |-> held]
Pending == Row("PENDING", Absent, {})
Tried(task, state) == [task |-> task, state |-> state]
\* The tasks rows has, with what else is in the other tables.
State(rows, attempts, events, deps) ==
    [tasks |-> rows, attempts |-> attempts, deps |-> deps,
     events |-> [t \in DOMAIN rows |-> IF t \in DOMAIN events THEN events[t] ELSE None]]

\* Every graph of the three tasks of a job of which t1 may wait for itself, with
\* or without a dependency on the other job and one of it on this job.
GraphStates == {State([t \in MCTasks |-> Pending], None, None, deps) :
    deps \in SUBSET {<<t1, t1>>, <<t1, t2>>, <<t1, t3>>, <<t2, t1>>, <<t2, t3>>,
                     <<t3, t1>>, <<t3, t2>>, <<t1, t4>>, <<t4, t1>>}}

\* Two tasks, one at most with a lease, and up to two attempts in the states
\* the checks tell apart.
LeaseStates == {d \in {State([t \in {t1, t2} |-> IF t = t1 THEN row ELSE Pending],
                             attempts, None, {}) :
    row \in {Pending, Row("SUCCEEDED", Absent, {})}
           \cup {Row(state, a, {"leased_by"}) : state \in Leased, a \in MCAttempts},
    attempts \in UNION {[as -> {Tried(t, state) : t \in {t1, t2},
                                                 state \in {"ACTIVE", "COMMITTED", "EXPIRED"}}] :
                           as \in SUBSET MCAttempts}} : Legal(d)}

\* One task, its state against its events: none, gaps, a start from 0, an old state.
EventStates == {State([t \in {t1} |-> Row(state, Absent, {})], None,
                      [t \in {t1} |-> [n \in seqs |-> IF n = 2 THEN last ELSE "PENDING"]], {}) :
    state \in {"PENDING", "SKIPPED"}, last \in {"PENDING", "SKIPPED"}, seqs \in SUBSET (0..3)}

\* What may be left behind in the columns of a task without a lease.
ColumnStates == {State([t \in {t1} |-> Row(state, Absent, held)], None, None, {}) :
    state \in {"READY"} \cup Terminal, held \in SUBSET Columns}

\* What writers commit while a check runs: a task is pending, then leased, then
\* failed, with a lawful history at each step; and a cycle.
Lawful(row, attempts, history) ==
    State([t \in {t1} |-> row], attempts, [t \in {t1} |-> history], {})
MCWritable == {
    Lawful(Pending, None, <<"PENDING">>),
    Lawful(Row("LEASED", a1, {"leased_by"}), [a \in {a1} |-> Tried(t1, "ACTIVE")],
           <<"PENDING", "LEASED">>),
    Lawful(Row("FAILED", Absent, {}), [a \in {a1} |-> Tried(t1, "COMMITTED")],
           <<"PENDING", "LEASED", "FAILED">>),
    State([t \in {t1, t2} |-> Pending], None, None, {<<t1, t2>>, <<t2, t1>>}) }

MCDatabases == GraphStates \cup LeaseStates \cup EventStates \cup ColumnStates \cup MCWritable
=============================================================================
