------------------------------- MODULE Audit -------------------------------
(***************************************************************************)
(* What an audit of the database promises: it looks at one committed state *)
(* at one instant between question and answer, whatever is committed       *)
(* meanwhile, and names exactly what contradicts the invariants there.     *)
(* InvariantCheck implements this specification.                           *)
(***************************************************************************)
EXTENDS Integers

CONSTANTS Databases, Writable, JobOf, Absent

VARIABLES
    db,         \* the committed state
    asking,     \* somebody waits for an answer
    seen,       \* the state that was looked at
    answer

vars == <<db, asking, seen, answer>>

Leased == {"LEASED", "RUNNING"}
Terminal == {"SUCCEEDED", "FAILED", "TIMED_OUT", "INFRA_FAILED", "SKIPPED", "CANCELED"}

(* The numbers are those of invariants.py. *)

CommittedTwice(d) == {t \in DOMAIN d.tasks :
    \E a, b \in DOMAIN d.attempts :
        /\ a # b /\ d.attempts[a].task = t /\ d.attempts[b].task = t
        /\ d.attempts[a].state = "COMMITTED" /\ d.attempts[b].state = "COMMITTED"}

\* The one ACTIVE attempt of a leased task is the one its lease names.
LeaseAstray(d) == {t \in DOMAIN d.tasks :
    /\ d.tasks[t].state \in Leased
    /\ ~ \A a \in DOMAIN d.attempts \cup {d.tasks[t].lease} :
           a = d.tasks[t].lease
           <=> a \in DOMAIN d.attempts /\ d.attempts[a].task = t /\ d.attempts[a].state = "ACTIVE"}
AttemptAstray(d) == {a \in DOMAIN d.attempts :
    LET t == d.attempts[a].task
    IN  /\ d.attempts[a].state = "ACTIVE"
        /\ ~(d.tasks[t].state \in Leased /\ d.tasks[t].lease = a)}

StillHolds(d) == {t \in DOMAIN d.tasks :
    d.tasks[t].state \in Terminal /\ (d.tasks[t].lease # Absent \/ d.tasks[t].held # {})}

\* Of tasks that have events: nobody looks for those that have none.
Gapped(d) == {t \in DOMAIN d.tasks :
    /\ DOMAIN d.events[t] # {}
    /\ ~ \E n \in DOMAIN d.events[t] : DOMAIN d.events[t] = 1..n}
Outdated(d) == {t \in DOMAIN d.tasks :
    \E n \in DOMAIN d.events[t] : /\ \A m \in DOMAIN d.events[t] : m <= n
                                  /\ d.events[t][n] # d.tasks[t].state}

\* Tasks of which each waits for another can never run. The graph of a job has
\* the dependencies of its tasks, also those on tasks of other jobs.
Circular(d) == {j \in {JobOf[t] : t \in DOMAIN d.tasks} :
    \E C \in SUBSET DOMAIN d.tasks :
        C # {} /\ \A t \in C : JobOf[t] = j /\ \E u \in C : <<t, u>> \in d.deps}

Contradictions(d) ==
    {<<1, t>> : t \in CommittedTwice(d)}
    \cup {<<2, x>> : x \in LeaseAstray(d) \cup AttemptAstray(d)}
    \cup {<<3, t>> : t \in StillHolds(d)}
    \cup {<<8, t>> : t \in Gapped(d) \cup Outdated(d)}
    \cup {<<9, j>> : j \in Circular(d)}

Init == db \in Databases /\ asking = FALSE /\ seen = Absent /\ answer = Absent

Write == db' \in Writable /\ UNCHANGED <<asking, seen, answer>>
Ask == ~asking /\ asking' = TRUE /\ UNCHANGED <<db, seen, answer>>
Look == asking /\ seen = Absent /\ seen' = db /\ UNCHANGED <<db, asking, answer>>
Tell == /\ seen # Absent /\ answer' = Contradictions(seen)
        /\ asking' = FALSE /\ seen' = Absent
        /\ UNCHANGED db
GiveUp == asking /\ asking' = FALSE /\ seen' = Absent /\ UNCHANGED <<db, answer>>

Next == Write \/ Ask \/ Look \/ Tell \/ GiveUp

Spec == Init /\ [][Next]_vars
=============================================================================
