------------------------------ MODULE Reading ------------------------------
(* The read routes of control/routes/jobs.py beside the submissions: what  *)
(* GET /v1/jobs, /v1/jobs/{id}, /v1/jobs/{id}/tasks and /v1/tasks/{id}     *)
(* answer from a read-only connection of their own while handlers of this  *)
(* and other processes write.                                              *)
(*                                                                         *)
(* Each SELECT sees what is committed when it runs, so a route with two of *)
(* them may see two states of the database. Job ids are numbers here, as   *)
(* new_ulid draws them. Every job is SUBMITTED and every task PENDING:     *)
(* a state filter passes all or nothing, and is left out.                  *)
EXTENDS Submission

CONSTANTS Readers,      \* clients that read
          Times,        \* readings of the clock
          Limits,       \* what `limit' may ask for
          LimitDefault, LimitCap

ASSUME ReadingAssumption ==
    /\ Jobs \subseteq Nat /\ Times \subseteq Nat
    /\ Limits \subseteq Nat \ {0} /\ {LimitDefault, LimitCap} \subseteq Nat \ {0}
    /\ Absent \notin TaskNames

VARIABLES
    created,  \* created_at_ms of each job id that a handler has drawn
    told,     \* history: jobs that a client has been told of
    reader    \* per reader: where its route is, and its last answers

readVars == <<vars, created, told, reader>>

Committed == {j \in Jobs : jobs[j] # Absent}

\* _limit
\* Mutant: the default is a cap as well.
LimitDefaultCaps(l) == IF l = Absent \/ LimitDefault < l THEN LimitDefault ELSE l
Limit(l) == LET n == IF l = Absent THEN LimitDefault ELSE l
            IN  IF n < LimitCap THEN n ELSE LimitCap

\* ORDER BY created_at_ms DESC, job_id DESC.
\* Mutant: oldest first.
BeforeOldest(i, j) == created[i] < created[j] \/ (created[i] = created[j] /\ i < j)
Before(i, j) == created[i] > created[j] \/ (created[i] = created[j] /\ i > j)

Newest(n) == {j \in Committed : Cardinality({i \in Committed : Before(i, j)}) < n}

-----------------------------------------------------------------------------
Fresh == [pc |-> "idle", job |-> Absent, task |-> Absent, limit |-> Absent, code |-> "none",
          listed |-> {}, tasks |-> {}, deps |-> {}]

Serving == \E p \in Procs : config[p] # Absent

\* A reader asks and has its answer, or goes on to a second SELECT.
Reads(c, from, new) ==
    /\ Serving /\ reader[c].pc = from
    /\ reader' = [reader EXCEPT ![c] = new]
    /\ UNCHANGED <<vars, created, told>>

Found(j) == IF j \in Committed THEN "200" ELSE "404"

ListJobs(c, l) ==
    Reads(c, "idle", [Fresh EXCEPT !.limit = l, !.listed = Newest(Limit(l)),
                                   !.code = "list"])

GetJob(c, j) == Reads(c, "idle", [Fresh EXCEPT !.job = j, !.code = Found(j)])

\* The job's row, then its tasks.
AskTasks(c, j, l) ==
    Reads(c, "idle", IF j \in Committed
                     THEN [Fresh EXCEPT !.pc = "tasks", !.job = j, !.limit = l]
                     ELSE [Fresh EXCEPT !.job = j, !.code = "404"])
ListTasks(c) ==
    LET j == reader[c].job
        rows == IF j \in Committed THEN jobs[j].tasks ELSE {}
        n == Limit(reader[c].limit)
    IN  \E some \in SUBSET rows :
          /\ Cardinality(some) = IF Cardinality(rows) < n THEN Cardinality(rows) ELSE n
          /\ Reads(c, "tasks", [reader[c] EXCEPT !.pc = "idle", !.code = "tasks",
                                                 !.tasks = some])

\* The task's row, then those of its dependencies.
AskTask(c, j, t) ==
    Reads(c, "idle", IF j \in Committed /\ t \in jobs[j].tasks
                     THEN [Fresh EXCEPT !.pc = "deps", !.job = j, !.task = t]
                     ELSE [Fresh EXCEPT !.job = j, !.task = t, !.code = "404"])
ListDeps(c) ==
    LET j == reader[c].job
    IN  Reads(c, "deps", [reader[c] EXCEPT !.pc = "idle", !.code = "deps",
            !.deps = {d \in TaskNames : j \in Committed
                                        /\ <<reader[c].task, d>> \in jobs[j].deps}])

\* The process that reads dies, or cannot read.
ReadFails(c) == Reads(c, "tasks", Fresh) \/ Reads(c, "deps", Fresh)

Read(c) == \/ \E l \in Limits \cup {Absent} :
                 ListJobs(c, l) \/ \E j \in Jobs : AskTasks(c, j, l)
           \/ \E j \in Jobs : GetJob(c, j) \/ \E t \in TaskNames : AskTask(c, j, t)
           \/ ListTasks(c) \/ ListDeps(c) \/ ReadFails(c)

\* A submission reads the clock when it draws its job's id; the clock of
\* another process, or of this one after a step back, may be behind.
Drawn(j) == FreshJob(j) /\ \E r \in Requests : job'[r] = j
Write ==
    /\ Next
    /\ \E now \in Times :
          created' = [j \in Jobs |-> IF Drawn(j) THEN now ELSE created[j]]
    /\ told' = told \cup ({answer'[r].job : r \in Requests} \ {Absent})
    /\ UNCHANGED reader

ReadInit ==
    /\ Init
    /\ created = [j \in Jobs |-> 0]
    /\ told = {}
    /\ reader = [c \in Readers |-> Fresh]

ReadNext == Write \/ \E c \in Readers : Read(c)

ReadSpec == ReadInit /\ [][ReadNext]_readVars

-----------------------------------------------------------------------------
(* Properties.                                                             *)

\* Once any client has been told of a job, no read of any process answers that
\* it is not there (nor that a task of it is not).
ReadsOwnWrites ==
    [][\A c \in Readers :
          LET j == reader'[c].job  t == reader'[c].task IN
          /\ reader'[c] # reader[c] /\ reader'[c].code = "404"
          /\ j \in told
          => /\ jobs[j] # Absent
             /\ t \notin Tasks[jobs[j].hash] \cup {Absent}]_readVars

\* "Newest first" (the list tests): a client that asks for the list again sees
\* every job it saw, unless as many newer ones as it asked for have come; and
\* jobs that come in with an older clock never push one out.
PollsLoseNothing ==
    [][\A c \in Readers :
          LET was == reader[c]  is == reader'[c] IN
          /\ was.code = "list" /\ is.code = "list" /\ was.limit = is.limit
          /\ was.listed \ is.listed # {}
          => /\ Cardinality(is.listed) = Limit(is.limit)
             /\ \A j \in was.listed \ is.listed, i \in is.listed :
                    created[i] >= created[j]]_readVars

\* Two SELECTs, one answer: a list that has room for them has exactly the tasks
\* of the work that was submitted, and a task's answer exactly what it waits
\* for, all of it tasks of the same job, whatever is committed in between.
WholeAnswers ==
    \A c \in Readers :
        LET w == jobs[reader[c].job].hash
            room == IF reader[c].limit = Absent THEN LimitDefault ELSE reader[c].limit
        IN
        /\ reader[c].code = "tasks" =>
               /\ reader[c].tasks \subseteq Tasks[w]
               /\ (Cardinality(Tasks[w]) <= room /\ room <= LimitCap)
                      => reader[c].tasks = Tasks[w]
        /\ reader[c].code = "deps" =>
               /\ reader[c].deps = {d \in TaskNames : <<reader[c].task, d>> \in Deps[w]}
               /\ reader[c].deps \subseteq Tasks[w]
=============================================================================
