----------------------------- MODULE Submission -----------------------------
(***************************************************************************)
(* POST /v1/jobs: validation, then one write transaction that looks for an *)
(* earlier submission under the Idempotency-Key, checks the input blobs    *)
(* and writes the job with its inputs, tasks, dependencies and first       *)
(* events. Several control-plane processes may serve one database; they    *)
(* crash and restart, answers get lost, clients try again.                 *)
(*                                                                         *)
(* A handler does not await between its arrival and the end of its         *)
(* transaction (current), but every statement is a step, because a crash,  *)
(* a failing statement, or a read by another connection may fall between.  *)
(***************************************************************************)
EXTENDS Integers, FiniteSets, FiniteSetsExt

CONSTANTS Requests,     \* submission slots; a client reuses one to try again
          Procs,        \* control-plane processes
          Jobs,         \* the job ids new_ulid may draw
          Keys,         \* Idempotency-Key values
          Works,        \* manifests with a selection
          Digests,      \* input blobs
          Size,         \* Size[d]: the bytes of blob d
          Files,        \* Files[w]: the manifest's entries, [path, sha, size]
          TaskNames,    \* stage, target and seed of a task
          Tasks,        \* Tasks[w]: the tasks w expands to; Absent: it is rejected
          Deps,         \* Deps[w]: the dependencies between them
          Toolchains,   \* toolchain digests
          Pin,          \* Pin[w]: the pipeline's own toolchain digest, or Absent
          Configs,      \* configurations a process may start with
          Absent        \* no key, no job, no row, no digest

Entry == [path : STRING, sha : Digests, size : Nat]
JobRow == [key : Keys \cup {Absent}, hash : Works, toolchain : Toolchains, n : Nat,
           inputs : SUBSET Entry, tasks : SUBSET TaskNames,
           deps : SUBSET (TaskNames \X TaskNames), events : SUBSET TaskNames]
\* timed: the works whose stage timeouts do not conflict with its timing constants.
Config == [toolchain : Toolchains \cup {Absent}, timed : SUBSET Works,
           fileCap : Nat, jobCap : Nat]

ASSUME ConstantsAssumption ==
    /\ Size \in [Digests -> Nat]
    /\ \A w \in Works :
          /\ Files[w] \subseteq Entry
          /\ Pin[w] \in Toolchains \cup {Absent}
          /\ (Tasks[w] # Absent => /\ Tasks[w] \subseteq TaskNames
                                   /\ IsFiniteSet(Tasks[w])
                                   /\ Deps[w] \subseteq Tasks[w] \X Tasks[w])
    /\ Configs \subseteq Config
    /\ Absent \notin Requests \cup Procs \cup Jobs \cup Keys \cup Toolchains \cup Nat
    /\ Absent \notin Config \cup JobRow \cup [key : Keys \cup {Absent}, work : Works]

VARIABLES
    pc,        \* per request: where its handler is
    proc,      \* per request: the process serving it
    asked,     \* per request: its Idempotency-Key and work
    tool,      \* per request: the resolved toolchain digest
    job,       \* per request: the job it creates or returns
    answer,    \* per request: what its client last saw
    jobs,      \* the committed rows of each job
    image,     \* the rows the open transaction has written so far
    blobs,     \* the blobs table: digest -> size
    lock,      \* the process that holds SQLite's write lock
    config,    \* per process: its configuration, or Absent when it is down
    current    \* per process: the handler that has left its last await

request == <<pc, proc, asked, tool, job, answer>>
database == <<jobs, image, blobs, lock>>
vars == <<request, database, config, current>>

Nothing == [code |-> "none", job |-> Absent]
Codes == {"none", "200", "201", "409 conflict", "409 missing", "413", "422", "500", "lost"}
InTransaction == {"replay", "check", "jobs", "inputs", "tasks", "deps", "events", "commit"}

Init ==
    /\ pc = [r \in Requests |-> "idle"]
    /\ proc = [r \in Requests |-> Absent]
    /\ asked = [r \in Requests |-> Absent]
    /\ tool = [r \in Requests |-> Absent]
    /\ job = [r \in Requests |-> Absent]
    /\ answer = [r \in Requests |-> Nothing]
    /\ jobs = [j \in Jobs |-> Absent]
    /\ image = Absent
    /\ blobs = [d \in Digests |-> Absent]
    /\ lock = Absent
    /\ config = [p \in Procs |-> Absent]
    /\ current = [p \in Procs |-> Absent]

-----------------------------------------------------------------------------
(* The submit handler *)

\* The request leaves its handler with this answer.
End(r, code, j) ==
    /\ pc' = [pc EXCEPT ![r] = "idle"]
    /\ proc' = [proc EXCEPT ![r] = Absent]
    /\ tool' = IF j = Absent THEN [tool EXCEPT ![r] = Absent] ELSE tool
    /\ job' = [job EXCEPT ![r] = Absent]
    /\ answer' = [answer EXCEPT ![r] = [code |-> code, job |-> j]]
    /\ UNCHANGED asked

\* An exception inside write(): ROLLBACK, and the lock is given back.
Rollback(r, code) ==
    /\ End(r, code, Absent)
    /\ image' = Absent
    /\ lock' = Absent
    /\ current' = [current EXCEPT ![proc[r]] = Absent]
    /\ UNCHANGED <<jobs, blobs, config>>

Step(r, from, to) == /\ pc[r] = from
                     /\ pc' = [pc EXCEPT ![r] = to]
                     /\ UNCHANGED <<proc, asked, tool, answer>>

\* submission_hash covers the manifest (with its pipeline) and the selection,
\* and nothing else of the request.
SubmissionHash(w) == w

\* Body, then the pipeline's pin, then the control plane's own.
Resolve(t, w, p) == CASE t # Absent -> t
                      [] t = Absent /\ Pin[w] # Absent -> Pin[w]
                      [] OTHER -> config[p].toolchain
\* Mutant: a submission without any toolchain digest is let through.
NeverUnpinned(t, w, p) == FALSE
Unpinned(t, w, p) == Resolve(t, w, p) = Absent
Invalid(t, w, p) == Tasks[w] = Absent \/ w \notin config[p].timed \/ Unpinned(t, w, p)

FreshJob(j) == jobs[j] = Absent /\ \A r \in Requests : job[r] # j

\* Everything before the transaction: an invalid manifest, pipeline or selection,
\* stage timeouts this process does not allow or no toolchain digest are refused
\* with 422, a repeat of accepted work too.
Submit(r, p, k, w, t) ==
    /\ pc[r] = "idle" /\ config[p] # Absent /\ current[p] = Absent
    /\ IF Invalid(t, w, p)
       THEN /\ answer' = [answer EXCEPT ![r] = [code |-> "422", job |-> Absent]]
            /\ UNCHANGED <<pc, proc, asked, tool, job, current>>
       ELSE /\ asked' = [asked EXCEPT ![r] = [key |-> k, work |-> w]]
            /\ pc' = [pc EXCEPT ![r] = "begin"]
            /\ proc' = [proc EXCEPT ![r] = p]
            /\ tool' = [tool EXCEPT ![r] = Resolve(t, w, p)]
            /\ \E j \in Jobs : FreshJob(j) /\ job' = [job EXCEPT ![r] = j]
            /\ answer' = [answer EXCEPT ![r] = Nothing]
            /\ current' = [current EXCEPT ![p] = r]
    /\ UNCHANGED <<database, config>>

\* BEGIN IMMEDIATE.
Begin(r) ==
    /\ lock = Absent
    /\ Step(r, "begin", "replay")
    /\ lock' = proc[r]
    /\ UNCHANGED <<job, jobs, image, blobs, config, current>>

\* The busy timeout runs out while another process holds the lock.
BeginBusy(r) ==
    /\ pc[r] = "begin" /\ lock # Absent
    /\ End(r, "500", Absent)
    /\ current' = [current EXCEPT ![proc[r]] = Absent]
    /\ UNCHANGED <<database, config>>

Under(k) == {j \in Jobs : jobs[j] # Absent /\ k # Absent /\ jobs[j].key = k}
\* Mutant: the key alone decides.
SameKey(r, j) == TRUE
Same(r, j) == jobs[j].hash = SubmissionHash(asked[r].work)

\* No earlier submission under the key, or none asked for.
\* Mutant: the checks come before the look at the key.
NoReplayYet(r) ==
    /\ Step(r, "replay", "check")
    /\ UNCHANGED <<job, database, config, current>>
NoReplay(r) ==
    /\ pc[r] = "replay" /\ Under(asked[r].key) = {}
    /\ Step(r, "replay", "check")
    /\ UNCHANGED <<job, database, config, current>>

Replay(r, j) ==
    /\ pc[r] = "replay" /\ j \in Under(asked[r].key) /\ Same(r, j)
    /\ Step(r, "replay", "existing")
    /\ job' = [job EXCEPT ![r] = j]
    /\ lock' = Absent
    /\ current' = [current EXCEPT ![proc[r]] = Absent]
    /\ UNCHANGED <<jobs, image, blobs, config>>

KeyConflict(r, j) ==
    /\ pc[r] = "replay" /\ j \in Under(asked[r].key) /\ ~Same(r, j)
    /\ Rollback(r, "409 conflict")

\* _stored_sizes and _check_sizes. Mutant: declared sizes are believed.
Missing(w) == {f \in Files[w] : blobs[f.sha] = Absent}
NeverWrong(w) == {}
Wrong(w) == {f \in Files[w] : blobs[f.sha] # f.size}
\* Mutant: a job as large as the cap is refused.
TooLargeAtCap(w, p) == \/ \E f \in Files[w] : blobs[f.sha] > config[p].fileCap
                       \/ MapThenSumSet(LAMBDA f : blobs[f.sha], Files[w]) >= config[p].jobCap
TooLarge(w, p) == \/ \E f \in Files[w] : blobs[f.sha] > config[p].fileCap
                  \/ MapThenSumSet(LAMBDA f : blobs[f.sha], Files[w]) > config[p].jobCap

CheckInputs(r) ==
    LET w == asked[r].work
    IN  /\ pc[r] = "check"
        /\ CASE Missing(w) # {} -> Rollback(r, "409 missing")
             [] Missing(w) = {} /\ Wrong(w) # {} -> Rollback(r, "422")
             [] Missing(w) = {} /\ Wrong(w) = {} /\ TooLarge(w, proc[r]) ->
                    Rollback(r, "413")
             [] OTHER -> /\ Step(r, "check", "jobs")
                         /\ UNCHANGED <<job, database, config, current>>

\* INSERT INTO jobs; a second row under one key violates UNIQUE.
InsertJob(r) ==
    /\ pc[r] = "jobs"
    /\ IF Under(asked[r].key) # {}
       THEN Rollback(r, "500")
       ELSE /\ Step(r, "jobs", "inputs")
            /\ image' = [key |-> asked[r].key, hash |-> SubmissionHash(asked[r].work),
                         toolchain |-> tool[r], n |-> Cardinality(Tasks[asked[r].work]),
                         inputs |-> {}, tasks |-> {}, deps |-> {}, events |-> {}]
            /\ UNCHANGED <<job, jobs, blobs, lock, config, current>>

\* INSERT INTO job_inputs; an input without its blobs row violates the foreign key.
InsertInputs(r) ==
    /\ pc[r] = "inputs"
    /\ IF Missing(asked[r].work) # {}
       THEN Rollback(r, "500")
       ELSE /\ Step(r, "inputs", "tasks")
            /\ image' = [image EXCEPT !.inputs = Files[asked[r].work]]
            /\ UNCHANGED <<job, jobs, blobs, lock, config, current>>

Insert(r, from, to, rows) ==
    /\ Step(r, from, to)
    /\ image' = rows
    /\ UNCHANGED <<job, jobs, blobs, lock, config, current>>

InsertTasks(r) == /\ pc[r] = "tasks"
                  /\ Insert(r, "tasks", "deps", [image EXCEPT !.tasks = Tasks[asked[r].work]])

InsertDeps(r) == /\ pc[r] = "deps"
                 /\ Insert(r, "deps", "events", [image EXCEPT !.deps = Deps[asked[r].work]])

\* Mutant: the transaction is committed before the events are written.
EventsAfterCommit(r) == pc[r] = "events" /\ Insert(r, "events", "commit", image)
InsertEvents(r) == /\ pc[r] = "events"
                   /\ Insert(r, "events", "commit", [image EXCEPT !.events = image.tasks])

\* Mutant: Connection.commit(), which does nothing in autocommit mode.
CommitNothing(r) ==
    /\ Step(r, "commit", "created")
    /\ image' = Absent
    /\ lock' = Absent
    /\ current' = [current EXCEPT ![proc[r]] = Absent]
    /\ UNCHANGED <<job, jobs, blobs, config>>
Commit(r) ==
    /\ Step(r, "commit", "created")
    /\ jobs' = [jobs EXCEPT ![job[r]] = image]
    /\ image' = Absent
    /\ lock' = Absent
    /\ current' = [current EXCEPT ![proc[r]] = Absent]
    /\ UNCHANGED <<job, blobs, config>>

\* A statement, or the COMMIT, fails. After a statement write() rolls back; after
\* the COMMIT it does not, and SQLite does: what is left open is a COMMIT that
\* returns SQLITE_BUSY, taken not to happen to who has the write lock of a WAL.
\* Mutant: the failure leaves the transaction and its lock behind.
StatementFailsOpen(r) ==
    /\ pc[r] \in InTransaction
    /\ End(r, "500", Absent)
    /\ current' = [current EXCEPT ![proc[r]] = Absent]
    /\ UNCHANGED <<database, config>>
StatementFails(r) == pc[r] \in InTransaction /\ Rollback(r, "500")

Respond(r) ==
    /\ \/ pc[r] = "created" /\ End(r, "201", job[r])
       \/ pc[r] = "existing" /\ End(r, "200", job[r])
    /\ UNCHANGED <<database, config, current>>

RespondFails(r) ==
    /\ pc[r] \in {"created", "existing"}
    /\ End(r, "lost", Absent)
    /\ UNCHANGED <<database, config, current>>

-----------------------------------------------------------------------------
(* The rest of the control plane *)

\* A client uploads a blob: BlobUpload records it with its true size, in a
\* write transaction of its own.
RecordBlob(d) ==
    /\ lock = Absent /\ blobs[d] = Absent
    /\ blobs' = [blobs EXCEPT ![d] = Size[d]]
    /\ UNCHANGED <<request, jobs, image, lock, config, current>>

Start(p, c) ==
    /\ config[p] = Absent
    /\ config' = [config EXCEPT ![p] = c]
    /\ UNCHANGED <<request, database, current>>

Stop(p) ==
    /\ config[p] # Absent /\ \A r \in Requests : proc[r] # p
    /\ config' = [config EXCEPT ![p] = Absent]
    /\ UNCHANGED <<request, database, current>>

\* The process dies; SQLite drops its open transaction.
Crash(p) ==
    /\ config[p] # Absent
    /\ LET R == {r \in Requests : proc[r] = p}
           Drop(f, v) == [r \in Requests |-> IF r \in R THEN v ELSE f[r]]
       IN  /\ pc' = Drop(pc, "idle") /\ proc' = Drop(proc, Absent)
           /\ tool' = Drop(tool, Absent) /\ job' = Drop(job, Absent)
           /\ answer' = Drop(answer, [code |-> "lost", job |-> Absent])
    /\ IF lock = p THEN lock' = Absent /\ image' = Absent ELSE UNCHANGED <<lock, image>>
    /\ config' = [config EXCEPT ![p] = Absent]
    /\ current' = [current EXCEPT ![p] = Absent]
    /\ UNCHANGED <<asked, jobs, blobs>>

-----------------------------------------------------------------------------
Handler(r) == \/ Begin(r) \/ NoReplay(r) \/ CheckInputs(r)
              \/ \E j \in Jobs : Replay(r, j) \/ KeyConflict(r, j)
              \/ InsertJob(r) \/ InsertInputs(r) \/ InsertTasks(r)
              \/ InsertDeps(r) \/ InsertEvents(r) \/ Commit(r) \/ Respond(r)
HandlerFails(r) == BeginBusy(r) \/ StatementFails(r) \/ RespondFails(r)
Ask(r) == \E p \in Procs, k \in Keys \cup {Absent}, w \in Works,
             t \in Toolchains \cup {Absent} : Submit(r, p, k, w, t)

Next == \/ \E r \in Requests : Ask(r) \/ Handler(r) \/ HandlerFails(r)
        \/ \E d \in Digests : RecordBlob(d)
        \/ \E p \in Procs : Stop(p) \/ Crash(p) \/ \E c \in Configs : Start(p, c)

Spec == Init /\ [][Next]_vars

(* A handler runs on until it has answered; waiting for another process's  *)
(* lock ends in the lock or in the busy timeout.                           *)
Fairness == \A r \in Requests : WF_vars(Handler(r) \/ BeginBusy(r))
FairSpec == Spec /\ Fairness
-----------------------------------------------------------------------------
(* Properties *)

TypeOK ==
    /\ pc \in [Requests -> InTransaction \cup {"idle", "begin", "created", "existing"}]
    /\ proc \in [Requests -> Procs \cup {Absent}]
    /\ asked \in [Requests -> [key : Keys \cup {Absent}, work : Works] \cup {Absent}]
    /\ tool \in [Requests -> Toolchains \cup {Absent}]
    /\ job \in [Requests -> Jobs \cup {Absent}]
    /\ answer \in [Requests -> [code : Codes, job : Jobs \cup {Absent}]]
    /\ jobs \in [Jobs -> JobRow \cup {Absent}]
    /\ image \in JobRow \cup {Absent}
    /\ blobs \in [Digests -> Nat \cup {Absent}]
    /\ lock \in Procs \cup {Absent}
    /\ config \in [Procs -> Config \cup {Absent}]
    /\ current \in [Procs -> Requests \cup {Absent}]

\* "A rejected submission leaves no trace, and a crash inside the transaction
\* leaves none either": whoever reads a job finds all its rows, those of the
\* work it was submitted with.
JobsAreWhole ==
    \A j \in Jobs : jobs[j] # Absent =>
        LET w == jobs[j].hash
        IN  /\ jobs[j].inputs = Files[w]
            /\ jobs[j].tasks = Tasks[w] /\ jobs[j].n = Cardinality(Tasks[w])
            /\ jobs[j].deps = Deps[w]
            /\ jobs[j].events = Tasks[w]

\* Every input of an accepted job is recorded, with the size the manifest says:
\* what a worker fetches for a task is there and as long as announced.
InputsAreStored ==
    \A j \in Jobs : jobs[j] # Absent =>
        \A f \in jobs[j].inputs : blobs[f.sha] = f.size

\* Inside the transaction the replay comes before every check: a repeat of accepted
\* work that gets there is answered with its job, and what has changed since, the
\* caps of the process or its toolchain, is no refusal. What _manifest_from and
\* _resolve_digest refuse before it (Invalid) is not covered, nor is it true there.
Accepted(r) == \E j \in Under(asked[r].key) : Same(r, j)
RetriesReplay ==
    [][\A r \in Requests :
          pc[r] \in InTransaction /\ pc'[r] = "idle" /\ Accepted(r)
          => answer'[r].code \in {"500", "lost"}]_vars

\* The answer names a job with the toolchain the request resolves to. This is
\* "the same key with different work is a conflict" (routes/jobs.py), if the
\* toolchain the tasks run with is part of the work.
AnswersMatchToolchain ==
    \A r \in Requests : answer[r].code \in {"200", "201"} =>
        jobs[answer[r].job].toolchain = tool[r]

\* The write lock is always given back: a refusal, a failing statement or a
\* crash inside the transaction never blocks later writers.
LockIsFreed == lock # Absent ~> lock = Absent

Faulty == \/ \E r \in Requests : HandlerFails(r)
          \/ \E p \in Procs, r \in Requests : proc[r] = p /\ Crash(p)
Fits(w) == \A c \in Configs :
    /\ \A f \in Files[w] : f.size <= c.fileCap
    /\ MapThenSumSet(LAMBDA f : f.size, Files[w]) <= c.jobCap

\* A client that keeps submitting work under a key, with its inputs uploaded,
\* gets a job under that key once failures stop: no half-done attempt of
\* another process or of its own stands in the way.
RetriesLand ==
    \A k \in Keys, w \in Works :
        (/\ Fits(w)
         /\ <>[][~Faulty]_vars
         /\ <>(Missing(w) = {} /\ Wrong(w) = {})
         /\ []<>(\E r \in Requests : pc[r] = "begin" /\ asked[r] = [key |-> k, work |-> w]))
        => <>(Under(k) # {})

\* The handlers implement the promise of JobBook.
Book == INSTANCE JobBook WITH
    book <- [j \in Jobs |-> IF jobs[j] = Absent THEN Absent
                            ELSE [key |-> jobs[j].key, work |-> jobs[j].hash]],
    asked <- asked,
    decided <- [r \in Requests |->
                   CASE pc[r] = "created" -> [code |-> "201", job |-> job[r]]
                     [] pc[r] = "existing" -> [code |-> "200", job |-> job[r]]
                     [] OTHER -> Nothing],
    answer <- answer

KeepsBook == Book!Spec
=============================================================================
