-------------------------- MODULE SubmissionProofs --------------------------
(***************************************************************************)
(* Proofs about Submission for any number of requests, processes, jobs,    *)
(* keys, works and blobs, and after them about Reading for any number of   *)
(* readers: what is proved of the rows carries over to what is read of     *)
(* them.                                                                   *)
(***************************************************************************)
EXTENDS Reading, FiniteSetTheorems, FunctionTheorems, TLAPS

Building == {"inputs", "tasks", "deps", "events", "commit"}
Early == {"begin"} \cup InTransaction

\* A request in its handler has everything the handler works on, and its
\* client has no answer yet.
Owned == \A r \in Requests :
    /\ pc[r] = "idle" => proc[r] = Absent /\ job[r] = Absent
    /\ pc[r] # "idle" => /\ proc[r] \in Procs
                         /\ asked[r] # Absent /\ Tasks[asked[r].work] # Absent
                         /\ tool[r] \in Toolchains
                         /\ job[r] \in Jobs
                         /\ answer[r] = Nothing

\* A handler between its arrival and the end of its transaction is the one its
\* process runs, and in the transaction the process holds the write lock: two
\* requests are never in a transaction at once.
Locked == \A r \in Requests :
    /\ pc[r] \in Early => current[proc[r]] = r
    /\ pc[r] \in InTransaction => lock = proc[r]

\* What the transaction has written so far is what it has to write.
Imaged == \A r \in Requests :
    LET w == asked[r].work
    IN  /\ pc[r] \in Building =>
              /\ image \in JobRow
              /\ image.key = asked[r].key /\ image.hash = w
              /\ image.n = Cardinality(Tasks[w])
        /\ pc[r] \in Building \ {"inputs"} => image.inputs = Files[w]
        /\ pc[r] \in {"deps", "events", "commit"} => image.tasks = Tasks[w]
        /\ pc[r] \in {"events", "commit"} => image.deps = Deps[w]
        /\ pc[r] = "commit" => image.events = Tasks[w]

\* What the handler has looked at stays so to the end of its transaction: no
\* job under the key, and every input stored with its size.
Checked == \A r \in Requests :
    /\ pc[r] \in InTransaction \ {"replay"} =>
          \A j \in Jobs : jobs[j] # Absent /\ asked[r].key # Absent
                          => jobs[j].key # asked[r].key
    /\ pc[r] \in InTransaction \ {"replay", "check"} =>
          \A f \in Files[asked[r].work] : blobs[f.sha] = f.size

\* The id a handler has drawn is nobody else's.
JobsFresh == \A r, s \in Requests : pc[r] \in Early =>
    /\ jobs[job[r]] = Absent
    /\ pc[s] # "idle" /\ r # s => job[r] # job[s]

UniqueKeys == \A i, j \in Jobs :
    jobs[i] # Absent /\ jobs[j] # Absent /\ jobs[i].key = jobs[j].key
    /\ jobs[i].key # Absent => i = j

IInv == /\ TypeOK /\ Owned /\ Locked /\ Imaged /\ Checked /\ JobsFresh
        /\ UniqueKeys /\ JobsAreWhole /\ InputsAreStored
-----------------------------------------------------------------------------
(* Proof that IInv is inductive: one lemma per action. *)

\* The number of a work's tasks is a natural number.
LEMMA TaskCount ==
  ASSUME NEW w \in Works, Tasks[w] # Absent
  PROVE  Cardinality(Tasks[w]) \in Nat
<1>1. IsFiniteSet(Tasks[w])
  BY ConstantsAssumption
<1> QED BY <1>1, FS_CardinalityType

\* The rows the transaction has written stay well formed with the next table's.
LEMMA WithInputs ==
  ASSUME NEW w \in Works, image \in JobRow
  PROVE  LET row == [image EXCEPT !.inputs = Files[w]]
         IN  /\ row \in JobRow /\ row.inputs = Files[w]
             /\ row.key = image.key /\ row.hash = image.hash /\ row.n = image.n
BY ConstantsAssumption DEF JobRow

LEMMA WithTasks ==
  ASSUME NEW w \in Works, Tasks[w] # Absent, image \in JobRow
  PROVE  LET row == [image EXCEPT !.tasks = Tasks[w]]
         IN  /\ row \in JobRow /\ row.tasks = Tasks[w] /\ row.inputs = image.inputs
             /\ row.key = image.key /\ row.hash = image.hash /\ row.n = image.n
BY ConstantsAssumption DEF JobRow

LEMMA WithDeps ==
  ASSUME NEW w \in Works, Tasks[w] # Absent, image \in JobRow
  PROVE  LET row == [image EXCEPT !.deps = Deps[w]]
         IN  /\ row \in JobRow /\ row.deps = Deps[w]
             /\ row.tasks = image.tasks /\ row.inputs = image.inputs
             /\ row.key = image.key /\ row.hash = image.hash /\ row.n = image.n
<1>1. Deps[w] \in SUBSET (TaskNames \X TaskNames)
  BY ConstantsAssumption
<1> QED BY <1>1 DEF JobRow

LEMMA WithEvents ==
  ASSUME image \in JobRow
  PROVE  LET row == [image EXCEPT !.events = image.tasks]
         IN  /\ row \in JobRow /\ row.events = image.tasks /\ row.deps = image.deps
             /\ row.tasks = image.tasks /\ row.inputs = image.inputs
             /\ row.key = image.key /\ row.hash = image.hash /\ row.n = image.n
BY DEF JobRow

LEMMA InitIInv == Init => IInv
<1>1. Init => TypeOK
  BY ConstantsAssumption DEF Init, TypeOK, Nothing, Codes
<1>2. Init => Owned /\ Locked /\ Imaged /\ Checked /\ JobsFresh
  BY DEF Init, Owned, Locked, Imaged, Checked, JobsFresh, Early, InTransaction, Building
<1>3. Init => UniqueKeys /\ JobsAreWhole /\ InputsAreStored
  BY DEF Init, UniqueKeys, JobsAreWhole, InputsAreStored
<1> QED BY <1>1, <1>2, <1>3 DEF IInv

\* A rollback is the same step whatever raised the exception.
LEMMA RollbackStep ==
  ASSUME IInv, NEW r \in Requests, pc[r] \in InTransaction,
         NEW code \in Codes, Rollback(r, code)
  PROVE  IInv'
<1> USE ConstantsAssumption DEF IInv, Rollback, End, Nothing
<1>1. TypeOK'
  BY DEF TypeOK, Owned, Early, InTransaction, Building
<1>2. (Owned /\ Locked)'
  BY DEF TypeOK, Owned, Locked, Early, InTransaction, Building
<1>3. Imaged'
  BY DEF TypeOK, Owned, Locked, Imaged, Early, InTransaction, Building
<1>4. (Checked /\ JobsFresh)'
  BY DEF TypeOK, Owned, Locked, Checked, JobsFresh, Early, InTransaction, Building
<1>5. (UniqueKeys /\ JobsAreWhole)'
  BY DEF TypeOK, UniqueKeys, JobsAreWhole
<1>6. InputsAreStored'
  BY DEF TypeOK, JobsAreWhole, InputsAreStored
<1> QED BY <1>1, <1>2, <1>3, <1>4, <1>5, <1>6

LEMMA SubmitStep ==
  ASSUME IInv, NEW r \in Requests, NEW p \in Procs, NEW k \in Keys \cup {Absent},
         NEW w \in Works, NEW t \in Toolchains \cup {Absent}, Submit(r, p, k, w, t)
  PROVE  IInv'
<1>1. CASE Invalid(t, w, p)
  <2>1. /\ pc[r] = "idle"
        /\ answer' = [answer EXCEPT ![r] = [code |-> "422", job |-> Absent]]
        /\ UNCHANGED <<pc, proc, asked, tool, job, current, database, config>>
    BY <1>1 DEF Submit
  <2> USE ConstantsAssumption, <2>1 DEF IInv, database
  <2>2. TypeOK'
    BY DEF TypeOK, Codes
  <2>3. (Owned /\ Locked)'
    BY DEF TypeOK, Owned, Locked, Early, InTransaction, Building
  <2>4. Imaged'
    BY DEF TypeOK, Owned, Locked, Imaged, Early, InTransaction, Building
  <2>5. (Checked /\ JobsFresh)'
    BY DEF TypeOK, Owned, Locked, Checked, JobsFresh, Early, InTransaction, Building
  <2>6. (UniqueKeys /\ JobsAreWhole)'
    BY DEF TypeOK, UniqueKeys, JobsAreWhole
  <2>7. InputsAreStored'
    BY DEF TypeOK, JobsAreWhole, InputsAreStored
  <2> QED BY <2>2, <2>3, <2>4, <2>5, <2>6, <2>7
<1>2. CASE ~Invalid(t, w, p)
  <2>1. PICK j \in Jobs : FreshJob(j) /\ job' = [job EXCEPT ![r] = j]
    BY <1>2 DEF Submit
  <2>2. /\ pc[r] = "idle" /\ config[p] # Absent /\ current[p] = Absent
        /\ asked' = [asked EXCEPT ![r] = [key |-> k, work |-> w]]
        /\ pc' = [pc EXCEPT ![r] = "begin"]
        /\ proc' = [proc EXCEPT ![r] = p]
        /\ tool' = [tool EXCEPT ![r] = Resolve(t, w, p)]
        /\ answer' = [answer EXCEPT ![r] = Nothing]
        /\ current' = [current EXCEPT ![p] = r]
        /\ UNCHANGED <<database, config>>
    BY <1>2 DEF Submit
  <2>3. Resolve(t, w, p) \in Toolchains /\ Tasks[w] # Absent
    BY <1>2, <2>2, ConstantsAssumption DEF Invalid, Unpinned, Resolve, IInv, TypeOK, Config
  <2> USE ConstantsAssumption, <2>1, <2>2, <2>3 DEF IInv, database, FreshJob
  <2>4. TypeOK'
    BY DEF TypeOK, Nothing, Codes, Early, InTransaction, Building
  <2>5. (Owned /\ Locked)'
    BY DEF TypeOK, Owned, Locked, Early, InTransaction, Building
  <2>6. Imaged'
    BY DEF TypeOK, Owned, Locked, Imaged, Early, InTransaction, Building
  <2>7. (Checked /\ JobsFresh)'
    BY DEF TypeOK, Owned, Locked, Checked, JobsFresh, Early, InTransaction, Building
  <2>8. (UniqueKeys /\ JobsAreWhole)'
    BY DEF TypeOK, UniqueKeys, JobsAreWhole
  <2>9. InputsAreStored'
    BY DEF TypeOK, JobsAreWhole, InputsAreStored
  <2> QED BY <2>4, <2>5, <2>6, <2>7, <2>8, <2>9
<1> QED BY <1>1, <1>2

LEMMA BeginStep ==
  ASSUME IInv, NEW r \in Requests, Begin(r)
  PROVE  IInv'
<1> USE ConstantsAssumption DEF IInv, Begin, Step
<1>1. TypeOK'
  BY DEF TypeOK, Owned, Early, InTransaction, Building
<1>2. (Owned /\ Locked)'
  BY DEF TypeOK, Owned, Locked, Early, InTransaction, Building
<1>3. Imaged'
  BY DEF TypeOK, Owned, Locked, Imaged, Early, InTransaction, Building
<1>4. (Checked /\ JobsFresh)'
  BY DEF TypeOK, Owned, Locked, Checked, JobsFresh, Early, InTransaction, Building
<1>5. (UniqueKeys /\ JobsAreWhole)'
  BY DEF TypeOK, UniqueKeys, JobsAreWhole
<1>6. InputsAreStored'
  BY DEF TypeOK, JobsAreWhole, InputsAreStored
<1> QED BY <1>1, <1>2, <1>3, <1>4, <1>5, <1>6

LEMMA NoReplayStep ==
  ASSUME IInv, NEW r \in Requests, NoReplay(r)
  PROVE  IInv'
<1> USE ConstantsAssumption DEF IInv, NoReplay, Under, Step, database
<1>1. TypeOK'
  BY DEF TypeOK, Owned, Early, InTransaction, Building
<1>2. (Owned /\ Locked)'
  BY DEF TypeOK, Owned, Locked, Early, InTransaction, Building
<1>3. Imaged'
  BY DEF TypeOK, Owned, Locked, Imaged, Early, InTransaction, Building
<1>4. (Checked /\ JobsFresh)'
  BY DEF TypeOK, Owned, Locked, Checked, JobsFresh, Early, InTransaction, Building
<1>5. (UniqueKeys /\ JobsAreWhole)'
  BY DEF TypeOK, UniqueKeys, JobsAreWhole
<1>6. InputsAreStored'
  BY DEF TypeOK, JobsAreWhole, InputsAreStored
<1> QED BY <1>1, <1>2, <1>3, <1>4, <1>5, <1>6

LEMMA BeginBusyStep ==
  ASSUME IInv, NEW r \in Requests, BeginBusy(r)
  PROVE  IInv'
<1> USE ConstantsAssumption DEF IInv, End, database
<1>1. /\ pc[r] = "begin" /\ End(r, "500", Absent)
      /\ current' = [current EXCEPT ![proc[r]] = Absent]
      /\ UNCHANGED <<database, config>>
  BY DEF BeginBusy
<1> USE <1>1
<1>2. TypeOK'
  BY DEF TypeOK, Owned, Codes, Early, InTransaction, Building
<1>3. (Owned /\ Locked)'
  BY DEF TypeOK, Owned, Locked, Early, InTransaction, Building
<1>4. Imaged'
  BY DEF TypeOK, Owned, Locked, Imaged, Early, InTransaction, Building
<1>5. (Checked /\ JobsFresh)'
  BY DEF TypeOK, Owned, Locked, Checked, JobsFresh, Early, InTransaction, Building
<1>6. (UniqueKeys /\ JobsAreWhole)'
  BY DEF TypeOK, UniqueKeys, JobsAreWhole
<1>7. InputsAreStored'
  BY DEF TypeOK, JobsAreWhole, InputsAreStored
<1> QED BY <1>2, <1>3, <1>4, <1>5, <1>6, <1>7

LEMMA ReplayStep ==
  ASSUME IInv, NEW r \in Requests, NEW j \in Jobs, Replay(r, j)
  PROVE  IInv'
<1> USE ConstantsAssumption DEF IInv, Replay, Under, Step
<1>1. TypeOK'
  BY DEF TypeOK, Owned, Early, InTransaction, Building
<1>2. (Owned /\ Locked)'
  BY DEF TypeOK, Owned, Locked, Early, InTransaction, Building
<1>3. Imaged'
  BY DEF TypeOK, Owned, Locked, Imaged, Early, InTransaction, Building
<1>4. (Checked /\ JobsFresh)'
  BY DEF TypeOK, Owned, Locked, Checked, JobsFresh, Early, InTransaction, Building
<1>5. (UniqueKeys /\ JobsAreWhole)'
  BY DEF TypeOK, UniqueKeys, JobsAreWhole
<1>6. InputsAreStored'
  BY DEF TypeOK, JobsAreWhole, InputsAreStored
<1> QED BY <1>1, <1>2, <1>3, <1>4, <1>5, <1>6

LEMMA KeyConflictStep ==
  ASSUME IInv, NEW r \in Requests, NEW j \in Jobs, KeyConflict(r, j)
  PROVE  IInv'
BY RollbackStep DEF KeyConflict, InTransaction, Codes

LEMMA CheckInputsStep ==
  ASSUME IInv, NEW r \in Requests, CheckInputs(r)
  PROVE  IInv'
<1>1. CASE \E code \in Codes : Rollback(r, code)
  BY <1>1, RollbackStep DEF CheckInputs, InTransaction
<1>2. CASE ~\E code \in Codes : Rollback(r, code)
  <2>1. /\ Missing(asked[r].work) = {} /\ Wrong(asked[r].work) = {}
        /\ Step(r, "check", "jobs")
        /\ UNCHANGED <<job, database, config, current>>
    BY <1>2 DEF CheckInputs, Codes
  <2> USE ConstantsAssumption, <2>1 DEF IInv, Missing, Wrong, Step, database
  <2>2. TypeOK'
    BY DEF TypeOK, Owned, Early, InTransaction, Building
  <2>3. (Owned /\ Locked)'
    BY DEF TypeOK, Owned, Locked, Early, InTransaction, Building
  <2>4. Imaged'
    BY DEF TypeOK, Owned, Locked, Imaged, Early, InTransaction, Building
  <2>5. (Checked /\ JobsFresh)'
    BY DEF TypeOK, Owned, Locked, Checked, JobsFresh, Early, InTransaction, Building
  <2>6. (UniqueKeys /\ JobsAreWhole)'
    BY DEF TypeOK, UniqueKeys, JobsAreWhole
  <2>7. InputsAreStored'
    BY DEF TypeOK, JobsAreWhole, InputsAreStored
  <2> QED BY <2>2, <2>3, <2>4, <2>5, <2>6, <2>7
<1> QED BY <1>1, <1>2

LEMMA InsertJobStep ==
  ASSUME IInv, NEW r \in Requests, InsertJob(r)
  PROVE  IInv'
<1>1. CASE \E code \in Codes : Rollback(r, code)
  BY <1>1, RollbackStep DEF InsertJob, InTransaction
<1>2. CASE ~\E code \in Codes : Rollback(r, code)
  <2>1. /\ Step(r, "jobs", "inputs")
        /\ image' = [key |-> asked[r].key, hash |-> asked[r].work,
                     toolchain |-> tool[r], n |-> Cardinality(Tasks[asked[r].work]),
                     inputs |-> {}, tasks |-> {}, deps |-> {}, events |-> {}]
        /\ UNCHANGED <<job, jobs, blobs, lock, config, current>>
    BY <1>2 DEF InsertJob, Codes, SubmissionHash
  <2> USE ConstantsAssumption, <2>1 DEF IInv, Step
  <2>2. TypeOK'
    BY TaskCount DEF TypeOK, Owned, JobRow, Entry, Early, InTransaction, Building
  <2>3. (Owned /\ Locked)'
    BY DEF TypeOK, Owned, Locked, Early, InTransaction, Building
  <2>4. Imaged'
    BY TaskCount DEF TypeOK, Owned, Locked, Imaged, JobRow, Early, InTransaction, Building
  <2>5. (Checked /\ JobsFresh)'
    BY DEF TypeOK, Owned, Locked, Checked, JobsFresh, Early, InTransaction, Building
  <2>6. (UniqueKeys /\ JobsAreWhole)'
    BY DEF TypeOK, UniqueKeys, JobsAreWhole
  <2>7. InputsAreStored'
    BY DEF TypeOK, JobsAreWhole, InputsAreStored
  <2> QED BY <2>2, <2>3, <2>4, <2>5, <2>6, <2>7
<1> QED BY <1>1, <1>2

LEMMA InsertInputsStep ==
  ASSUME IInv, NEW r \in Requests, InsertInputs(r)
  PROVE  IInv'
<1>1. CASE \E code \in Codes : Rollback(r, code)
  BY <1>1, RollbackStep DEF InsertInputs, InTransaction
<1>2. CASE ~\E code \in Codes : Rollback(r, code)
  <2>1. /\ Step(r, "inputs", "tasks")
        /\ image' = [image EXCEPT !.inputs = Files[asked[r].work]]
        /\ UNCHANGED <<job, jobs, blobs, lock, config, current>>
    BY <1>2 DEF InsertInputs, Codes
  <2> USE ConstantsAssumption, <2>1 DEF IInv, Step
  <2>2. TypeOK'
    BY WithInputs DEF TypeOK, Owned, Imaged, Early, InTransaction, Building
  <2>3. (Owned /\ Locked)'
    BY DEF TypeOK, Owned, Locked, Early, InTransaction, Building
  <2>4. Imaged'
    BY WithInputs DEF TypeOK, Owned, Locked, Imaged, Early, InTransaction, Building
  <2>5. (Checked /\ JobsFresh)'
    BY DEF TypeOK, Owned, Locked, Checked, JobsFresh, Early, InTransaction, Building
  <2>6. (UniqueKeys /\ JobsAreWhole)'
    BY DEF TypeOK, UniqueKeys, JobsAreWhole
  <2>7. InputsAreStored'
    BY DEF TypeOK, JobsAreWhole, InputsAreStored
  <2> QED BY <2>2, <2>3, <2>4, <2>5, <2>6, <2>7
<1> QED BY <1>1, <1>2

LEMMA InsertTasksStep ==
  ASSUME IInv, NEW r \in Requests, InsertTasks(r)
  PROVE  IInv'
<1> USE ConstantsAssumption DEF IInv, InsertTasks, Insert, Step
<1>1. TypeOK'
  BY WithTasks DEF TypeOK, Owned, Imaged, Early, InTransaction, Building
<1>2. (Owned /\ Locked)'
  BY DEF TypeOK, Owned, Locked, Early, InTransaction, Building
<1>3. Imaged'
  BY WithTasks DEF TypeOK, Owned, Locked, Imaged, Early, InTransaction, Building
<1>4. (Checked /\ JobsFresh)'
  BY DEF TypeOK, Owned, Locked, Checked, JobsFresh, Early, InTransaction, Building
<1>5. (UniqueKeys /\ JobsAreWhole)'
  BY DEF TypeOK, UniqueKeys, JobsAreWhole
<1>6. InputsAreStored'
  BY DEF TypeOK, JobsAreWhole, InputsAreStored
<1> QED BY <1>1, <1>2, <1>3, <1>4, <1>5, <1>6

LEMMA InsertDepsStep ==
  ASSUME IInv, NEW r \in Requests, InsertDeps(r)
  PROVE  IInv'
<1> USE ConstantsAssumption DEF IInv, InsertDeps, Insert, Step
<1>1. TypeOK'
  BY WithDeps DEF TypeOK, Owned, Imaged, Early, InTransaction, Building
<1>2. (Owned /\ Locked)'
  BY DEF TypeOK, Owned, Locked, Early, InTransaction, Building
<1>3. Imaged'
  BY WithDeps DEF TypeOK, Owned, Locked, Imaged, Early, InTransaction, Building
<1>4. (Checked /\ JobsFresh)'
  BY DEF TypeOK, Owned, Locked, Checked, JobsFresh, Early, InTransaction, Building
<1>5. (UniqueKeys /\ JobsAreWhole)'
  BY DEF TypeOK, UniqueKeys, JobsAreWhole
<1>6. InputsAreStored'
  BY DEF TypeOK, JobsAreWhole, InputsAreStored
<1> QED BY <1>1, <1>2, <1>3, <1>4, <1>5, <1>6

LEMMA InsertEventsStep ==
  ASSUME IInv, NEW r \in Requests, InsertEvents(r)
  PROVE  IInv'
<1> USE ConstantsAssumption DEF IInv, InsertEvents, Insert, Step
<1>1. TypeOK'
  BY WithEvents DEF TypeOK, Owned, Imaged, Early, InTransaction, Building
<1>2. (Owned /\ Locked)'
  BY DEF TypeOK, Owned, Locked, Early, InTransaction, Building
<1>3. Imaged'
  BY WithEvents DEF TypeOK, Owned, Locked, Imaged, Early, InTransaction, Building
<1>4. (Checked /\ JobsFresh)'
  BY DEF TypeOK, Owned, Locked, Checked, JobsFresh, Early, InTransaction, Building
<1>5. (UniqueKeys /\ JobsAreWhole)'
  BY DEF TypeOK, UniqueKeys, JobsAreWhole
<1>6. InputsAreStored'
  BY DEF TypeOK, JobsAreWhole, InputsAreStored
<1> QED BY <1>1, <1>2, <1>3, <1>4, <1>5, <1>6

LEMMA CommitStep ==
  ASSUME IInv, NEW r \in Requests, Commit(r)
  PROVE  IInv'
<1> USE ConstantsAssumption DEF IInv, Commit, Step
<1>1. TypeOK'
  BY DEF TypeOK, Owned, Imaged, JobRow, Early, InTransaction, Building
<1>2. (Owned /\ Locked)'
  BY DEF TypeOK, Owned, Locked, Early, InTransaction, Building
<1>3. Imaged'
  BY DEF TypeOK, Owned, Locked, Imaged, Early, InTransaction, Building
<1>4. (Checked /\ JobsFresh)'
  BY DEF TypeOK, Owned, Locked, Checked, JobsFresh, Early, InTransaction, Building
<1>5. (UniqueKeys /\ JobsAreWhole)'
  BY DEF TypeOK, Owned, Imaged, Checked, UniqueKeys, JobsAreWhole, Early, InTransaction, Building
<1>6. InputsAreStored'
  BY DEF TypeOK, Owned, Imaged, Checked, InputsAreStored, Early, InTransaction, Building
<1> QED BY <1>1, <1>2, <1>3, <1>4, <1>5, <1>6

LEMMA StatementFailsStep ==
  ASSUME IInv, NEW r \in Requests, StatementFails(r)
  PROVE  IInv'
BY RollbackStep DEF StatementFails, Codes

LEMMA RespondStep ==
  ASSUME IInv, NEW r \in Requests, Respond(r)
  PROVE  IInv'
<1> USE ConstantsAssumption DEF IInv, End, database
<1>1. PICK code \in {"200", "201"}, j \in {job[r]} : End(r, code, j)
  BY DEF Respond
<1>2. pc[r] \in {"created", "existing"} /\ UNCHANGED <<database, config, current>>
  BY DEF Respond
<1> USE <1>1, <1>2
<1>3. TypeOK'
  BY DEF TypeOK, Owned, Codes, Early, InTransaction, Building
<1>4. (Owned /\ Locked)'
  BY DEF TypeOK, Owned, Locked, Early, InTransaction, Building
<1>5. Imaged'
  BY DEF TypeOK, Owned, Locked, Imaged, Early, InTransaction, Building
<1>6. (Checked /\ JobsFresh)'
  BY DEF TypeOK, Owned, Locked, Checked, JobsFresh, Early, InTransaction, Building
<1>7. (UniqueKeys /\ JobsAreWhole)'
  BY DEF TypeOK, UniqueKeys, JobsAreWhole
<1>8. InputsAreStored'
  BY DEF TypeOK, JobsAreWhole, InputsAreStored
<1> QED BY <1>3, <1>4, <1>5, <1>6, <1>7, <1>8

LEMMA RespondFailsStep ==
  ASSUME IInv, NEW r \in Requests, RespondFails(r)
  PROVE  IInv'
<1> USE ConstantsAssumption DEF IInv, End, database
<1>1. PICK code \in {"lost"}, j \in {Absent} : End(r, code, j)
  BY DEF RespondFails
<1>2. pc[r] \in {"created", "existing"} /\ UNCHANGED <<database, config, current>>
  BY DEF RespondFails
<1> USE <1>1, <1>2
<1>3. TypeOK'
  BY DEF TypeOK, Owned, Codes, Early, InTransaction, Building
<1>4. (Owned /\ Locked)'
  BY DEF TypeOK, Owned, Locked, Early, InTransaction, Building
<1>5. Imaged'
  BY DEF TypeOK, Owned, Locked, Imaged, Early, InTransaction, Building
<1>6. (Checked /\ JobsFresh)'
  BY DEF TypeOK, Owned, Locked, Checked, JobsFresh, Early, InTransaction, Building
<1>7. (UniqueKeys /\ JobsAreWhole)'
  BY DEF TypeOK, UniqueKeys, JobsAreWhole
<1>8. InputsAreStored'
  BY DEF TypeOK, JobsAreWhole, InputsAreStored
<1> QED BY <1>3, <1>4, <1>5, <1>6, <1>7, <1>8

LEMMA RecordBlobStep ==
  ASSUME IInv, NEW d \in Digests, RecordBlob(d)
  PROVE  IInv'
<1> USE ConstantsAssumption DEF IInv, RecordBlob, request
<1>1. TypeOK'
  BY DEF TypeOK, Owned, Early, InTransaction, Building
<1>2. (Owned /\ Locked)'
  BY DEF TypeOK, Owned, Locked, Early, InTransaction, Building
<1>3. Imaged'
  BY DEF TypeOK, Owned, Locked, Imaged, Early, InTransaction, Building
<1>4. (Checked /\ JobsFresh)'
  BY DEF TypeOK, Owned, Locked, Checked, JobsFresh, Early, InTransaction, Building
<1>5. (UniqueKeys /\ JobsAreWhole)'
  BY DEF TypeOK, UniqueKeys, JobsAreWhole
<1>6. InputsAreStored'
  BY DEF TypeOK, InputsAreStored, JobRow, Entry
<1> QED BY <1>1, <1>2, <1>3, <1>4, <1>5, <1>6

LEMMA StartStep ==
  ASSUME IInv, NEW p \in Procs, NEW c \in Configs, Start(p, c)
  PROVE  IInv'
<1> USE ConstantsAssumption DEF IInv, Start, request, database
<1>1. TypeOK'
  BY DEF TypeOK, Owned, Early, InTransaction, Building
<1>2. (Owned /\ Locked)'
  BY DEF TypeOK, Owned, Locked, Early, InTransaction, Building
<1>3. Imaged'
  BY DEF TypeOK, Owned, Locked, Imaged, Early, InTransaction, Building
<1>4. (Checked /\ JobsFresh)'
  BY DEF TypeOK, Owned, Locked, Checked, JobsFresh, Early, InTransaction, Building
<1>5. (UniqueKeys /\ JobsAreWhole)'
  BY DEF TypeOK, UniqueKeys, JobsAreWhole
<1>6. InputsAreStored'
  BY DEF TypeOK, JobsAreWhole, InputsAreStored
<1> QED BY <1>1, <1>2, <1>3, <1>4, <1>5, <1>6

LEMMA StopStep ==
  ASSUME IInv, NEW p \in Procs, Stop(p)
  PROVE  IInv'
<1> USE ConstantsAssumption DEF IInv, Stop, request, database
<1>1. TypeOK'
  BY DEF TypeOK, Owned, Early, InTransaction, Building
<1>2. (Owned /\ Locked)'
  BY DEF TypeOK, Owned, Locked, Early, InTransaction, Building
<1>3. Imaged'
  BY DEF TypeOK, Owned, Locked, Imaged, Early, InTransaction, Building
<1>4. (Checked /\ JobsFresh)'
  BY DEF TypeOK, Owned, Locked, Checked, JobsFresh, Early, InTransaction, Building
<1>5. (UniqueKeys /\ JobsAreWhole)'
  BY DEF TypeOK, UniqueKeys, JobsAreWhole
<1>6. InputsAreStored'
  BY DEF TypeOK, JobsAreWhole, InputsAreStored
<1> QED BY <1>1, <1>2, <1>3, <1>4, <1>5, <1>6

LEMMA CrashStep ==
  ASSUME IInv, NEW p \in Procs, Crash(p)
  PROVE  IInv'
<1> USE ConstantsAssumption DEF IInv
<1>1. /\ \A r \in Requests :
            IF proc[r] = p
            THEN /\ pc'[r] = "idle" /\ proc'[r] = Absent /\ job'[r] = Absent
                 /\ tool'[r] = Absent
            ELSE /\ pc'[r] = pc[r] /\ proc'[r] = proc[r] /\ job'[r] = job[r]
                 /\ tool'[r] = tool[r] /\ answer'[r] = answer[r]
      /\ IF lock = p THEN lock' = Absent /\ image' = Absent ELSE UNCHANGED <<lock, image>>
      /\ current' = [current EXCEPT ![p] = Absent]
      /\ UNCHANGED <<asked, jobs, blobs>>
  BY DEF Crash
<1>2. TypeOK'
  BY DEF TypeOK, Crash, Codes
<1> USE <1>1
<1>3. (Owned /\ Locked)'
  BY DEF TypeOK, Owned, Locked, Early, InTransaction, Building
<1>4. Imaged'
  BY DEF TypeOK, Owned, Locked, Imaged, Early, InTransaction, Building
<1>5. (Checked /\ JobsFresh)'
  BY DEF TypeOK, Owned, Locked, Checked, JobsFresh, Early, InTransaction, Building
<1>6. (UniqueKeys /\ JobsAreWhole)'
  BY DEF TypeOK, UniqueKeys, JobsAreWhole
<1>7. InputsAreStored'
  BY DEF TypeOK, JobsAreWhole, InputsAreStored
<1> QED BY <1>2, <1>3, <1>4, <1>5, <1>6, <1>7

LEMMA StutterStep ==
  ASSUME IInv, UNCHANGED vars
  PROVE  IInv'
<1> USE DEF IInv, vars, request, database
<1>1. TypeOK'
  BY DEF TypeOK, Owned, Early, InTransaction, Building
<1>2. (Owned /\ Locked)'
  BY DEF TypeOK, Owned, Locked, Early, InTransaction, Building
<1>3. Imaged'
  BY DEF TypeOK, Owned, Locked, Imaged, Early, InTransaction, Building
<1>4. (Checked /\ JobsFresh)'
  BY DEF TypeOK, Owned, Locked, Checked, JobsFresh, Early, InTransaction, Building
<1>5. (UniqueKeys /\ JobsAreWhole)'
  BY DEF TypeOK, UniqueKeys, JobsAreWhole
<1>6. InputsAreStored'
  BY DEF TypeOK, JobsAreWhole, InputsAreStored
<1> QED BY <1>1, <1>2, <1>3, <1>4, <1>5, <1>6

LEMMA NextIInv == IInv /\ [Next]_vars => IInv'
<1> SUFFICES ASSUME IInv, [Next]_vars PROVE IInv'
  OBVIOUS
<1>1. ASSUME NEW r \in Requests, Ask(r) PROVE IInv'
  BY <1>1, SubmitStep DEF Ask
<1>2. ASSUME NEW r \in Requests, Handler(r) PROVE IInv'
  BY <1>2, BeginStep, NoReplayStep, CheckInputsStep, ReplayStep, KeyConflictStep,
     InsertJobStep, InsertInputsStep, InsertTasksStep, InsertDepsStep,
     InsertEventsStep, CommitStep, RespondStep DEF Handler
<1>3. ASSUME NEW r \in Requests, HandlerFails(r) PROVE IInv'
  BY <1>3, BeginBusyStep, StatementFailsStep, RespondFailsStep DEF HandlerFails
<1>4. ASSUME NEW d \in Digests, RecordBlob(d) PROVE IInv'
  BY <1>4, RecordBlobStep
<1>5. ASSUME NEW p \in Procs, Stop(p) \/ Crash(p) \/ \E c \in Configs : Start(p, c)
      PROVE  IInv'
  BY <1>5, StopStep, CrashStep, StartStep
<1> QED BY <1>1, <1>2, <1>3, <1>4, <1>5, StutterStep DEF Next
-----------------------------------------------------------------------------
(* Theorems *)

\* The inductive invariant holds throughout.
THEOREM Invariance == Spec => []IInv
BY InitIInv, NextIInv, PTL DEF Spec

\* Every variable keeps its type.
THEOREM TypeCorrect == Spec => []TypeOK
BY Invariance, PTL DEF IInv

\* Whoever reads a job finds all its rows, whatever crashed or failed.
THEOREM JobsAlwaysWhole == Spec => []JobsAreWhole
BY Invariance, PTL DEF IInv

\* The inputs of an accepted job are stored with the sizes it declares.
THEOREM InputsAlwaysStored == Spec => []InputsAreStored
BY Invariance, PTL DEF IInv

\* An Idempotency-Key never names two jobs.
THEOREM OneJobPerKey == Spec => []UniqueKeys
BY Invariance, PTL DEF IInv

\* A repeat of accepted work that gets to the transaction is replayed before the
\* checks of blobs and caps can refuse it (submit): past the look at the key there
\* is no job under it, and at the look there is only that one. A refusal before the
\* transaction, for timing or for want of a toolchain, is outside what is stated.
THEOREM RetriesAlwaysReplay == Spec => RetriesReplay
<1> DEFINE Good(r) == pc[r] \in InTransaction /\ pc'[r] = "idle" /\ Accepted(r)
                      => answer'[r].code \in {"500", "lost"}
<1>1. ASSUME IInv, NEW r \in Requests, NEW s \in Requests, s # r, pc'[r] # pc[r],
             pc[r] \in InTransaction, Ask(s) \/ Handler(s) \/ HandlerFails(s)
      PROVE  FALSE
  <2>1. CASE UNCHANGED pc \/ \E to : pc' = [pc EXCEPT ![s] = to]
    BY <1>1, <2>1 DEF IInv, TypeOK
  <2>2. CASE Ask(s)
    BY <2>1, <2>2 DEF Ask, Submit
  <2>3. CASE Handler(s)
    BY <2>1, <2>3 DEF Handler, Begin, NoReplay, Replay, KeyConflict, CheckInputs, InsertJob,
       InsertInputs, InsertTasks, InsertDeps, InsertEvents, Insert, Commit, Respond,
       Step, End, Rollback
  <2>4. CASE HandlerFails(s)
    BY <2>1, <2>4 DEF HandlerFails, BeginBusy, StatementFails, RespondFails, End, Rollback
  <2> QED BY <1>1, <2>2, <2>3, <2>4
<1>2. ASSUME IInv, NEW r \in Requests, pc[r] \in InTransaction, Accepted(r),
             Ask(r) \/ Handler(r), pc'[r] = "idle"
      PROVE  answer'[r].code = "500"
  <2>1. PICK i \in Jobs : i \in Under(asked[r].key) /\ Same(r, i)
    BY <1>2 DEF Accepted, Under
  <2>2. pc[r] \in InTransaction \ {"replay"} => FALSE
    BY <1>2, <2>1 DEF IInv, Checked, Under
  <2>3. ~\E j \in Jobs : KeyConflict(r, j)
    <3> SUFFICES ASSUME NEW j \in Jobs, KeyConflict(r, j) PROVE FALSE
      OBVIOUS
    <3>1. j \in Under(asked[r].key) /\ ~Same(r, j)
      BY DEF KeyConflict
    <3>2. i = j
      BY <1>2, <2>1, <3>1 DEF Under, IInv, UniqueKeys
    <3> QED BY <2>1, <3>1, <3>2
  <2> QED BY <1>2, <2>2, <2>3 DEF InTransaction, Ask, Submit, Handler, Begin, NoReplay,
      Replay, CheckInputs, InsertJob, InsertInputs, InsertTasks, InsertDeps,
      InsertEvents, Commit, Respond, Step, IInv, TypeOK
<1>3. ASSUME IInv, NEW r \in Requests, HandlerFails(r), pc[r] \in InTransaction
      PROVE  answer'[r].code = "500"
  BY <1>3 DEF HandlerFails, BeginBusy, StatementFails, RespondFails, Rollback, End,
     InTransaction, IInv, TypeOK
<1>4. ASSUME NEW p \in Procs, Crash(p), NEW r \in Requests, pc'[r] # pc[r]
      PROVE  answer'[r].code = "lost"
  BY <1>4 DEF Crash
<1>5. ASSUME IInv, Next, NEW r \in Requests PROVE Good(r)
  <2> SUFFICES ASSUME pc[r] \in InTransaction, pc'[r] = "idle", Accepted(r)
               PROVE  answer'[r].code \in {"500", "lost"}
    OBVIOUS
  <2>1. pc'[r] # pc[r]
    BY DEF InTransaction
  <2>2. CASE \E s \in Requests : Ask(s) \/ Handler(s) \/ HandlerFails(s)
    BY <1>1, <1>2, <1>3, <1>5, <2>1, <2>2
  <2>3. CASE \E p \in Procs : Crash(p)
    BY <1>4, <2>1, <2>3
  <2>4. CASE \/ \E d \in Digests : RecordBlob(d)
             \/ \E p \in Procs : Stop(p) \/ \E c \in Configs : Start(p, c)
    BY <2>1, <2>4 DEF RecordBlob, Stop, Start, request
  <2> QED BY <1>5, <2>2, <2>3, <2>4 DEF Next
<1>6. IInv /\ [Next]_vars =>
        [\A r \in Requests :
          pc[r] \in InTransaction /\ pc'[r] = "idle" /\ Accepted(r)
          => answer'[r].code \in {"500", "lost"}]_vars
  BY <1>5
<1> QED BY <1>6, Invariance, PTL DEF Spec, RetriesReplay

\* The promise of JobBook holds: a job entered stays, a key names one, and a
\* repeat is answered with it or with a conflict that is one.
THEOREM Refinement == Spec => KeepsBook
<1> DEFINE Shelf == [j \in Jobs |-> IF jobs[j] = Absent THEN Absent
                                    ELSE [key |-> jobs[j].key, work |-> jobs[j].hash]]
           Decided == [r \in Requests |->
                   CASE pc[r] = "created" -> [code |-> "201", job |-> job[r]]
                     [] pc[r] = "existing" -> [code |-> "200", job |-> job[r]]
                     [] OTHER -> Nothing]
           Pending == Early \cup {"idle"}
<1>1. Init => Book!Init
  BY DEF Init, Book!Init, Book!Nothing, Nothing
<1>2. ASSUME UNCHANGED jobs PROVE Shelf' = Shelf
  BY <1>2
<1>3. ASSUME NEW r \in Requests, pc[r] \in Pending,
             pc \in [Requests -> Pending \cup {"created", "existing"}],
             NEW to \in Pending, pc' = [pc EXCEPT ![r] = to],
             \A s \in Requests : s # r => job'[s] = job[s]
      PROVE  Decided' = Decided /\ Decided[r] = Nothing
  BY <1>3 DEF Early, InTransaction
<1>4. ASSUME IInv, NEW r \in Requests, pc[r] \in Pending, pc' = [pc EXCEPT ![r] = "idle"],
             NEW code \in {"409 missing", "413", "422", "500"},
             \A s \in Requests : s # r => job'[s] = job[s],
             answer' = [answer EXCEPT ![r] = [code |-> code, job |-> Absent]],
             UNCHANGED <<jobs, asked>>
      PROVE  Book!Next
  <2>1. Decided' = Decided /\ Decided[r] = Nothing
    BY <1>3, <1>4 DEF IInv, TypeOK, Early, InTransaction
  <2>2. Book!Refuse(r)
    BY <1>2, <1>4, <2>1 DEF Book!Refuse, Book!Refusals, Book!Verdict, Book!Nothing, Nothing
  <2> QED BY <2>2 DEF Book!Next
<1>5. ASSUME IInv, NEW r \in Requests, pc[r] \in InTransaction,
             NEW code \in {"409 missing", "413", "422", "500"}, Rollback(r, code)
      PROVE  Book!Next
  BY <1>4, <1>5 DEF Rollback, End, IInv, TypeOK, Early
<1>6. ASSUME UNCHANGED <<asked, answer, jobs>>, Decided' = Decided
      PROVE  UNCHANGED Book!vars
  BY <1>2, <1>6 DEF Book!vars
<1>7. ASSUME IInv, NEW r \in Requests, NEW p \in Procs, NEW k \in Keys \cup {Absent},
             NEW w \in Works, NEW t \in Toolchains \cup {Absent}, Submit(r, p, k, w, t)
      PROVE  Book!Next
  <2>1. CASE Invalid(t, w, p)
    <3>1. /\ pc[r] = "idle" /\ pc' = [pc EXCEPT ![r] = "idle"]
          /\ answer' = [answer EXCEPT ![r] = [code |-> "422", job |-> Absent]]
          /\ UNCHANGED <<jobs, asked, job>>
      BY <1>7, <2>1 DEF Submit, database, IInv, TypeOK
    <3> QED BY <1>4, <1>7, <3>1
  <2>2. CASE ~Invalid(t, w, p)
    <3>1. Decided' = Decided /\ Decided[r] = Nothing
      BY <1>3, <1>7, <2>2 DEF Submit, IInv, TypeOK, Early, InTransaction
    <3>2. Book!Ask(r)
      BY <1>2, <1>7, <2>2, <3>1 DEF Submit, database, Book!Ask, Book!Nothing, Nothing
    <3> QED BY <3>2 DEF Book!Next
  <2> QED BY <2>1, <2>2
<1>8. ASSUME IInv, NEW r \in Requests, NEW from \in Early, NEW to \in Early,
             Step(r, from, to), UNCHANGED <<job, jobs>>
      PROVE  UNCHANGED Book!vars
  <2>1. Decided' = Decided
    BY <1>3, <1>8 DEF Step, IInv, TypeOK, Early, InTransaction
  <2> QED BY <1>6, <1>8, <2>1 DEF Step
<1>9. ASSUME IInv, NEW r \in Requests, NEW j \in Jobs, Replay(r, j) PROVE Book!Next
  <2>1. /\ Decided' = [Decided EXCEPT ![r] = [code |-> "200", job |-> j]]
        /\ Decided[r] = Nothing
    BY <1>9 DEF Replay, Step, IInv, TypeOK
  <2>2. asked[r] \in [key : Keys \cup {Absent}, work : Works] /\ answer[r] = Nothing
    BY <1>9 DEF Replay, IInv, TypeOK, Owned
  <2>3. /\ jobs[j] # Absent /\ asked[r].key # Absent /\ jobs[j].key = asked[r].key
        /\ jobs[j].hash = asked[r].work
    BY <1>9 DEF Replay, Under, Same, SubmissionHash
  <2>4. Shelf[j] = asked[r] /\ asked[r] # Absent
    BY <2>2, <2>3, ConstantsAssumption
  <2>5. UNCHANGED <<asked, answer, jobs>>
    BY <1>9 DEF Replay, Step
  <2>6. Book!Repeat(r, j)
    BY <1>2, <2>1, <2>2, <2>3, <2>4, <2>5
       DEF Book!Repeat, Book!Open, Book!Entered, Book!Nothing, Book!Verdict, Nothing
  <2> QED BY <2>6 DEF Book!Next
<1>10. ASSUME IInv, NEW r \in Requests, NEW j \in Jobs, KeyConflict(r, j) PROVE Book!Next
  <2>1. Decided' = Decided /\ Decided[r] = Nothing
    BY <1>3, <1>10 DEF KeyConflict, Rollback, End, IInv, TypeOK, Early, InTransaction
  <2>2. asked[r] \in [key : Keys \cup {Absent}, work : Works] /\ answer[r] = Nothing
    BY <1>10 DEF KeyConflict, IInv, TypeOK, Owned
  <2>3. /\ jobs[j] # Absent /\ asked[r].key # Absent /\ jobs[j].key = asked[r].key
        /\ jobs[j].hash # asked[r].work
    BY <1>10 DEF KeyConflict, Under, Same, SubmissionHash
  <2>4. Shelf[j] = [key |-> jobs[j].key, work |-> jobs[j].hash] /\ asked[r] # Absent
    BY <2>2, <2>3, ConstantsAssumption
  <2>7. Shelf[j] \in [key : Keys \cup {Absent}, work : Works]
    BY <1>10, <2>3, <2>4 DEF IInv, TypeOK, JobRow
  <2>8. Shelf[j] # asked[r] /\ Shelf[j] # Absent /\ Shelf[j].key = asked[r].key
    BY <2>3, <2>4, <2>7, ConstantsAssumption
  <2>5. answer' = [answer EXCEPT ![r] = [code |-> "409 conflict", job |-> Absent]]
        /\ UNCHANGED <<asked, jobs>>
    BY <1>10 DEF KeyConflict, Rollback, End
  <2>6. Book!Conflict(r, j)
    BY <1>2, <2>1, <2>2, <2>3, <2>4, <2>5, <2>8
       DEF Book!Conflict, Book!Open, Book!Entered, Book!Nothing, Book!Verdict, Nothing
  <2> QED BY <2>6 DEF Book!Next
<1>11. ASSUME IInv, NEW r \in Requests, CheckInputs(r) \/ InsertJob(r) \/ InsertInputs(r)
                                        \/ StatementFails(r)
      PROVE  Book!Next \/ UNCHANGED Book!vars
  <2>1. pc[r] \in InTransaction
    BY <1>11 DEF CheckInputs, InsertJob, InsertInputs, StatementFails, InTransaction
  <2>2. CASE \E code \in {"409 missing", "413", "422", "500"} : Rollback(r, code)
    BY <1>5, <1>11, <2>1, <2>2
  <2>3. CASE ~\E code \in {"409 missing", "413", "422", "500"} : Rollback(r, code)
    <3>1. /\ \E from, to \in Early : Step(r, from, to)
          /\ UNCHANGED <<job, jobs>>
      BY <1>11, <2>3 DEF CheckInputs, InsertJob, InsertInputs, StatementFails, database,
         Early, InTransaction
    <3> QED BY <1>8, <1>11, <3>1
  <2> QED BY <2>2, <2>3
<1>12. ASSUME IInv, NEW r \in Requests, Begin(r) \/ NoReplay(r) \/ InsertTasks(r)
                                        \/ InsertDeps(r) \/ InsertEvents(r)
      PROVE  UNCHANGED Book!vars
  <2>1. /\ \E from, to \in Early : Step(r, from, to)
        /\ UNCHANGED <<job, jobs>>
    BY <1>12 DEF Begin, NoReplay, InsertTasks, InsertDeps, InsertEvents, Insert, database,
       Early, InTransaction
  <2> QED BY <1>8, <1>12, <2>1
<1>13. ASSUME IInv, NEW r \in Requests, Commit(r) PROVE Book!Next
  <2>1. job[r] \in Jobs /\ answer[r] = Nothing /\ asked[r] # Absent
        /\ asked[r] \in [key : Keys \cup {Absent}, work : Works]
    BY <1>13 DEF Commit, Step, IInv, TypeOK, Owned
  <2>2. PICK j \in Jobs : j = job[r]
    BY <2>1
  <2>3. /\ Decided' = [Decided EXCEPT ![r] = [code |-> "201", job |-> j]]
        /\ Decided[r] = Nothing
    BY <1>13, <2>2 DEF Commit, Step, IInv, TypeOK
  <2>4. /\ image # Absent /\ image.key = asked[r].key /\ image.hash = asked[r].work
        /\ jobs[j] = Absent
        /\ \A i \in Jobs : jobs[i] # Absent /\ asked[r].key # Absent
                           => jobs[i].key # asked[r].key
    BY <1>13, <2>2, ConstantsAssumption
       DEF Commit, Step, IInv, Imaged, Checked, JobsFresh, Early, InTransaction, Building
  <2>5. jobs' = [jobs EXCEPT ![j] = image] /\ UNCHANGED <<asked, answer>>
    BY <1>13, <2>2 DEF Commit, Step
  <2>6. Shelf' = [Shelf EXCEPT ![j] = asked[r]] /\ Shelf[j] = Absent
    <3>1. \A i \in Jobs : jobs'[i] = IF i = j THEN image ELSE jobs[i]
      BY <1>13, <2>5 DEF IInv, TypeOK
    <3>2. asked[r] = [key |-> image.key, work |-> image.hash]
      BY <2>1, <2>4
    <3> QED BY <2>4, <3>1, <3>2
  <2>7. \A i \in Jobs : Shelf[i] # Absent /\ asked[r].key # Absent
                        => Shelf[i].key # asked[r].key
    BY <2>4
  <2>8. Book!Enter(r, j)
    BY <2>1, <2>3, <2>5, <2>6, <2>7
       DEF Book!Enter, Book!Open, Book!Entered, Book!Nothing, Book!Verdict, Nothing
  <2> QED BY <2>8 DEF Book!Next
<1>14. ASSUME IInv, NEW r \in Requests, Respond(r) PROVE Book!Next
  <2>1. /\ pc[r] \in {"created", "existing"}
        /\ answer' = [answer EXCEPT ![r] = Decided[r]]
        /\ pc' = [pc EXCEPT ![r] = "idle"] /\ job' = [job EXCEPT ![r] = Absent]
        /\ UNCHANGED <<asked, jobs>>
    BY <1>14 DEF Respond, End, database
  <2>2. Decided' = [Decided EXCEPT ![r] = Nothing]
    BY <1>14, <2>1 DEF IInv, TypeOK
  <2>4. Decided[r] # Nothing
    BY <2>1 DEF Nothing
  <2>3. Book!Tell(r)
    BY <1>2, <2>1, <2>2, <2>4 DEF Book!Tell, Book!Nothing, Nothing
  <2> QED BY <2>3 DEF Book!Next
<1>15. ASSUME IInv, NEW r \in Requests, RespondFails(r) PROVE Book!Next
  <2>1. /\ answer' = [answer EXCEPT ![r] = [code |-> "lost", job |-> Absent]]
        /\ pc' = [pc EXCEPT ![r] = "idle"] /\ job' = [job EXCEPT ![r] = Absent]
        /\ UNCHANGED <<asked, jobs>>
    BY <1>15 DEF RespondFails, End, database
  <2>2. Decided' = [s \in Requests |-> IF s \in {r} THEN Nothing ELSE Decided[s]]
    BY <1>15, <2>1 DEF IInv, TypeOK
  <2>3. answer' = [s \in Requests |-> IF s \in {r} THEN [code |-> "lost", job |-> Absent]
                                      ELSE answer[s]]
    BY <1>15, <2>1 DEF IInv, TypeOK
  <2>4. Book!Lose({r})
    BY <1>2, <2>1, <2>2, <2>3 DEF Book!Lose, Book!Nothing, Book!Verdict, Nothing
  <2> QED BY <2>4 DEF Book!Next
<1>16. ASSUME NEW p \in Procs, Crash(p) PROVE Book!Next
  <2>1. PICK R \in SUBSET Requests : R = {r \in Requests : proc[r] = p}
    OBVIOUS
  <2>2. /\ pc' = [r \in Requests |-> IF r \in R THEN "idle" ELSE pc[r]]
        /\ job' = [r \in Requests |-> IF r \in R THEN Absent ELSE job[r]]
        /\ answer' = [r \in Requests |-> IF r \in R THEN [code |-> "lost", job |-> Absent]
                                         ELSE answer[r]]
        /\ UNCHANGED <<asked, jobs>>
    BY <1>16, <2>1 DEF Crash
  <2>3. Decided' = [r \in Requests |-> IF r \in R THEN Nothing ELSE Decided[r]]
    BY <2>2
  <2>4. Book!Lose(R)
    BY <1>2, <2>2, <2>3 DEF Book!Lose, Book!Nothing, Book!Verdict, Nothing
  <2> QED BY <2>4 DEF Book!Next
<1>17. ASSUME UNCHANGED <<request, jobs>> PROVE UNCHANGED Book!vars
  BY <1>6, <1>17 DEF request
<1>18. ASSUME NEW p \in Procs, Stop(p) \/ \E c \in Configs : Start(p, c)
       PROVE  UNCHANGED Book!vars
  BY <1>17, <1>18 DEF Stop, Start, database
<1>19. ASSUME NEW d \in Digests, RecordBlob(d) PROVE UNCHANGED Book!vars
  BY <1>17, <1>19 DEF RecordBlob
<1>20. ASSUME IInv, NEW r \in Requests, BeginBusy(r) PROVE Book!Next
  BY <1>4, <1>20 DEF BeginBusy, End, database, Early, IInv, TypeOK
<1>21. ASSUME IInv, NEW r \in Requests, Handler(r) \/ HandlerFails(r)
       PROVE  Book!Next \/ UNCHANGED Book!vars
  BY <1>9, <1>10, <1>11, <1>12, <1>13, <1>14, <1>15, <1>20, <1>21 DEF Handler, HandlerFails
<1>22. IInv /\ [Next]_vars => [Book!Next]_(Book!vars)
  BY <1>7, <1>16, <1>17, <1>18, <1>19, <1>21 DEF Next, Ask, vars, database
<1> QED BY <1>1, <1>22, Invariance, PTL DEF Spec, KeepsBook, Book!Spec

-----------------------------------------------------------------------------
(* Reading *)

Done == {"created", "existing"}

\* A handler past its transaction has a job that is there, and so has a client
\* that was answered with one.
Known == \A r \in Requests :
    /\ pc[r] \in Done => jobs[job[r]] # Absent
    /\ answer[r].job # Absent => jobs[answer[r].job] # Absent

\* Only work that expands to tasks has come to a job.
Planned == \A j \in Jobs : jobs[j] # Absent => Tasks[jobs[j].hash] # Absent

\* Jobs have the times clocks give, and so far there are finitely many.
Dated == created \in [Jobs -> Nat] /\ IsFiniteSet(Committed)

State == [pc : {"idle", "tasks", "deps"}, job : Jobs \cup {Absent},
          task : TaskNames \cup {Absent}, limit : Limits \cup {Absent},
          code : {"none", "list", "200", "404", "tasks", "deps"},
          listed : SUBSET Jobs, tasks : SUBSET TaskNames, deps : SUBSET TaskNames]

\* WholeAnswers for one reader s and the rows js.
Whole(s, js) ==
    LET w == js[s.job].hash
        room == IF s.limit = Absent THEN LimitDefault ELSE s.limit
    IN  /\ s.code = "tasks" =>
               /\ s.tasks \subseteq Tasks[w]
               /\ (Cardinality(Tasks[w]) <= room /\ room <= LimitCap)
                      => s.tasks = Tasks[w]
        /\ s.code = "deps" =>
               /\ s.deps = {d \in TaskNames : <<s.task, d>> \in Deps[w]}
               /\ s.deps \subseteq Tasks[w]

\* Between its SELECTs, and after them, a reader's job is there.
Held(s, js) ==
    /\ s.pc \in {"tasks", "deps"} \/ s.code \in {"tasks", "deps"}
           => s.job \in Jobs /\ js[s.job] # Absent
    /\ s.pc # "idle" => s.code = "none"
    /\ s.code = "list" => \A j \in s.listed : js[j] # Absent
    /\ Whole(s, js)

RInv == /\ IInv /\ Known /\ Planned /\ Dated
        /\ told \subseteq Committed
        /\ reader \in [Readers -> State]
        /\ \A c \in Readers : Held(reader[c], jobs)
-----------------------------------------------------------------------------
(* What a step of the submissions does to the committed rows. *)

\* Only a commit changes the jobs, and of them only the handler's own.
LEMMA JobsChange ==
  ASSUME IInv, [Next]_vars
  PROVE  jobs' = jobs \/ \E r \in Requests : Commit(r)
<1>1. CASE UNCHANGED vars
  BY <1>1 DEF vars, database
<1>2. CASE \E r \in Requests : Ask(r)
  BY <1>2 DEF Ask, Submit, database
<1>3. CASE \E r \in Requests : Handler(r)
  BY <1>3 DEF Handler, Begin, NoReplay, CheckInputs, Replay, KeyConflict, InsertJob,
     InsertInputs, InsertTasks, InsertDeps, InsertEvents, Insert, Respond, Rollback,
     database
<1>4. CASE \E r \in Requests : HandlerFails(r)
  BY <1>4 DEF HandlerFails, BeginBusy, StatementFails, RespondFails, Rollback, database
<1>5. CASE \/ \E d \in Digests : RecordBlob(d)
           \/ \E p \in Procs : Stop(p) \/ Crash(p) \/ \E c \in Configs : Start(p, c)
  BY <1>5 DEF RecordBlob, Stop, Crash, Start, database
<1> QED BY <1>1, <1>2, <1>3, <1>4, <1>5 DEF Next

\* A job that is there stays, row for row.
LEMMA JobsStay ==
  ASSUME IInv, [Next]_vars, NEW j \in Jobs, jobs[j] # Absent
  PROVE  jobs'[j] = jobs[j]
<1>1. ASSUME NEW r \in Requests, Commit(r) PROVE jobs'[j] = jobs[j]
  <2>1. pc[r] = "commit" /\ jobs' = [jobs EXCEPT ![job[r]] = image]
    BY <1>1 DEF Commit, Step
  <2>2. jobs[job[r]] = Absent
    BY <2>1 DEF IInv, JobsFresh, Early, InTransaction
  <2>3. jobs \in [Jobs -> JobRow \cup {Absent}]
    BY DEF IInv, TypeOK
  <2> QED BY <2>1, <2>2, <2>3
<1> QED BY <1>1, JobsChange

\* A step after which nobody new is past a transaction, or has been answered.
Quiet == \A s \in Requests :
    /\ pc'[s] \in Done => pc'[s] = pc[s] /\ job'[s] = job[s]
    /\ answer'[s].job # Absent => answer'[s] = answer[s]

LEMMA QuietStep ==
  ASSUME IInv, Known, [Next]_vars, Quiet PROVE Known'
<1> SUFFICES ASSUME NEW s \in Requests
             PROVE  /\ pc'[s] \in Done => jobs'[job'[s]] # Absent
                    /\ answer'[s].job # Absent => jobs'[answer'[s].job] # Absent
  BY DEF Known
<1>1. /\ pc[s] \in Done => job[s] \in Jobs
      /\ answer[s].job \in Jobs \cup {Absent}
  BY DEF IInv, TypeOK, Owned, Done
<1>2. pc'[s] \in Done => jobs'[job'[s]] # Absent
  BY <1>1, JobsStay DEF Quiet, Known
<1>3. answer'[s].job # Absent => jobs'[answer'[s].job] # Absent
  BY <1>1, JobsStay DEF Quiet, Known
<1> QED BY <1>2, <1>3

\* An end of a request with no job.
LEMMA EndIsQuiet ==
  ASSUME IInv, NEW r \in Requests, NEW code \in Codes, End(r, code, Absent)
  PROVE  Quiet
BY DEF IInv, TypeOK, End, Quiet, Done

LEMMA StepIsQuiet ==
  ASSUME IInv, NEW r \in Requests, NEW from, NEW to, to \notin Done,
         Step(r, from, to), UNCHANGED job
  PROVE  Quiet
BY DEF IInv, TypeOK, Step, Quiet, Done

LEMMA RollbackIsQuiet ==
  ASSUME IInv, NEW r \in Requests, NEW code \in Codes, Rollback(r, code)
  PROVE  Quiet
BY EndIsQuiet DEF Rollback

LEMMA KnownStep ==
  ASSUME IInv, Known, [Next]_vars PROVE Known'
<1>1. ASSUME NEW r \in Requests, Ask(r) PROVE Quiet
  BY <1>1 DEF Ask, Submit, IInv, TypeOK, Quiet, Done, Nothing
<1>2. ASSUME NEW r \in Requests, Begin(r) \/ NoReplay(r) PROVE Quiet
  <2>1. CASE Begin(r)
    BY <2>1, StepIsQuiet DEF Begin, Done
  <2>2. CASE NoReplay(r)
    BY <2>2, StepIsQuiet DEF NoReplay, Done
  <2> QED BY <1>2, <2>1, <2>2
<1>3. ASSUME NEW r \in Requests, CheckInputs(r) PROVE Quiet
  <2>1. \/ \E code \in Codes : Rollback(r, code)
        \/ Step(r, "check", "jobs") /\ UNCHANGED job
    BY <1>3 DEF CheckInputs, Codes
  <2> QED BY <2>1, RollbackIsQuiet, StepIsQuiet DEF Done
<1>4. ASSUME NEW r \in Requests,
             \/ InsertJob(r) \/ InsertInputs(r) \/ InsertTasks(r)
             \/ InsertDeps(r) \/ InsertEvents(r)
      PROVE  Quiet
  <2>1. \/ \E code \in Codes : Rollback(r, code)
        \/ \E from \in InTransaction, to \in InTransaction :
              Step(r, from, to) /\ UNCHANGED job
    BY <1>4 DEF InsertJob, InsertInputs, InsertTasks, InsertDeps, InsertEvents, Insert,
       Codes, InTransaction
  <2> QED BY <2>1, RollbackIsQuiet, StepIsQuiet DEF Done, InTransaction
<1>5. ASSUME NEW r \in Requests, NEW j \in Jobs, KeyConflict(r, j) PROVE Quiet
  BY <1>5, RollbackIsQuiet DEF KeyConflict, Codes
<1>6. ASSUME NEW r \in Requests, HandlerFails(r) PROVE Quiet
  <2>1. \E code \in Codes : End(r, code, Absent)
    BY <1>6 DEF HandlerFails, BeginBusy, StatementFails, RespondFails, Rollback, Codes
  <2> QED BY <2>1, EndIsQuiet
<1>7. ASSUME \/ UNCHANGED vars \/ \E d \in Digests : RecordBlob(d)
             \/ \E p \in Procs : Stop(p) \/ \E c \in Configs : Start(p, c)
      PROVE  Quiet
  BY <1>7 DEF vars, request, RecordBlob, Stop, Start, Quiet
<1>8. ASSUME NEW p \in Procs, Crash(p) PROVE Quiet
  BY <1>8 DEF Crash, IInv, TypeOK, Quiet, Done
<1>9. ASSUME NEW r \in Requests, NEW j \in Jobs, Replay(r, j) PROVE Known'
  <2>1. /\ jobs' = jobs /\ jobs[j] # Absent /\ answer' = answer
        /\ job' = [job EXCEPT ![r] = j] /\ pc' = [pc EXCEPT ![r] = "existing"]
    BY <1>9 DEF Replay, Step, Under
  <2> QED BY <2>1 DEF Known, IInv, TypeOK, Done
<1>10. ASSUME NEW r \in Requests, Commit(r) PROVE Known'
  <2>1. /\ pc[r] = "commit" /\ pc' = [pc EXCEPT ![r] = "created"]
        /\ jobs' = [jobs EXCEPT ![job[r]] = image]
        /\ UNCHANGED <<job, answer>>
    BY <1>10 DEF Commit, Step
  <2>2. job[r] \in Jobs /\ image # Absent
    BY <2>1, ConstantsAssumption DEF IInv, Owned, Imaged, Building
  <2>3. /\ jobs \in [Jobs -> JobRow \cup {Absent}]
        /\ pc \in [Requests -> InTransaction \cup {"idle", "begin", "created", "existing"}]
    BY DEF IInv, TypeOK
  <2>4. jobs'[job[r]] # Absent
    BY <2>1, <2>2, <2>3
  <2>5. ASSUME NEW s \in Requests, s # r
        PROVE  /\ pc'[s] \in Done => jobs'[job'[s]] # Absent
    <3>1. pc'[s] \in Done => job[s] \in Jobs /\ jobs[job[s]] # Absent
      BY <2>1, <2>3, <2>5 DEF IInv, Owned, Known, Done
    <3> QED BY <2>1, <2>3, <2>4, <3>1
  <2>6. ASSUME NEW s \in Requests, answer'[s].job # Absent
        PROVE  jobs'[answer'[s].job] # Absent
    <3>1. answer[s].job \in Jobs /\ jobs[answer[s].job] # Absent
      BY <2>1, <2>6 DEF IInv, TypeOK, Known
    <3> QED BY <2>1, <2>3, <2>4, <3>1
  <2> QED BY <2>1, <2>4, <2>5, <2>6 DEF Known
<1>11. ASSUME NEW r \in Requests, Respond(r) PROVE Known'
  <2>1. pc[r] \in Done /\ \E code \in Codes : End(r, code, job[r])
    BY <1>11 DEF Respond, Done, Codes
  <2>2. /\ jobs' = jobs /\ pc' = [pc EXCEPT ![r] = "idle"]
        /\ job' = [job EXCEPT ![r] = Absent]
    BY <1>11 DEF Respond, End, database
  <2>3. answer'[r].job = job[r] /\ \A s \in Requests : s # r => answer'[s] = answer[s]
    BY <2>1 DEF End, IInv, TypeOK
  <2> QED BY <2>1, <2>2, <2>3 DEF Known, IInv, TypeOK, Done
<1> QED BY QuietStep, <1>1, <1>2, <1>3, <1>4, <1>5, <1>6, <1>7, <1>8, <1>9, <1>10, <1>11
    DEF Next, Handler
LEMMA PlannedStep ==
  ASSUME IInv, Planned, [Next]_vars PROVE Planned'
<1>1. CASE jobs' = jobs
  BY <1>1 DEF Planned
<1>2. ASSUME NEW r \in Requests, Commit(r) PROVE Planned'
  <2>1. pc[r] = "commit" /\ jobs' = [jobs EXCEPT ![job[r]] = image]
    BY <1>2 DEF Commit, Step
  <2>2. Tasks[image.hash] # Absent
    BY <2>1 DEF IInv, Owned, Imaged, Building
  <2>3. jobs \in [Jobs -> JobRow \cup {Absent}]
    BY DEF IInv, TypeOK
  <2> QED BY <2>1, <2>2, <2>3 DEF Planned
<1> QED BY <1>1, <1>2, JobsChange
LEMMA FiniteStep ==
  ASSUME IInv, IsFiniteSet(Committed), [Next]_vars PROVE IsFiniteSet(Committed')
<1>1. CASE jobs' = jobs
  BY <1>1 DEF Committed
<1>2. ASSUME NEW r \in Requests, Commit(r) PROVE IsFiniteSet(Committed')
  <2>1. jobs' = [jobs EXCEPT ![job[r]] = image] /\ jobs \in [Jobs -> JobRow \cup {Absent}]
    BY <1>2 DEF Commit, IInv, TypeOK
  <2>2. Committed' \in SUBSET (Committed \cup {job[r]})
    BY <2>1 DEF Committed
  <2>3. IsFiniteSet(Committed \cup {job[r]})
    BY FS_AddElement
  <2> QED BY <2>2, <2>3, FS_Subset
<1> QED BY <1>1, <1>2, JobsChange
-----------------------------------------------------------------------------
(* RInv is inductive. *)

LEMMA FreshIsHeld == Fresh \in State /\ Held(Fresh, jobs)
BY DEF Fresh, State, Held, Whole

LEMMA InitRInv == ReadInit => RInv
<1> SUFFICES ASSUME ReadInit PROVE RInv
  OBVIOUS
<1>1. IInv
  BY InitIInv DEF ReadInit
<1>2. Known
  BY DEF ReadInit, Init, Known, Done, Nothing
<1>3. Planned
  BY DEF ReadInit, Init, Planned
<1>4. reader \in [Readers -> State] /\ \A c \in Readers : Held(reader[c], jobs)
  BY FreshIsHeld DEF ReadInit
<1>5. Dated
  <2>1. Committed = {}
    BY DEF ReadInit, Init, Committed
  <2> QED BY <2>1, FS_EmptySet DEF ReadInit, Dated
<1> QED BY <1>1, <1>2, <1>3, <1>4, <1>5 DEF ReadInit, RInv

\* What a reader holds of a job stays true when others commit.
LEMMA HeldStays ==
  ASSUME IInv, [Next]_vars, NEW s \in State, Held(s, jobs)
  PROVE  Held(s, jobs')
<1>0. s.code = "list" => \A j \in s.listed : jobs'[j] # Absent
  BY JobsStay DEF Held, State
<1>1. CASE s.pc \in {"tasks", "deps"} \/ s.code \in {"tasks", "deps"}
  <2>1. jobs'[s.job] = jobs[s.job]
    BY <1>1, JobsStay DEF Held
  <2> QED BY <1>0, <2>1 DEF Held, Whole
<1>2. CASE ~(s.pc \in {"tasks", "deps"} \/ s.code \in {"tasks", "deps"})
  BY <1>0, <1>2 DEF Held, Whole
<1> QED BY <1>1, <1>2

LEMMA WriteStep == ASSUME RInv, Write PROVE RInv'
<1>1. IInv' /\ Known' /\ Planned'
  BY NextIInv, KnownStep, PlannedStep DEF RInv, Write
<1>2. \A j \in Committed : j \in Committed'
  <2> SUFFICES ASSUME NEW j \in Committed PROVE jobs'[j] = jobs[j]
    BY DEF Committed
  <2> QED BY JobsStay DEF Committed, RInv, Write
<1>3. \A r \in Requests : answer'[r].job # Absent => answer'[r].job \in Committed'
  BY <1>1 DEF IInv, TypeOK, Known, Committed
<1>4. told' \subseteq Committed'
  BY <1>2, <1>3 DEF RInv, Write
<1>5. reader' = reader /\ \A c \in Readers : Held(reader[c], jobs')
  BY HeldStays DEF RInv, Write
<1>6. Dated'
  <2>1. created' \in [Jobs -> Nat]
    <3>1. PICK now \in Times : created' = [j \in Jobs |-> IF Drawn(j) THEN now ELSE created[j]]
      BY DEF Write
    <3>2. now \in Nat /\ created \in [Jobs -> Nat]
      BY ReadingAssumption DEF RInv, Dated
    <3> QED BY <3>1, <3>2
  <2> QED BY <2>1, FiniteStep DEF RInv, Dated, Write
<1> QED BY <1>1, <1>4, <1>5, <1>6 DEF RInv

\* A reader goes on to a state in which what it holds is so.
LEMMA ReadsStep ==
  ASSUME RInv, NEW c \in Readers, NEW from, NEW new \in State, Held(new, jobs),
         Reads(c, from, new)
  PROVE  RInv'
<1>1. /\ UNCHANGED <<vars, told, created>>
      /\ reader' = [reader EXCEPT ![c] = new]
  BY DEF Reads
<1>2. IInv'
  BY <1>1, NextIInv DEF RInv
<1>3. Known' /\ Planned' /\ Dated' /\ (told \subseteq Committed)' /\ jobs' = jobs
  BY <1>1 DEF RInv, Known, Planned, Dated, Committed, vars, request, database
<1>4. reader' \in [Readers -> State] /\ \A d \in Readers : Held(reader'[d], jobs)
  BY <1>1 DEF RInv
<1> QED BY <1>2, <1>3, <1>4 DEF RInv

\* A job's rows are those of its work.
LEMMA RowsOf ==
  ASSUME IInv, Planned, NEW j \in Committed
  PROVE  LET w == jobs[j].hash IN
         /\ w \in Works
         /\ jobs[j].tasks = Tasks[w] /\ jobs[j].deps = Deps[w]
         /\ Tasks[w] \subseteq TaskNames /\ IsFiniteSet(Tasks[w])
         /\ Deps[w] \subseteq Tasks[w] \X Tasks[w]
<1>1. j \in Jobs /\ jobs[j] \in JobRow
  BY DEF Committed, IInv, TypeOK
<1>2. jobs[j].hash \in Works
  BY <1>1 DEF JobRow
<1>3. Tasks[jobs[j].hash] # Absent
  BY <1>1 DEF Planned, Committed
<1>4. jobs[j].tasks = Tasks[jobs[j].hash] /\ jobs[j].deps = Deps[jobs[j].hash]
  BY <1>1 DEF IInv, JobsAreWhole, Committed
<1> QED BY <1>2, <1>3, <1>4, ConstantsAssumption

\* As many of a set's members as it has are all of them.
LEMMA WholeSubset ==
  ASSUME NEW S, IsFiniteSet(S), NEW T \in SUBSET S, Cardinality(T) = Cardinality(S)
  PROVE  T = S
BY FS_Subset

LEMMA LimitIsNat ==
  ASSUME NEW l \in Limits \cup {Absent}
  PROVE  LET room == IF l = Absent THEN LimitDefault ELSE l IN
         /\ room \in Nat /\ Limit(l) \in Nat
         /\ room <= LimitCap => Limit(l) = room
BY ReadingAssumption DEF Limit

LEMMA ListTasksStep ==
  ASSUME RInv, NEW c \in Readers, ListTasks(c) PROVE RInv'
<1> DEFINE s == reader[c]
           j == s.job
           w == jobs[j].hash
<1>1. s \in State /\ Held(s, jobs) /\ s.pc = "tasks" /\ j \in Committed
  BY DEF RInv, ListTasks, Reads, Held, Committed
<1>2. PICK some \in SUBSET jobs[j].tasks :
          /\ Cardinality(some) = IF Cardinality(jobs[j].tasks) < Limit(s.limit)
                                 THEN Cardinality(jobs[j].tasks) ELSE Limit(s.limit)
          /\ Reads(c, "tasks", [s EXCEPT !.pc = "idle", !.code = "tasks", !.tasks = some])
  BY <1>1 DEF ListTasks
<1>3. /\ w \in Works /\ jobs[j].tasks = Tasks[w] /\ Tasks[w] \subseteq TaskNames
      /\ IsFiniteSet(Tasks[w]) /\ Cardinality(Tasks[w]) \in Nat
  BY <1>1, RowsOf, FS_CardinalityType DEF RInv
<1> DEFINE new == [s EXCEPT !.pc = "idle", !.code = "tasks", !.tasks = some]
<1>4. /\ new \in State /\ new.pc = "idle" /\ new.code = "tasks" /\ new.tasks = some
      /\ new.job = j /\ new.limit = s.limit
  BY <1>1, <1>2, <1>3 DEF State
<1> DEFINE room == IF s.limit = Absent THEN LimitDefault ELSE s.limit
<1>5. ASSUME Cardinality(Tasks[w]) <= room, room <= LimitCap PROVE some = Tasks[w]
  <2>1. /\ room \in Nat /\ Limit(s.limit) = room
    BY <1>1, <1>5, LimitIsNat DEF State
  <2>2. Cardinality(some) = Cardinality(Tasks[w])
    BY <1>2, <1>3, <1>5, <2>1
  <2> QED BY <1>2, <1>3, <2>2, WholeSubset
<1>6. Whole(new, jobs)
  BY <1>2, <1>3, <1>4, <1>5 DEF Whole
<1>7. Held(new, jobs)
  BY <1>1, <1>4, <1>6 DEF Held, Committed
<1> QED BY <1>2, <1>4, <1>7, ReadsStep

LEMMA ListDepsStep ==
  ASSUME RInv, NEW c \in Readers, ListDeps(c) PROVE RInv'
<1> DEFINE s == reader[c]
           j == s.job
           w == jobs[j].hash
           found == {d \in TaskNames : j \in Committed /\ <<s.task, d>> \in jobs[j].deps}
           new == [s EXCEPT !.pc = "idle", !.code = "deps", !.deps = found]
<1>1. s \in State /\ Held(s, jobs) /\ s.pc = "deps" /\ j \in Committed
  BY DEF RInv, ListDeps, Reads, Held, Committed
<1>2. Reads(c, "deps", new)
  BY DEF ListDeps
<1>3. jobs[j].deps = Deps[w] /\ Deps[w] \subseteq Tasks[w] \X Tasks[w]
  BY <1>1, RowsOf DEF RInv
<1>4. /\ new \in State /\ new.pc = "idle" /\ new.code = "deps" /\ new.deps = found
      /\ new.job = j /\ new.task = s.task
  BY <1>1 DEF State
<1>5. found = {d \in TaskNames : <<s.task, d>> \in Deps[w]} /\ found \subseteq Tasks[w]
  BY <1>1, <1>3
<1>6. Whole(new, jobs)
  BY <1>4, <1>5 DEF Whole
<1>7. Held(new, jobs)
  BY <1>1, <1>4, <1>6 DEF Held, Committed
<1> QED BY <1>2, <1>4, <1>7, ReadsStep

LEMMA ReadStep == ASSUME RInv, NEW c \in Readers, Read(c) PROVE RInv'
<1>1. ASSUME NEW l \in Limits \cup {Absent}, ListJobs(c, l) PROVE RInv'
  <2> DEFINE new == [Fresh EXCEPT !.limit = l, !.listed = Newest(Limit(l)), !.code = "list"]
  <2>1. new \in State /\ Held(new, jobs)
    BY DEF Fresh, State, Held, Whole, Newest, Committed
  <2> QED BY <1>1, <2>1, ReadsStep DEF ListJobs
<1>2. ASSUME NEW l \in Limits \cup {Absent}, NEW j \in Jobs, AskTasks(c, j, l) PROVE RInv'
  <2>1. CASE j \in Committed
    <3> DEFINE new == [Fresh EXCEPT !.pc = "tasks", !.job = j, !.limit = l]
    <3>1. new \in State /\ Held(new, jobs)
      BY <2>1 DEF Fresh, State, Held, Whole, Committed
    <3> QED BY <1>2, <2>1, <3>1, ReadsStep DEF AskTasks
  <2>2. CASE j \notin Committed
    <3> DEFINE new == [Fresh EXCEPT !.job = j, !.code = "404"]
    <3>1. new \in State /\ Held(new, jobs)
      BY DEF Fresh, State, Held, Whole
    <3> QED BY <1>2, <2>2, <3>1, ReadsStep DEF AskTasks
  <2> QED BY <2>1, <2>2
<1>3. ASSUME NEW j \in Jobs, GetJob(c, j) PROVE RInv'
  <2> DEFINE new == [Fresh EXCEPT !.job = j, !.code = Found(j)]
  <2>1. new \in State /\ Held(new, jobs)
    BY DEF Fresh, State, Held, Whole, Found
  <2> QED BY <1>3, <2>1, ReadsStep DEF GetJob
<1>4. ASSUME NEW j \in Jobs, NEW t \in TaskNames, AskTask(c, j, t) PROVE RInv'
  <2>1. CASE j \in Committed /\ t \in jobs[j].tasks
    <3> DEFINE new == [Fresh EXCEPT !.pc = "deps", !.job = j, !.task = t]
    <3>1. new \in State /\ Held(new, jobs)
      BY <2>1 DEF Fresh, State, Held, Whole, Committed
    <3> QED BY <1>4, <2>1, <3>1, ReadsStep DEF AskTask
  <2>2. CASE ~(j \in Committed /\ t \in jobs[j].tasks)
    <3> DEFINE new == [Fresh EXCEPT !.job = j, !.task = t, !.code = "404"]
    <3>1. new \in State /\ Held(new, jobs)
      BY DEF Fresh, State, Held, Whole
    <3> QED BY <1>4, <2>2, <3>1, ReadsStep DEF AskTask
  <2> QED BY <2>1, <2>2
<1>5. ASSUME ReadFails(c) PROVE RInv'
  BY <1>5, FreshIsHeld, ReadsStep DEF ReadFails
<1> QED BY <1>1, <1>2, <1>3, <1>4, <1>5, ListTasksStep, ListDepsStep DEF Read

LEMMA StillStep == ASSUME RInv, UNCHANGED readVars PROVE RInv'
<1>1. UNCHANGED <<vars, created, told, reader>>
  BY DEF readVars
<1>2. IInv'
  BY <1>1, NextIInv DEF RInv
<1> QED BY <1>1, <1>2 DEF RInv, Known, Planned, Dated, Committed, vars, request, database

LEMMA NextRInv == RInv /\ [ReadNext]_readVars => RInv'
BY WriteStep, ReadStep, StillStep DEF ReadNext

\* Whatever is submitted meanwhile, the rows, the jobs clients know and what
\* readers hold are sound (the read routes of control/routes/jobs.py).
THEOREM ReadsInvariance == ReadSpec => []RInv
BY InitRInv, NextRInv, PTL DEF ReadSpec
-----------------------------------------------------------------------------
(* Properties. *)

\* Readers take nothing away from the submissions: those of Reading are those
\* of Submission (read-only connections).
THEOREM ReadsAreHarmless == ReadSpec => Spec
<1>1. ReadInit => Init
  BY DEF ReadInit
<1>2. [ReadNext]_readVars => [Next]_vars
  BY DEF ReadNext, Write, Read, ListJobs, GetJob, AskTasks, ListTasks, AskTask, ListDeps,
     ReadFails, Reads, readVars
<1> QED BY <1>1, <1>2, PTL DEF ReadSpec, Spec

\* An answer made of two SELECTs is that of the work submitted (list_tasks,
\* get_task), whatever is committed in between.
THEOREM AnswersAlwaysWhole == ReadSpec => []WholeAnswers
<1>1. RInv => WholeAnswers
  BY DEF RInv, Held, Whole, WholeAnswers
<1> QED BY <1>1, ReadsInvariance, PTL

\* A 404 never speaks of a job, or of a task of it, that a client was told of
\* (get_job, list_tasks, get_task).
THEOREM OwnWritesAlwaysRead == ReadSpec => ReadsOwnWrites
<1> DEFINE Right(c) ==
       LET j == reader'[c].job  t == reader'[c].task IN
       /\ reader'[c] # reader[c] /\ reader'[c].code = "404"
       /\ j \in told
       => /\ jobs[j] # Absent
          /\ t \notin Tasks[jobs[j].hash] \cup {Absent}
<1>1. ASSUME RInv, NEW c \in Readers, NEW d \in Readers, Read(d) PROVE Right(c)
  <2> SUFFICES ASSUME reader'[c] # reader[c], reader'[c].code = "404",
                      reader'[c].job \in told
               PROVE  LET j == reader'[c].job  t == reader'[c].task IN
                      /\ jobs[j] # Absent
                      /\ t \notin Tasks[jobs[j].hash] \cup {Absent}
    OBVIOUS
  <2>1. reader \in [Readers -> State] /\ told \subseteq Committed
    BY <1>1 DEF RInv
  <2>2. ASSUME NEW from, NEW new \in State, Reads(d, from, new)
        PROVE  c = d /\ new.code = "404" /\ new.job \in Committed /\ reader'[c] = new
    BY <2>1, <2>2 DEF Reads
  <2>3. ASSUME NEW from, NEW new \in State, Reads(d, from, new), new.code # "404"
        PROVE  FALSE
    BY <2>2, <2>3
  <2>4. PICK j \in Jobs, t \in TaskNames : AskTask(d, j, t)
    <3>1. ASSUME NEW l \in Limits \cup {Absent}, ListJobs(d, l) PROVE FALSE
      <4> DEFINE new == [Fresh EXCEPT !.limit = l, !.listed = Newest(Limit(l)),
                                      !.code = "list"]
      <4>1. new \in State /\ new.code # "404"
        BY DEF Fresh, State, Newest, Committed
      <4> QED BY <2>3, <3>1, <4>1 DEF ListJobs
    <3>2. ASSUME NEW l \in Limits \cup {Absent}, NEW j \in Jobs, AskTasks(d, j, l)
          PROVE  FALSE
      <4>1. CASE j \in Committed
        <5> DEFINE new == [Fresh EXCEPT !.pc = "tasks", !.job = j, !.limit = l]
        <5>1. new \in State /\ new.code # "404"
          BY DEF Fresh, State
        <5> QED BY <2>3, <3>2, <4>1, <5>1 DEF AskTasks
      <4>2. CASE j \notin Committed
        <5> DEFINE new == [Fresh EXCEPT !.job = j, !.code = "404"]
        <5>1. new \in State /\ new.job = j
          BY DEF Fresh, State
        <5> QED BY <2>2, <3>2, <4>2, <5>1 DEF AskTasks
      <4> QED BY <4>1, <4>2
    <3>3. ASSUME NEW j \in Jobs, GetJob(d, j) PROVE FALSE
      <4> DEFINE new == [Fresh EXCEPT !.job = j, !.code = Found(j)]
      <4>1. new \in State /\ new.job = j /\ new.code = Found(j)
        BY DEF Fresh, State, Found
      <4>2. new.code = "404" /\ new.job \in Committed
        BY <2>2, <3>3, <4>1 DEF GetJob
      <4> QED BY <4>1, <4>2 DEF Found
    <3>4. ASSUME ListTasks(d) \/ ListDeps(d) \/ ReadFails(d) PROVE FALSE
      <4>1. PICK new : /\ \E from : Reads(d, from, new)
                       /\ new.code # "404"
        <5>1. reader[d] \in State
          BY <2>1
        <5>2. CASE ListTasks(d)
          <6>1. PICK some : Reads(d, "tasks", [reader[d] EXCEPT !.pc = "idle",
                                                  !.code = "tasks", !.tasks = some])
            BY <5>2 DEF ListTasks
          <6>2. [reader[d] EXCEPT !.pc = "idle", !.code = "tasks", !.tasks = some].code
                = "tasks"
            BY <5>1 DEF State
          <6> QED BY <6>1, <6>2
        <5>3. CASE ListDeps(d)
          <6>1. PICK some : Reads(d, "deps", [reader[d] EXCEPT !.pc = "idle",
                                                 !.code = "deps", !.deps = some])
            BY <5>3 DEF ListDeps
          <6>2. [reader[d] EXCEPT !.pc = "idle", !.code = "deps", !.deps = some].code
                = "deps"
            BY <5>1 DEF State
          <6> QED BY <6>1, <6>2
        <5>4. CASE ReadFails(d)
          BY <5>4 DEF ReadFails, Fresh
        <5> QED BY <3>4, <5>2, <5>3, <5>4
      <4>2. reader'[c] = new
        BY <2>1, <4>1 DEF Reads
      <4> QED BY <4>1, <4>2
    <3> QED BY <1>1, <3>1, <3>2, <3>3, <3>4 DEF Read
  <2>5. CASE j \in Committed /\ t \in jobs[j].tasks
    <3> DEFINE new == [Fresh EXCEPT !.pc = "deps", !.job = j, !.task = t]
    <3>1. new \in State /\ new.code # "404"
      BY DEF Fresh, State
    <3> QED BY <2>3, <2>4, <2>5, <3>1 DEF AskTask
  <2>6. CASE ~(j \in Committed /\ t \in jobs[j].tasks)
    <3> DEFINE new == [Fresh EXCEPT !.job = j, !.task = t, !.code = "404"]
    <3>1. new \in State /\ new.job = j /\ new.task = t
      BY DEF Fresh, State
    <3>2. reader'[c] = new /\ j \in Committed
      BY <2>2, <2>4, <2>6, <3>1 DEF AskTask
    <3>3. jobs[j].tasks = Tasks[jobs[j].hash] /\ jobs[j] # Absent
      BY <1>1, <3>2, RowsOf DEF RInv, Committed
    <3> QED BY <2>6, <3>1, <3>2, <3>3, ReadingAssumption
  <2> QED BY <2>5, <2>6
<1>2. ASSUME Write \/ UNCHANGED readVars, NEW c \in Readers PROVE Right(c)
  BY <1>2 DEF Write, readVars
<1>3. RInv /\ [ReadNext]_readVars => [\A c \in Readers : Right(c)]_readVars
  BY <1>1, <1>2 DEF ReadNext
<1> QED BY <1>3, ReadsInvariance, PTL DEF ReadSpec, ReadsOwnWrites
-----------------------------------------------------------------------------
(* The list. A job's rank is the number of those before it: a bijection of *)
(* the jobs with the numbers below theirs, so the newest n of more are n.  *)

Ahead(j) == {i \in Committed : Before(i, j)}

LEMMA BeforeIsTotal ==
  ASSUME Dated
  PROVE  /\ \A i \in Committed : ~Before(i, i)
         /\ \A i, j \in Committed : i # j => Before(i, j) \/ Before(j, i)
         /\ \A i, j, k \in Committed : Before(i, j) /\ Before(j, k) => Before(i, k)
<1>1. \A j \in Committed : j \in Nat /\ created[j] \in Nat
  BY ReadingAssumption DEF Dated, Committed
<1> QED BY <1>1 DEF Before

LEMMA RankIsBelow ==
  ASSUME Dated, NEW j \in Committed
  PROVE  Cardinality(Ahead(j)) \in 0..(Cardinality(Committed) - 1)
<1>1. Ahead(j) \in SUBSET (Committed \ {j})
  BY BeforeIsTotal DEF Ahead
<1>2. /\ IsFiniteSet(Committed \ {j})
      /\ Cardinality(Committed \ {j}) = Cardinality(Committed) - 1
  BY FS_RemoveElement DEF Dated
<1>3. IsFiniteSet(Ahead(j)) /\ Cardinality(Ahead(j)) <= Cardinality(Committed) - 1
  BY <1>1, <1>2, FS_Subset
<1> QED BY <1>3, FS_CardinalityType DEF Dated

LEMMA RankGrows ==
  ASSUME Dated, NEW i \in Committed, NEW j \in Committed, Before(i, j)
  PROVE  Cardinality(Ahead(i)) < Cardinality(Ahead(j))
<1>1. Ahead(i) \in SUBSET Ahead(j) /\ i \in Ahead(j) /\ i \notin Ahead(i)
  BY BeforeIsTotal DEF Ahead
<1>2. Ahead(j) \in SUBSET Committed
  BY DEF Ahead
<1>3. IsFiniteSet(Ahead(j))
  BY <1>2, FS_Subset DEF Dated
<1>4. IsFiniteSet(Ahead(i)) /\ Cardinality(Ahead(i)) <= Cardinality(Ahead(j))
  BY <1>1, <1>3, FS_Subset
<1>5. Cardinality(Ahead(i)) # Cardinality(Ahead(j))
  BY <1>1, <1>3, FS_Subset
<1> QED BY <1>3, <1>4, <1>5, FS_CardinalityType

LEMMA UpTo ==
  ASSUME NEW m \in Nat
  PROVE  IsFiniteSet(0..(m - 1)) /\ Cardinality(0..(m - 1)) = m
<1>1. 0 \in Int /\ m - 1 \in Int
  OBVIOUS
<1>2. Cardinality(0..(m - 1)) = IF 0 > m - 1 THEN 0 ELSE m - 1 - 0 + 1
  BY <1>1, FS_Interval
<1> QED BY <1>1, <1>2, FS_Interval

LEMMA NewestAreAsMany ==
  ASSUME Dated, NEW n \in Nat, n <= Cardinality(Committed)
  PROVE  IsFiniteSet(Newest(n)) /\ Cardinality(Newest(n)) = n
<1> DEFINE N == Cardinality(Committed)
           rank == [j \in Committed |-> Cardinality(Ahead(j))]
           low == [j \in Newest(n) |-> rank[j]]
<1>1. N \in Nat
  BY FS_CardinalityType DEF Dated
<1>2. rank \in Injection(Committed, 0..(N - 1))
  <2>1. rank \in [Committed -> 0..(N - 1)]
    BY RankIsBelow
  <2>2. ASSUME NEW i \in Committed, NEW j \in Committed, i # j PROVE rank[i] # rank[j]
    <3>1. Before(i, j) \/ Before(j, i)
      BY <2>2, BeforeIsTotal
    <3>2. rank[i] \in Nat /\ rank[j] \in Nat
      BY <2>1
    <3> QED BY <3>1, <3>2, RankGrows
  <2> QED BY <2>1, <2>2 DEF Injection, IsInjective
<1>3. IsFiniteSet(0..(N - 1)) /\ Cardinality(0..(N - 1)) = N
  BY <1>1, UpTo
<1>4. rank \in Surjection(Committed, 0..(N - 1))
  BY <1>2, <1>3, FS_Injection
<1>5. \A j \in Committed : j \in Newest(n) <=> rank[j] < n
  BY DEF Newest, Ahead
<1>6. low \in Bijection(Newest(n), 0..(n - 1))
  <2>1. low \in [Newest(n) -> 0..(n - 1)]
    BY <1>2, <1>5 DEF Injection, Newest
  <2>2. ASSUME NEW i \in Newest(n), NEW j \in Newest(n), low[i] = low[j] PROVE i = j
    <3>1. i \in Committed /\ j \in Committed /\ rank[i] = rank[j]
      BY <2>2 DEF Newest
    <3> QED BY <1>2, <3>1 DEF Injection, IsInjective
  <2>3. ASSUME NEW m \in 0..(n - 1) PROVE \E j \in Newest(n) : low[j] = m
    <3>1. m \in 0..(N - 1) /\ m < n
      BY <1>1
    <3>2. PICK j \in Committed : rank[j] = m
      BY <1>4, <3>1 DEF Surjection
    <3> QED BY <1>5, <3>1, <3>2
  <2> QED BY <2>1, <2>2, <2>3 DEF Bijection, Injection, Surjection, IsInjective
<1>7. IsFiniteSet(0..(n - 1)) /\ Cardinality(0..(n - 1)) = n
  BY UpTo
<1>8. ExistsBijection(0..(n - 1), Newest(n))
  BY <1>6, Fun_ExistsBijSymmetric DEF ExistsBijection
<1> QED BY <1>7, <1>8, FS_Bijection

\* What is left out of the list is behind all that is in it, which fills it.
LEMMA LeftOut ==
  ASSUME Dated, NEW n \in Nat, NEW j \in Committed, j \notin Newest(n)
  PROVE  /\ Cardinality(Newest(n)) = n
         /\ \A i \in Newest(n) : created[i] >= created[j]
<1>1. Cardinality(Ahead(j)) >= n /\ Cardinality(Committed) \in Nat
  BY RankIsBelow, FS_CardinalityType DEF Newest, Ahead, Dated
<1>2. n <= Cardinality(Committed)
  BY <1>1, RankIsBelow
<1>3. ASSUME NEW i \in Newest(n) PROVE created[i] >= created[j]
  <2>1. i \in Committed /\ Cardinality(Ahead(i)) < n /\ Cardinality(Ahead(i)) \in Nat
    BY RankIsBelow DEF Newest, Ahead
  <2>2. ~Before(j, i)
    BY <1>1, <2>1, RankGrows, RankIsBelow
  <2>3. Before(i, j)
    BY <2>1, <2>2, BeforeIsTotal
  <2>4. created[i] \in Nat /\ created[j] \in Nat
    BY <2>1 DEF Dated, Committed
  <2> QED BY <2>3, <2>4 DEF Before
<1> QED BY <1>2, <1>3, NewestAreAsMany

\* A job drops out of a list only when the list is full of jobs no older
\* (list_jobs), however clocks differ.
THEOREM PollsNeverLose == ReadSpec => PollsLoseNothing
<1> DEFINE Kept(c) ==
       LET was == reader[c]  is == reader'[c] IN
       /\ was.code = "list" /\ is.code = "list" /\ was.limit = is.limit
       /\ was.listed \ is.listed # {}
       => /\ Cardinality(is.listed) = Limit(is.limit)
          /\ \A j \in was.listed \ is.listed, i \in is.listed : created[i] >= created[j]
<1>1. ASSUME RInv, NEW c \in Readers, NEW d \in Readers, Read(d) PROVE Kept(c)
  <2> SUFFICES ASSUME reader[c].code = "list", reader'[c].code = "list",
                      reader[c].listed \ reader'[c].listed # {}
               PROVE  /\ Cardinality(reader'[c].listed) = Limit(reader'[c].limit)
                      /\ \A j \in reader[c].listed \ reader'[c].listed,
                            i \in reader'[c].listed : created[i] >= created[j]
    OBVIOUS
  <2>1. reader \in [Readers -> State] /\ reader[c].listed \subseteq Committed
    BY <1>1 DEF RInv, Held, Committed, State
  <2>2. c = d
    BY <1>1, <2>1 DEF Read, ListJobs, GetJob, AskTasks, ListTasks, AskTask, ListDeps,
       ReadFails, Reads
  <2>3. reader[c].pc = "idle"
    BY <1>1 DEF RInv, Held
  <2>4. PICK l \in Limits \cup {Absent} : ListJobs(c, l)
    <3>1. ASSUME NEW l \in Limits \cup {Absent}, NEW j \in Jobs, AskTasks(c, j, l)
          PROVE  FALSE
      BY <2>1, <3>1 DEF AskTasks, Reads, Fresh
    <3>2. ASSUME NEW j \in Jobs, GetJob(c, j) PROVE FALSE
      BY <2>1, <3>2 DEF GetJob, Reads, Fresh, Found
    <3>3. ASSUME NEW j \in Jobs, NEW t \in TaskNames, AskTask(c, j, t) PROVE FALSE
      BY <2>1, <3>3 DEF AskTask, Reads, Fresh
    <3>4. ASSUME ListTasks(c) \/ ListDeps(c) \/ ReadFails(c) PROVE FALSE
      BY <2>3, <3>4 DEF ListTasks, ListDeps, ReadFails, Reads
    <3> QED BY <1>1, <2>2, <3>1, <3>2, <3>3, <3>4 DEF Read
  <2>5. reader'[c].listed = Newest(Limit(l)) /\ reader'[c].limit = l
    BY <2>1, <2>4 DEF ListJobs, Reads, Fresh
  <2>6. Limit(l) \in Nat
    BY LimitIsNat
  <2> QED BY <1>1, <2>1, <2>5, <2>6, LeftOut DEF RInv
<1>2. ASSUME Write \/ UNCHANGED readVars, NEW c \in Readers PROVE Kept(c)
  BY <1>2 DEF Write, readVars
<1>3. RInv /\ [ReadNext]_readVars => [\A c \in Readers : Kept(c)]_readVars
  BY <1>1, <1>2 DEF ReadNext
<1> QED BY <1>3, ReadsInvariance, PTL DEF ReadSpec, PollsLoseNothing
=============================================================================
