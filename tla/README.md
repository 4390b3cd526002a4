# Formal model of the rtlfarm control plane

rtlfarm runs hardware-design flows as jobs of many tasks. At this commit the
repository holds the control plane's intake: content-addressed uploads, job
submission and expansion into a task graph, the database with its migrations,
and the process that brings them up. Scheduling, claiming and workers are not
in the source yet, only in its schema and in the offline invariant checker.

This directory keeps TLA+ models of that code, TLC configurations that check
them on small instances, and TLAPS proofs for all instances. Source paths below
are relative to `src/rtlfarm/` in the repository.

## Inventory

| Component | State it keeps | Operations | Hard behaviour | What makes it correct |
|---|---|---|---|---|
| Blob store (`control/blobstore.py`) and blob routes (`control/routes/blobs.py`) | files in `tmp/` and `sha256/`, the `blobs` table | ingest, dedupe, rename, record row, download, sweep at startup | concurrent uploads of one digest, crash between rename and row, sweep against live uploads, retries | only whole files under a digest, every row has its file, one 201 per digest, nothing left in `tmp/`, retries heal |
| Submission (`control/routes/jobs.py`) | jobs, job_inputs, tasks, task_deps, task_events | submit with an Idempotency-Key | lost answers and retries, crash in the transaction, two submissions of one key, uploads in between | at most one job per key, a job is complete or absent, its inputs are stored with their sizes, caps hold |
| Writer (`db/connection.py`) | the writer connection, its asyncio lock, SQLite's write lock | `write()`: lock, BEGIN IMMEDIATE, body, COMMIT or ROLLBACK | a second process holding the lock, a failing COMMIT, cancellation | atomic, isolated, the lock is always released |
| Migrations (`db/migrate.py`, `db/migrations/`) | the schema, `schema_migrations`, planner statistics | load, apply each in a transaction, ANALYZE | two processes migrating at once, crash between steps, a script that ends its transaction | each version once and in order, recorded exactly when applied |
| Startup (`control/startup.py`, `cli/control.py`, `cli/admin.py`) | process state, readiness | configure, validate, migrate, sweep, serve, close | failure at each step, shutdown, two processes | nothing is served before it is migrated and swept, guards before disk |
| Expansion (`expand/dag.py`) | none (pure) | select targets, instances per seed, dependencies, hash | fan-out, targets with their own stages, empty selections | every task runs after what it consumes, ids unique, acyclic, no empty job |
| Pipeline checks (`expand/pipeline.py`, `models.py`) | none | parse, semantic issues, cycle search | deep graphs, self loops, duplicate names | rejects exactly the ill-formed pipelines |
| Packing (`expand/pack.py`) | none (reads a directory) | globs, locations, target issues, digests | overlapping globs, a directory edited meanwhile | ordinals are dense and follow the declaration; what is packed is accepted but for three things `pack` does not look at |
| Invariant checker (`control/invariants.py`) | none (reads the database) | checks of invariants 1, 2, 3, 8 and 9 | rows that are inconsistent in ways no handler writes | reports exactly the violations |
| Configuration (`config.py`) | none | defaults, file, dotenv, environment; timing rules | precedence, coercion, files edited while they are read | later layers win, nothing is ignored, timing constants ordered |
| HTTP shell (`control/app.py`, `control/routes/infra.py`) | readiness flags | tokens per audience, loopback guard, envelopes, probes | one token of two, empty tokens, exposed bind address, a neighbour of a newer release | a route answers only its audience, `/readyz` says ok for no release that was overtaken, and 503 with a reason |
| Reading (`control/routes/jobs.py`, GET) | none (a read-only connection per request) | list and get jobs and tasks | two SELECTs, two snapshots; clocks that step back | answers are whole, and never older than what the client was told |
| Identifiers and clock (`ids.py`, `clock.py`) | none | ULID, task and attempt ids | clock going backwards, ambiguous separators | ids are unique and parse back |
| Tools (`tools/manifest.py`, `cli/*`, `log.py`, `hooks.py`) | files on disk | pin the toolchain, command line, logs, crash points | a pin written while others read or edit the file | a pin takes effect |

How they interact: `control run` loads the configuration, migrates, sweeps
`tmp/` and serves (Startup calls Migrations, Blob store). A client uploads its
inputs (blob routes: file first, row second), then submits a manifest
(Submission calls Packing, Pipeline checks and Expansion, and reads the `blobs`
rows inside its write transaction). All writes of a process go through one
writer connection; reads open their own. Nothing in the code keeps a second
process off the data directory.

## Modules

Most components have an abstract specification of what they promise, a detailed
one that follows the code, an `MC` module with the small sets TLC runs it on,
and a module of proofs.

| Component | Promise | Detailed model | Instances for TLC | Proofs |
|---|---|---|---|---|
| Blob store and blob routes | `BlobPromise` | `BlobUpload` | `MCBlobUpload` | `BlobUploadProofs` |
| Submission and its transaction | `JobBook` | `Submission` | `MCSubmission` | `SubmissionProofs` |
| Migrations | `MigrationLog` | `Migrate` | `MCMigrate` | `MigrateProofs` |
| Pipeline checks and expansion | `JobGraph` | `Expansion` | `MCExpansion` | `ExpansionProofs` |
| Packing and the route's look at a manifest | `PackOrder` | `Packing` | `MCPacking` | `PackingProofs` |
| Startup, shutdown, who is let in | `BringUp` | `ControlPlane` | `MCControlPlane` | `ControlPlaneProofs` |
| Reading jobs and tasks | in its properties | `Reading`, on `Submission` | `MCReading` | `SubmissionProofs` |
| Configuration and the pin | in its properties | `Configuration` | `MCConfiguration` | `ConfigurationProofs` |
| Offline invariant checker | `Audit` | `InvariantCheck` | `MCInvariantCheck` | `InvariantCheckProofs` |

An operator commented `Mutant:` is the definition after it with one plausible
error (a dropped guard, a swapped order). It is used by no specification; put in
place of the right one, it makes TLC report the property it is listed with in
`PROJECT.json`, which shows that the property depends on that code.

### BlobUpload

A request is a slot a client uses again and again: `pc` is where its handler
is, `got` the bytes hashed so far, `held` its name in `tmp/`. `tmp`, `final` and
`rows` are the two directories and the `blobs` table; `mode`, `current` and
`sweep` are per process. `befell` and `died` are history: what went wrong in a
request (a failure, or its file taken by a sweep of its own or of another
process), and whose files belong to the dead.

| Actions | Code |
|---|---|
| `Reject`, `Begin` | the checks before a byte is read; opening the temporary file (`routes/blobs.py`, `BlobStore.ingest`) |
| `Stream`: chunks, the end of the body, a client gone | the `async for` of `ingest`, with the cap after every chunk |
| `FindFinal`, `DropTmp`, `Rename` | `final.is_file()`, `tmp.unlink()`, `os.replace`, each a step because another process may act in between |
| `WriteRow`, `Respond` | the transaction of the route and its answer, 201 or 200 |
| `Abort`, `RenameFails`, `WriteRowFails`, `RespondFails` | disk full, a locked database, a client that is not there any more |
| `Start`, `SweepVisit`, `SweepStat`, `SweepUnlink`, `Serve`, `StartupFails` | `prepare()` and `sweep_tmp`, file by file |
| `Stop`, `Crash`, `Age` | the end of a process, orderly or not; time passing for a file |

An asyncio handler that has left its last `await` runs alone in its process
(`current`), so interleavings inside one process happen where the code awaits
and nowhere else. A body is a sequence of chunk values and its digest an
injective function of it. A file is `old` or not: more than `upload_timeout_s`
since its last write.

### Submission

`asked` is what a client sent (key and work), `image` the rows its transaction
has written, `jobs` what is committed, `lock` SQLite's write lock. Each
statement of `submit` and `_write_job` is an action, in the order of the code:
`Submit` (validation), `Begin`, `Replay`, `NoReplay` or `KeyConflict`,
`CheckInputs`, `InsertJob`, `InsertInputs`, `InsertTasks`, `InsertDeps`,
`InsertEvents`, `Commit`, `Respond`. Any of them may
fail (rollback, 500), the process may die at any of them (the transaction is
gone), and an answer may be lost after the commit. Processes are restarted with
other configurations, so caps, toolchain pins and timing change under a retry; a
repeat of accepted work may then be refused in `Submit`, before the look at the
key. Uploads happen in between. What a work expands to is a constant here: `Expansion` is
about that.

### Migrate

Each process runs `apply_migrations` of its release: it reads the recorded
versions *before* any lock (`Read`), then per pending version `BEGIN IMMEDIATE`,
the script statement by statement (`Change`, `Transact`), the look at
`in_transaction` (`EndScript`), `Record`, `Commit`; at last `ANALYZE` if anything
was applied. `db.effects` counts how often each change took effect, so that a
script run twice shows. A script is made of statements that cannot be repeated
(`create`), that can (`change`), and of the two that end and open transactions,
which the module's docstring forbids and nothing but `in_transaction` stands
against.

### Expansion

`stack` holds the calls of the nested function `visit` in `_has_cycle`, so the
search is the code's own: `Visit` is one turn of its loop over `depends_on`,
`Return` the end of one call, and the outermost call stands for
`any(visit(name) for name in stages)`. `Select` is `select_targets` with the
look at what is left; `ExpandStage` takes the next stage of `_stage_order` and
makes its tasks from `by_stage`, in whatever order the file declares the
stages. `JobGraph` states the same graph in closed form, with no order of
computation. The rules of `_semantic_issues` that relate entries are written
out (`WellFormed`); those on one entry (reserved plusargs, empty globs) are the
field `flawed`.

### InvariantCheck

`db` is the committed state and `view` the snapshot of the checker's
transaction: `BEGIN` takes none (`BeginCheck`), the first `SELECT` does
(`FirstQuery`). `pc` names the query that is next (`LaterQueries`, `ReadDeps`);
then `_has_cycle` runs for each job that has dependencies: `StartGraph`, one
`Remove` per turn of its loop, `EndGraph`. `Return` is the `COMMIT` with the list
of violations, `QueryFails` an exception with the same `COMMIT`. Any other
connection may commit at any time (`Write`). The rows a database may have are
those the schema admits (`Legal`), because the checker is there for what
handlers ought not to write, and the scheduler it waits for is not written yet.
`Audit` looks once, at one committed state, and states the contradictions
without counting: a cycle is a set of tasks each of which waits for another.

### Packing

`at`, `ordinal`, `matched` and `issues` are the variables of `pack`; `todo` is what
the loop at `pc` has still to come to. One turn of a loop is an action:
`ExpandGlob` (a pattern of one role: what it finds, sorted, takes ordinals
unless it is taken), `NextRole` and `LastRole`, `CheckLocation` (a file is one and
no symlink leads to it), `Judge` (target files, then all issues at once), `Hash`
(in any order, as nothing depends on it), `Finish`. `Edit` changes the directory
between any two of them; `since` remembers the directory `pack` began with until
somebody edits it, because only of that directory can a promise be exact. `Submit`
is `_manifest_from` with the request's own rules, for the manifest that was packed
and for `Handmade` ones; `Timed` is what is left of `validate_timing` there, as the
control plane's own constants were judged when it started. A path is a node of the tree with the directories it is
in, a pattern the set of paths it matches.

### ControlPlane

`st` has a record for each process of `control run` or `admin migrate`: `pc` is
the step of `run_control`, `open_database`, `prepare`, `serve` or `run_migrate` it
is at. `dir`, `at`, `wal` and `tmp` are the data directory, the versions its
database records, SQLite's WAL file and the store's `tmp/`.

| Actions | Code |
|---|---|
| `Launch`, `Guards` | the command line; `load_from_args`, and for `control run` `validate_timing` and `assert_bind_allowed` |
| `MakeDir`, `Open`, `Migrate`, `Migrated` | `open_database`; a migration that another process has applied meanwhile fails |
| `LayOut`, `SweepLook`, `SweepTake`, `Prepared` | `BlobStore`, `sweep_tmp` (listing, `is_file`, `stat` and `unlink` are apart, as neighbours write and remove files), `create_app` |
| `Serve`, `Stop`, `Drained`, `Close` | `serve` with its SIGTERM handler, the server's draining, the signal it raises again, the `finally` of `run_control` |
| `StartFails`, `Report`, `Kill` | `StartupError` at each step, the end of `run_migrate`, SIGKILL |
| `Upload`, `Write`, `Release`, `Age` | an upload's file in `tmp/`: opened, written to again, which renews its mtime, and gone; and time |
| `Readyz`, `Probe`, `ProbeFails`, `Unprobe`, `Answer` | `/readyz`: the SELECT of the versions, the probe written and removed, the answer, with whatever other processes do in between |

`Check` and `Admits` are the tokens, decided per request. A process keeps the
WAL from vanishing while it has the database open; the last one to close it takes
the WAL along, which is SQLite's part. A file of a killed upload stays in `tmp/`
until a sweep finds it old. `BringUp` says the same of a start without its steps:
the directory and the database are touched by a process that may run only, the
database rises version by version, and whoever is up has seen what was stale when
it was launched go, or be written to again by a stalled upload of a neighbour,
which the sweep then leaves alone. `asks` and `ready` are a request for `/readyz` on
its way; `late`, `lost` and `due` are history, from which `ReadyzIsExplained` and
`BringUp` are stated.

### Reading

Extends `Submission`: a reader asks any process that is up, and each of its
SELECTs sees what is committed when it runs. `ListJobs` and `GetJob` are one
SELECT; `AskTasks` and `ListTasks`, `AskTask` and `ListDeps` are the two SELECTs of
one route. `created` is the clock's reading when a handler draws a job's id, any
of `Times`, so that clocks step back and differ; ids have the order `new_ulid`
gives them. `told` remembers what a client has been answered.

### Configuration

`toml` and `dotenv` are the two files, `load` is a command on its way: `Begin` looks
for the files, `ReadEnv` reads the dotenv file, `Merge` the configuration file and
the environment, `Check` is `validate_timing`. Lines of the dotenv file and
variables of the environment are sequences, because a name may come twice and two
names may mean one key (`RTLFARM_` names are lowered): `TextOf` and `PlaceOf` are
what a Python dict makes of them. `Coerce` and `ParseText` decide by the field's
kind whether a value fits. `PinRead`, `PinEmpty`, `PinWrite` and `PinDies` are `pin_env`,
which opens the file for writing, and so empties it, before it writes. Operators
edit either file at any time.

## Runs

| Run | What it checks | Bounds |
|---|---|---|
| `blob_main` | type, `NoDebris`, `DownloadsAreExact`, `AnswersAreDurable`, `AnswersAreExplained`, refinement of `BlobPromise` | 2 processes, 2 requests, 2 names, a blob that is a prefix of another, a kind whose cap holds both and one whose cap does not |
| `blob_live` | `RetriesHeal`, `DebrisIsSwept`, `SweepsOnlyTheDead` with one process | 1 process, 2 requests, 1 blob |
| `submission_main` | type, `JobsAreWhole`, `InputsAreStored`, `RetriesReplay`, refinement of `JobBook` | 2 processes, 2 requests, 2 jobs, 1 key, 4 works, 3 configurations that differ in caps, pin and timing |
| `submission_live` | `LockIsFreed`, `RetriesLand` exactly at the caps | 2 processes, 1 work, 1 configuration |
| `submission_toolchain` | **violated**: `AnswersMatchToolchain` | 1 process, 2 toolchains |
| `migrate_races` | type, refinement of `MigrationLog`, `RestartsComeUp` | 2 processes of releases with 3 and 5 migrations, two of the scripts not plain |
| `expansion_main` | type, `CycleVerdict`, `IdsAreUnique`, refinement of `JobGraph` | every graph of 3 stages from 9 lists of dependencies each, all mixtures of kinds of stages on five shapes and six target lists, 3 selections |
| `invariant_check` | type, refinement of `Audit` | every state of four slices: 512 graphs over two jobs, leases against attempts (2 tasks, 2 attempts), states against events, columns left behind; 4 states that writers commit meanwhile |
| `packing_main` | type, `ManifestsAreSound`, refinement of `PackOrder` | 6 paths, 7 directories any of which may become any other between two steps, 28 pipeline files, one with a stage that has no more time than it takes to kill it, 15 manifests written by hand |
| `control_plane` | type, `AnswersAreEntitled`, `WalIsExplained`, `ReadyzIsExplained`, refinement of `BringUp` | 2 processes of 2 releases, 5 configurations (two that may run, one of them with one token set; three that must not), 1 name in `tmp/` |
| `reading` | `WholeAnswers`, `ReadsOwnWrites`, `PollsLoseNothing` | 2 processes, 2 requests, 2 jobs of 2 tasks, 2 clock readings, 1 reader, limits 2 and 3 around a cap of 2 and a default of 1 |
| `configuration` | type, `LaterLayersWin`, `NothingIgnored`, `PinTakes` | 6 configuration files, 7 dotenv files, 6 environments, 1 digest; among them two spellings of a key, repeated and exported lines, bad values of each layer, unknown names, unreadable files |

Why these are enough. Two processes and two requests are what every race in the
code is between: one that acts and one that acts in between; a third has nothing
to hold that the second cannot. Requests are slots used without end, so two of
them give any number of retries after any number of crashes. Two blobs, one a
prefix of the other, and caps on either side of the longer make truncation, a
wrong digest and a cap hit in the middle of a body all happen. One key is
enough because keys never meet; four works are one with shared blobs and a
dependency, one to conflict with it, one with a wrong size and one rejected.
Three job stages are enough for each pattern the search can meet (loop, two-cycle,
three-cycle, cycle behind a visited stage, unknown name) and the diamond of four
is added for orders. The five checks of the invariant checker read different
columns, so each slice varies what one of them relates and leaves the rest
alone; three tasks of one job, one of which may wait for itself, and a fourth of another
job on either side, give every graph the removal can meet but for size, which the
proof covers. Seven directories are the
whole one and one for each way a step can go wrong (a file missing, changed, a
link, below a link, with a name that is refused; a glob with nothing left to
find); two globs in a role and three roles are enough for overlaps on either side
of a role's end. Two processes of two releases are a pair in which either may be
the newer, start first or be overtaken, and a neighbour's file is gone between any
two looks of a sweep; a second name in `tmp/` changes nothing of that, and the
proof is of any number. One reader is enough as readers do not meet. The layers of a
configuration are merged key by key, so a file, a line and a variable for each
way a key can be given, twice, wrongly or not at all, meet in all combinations.
No counter in the models grows without end, except
`db.effects`, which the code itself bounds as long as the properties hold.

Deadlock is checked in every run.

## Fairness

Safety is checked without fairness. Liveness assumes:

- `BlobUpload`: a handler past its last `await` and a sweep run on (weak). A
  handler that waits for a chunk is resumed however often others run (strong):
  asyncio's ready queue is first in, first out, and a client that began a body
  goes on sending it or goes away. Files age whatever processes do (strong).
  Nothing is assumed of crashes, starts and failures; a property that needs them
  to stop, or starts to go on, says so as its premise.
- `Submission`: a handler runs on, or is refused by the busy timeout (weak on
  both together). Uvicorn runs it and SQLite answers within `busy_timeout`.
- `Migrate`: a run goes on, or its busy timeout ends it (weak); `RestartsComeUp`
  fails when a process waits for the lock for ever. Restarting a
  process that went down is a premise of `RestartsComeUp` (the container's
  restart policy), not an assumption.
- The others: none; their runs ask for safety only.

## What is proved

For every number of processes, requests, blobs, keys, scripts, stages, files and
lines, from the assumptions on constants each module names
(`ConstantsAssumption`, `AbsentAssumption`, `NothingAssumption`,
`DefaultsAssumption`: mostly that the constants have their types and that the
value for "none" is none of the others), TLAPS checks that the inductive
invariant `IInv` of each proof module holds and what follows from it. Every
invariant, every action property and every refinement that the passing runs
check is a theorem; liveness is not.

- **BlobUploadProofs.** Two facts carry the rest. `NamesUnique`: no two requests
  write one temporary file, so `TmpMatches`, what is renamed is what was hashed.
  `Progress`: past each step of the handler the file, then the row, is there,
  and no step of another process takes it back. Then files are whole, downloads
  exact, answers durable, no debris is left, files and rows are immutable (a
  second rename puts the same bytes in place), and `BlobPromise` is implemented.
  Every loss is recorded where it happens: as names are unique and a process that
  serves sweeps no more, a file that its handler does not find was taken by a
  neighbour, so behind a 500 is a failure or another process's sweep, and who was
  answered 200 or 201 lost nothing (`AnswersAlwaysExplained`); and where there is one process, it
  sweeps while no handler of it runs, so the files it takes are those of the dead
  (`DeadAloneAreSwept`).
- **SubmissionProofs.** `Locked`: whoever is in its transaction is the one
  handler its process runs and holds the write lock, so two are never in a
  transaction. Hence `Checked`: what a handler saw of the key and the blobs holds
  until its commit. `Imaged` says what has been written at each statement. Jobs
  are whole, inputs stored, keys unique, retries that get to the transaction
  replayed before blobs and caps are looked at, and `JobBook` is implemented.
- **MigrateProofs.** The versions are read outside the lock, so a process may be
  about to apply what another has applied. `Climbed` keeps only that all before
  it are recorded; `Imaged` that the open transaction is the committed database
  and what the script has done so far; `Contiguous` that versions are recorded in
  order. A version recorded meanwhile is caught by its row's primary key at
  `Record`, inside the same transaction, and nothing of the script stays.
  Scripts that are not plain may be among the others.
- **ExpansionProofs.** `Chain`: the stack is a path of dependencies on which no
  stage is twice, so when the search meets a stage on it there is a cycle.
  `Passed` and `Sound`: what a call has passed is visited, and the stages visited
  lead to visited stages only and contain no cycle, so when all are visited there
  is none. From `CycleVerdict` follows that some remaining stage is always ready
  (`NeverStuck`), and from the rules on names, seeds and kinds that task ids do
  not collide. For the refinement of `JobGraph`, `GInv` adds what an
  expansion in progress has: the targets and seeds the selection means
  (`Selected`), stages closed under dependencies (`Ordered`), and for just these
  stages every task of the closed form with the dependencies it has there (`Drawn`).
- **InvariantCheckProofs.** `KahnStep` and `KahnEnd` are facts of any finite
  graph: taking away a ready task keeps each count the number of its open
  dependencies (`Balanced`), and when none is ready those left over wait for each
  other. `Search` adds that no task that is taken away is in a set each of which
  waits for another, so the count decides. `FoundSoFar` says what each query has
  contributed, and one lemma per query that this is what `Audit` names. Types,
  `CyclesAreFound` and the refinement follow.
- **PackingProofs.** A pack is a function from files to the globs that found them
  (`own`, which the code never writes down). `Owned`: such a function exists, each of
  its globs is behind the loop, and a file's ordinal is the number of files `Behind`
  it in its role; a glob's files are added after all that were found before, in
  the order of their names, so none of the earlier numbers changes. One lemma
  carries the sorting: in a finite strict order the number of those before is a
  bijection with an initial segment, hence a place for each (`SequencedSorts`); the
  manifest and the route's list are two uses of it. From this the manifests that
  are packed are ordered, and accepted but for the three exceptions, however the
  directory is edited (`ManifestsAlwaysSound`). `Synced` is what can be said of a
  directory nobody touched: what is matched and what is wrong so far is what
  `PackOrder` finds for the globs that are behind. `PackOrder` is implemented.
- **ControlPlaneProofs.** `Sane` ties each process's label to what it has done:
  past its guards its configuration may run, past the migration the database is at
  its release at least, past the listing what was due is still on its list or in
  its hand, or has gone or been renewed. The versions never fall and a process is
  counted as having served only at or above its release, so `served` is at most
  `at`: who finds its own release in the database when a request comes had not been
  overtaken then, and who does not find it never will. `NamesUnique`, a file is in
  one hand at most, makes a probe that is not there one that a sweep took. Whoever takes the
  last connection away takes the WAL, so a WAL nobody has open is a killed
  process's. `BringUp` is implemented.
- **SubmissionProofs, for readers.** `RInv` adds to `IInv` what readers need of the
  rows: a handler past its commit, and a client that was answered,
  have a job that is there (`Known`); only work that expands to tasks becomes a job
  (`Planned`); jobs have times clocks give, and so far there are finitely many
  (`Dated`); between its SELECTs a reader's job is there (`Held`). A row never
  changes once committed, so a second snapshot shows what the first did and
  answers are whole. For lists: a job's rank, the number of those before it, is a
  bijection of the committed jobs with an initial segment of the naturals, so the
  newest n of more than n are n, and a job left out is older than all of them.
  The last theorem is that a run with readers is a run of `Submission`, so that
  what is proved there holds here.
- **ConfigurationProofs.** `Pinned`: a pin in force is a line of the file, and of what
  a command read while it was in force; a file that is emptied for a pin has no pin.
  The rest is about lists of pairs of any length: the last pair of a name is its
  text, and of two lists one after the other the later one has the last word
  (`LaterText`, from the least-number principle, as the lists' first and last
  places are a `CHOOSE`). Hence variables fit together when they fit apart
  (`BothFit`), and a key spelled one way has the value of its last line in its last
  layer (`KeyIsLayered`), of which a pin is an instance.

Some theorems are about definitions no run checks, because a stronger property of
the same run implies or repeats them on small instances: `FilesAreWhole`,
`Immutable`, `CyclesAreFound`, `NeverStuck`, `AppliedIffRecorded`, `UpIsMigrated`.

Only model-checked: the liveness properties `RetriesHeal`, `DebrisIsSwept`,
`LockIsFreed`, `RetriesLand` and `RestartsComeUp`, because TLAPS does not reason
about fairness. The violation of `AnswersMatchToolchain` is a counterexample, which
only a run can give.

## What the code does not keep

One run is expected to end in a violation: `submission_toolchain`. The hash behind
an Idempotency-Key leaves out the toolchain, so a repeat under another toolchain
is answered with the first job.

The others are premises or exceptions that the properties name, met while
modelling:

- A second `control run` on the data directory may sweep the file of an upload
  that is alive but stalled, though `sweep_tmp` says its request died:
  `SweepsOnlyTheDead` is checked with one process, and `AnswersAreExplained` says
  that the client is then told 500. The other way round, a file
  that an upload takes from under a sweep ends that start.
- `seeds: []` is accepted and its target runs nothing, which is what the test for
  `n: 0` says must not be.
- A crash after the last `COMMIT` of a migration leaves a database that is never
  analyzed; `MigrationLog` is silent of statistics.
- A migration script that commits and begins again is recorded, although the
  docstring says one that ends its transaction is rejected; `MigrationLog`'s
  promise is about plain scripts.
- A repeat of accepted work under its Idempotency-Key is replayed before blobs and
  caps are looked at, but after `_manifest_from` and `_resolve_digest`: once the
  control plane is restarted without the toolchain digest, or with timing
  constants the stages conflict with, it is answered 422 and not with its job.
  `RetriesReplay` is about the transaction.
- `/readyz` may say ok and be overtaken by a newer release before the answer is
  out; what `ReadyzIsExplained` promises is as of the request.
- `pack` accepts a file with a backslash in its name, more than 20 000 files, and
  stages with less time than `kill_grace_s`, which the route then refuses;
  `PackedIsAccepted` states that these are the only three. Two files of a role may have one ordinal in a manifest written by hand.
- A pin replaces the first plain line of its name while the last line of any
  spelling counts (`export`, spaces), so with two lines it may not take;
  `PinTakes` is about one. While the file is emptied and rewritten a command may
  read no pin at all: it promises nothing of a load that reads in between, and no
  other property does.
- Two spellings of one key (`RTLFARM_X`, `RTLFARM_x`) are decided by their place in
  a dict, where a name of the dotenv file keeps its place before the
  environment's: a variable in the environment may lose to a line of the file.
  `LaterLayersWin` is about keys spelled one way.

## Not modelled

- What a file system keeps when the machine, not the process, dies: `fsync` is
  off everywhere in this code.
- Formats: JSON pointers, envelopes, ULID digits, canonical JSON, the strings of
  paths and patterns. Hashes are injective.
- Data carried through unchanged: task parameters, input lists, timeouts,
  priorities, labels.
- Envelopes and request ids, logging, running tools for the toolchain manifest,
  argument parsing, and a SIGINT before the server runs.
- The timing rules' purpose: no worker and no lease exists in the source, so they
  are a guard of `Configuration` and `ControlPlane` here.
- A cycle through tasks of two jobs, which the checker does not look for; the
  recursion limit of `visit`; a target's own timeout, which no timing rule sees,
  and stored tasks after the constants have changed: data that nothing reads yet.
- SQLite itself: transactions are atomic, isolated by the write lock, and gone
  with the process that did not commit. A `COMMIT` that fails ends its transaction:
  `Database.write` issues no `ROLLBACK` after it, and SQLite rolls back by itself on
  every error but `SQLITE_BUSY`, which is taken not to come to the holder of the
  write lock of a WAL database. `LockIsFreed` rests on that.

## Plan

In the order of what matters most; all but the last two are done.

1. `BlobUpload`: files and rows under concurrency and crashes.
2. `Submission`: one job per key, whole or absent.
3. `Migrate`: the schema under racing processes.
4. `Expansion`: the graph that is submitted.
5. `Packing`: order in a manifest, and what the route accepts of it.
6. `InvariantCheck`: one committed state, its contradictions.
7. `ControlPlane`: guards, start, readiness, end, over several processes.
8. `Configuration`: layers, and the pin beside them.
9. `Reading`: answers beside submissions.
10. `Timing`: a worker, a lease and a control plane with integer clocks, to see
    whether the rules of `validate_timing` imply what their messages promise.
11. `Durability`: power loss over `BlobUpload`'s order of rename and row.

No proof of a safety property is outstanding. `Timing` and `Durability` would bring
their own.
