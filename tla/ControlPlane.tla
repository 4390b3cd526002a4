---------------------------- MODULE ControlPlane ----------------------------
(* The processes that share a data directory: `rtlfarm control run'        *)
(* (cli/control.py), which brings a control plane up (control/startup.py), *)
(* serves and closes, and `rtlfarm admin migrate' (cli/admin.py); who is   *)
(* let in (control/app.py), and what /readyz answers (routes/infra.py).    *)
(*                                                                         *)
(* A database is at a number of versions: what Migrate says in detail. A   *)
(* file in tmp/ is an upload's or a probe's, and a process has one in hand *)
(* at a time; `old' when upload_timeout_s has passed since it was last     *)
(* written. SIGINT is handled like SIGTERM by the server, and left out     *)
(* before it serves.                                                       *)
EXTENDS Integers, FiniteSets

CONSTANTS
    Procs,     \* processes
    Releases,  \* how many migrations each release in use brings
    Configs,   \* what load_from_args may give, with the bind address
    Tokens,    \* bearer tokens, Empty among them: a token set to ""
    Empty,
    Files,     \* names of files in tmp/; a name is used again only when forgotten
    Absent     \* None

ASSUME ConstantsAssumption ==
    /\ Releases \subseteq Nat
    /\ Empty \in Tokens /\ Absent \notin Tokens /\ Absent \notin Files
    /\ Configs \subseteq [loads : BOOLEAN, timed : BOOLEAN, loopback : BOOLEAN,
                          insecure : BOOLEAN, client : Tokens \cup {Absent},
                          worker : Tokens \cup {Absent}]

VARIABLES
    st,      \* the processes
    dir,     \* whether the data directory exists
    at,      \* the number of versions the database records
    wal,     \* whether the database's WAL file is there
    tmp,     \* the files in tmp/
    old,     \* those of them last written upload_timeout_s ago
    dirty,   \* history: a process was killed with the database open since the
             \* WAL was last removed
    served   \* history: the newest release that has served

shared == <<dir, at, wal, tmp, old, dirty, served>>
vars == <<st, dir, at, wal, tmp, old, dirty, served>>

-----------------------------------------------------------------------------
(* Who is let in. A request carries a token other than "" or, for want of  *)
(* a header, of the scheme or of the token, none.                          *)

AuthEnabled(c) == c.client # Absent \/ c.worker # Absent

\* assert_bind_allowed
BindAllowed(c) == AuthEnabled(c) \/ c.insecure \/ c.loopback

Presented == (Tokens \ {Empty}) \cup {Absent}

\* _check
\* Mutant: a route whose token is not set asks for none.
CheckUnsetIsOpen(c, expected, token) ==
    AuthEnabled(c) => expected = Absent \/ token = expected
Check(c, expected, token) ==
    AuthEnabled(c) => expected # Absent /\ token # Absent /\ token = expected

Routes == {"infra", "client", "blobs"}

Admits(c, route, token) ==
    \/ route = "infra"
    \/ route = "client" /\ Check(c, c.client, token)
    \/ route = "blobs" /\ (Check(c, c.client, token) \/ Check(c, c.worker, token))

-----------------------------------------------------------------------------
(* Processes. `done' is what a process has read of `at', `todo' what it has *)
(* listed of tmp/ and not looked at, `stale' what is old by the clock of    *)
(* its sweep, `look' the file it has found, `held' the file it is writing.  *)
(* `asks' is how far a request for /readyz has come and `ready' what it     *)
(* would be answered now. The rest is history: `due' is what was old when   *)
(* the process was launched and has neither gone nor been written to since, *)
(* `late' whether a newer release had served when the request came, `lost'  *)
(* whether its probe failed or was swept away.                              *)

Down == [pc |-> "down", run |-> FALSE, release |-> 0, config |-> Absent, done |-> 0,
         todo |-> {}, stale |-> {}, look |-> Absent, held |-> Absent,
         handler |-> FALSE, sig |-> "none", due |-> {},
         asks |-> "none", ready |-> FALSE, late |-> FALSE, lost |-> FALSE]

Labels == {"down", "guards", "mkdir", "opening", "migrating", "laying", "sweeping",
           "prepared", "serving", "draining", "closing", "reporting"}
Process ==
    [pc : Labels, run : BOOLEAN, release : Nat, config : Configs \cup {Absent},
     done : Nat, todo : SUBSET Files, stale : SUBSET Files, look : Files \cup {Absent},
     held : Files \cup {Absent}, handler : BOOLEAN, sig : {"none", "term", "int"},
     due : SUBSET Files, asks : {"none", "migrated", "probing", "answering"},
     ready : BOOLEAN, late : BOOLEAN, lost : BOOLEAN]

HasDb(s) == s.pc \in {"migrating", "laying", "sweeping", "prepared", "serving",
                      "draining", "closing", "reporting"}

Set(p, s) == st' = [st EXCEPT ![p] = s]
Goto(p, label) == Set(p, [st[p] EXCEPT !.pc = label])
At(p, label) == st[p].pc = label

Launch(p, run, release, config) ==
    /\ At(p, "down")
    /\ Set(p, [Down EXCEPT !.pc = "guards", !.run = run, !.release = release,
                           !.config = config, !.due = old])
    /\ UNCHANGED shared

\* What must be true of the configuration before anything touches the disk:
\* `admin migrate' looks neither at the timing nor at the address.
MayRun(run, c) == c.loads /\ (run => c.timed /\ BindAllowed(c))
\* Mutant: the guards of `control run' are left for later.
GuardsLater(p) ==
    /\ At(p, "guards")
    /\ IF st[p].config.loads THEN Goto(p, "mkdir") ELSE Set(p, Down)
    /\ UNCHANGED shared
Guards(p) ==
    /\ At(p, "guards")
    /\ IF MayRun(st[p].run, st[p].config) THEN Goto(p, "mkdir") ELSE Set(p, Down)
    /\ UNCHANGED shared

MakeDir(p) ==
    /\ At(p, "mkdir")
    /\ dir' = TRUE
    /\ Goto(p, "opening")
    /\ UNCHANGED <<at, wal, tmp, old, dirty, served>>

\* Database.__init__, and apply_migrations as far as its reading of the versions.
Open(p) ==
    /\ At(p, "opening")
    /\ wal' = TRUE
    /\ Set(p, [st[p] EXCEPT !.pc = "migrating", !.done = at])
    /\ UNCHANGED <<dir, at, tmp, old, dirty, served>>

\* One migration; it fails if another process has applied it since.
Migrate(p) ==
    /\ At(p, "migrating") /\ st[p].done < st[p].release
    /\ IF at = st[p].done
       THEN /\ at' = at + 1
            /\ Set(p, [st[p] EXCEPT !.done = @ + 1])
       ELSE /\ Goto(p, "closing")
            /\ UNCHANGED at
    /\ UNCHANGED <<dir, wal, tmp, old, dirty, served>>

Migrated(p) ==
    /\ At(p, "migrating") /\ st[p].done >= st[p].release
    /\ Goto(p, IF st[p].run THEN "laying" ELSE "reporting")
    /\ UNCHANGED shared

\* BlobStore.__init__, and sweep_tmp as far as its listing of tmp/.
LayOut(p) ==
    /\ At(p, "laying")
    /\ Set(p, [st[p] EXCEPT !.pc = "sweeping", !.todo = tmp, !.stale = old])
    /\ UNCHANGED shared

\* is_file
SweepLook(p, f) ==
    /\ At(p, "sweeping") /\ st[p].look = Absent
    /\ f \in st[p].todo
    /\ Set(p, [st[p] EXCEPT !.todo = @ \ {f}, !.look = IF f \in tmp THEN f ELSE Absent])
    /\ UNCHANGED shared

\* Mutant: the sweep goes by what it remembers.
RemoveName(f) == tmp' = tmp \ {f} /\ UNCHANGED old
Remove(f) == tmp' = tmp \ {f} /\ old' = old \ {f}
\* Nobody takes for stale what has gone or has been written to.
Forgetting(f, s) == [q \in Procs |-> [s[q] EXCEPT !.due = @ \ {f}, !.stale = @ \ {f}]]
Probes(s, f) == s.asks = "probing" /\ s.held = f
Robbing(f, s) == [q \in Procs |-> [s[q] EXCEPT !.lost = @ \/ Probes(s[q], f)]]

\* stat and unlink; a file that has gone since it was found ends the start.
SweepTake(p) ==
    LET f == st[p].look  s == [st EXCEPT ![p].look = Absent] IN
    /\ At(p, "sweeping") /\ f # Absent
    /\ \/ /\ f \notin tmp
          /\ Goto(p, "closing")
          /\ UNCHANGED <<tmp, old>>
       \/ /\ f \in tmp /\ f \in st[p].stale
          /\ Remove(f)
          /\ st' = Forgetting(f, Robbing(f, s))
       \/ /\ f \in tmp /\ f \notin st[p].stale
          /\ st' = s
          /\ UNCHANGED <<tmp, old>>
    /\ UNCHANGED <<dir, at, wal, dirty, served>>

\* create_app, readiness.migrated = True.
Prepared(p) ==
    /\ At(p, "sweeping") /\ st[p].todo = {} /\ st[p].look = Absent
    /\ Goto(p, "prepared")
    /\ UNCHANGED shared

\* A step of the start fails: the directory, the database or the store cannot
\* be made, read or written, or another process keeps the database busy. An
\* open database is closed first.
StartFails(p) ==
    /\ \/ st[p].pc \in {"mkdir", "opening"} /\ Set(p, Down)
       \/ st[p].pc \in {"migrating", "laying", "sweeping"} /\ Goto(p, "closing")
    /\ UNCHANGED shared

\* run_migrate reads back what the database is at, or fails to.
Report(p) ==
    /\ At(p, "reporting")
    /\ Goto(p, "closing")
    /\ UNCHANGED shared

-----------------------------------------------------------------------------
(* Serving.                                                                *)

\* serve: the handler for SIGTERM, then the server.
\* Mutant: no handler of one's own.
ServeBare(p) ==
    /\ At(p, "prepared")
    /\ Goto(p, "serving")
    /\ served' = IF st[p].release > served THEN st[p].release ELSE served
    /\ UNCHANGED <<dir, at, wal, tmp, old, dirty>>
Serve(p) ==
    /\ At(p, "prepared")
    /\ Set(p, [st[p] EXCEPT !.pc = "serving", !.handler = TRUE])
    /\ served' = IF st[p].release > served THEN st[p].release ELSE served
    /\ UNCHANGED <<dir, at, wal, tmp, old, dirty>>

\* A signal, or no address to bind: the server drains.
Stop(p, sig) ==
    /\ At(p, "serving")
    /\ Set(p, [st[p] EXCEPT !.pc = "draining", !.sig = sig])
    /\ UNCHANGED shared

\* The server raises the signal again: SystemExit and the `finally' of
\* run_control, or SIGTERM without a handler: the end, with the database open.
Drained(p) ==
    /\ At(p, "draining") /\ st[p].held = Absent /\ st[p].asks = "none"
    /\ IF st[p].sig = "term" => st[p].handler
       THEN Set(p, [st[p] EXCEPT !.pc = "closing", !.handler = FALSE])
       ELSE Set(p, Down)
    /\ UNCHANGED shared

\* Database.close: the last connection takes the WAL with it.
Close(p) ==
    LET last == \A q \in Procs \ {p} : ~HasDb(st[q]) IN
    /\ At(p, "closing")
    /\ Set(p, Down)
    /\ wal' = (wal /\ ~last)
    /\ dirty' = (dirty /\ ~last)
    /\ UNCHANGED <<dir, at, tmp, old, served>>

\* SIGKILL, a crash, or a SIGTERM while the handler is not there.
Kill(p) ==
    /\ ~At(p, "down")
    /\ Set(p, Down)
    /\ dirty' = (dirty \/ HasDb(st[p]))
    /\ UNCHANGED <<dir, at, wal, tmp, old, served>>

\* uuid4 draws no name that is in use, or that somebody still knows.
Fresh(f) == f \notin tmp /\ \A q \in Procs : /\ f \notin st[q].todo
                                             /\ f # st[q].look /\ f # st[q].held

Create(p, f, s) ==
    /\ Fresh(f)
    /\ tmp' = tmp \cup {f}
    /\ Set(p, s)
    /\ UNCHANGED <<dir, at, wal, old, dirty, served>>

\* An upload opens its file.
Upload(p, f) ==
    /\ At(p, "serving") /\ st[p].held = Absent /\ st[p].asks = "none"
    /\ Create(p, f, [st[p] EXCEPT !.held = f])

\* A later chunk, or the flush at the end, reaches the file and renews its mtime.
Write(p) ==
    /\ st[p].asks = "none" /\ st[p].held \in old
    /\ old' = old \ {st[p].held}
    /\ st' = Forgetting(st[p].held, st)
    /\ UNCHANGED <<dir, at, wal, tmp, dirty, served>>

\* The upload's file goes, unless a sweep was there first.
Release(p) ==
    /\ st[p].held # Absent /\ st[p].asks = "none"
    /\ Remove(st[p].held)
    /\ st' = Forgetting(st[p].held, [st EXCEPT ![p].held = Absent])
    /\ UNCHANGED <<dir, at, wal, dirty, served>>

\* _migrated: the schema is this release's and no other.
\* Mutant: this release's at least.
MigratedAtLeast(p) == at >= st[p].release
MigratedExactly(p) == at = st[p].release

\* A request for /readyz, as far as the SELECT of the versions.
Readyz(p) ==
    /\ At(p, "serving") /\ st[p].asks = "none" /\ st[p].held = Absent
    /\ Set(p, [st[p] EXCEPT !.asks = "migrated", !.ready = MigratedExactly(p),
                            !.late = st[p].release < served])
    /\ UNCHANGED shared

\* _writable writes its probe, whatever the SELECT has said.
Probe(p, f) ==
    /\ st[p].asks = "migrated"
    /\ Create(p, f, [st[p] EXCEPT !.held = f, !.asks = "probing"])

\* The write or the unlink fails; a probe that is there stays.
ProbeFails(p) ==
    /\ st[p].asks \in {"migrated", "probing"}
    /\ Set(p, [st[p] EXCEPT !.held = Absent, !.asks = "answering", !.ready = FALSE,
                            !.lost = TRUE])
    /\ UNCHANGED shared

\* A probe that is not there any more is a volume that is not writable.
Unprobe(p) ==
    LET f == st[p].held
        s == [st EXCEPT ![p].held = Absent, ![p].asks = "answering",
                        ![p].ready = @ /\ f \in tmp]
    IN  /\ st[p].asks = "probing"
        /\ Remove(f)
        /\ st' = Forgetting(f, s)
        /\ UNCHANGED <<dir, at, wal, dirty, served>>

\* Nobody sets the other two checks yet: the answer is `ready'.
Answer(p) ==
    /\ st[p].asks = "answering"
    /\ Set(p, [st[p] EXCEPT !.asks = "none", !.ready = FALSE, !.late = FALSE,
                            !.lost = FALSE])
    /\ UNCHANGED shared

Age(f) ==
    /\ f \in tmp \ old
    /\ old' = old \cup {f}
    /\ UNCHANGED <<st, dir, at, wal, tmp, dirty, served>>

-----------------------------------------------------------------------------

Init ==
    /\ st = [p \in Procs |-> Down]
    /\ dir = FALSE /\ at = 0 /\ wal = FALSE
    /\ tmp = {} /\ old = {}
    /\ dirty = FALSE /\ served = 0

Next ==
    \/ \E p \in Procs :
         \/ \E run \in BOOLEAN, r \in Releases, c \in Configs : Launch(p, run, r, c)
         \/ Guards(p) \/ MakeDir(p) \/ Open(p) \/ Migrate(p) \/ Migrated(p)
         \/ LayOut(p) \/ SweepTake(p) \/ Prepared(p) \/ StartFails(p) \/ Report(p)
         \/ Serve(p) \/ Drained(p) \/ Close(p) \/ Kill(p)
         \/ Write(p) \/ Release(p)
         \/ Readyz(p) \/ ProbeFails(p) \/ Unprobe(p) \/ Answer(p)
         \/ \E sig \in {"term", "int", "none"} : Stop(p, sig)
         \/ \E f \in Files : SweepLook(p, f) \/ Upload(p, f) \/ Probe(p, f)
    \/ \E f \in Files : Age(f)

Spec == Init /\ [][Next]_vars

-----------------------------------------------------------------------------
(* Properties.                                                             *)

\* A process that is down has kept nothing, any other has a configuration; an
\* old file is a file.
TypeOK ==
    /\ st \in [Procs -> Process]
    /\ \A p \in Procs : IF At(p, "down") THEN st[p] = Down ELSE st[p].config \in Configs
    /\ {dir, wal, dirty} \subseteq BOOLEAN
    /\ at \in Nat /\ served \in Nat
    /\ old \subseteq tmp /\ tmp \subseteq Files

\* Whoever serves lets in exactly those who hold a token of the route's
\* audience, or everybody where no token is set and the address is loopback or
\* the operator has said so (_check, assert_bind_allowed, any_auth). With one
\* token set the other audience is shut out, not let in.
Audience(c, route) == IF route = "client" THEN {c.client} ELSE {c.client, c.worker}
Entitled(c, route, token) ==
    \/ route = "infra"
    \/ c.client = Absent /\ c.worker = Absent /\ (c.loopback \/ c.insecure)
    \/ token \in Audience(c, route) \ {Absent}
AnswersAreEntitled ==
    \A p \in Procs : At(p, "serving") =>
        \A route \in Routes, token \in Presented :
            Admits(st[p].config, route, token) <=> Entitled(st[p].config, route, token)

\* "The caller's `finally' closes the database" (serve): however a control
\* plane is stopped, and wherever a start or a report fails, the WAL is gone
\* once nobody has the database open, unless somebody was killed with it open.
WalIsExplained ==
    wal => dirty \/ \E p \in Procs : HasDb(st[p])

\* "/readyz says it can do work" (readyz): whatever other processes do between
\* its SELECT, its probe and its answer, an answer of ok is of a release that
\* none newer had overtaken when the request came, with a probe that was there
\* to the end; so an overtaken process answers 503 for as long as it serves.
\* And a 503 has its reason: newer versions in the database, or a probe that
\* failed or that the start of another process has swept away.
ReadyzIsExplained ==
    \A p \in Procs : st[p].asks = "answering" =>
        IF st[p].ready THEN ~st[p].late /\ ~st[p].lost
        ELSE at > st[p].release \/ st[p].lost

\* BringUp: "the loopback guard runs before anything touches the disk", the
\* versions rise by one, and whoever is up has its schema and has seen each
\* upload that was stale when it was launched go, or be written to again.
Phase(s) == CASE s.pc \in {"down", "closing"} -> "down"
              [] s.pc \in {"serving", "draining"} -> "up"
              [] OTHER -> "starting"
Running(s) == Phase(s) # "down"
Sound(s) == /\ s.config.loads
            /\ s.run => /\ s.config.timed
                        /\ s.config.client = Absent /\ s.config.worker = Absent =>
                               s.config.loopback \/ s.config.insecure
Abstract == INSTANCE BringUp WITH
    Names <- Files, stale <- old,
    phase <- [p \in Procs |-> Phase(st[p])],
    release <- [p \in Procs |-> IF Running(st[p]) THEN st[p].release ELSE 0],
    may <- [p \in Procs |-> Running(st[p]) /\ Sound(st[p])],
    due <- [p \in Procs |-> IF Running(st[p]) THEN st[p].due ELSE {}]
KeepsBringUp == Abstract!Spec
=============================================================================
