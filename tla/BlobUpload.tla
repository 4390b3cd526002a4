----------------------------- MODULE BlobUpload -----------------------------
(***************************************************************************)
(* The content-addressed blob store and the upload route over it, for one  *)
(* or more control-plane processes on one data directory: requests stream  *)
(* a body into tmp/, rename it under its digest and record a row;          *)
(* processes crash, restart and sweep tmp/ while others serve.             *)
(*                                                                         *)
(* Grain: an asyncio handler runs without interruption by other handlers   *)
(* of its process between awaits (current), but every system call is a     *)
(* step of its own, because another process or a crash may fall between.   *)
(***************************************************************************)
EXTENDS Integers, Sequences, FiniteSets

CONSTANTS Requests,   \* upload slots; a client reuses one for its next attempt
          Procs,      \* control-plane processes started on the data directory
          TmpNames,   \* names uuid4 may draw
          Chunks,     \* the values one body chunk may have
          Blobs,      \* the byte strings whose digests clients claim
          Kinds,      \* blob kinds with a cap
          Cap,        \* Cap[k]: the kind's cap, in chunks
          Absent      \* no file, no row, no name, no request

\* hashlib.sha256 without collisions: a digest determines the bytes it is of.
Sha256(bytes) == [sha256 |-> bytes]
Digests == {Sha256(b) : b \in Blobs}

Active == {"stream", "exists", "dedupe", "place", "row", "created", "existing"}
Codes == {"201", "200", "400", "413", "422", "500", "lost"}
TmpFile == [bytes : Seq(Chunks), old : BOOLEAN]
Fates == {"nothing", "failure", "own", "foreign"}
SweepState == [todo : SUBSET TmpNames, at : TmpNames \cup {Absent}, stale : BOOLEAN]

ASSUME ConstantsAssumption ==
    /\ Blobs \subseteq Seq(Chunks)
    /\ Cap \in [Kinds -> Nat]
    /\ Absent \notin Seq(Chunks) \cup TmpFile \cup Nat
    /\ Absent \notin TmpNames \cup Requests \cup Procs \cup Kinds \cup Digests

VARIABLES
    pc,       \* per request: where its handler is
    proc,     \* per request: the process serving it
    claim,    \* per request: X-Content-Sha256
    kind,     \* per request: X-Blob-Kind
    got,      \* per request: the bytes hashed so far
    held,     \* per request: its name in tmp/
    answer,   \* per request: what its client last saw
    befell,   \* per request: what befell its last attempt (history): a failure, the
              \* sweep of its own or of a foreign process
    tmp,      \* the files in tmp/
    final,    \* the files in sha256/
    rows,     \* the blobs table: digest -> size
    died,     \* names in tmp/ whose request died with its process (history)
    mode,     \* per process: down, sweeping at startup, or serving
    current,  \* per process: the handler that has left its last await
    sweep     \* per process: the progress of sweep_tmp

request == <<pc, proc, claim, kind, got, held, answer, befell>>
disk == <<tmp, final, rows, died>>
process == <<mode, current, sweep>>
vars == <<request, disk, process>>

NoSweep == [todo |-> {}, at |-> Absent, stale |-> FALSE]

Init ==
    /\ pc = [r \in Requests |-> "idle"]
    /\ proc = [r \in Requests |-> Absent]
    /\ claim = [r \in Requests |-> Absent]
    /\ kind = [r \in Requests |-> Absent]
    /\ got = [r \in Requests |-> <<>>]
    /\ held = [r \in Requests |-> Absent]
    /\ answer = [r \in Requests |-> "none"]
    /\ befell = [r \in Requests |-> "nothing"]
    /\ tmp = [n \in TmpNames |-> Absent]
    /\ final = [d \in Digests |-> Absent]
    /\ rows = [d \in Digests |-> Absent]
    /\ died = {}
    /\ mode = [p \in Procs |-> "down"]
    /\ current = [p \in Procs |-> Absent]
    /\ sweep = [p \in Procs |-> NoSweep]

-----------------------------------------------------------------------------
(* The upload handler *)

\* uuid4 never draws a name that is in use or that a sweep has listed.
\* Mutant: names repeat.
AnyName(n) == TRUE
Fresh(n) == /\ tmp[n] = Absent
            /\ \A r \in Requests : held[r] # n
            /\ \A p \in Procs : n \notin sweep[p].todo /\ n # sweep[p].at

\* The handler of r is at an await and its event loop is free to resume it.
Resumable(r) == pc[r] = "stream" /\ current[proc[r]] = Absent

\* The request leaves its handler; only what the client was told remains.
End(r, code, fate) ==
    /\ pc' = [pc EXCEPT ![r] = "idle"]
    /\ answer' = [answer EXCEPT ![r] = code]
    /\ befell' = [befell EXCEPT ![r] = fate]
    /\ proc' = [proc EXCEPT ![r] = Absent]
    /\ kind' = [kind EXCEPT ![r] = Absent]
    /\ got' = [got EXCEPT ![r] = <<>>]
    /\ held' = [held EXCEPT ![r] = Absent]
    /\ claim' = IF code \in {"200", "201"} THEN claim
                ELSE [claim EXCEPT ![r] = Absent]

\* The finally clause of ingest. Mutant: it is missing.
NotCleaned(r) == tmp
Cleaned(r) == [tmp EXCEPT ![held[r]] = Absent]

\* An exception leaves ingest.
Raise(r, code, fate) ==
    /\ End(r, code, fate)
    /\ tmp' = Cleaned(r)
    /\ current' = [current EXCEPT ![proc[r]] = Absent]
    /\ UNCHANGED <<final, rows, died, mode, sweep>>

\* The handler moves on; the event loop stays with it until its next await.
Step(r, from, to) == /\ pc[r] = from
                     /\ pc' = [pc EXCEPT ![r] = to]
                     /\ UNCHANGED <<proc, claim, kind, got, held, answer, befell>>

\* An unknown kind or a malformed digest is refused before a byte is read.
Reject(r, p) ==
    /\ pc[r] = "idle" /\ mode[p] = "up" /\ current[p] = Absent
    /\ answer' = [answer EXCEPT ![r] = "422"]
    /\ claim' = [claim EXCEPT ![r] = Absent]
    /\ befell' = [befell EXCEPT ![r] = "nothing"]
    /\ UNCHANGED <<pc, proc, kind, got, held, disk, process>>

Begin(r, p, d, k, n) ==
    /\ pc[r] = "idle" /\ mode[p] = "up" /\ current[p] = Absent
    /\ Fresh(n)
    /\ pc' = [pc EXCEPT ![r] = "stream"]
    /\ proc' = [proc EXCEPT ![r] = p]
    /\ claim' = [claim EXCEPT ![r] = d]
    /\ kind' = [kind EXCEPT ![r] = k]
    /\ got' = [got EXCEPT ![r] = <<>>]
    /\ held' = [held EXCEPT ![r] = n]
    /\ answer' = [answer EXCEPT ![r] = "none"]
    /\ befell' = [befell EXCEPT ![r] = "nothing"]
    /\ tmp' = [tmp EXCEPT ![n] = [bytes |-> <<>>, old |-> FALSE]]
    /\ UNCHANGED <<final, rows, died, process>>

\* A file swept away while open keeps taking writes, but has lost its name.
\* Bytes that stay in the file object's buffer do not touch the mtime.
Written(n, c, flushed) ==
    IF tmp[n] = Absent THEN tmp
    ELSE [tmp EXCEPT ![n] = [bytes |-> Append(@.bytes, c), old |-> @.old /\ ~flushed]]

\* Leaving the with block flushes what the buffer still holds, if anything.
Closed(n, flushed) ==
    IF tmp[n] = Absent THEN tmp
    ELSE [tmp EXCEPT ![n].old = @ /\ ~flushed]

Chunk(r, c) ==
    /\ Resumable(r)
    /\ LET body == Append(got[r], c)
       IN  IF Len(body) > Cap[kind[r]]
           THEN Raise(r, "413", befell[r])
           ELSE /\ got' = [got EXCEPT ![r] = body]
                /\ \E flushed \in BOOLEAN : tmp' = Written(held[r], c, flushed)
                /\ UNCHANGED <<pc, proc, claim, kind, held, answer, befell>>
                /\ UNCHANGED <<final, rows, died, process>>

Matches(r) == Sha256(got[r]) = claim[r]

EndOfStream(r) ==
    /\ Resumable(r)
    /\ IF ~Matches(r)
       THEN Raise(r, "400", befell[r])
       ELSE /\ Step(r, "stream", "exists")
            /\ current' = [current EXCEPT ![proc[r]] = r]
            /\ \E flushed \in BOOLEAN : tmp' = Closed(held[r], flushed)
            /\ UNCHANGED <<final, rows, died, mode, sweep>>

\* The client goes away, or a write to the volume fails.
Abort(r) == Resumable(r) /\ \E code \in {"lost", "500"} : Raise(r, code, "failure")

\* Mutant: every digest is taken to be in the store already.
FoundAlways(r) == TRUE
Found(r) == final[claim[r]] # Absent

\* Mutant: a file already in place is an error.
FindFinalRefuses(r) ==
    /\ pc[r] = "exists"
    /\ IF Found(r) THEN Raise(r, "500", befell[r])
       ELSE Step(r, "exists", "place") /\ UNCHANGED <<disk, process>>
FindFinal(r) ==
    /\ pc[r] = "exists"
    /\ Step(r, "exists", IF Found(r) THEN "dedupe" ELSE "place")
    /\ UNCHANGED <<disk, process>>

\* unlink() and os.replace() both fail when a sweep has taken the file.
DropTmp(r) ==
    /\ pc[r] = "dedupe"
    /\ IF tmp[held[r]] = Absent
       THEN Raise(r, "500", befell[r])
       ELSE /\ Step(r, "dedupe", "row")
            /\ tmp' = [tmp EXCEPT ![held[r]] = Absent]
            /\ UNCHANGED <<final, rows, died, process>>

Rename(r) ==
    /\ pc[r] = "place"
    /\ IF tmp[held[r]] = Absent
       THEN Raise(r, "500", befell[r])
       ELSE /\ Step(r, "place", "row")
            /\ final' = [final EXCEPT ![claim[r]] = tmp[held[r]].bytes]
            /\ tmp' = [tmp EXCEPT ![held[r]] = Absent]
            /\ UNCHANGED <<rows, died, process>>

\* The shard directory or the rename fails with an OSError.
RenameFails(r) == pc[r] = "place" /\ Raise(r, "500", "failure")

\* rowcount tells 201 from 200. Mutants: every upload claims to have created;
\* a recorded digest is a conflict nobody answers.
VerdictAlwaysCreated(r) == "created"
VerdictConflict(r) == IF rows[claim[r]] = Absent THEN "created" ELSE "conflict"
Verdict(r) == IF rows[claim[r]] = Absent THEN "created" ELSE "existing"

\* IngestResult.size
IngestSize(r) == Len(got[r])

\* One transaction: INSERT ... ON CONFLICT (sha256) DO NOTHING.
WriteRow(r) ==
    /\ pc[r] = "row"
    /\ Step(r, "row", Verdict(r))
    /\ rows' = IF rows[claim[r]] # Absent THEN rows
               ELSE [rows EXCEPT ![claim[r]] = IngestSize(r)]
    /\ current' = [current EXCEPT ![proc[r]] = Absent]
    /\ UNCHANGED <<tmp, final, died, mode, sweep>>

\* BEGIN IMMEDIATE or COMMIT fails (another process holds the lock, a full
\* disk): nothing is recorded, the file stays.
\* Mutant: the failure is answered as a success.
WriteRowFailsSilently(r) ==
    /\ pc[r] = "row"
    /\ End(r, "200", "failure")
    /\ current' = [current EXCEPT ![proc[r]] = Absent]
    /\ UNCHANGED <<disk, mode, sweep>>
WriteRowFails(r) ==
    /\ pc[r] = "row"
    /\ End(r, "500", "failure")
    /\ current' = [current EXCEPT ![proc[r]] = Absent]
    /\ UNCHANGED <<disk, mode, sweep>>

Respond(r) ==
    /\ \/ pc[r] = "created" /\ End(r, "201", befell[r])
       \/ pc[r] = "existing" /\ End(r, "200", befell[r])
    /\ UNCHANGED <<disk, process>>

\* The row is committed but the client never hears of it.
RespondFails(r) ==
    /\ pc[r] \in {"created", "existing"}
    /\ End(r, "lost", "failure")
    /\ UNCHANGED <<disk, process>>

\* GET /v1/blobs/{sha256}: what the route answers for digest d.
Download(d) ==
    CASE rows[d] = Absent -> [status |-> 404]
      [] rows[d] # Absent /\ final[d] = Absent -> [status |-> 410]
      [] OTHER -> [status |-> 200, length |-> rows[d], body |-> final[d]]

-----------------------------------------------------------------------------
(* Processes: startup with its sweep, shutdown, crash *)

\* prepare() lists tmp/ once; sweep_tmp then visits what it listed.
Start(p) ==
    /\ mode[p] = "down"
    /\ mode' = [mode EXCEPT ![p] = "sweep"]
    /\ sweep' = [sweep EXCEPT ![p].todo = {n \in TmpNames : tmp[n] # Absent}]
    /\ UNCHANGED <<request, disk, current>>

\* path.is_file(), on the next name in the listing.
SweepVisit(p, n) ==
    /\ mode[p] = "sweep" /\ sweep[p].at = Absent /\ n \in sweep[p].todo
    /\ sweep' = [sweep EXCEPT ![p] =
                    [todo |-> @.todo \ {n}, stale |-> FALSE,
                     at |-> IF tmp[n] = Absent THEN Absent ELSE n]]
    /\ UNCHANGED <<request, disk, mode, current>>

\* A file that vanishes under stat() or unlink() is an OSError: StartupError.
StartupFails(p) ==
    /\ mode' = [mode EXCEPT ![p] = "down"]
    /\ sweep' = [sweep EXCEPT ![p] = NoSweep]
    /\ UNCHANGED <<request, disk, current>>

\* Mutant: the comparison of the ages is the wrong way round.
Young(n) == ~tmp[n].old
Stale(n) == tmp[n].old

SweepStat(p) ==
    /\ mode[p] = "sweep" /\ sweep[p].at # Absent /\ ~sweep[p].stale
    /\ IF tmp[sweep[p].at] = Absent
       THEN StartupFails(p)
       ELSE /\ sweep' = [sweep EXCEPT ![p] =
                    IF Stale(sweep[p].at) THEN [@ EXCEPT !.stale = TRUE]
                                            ELSE [@ EXCEPT !.at = Absent]]
            /\ UNCHANGED <<request, disk, mode, current>>

\* The request whose file p takes learns of it when it next needs the name.
SweptBy(p) == [r \in Requests |-> IF held[r] # sweep[p].at THEN befell[r]
                                 ELSE IF proc[r] = p THEN "own"
                                 ELSE "foreign"]

SweepUnlink(p) ==
    /\ mode[p] = "sweep" /\ sweep[p].at # Absent /\ sweep[p].stale
    /\ IF tmp[sweep[p].at] = Absent
       THEN StartupFails(p)
       ELSE /\ tmp' = [tmp EXCEPT ![sweep[p].at] = Absent]
            /\ died' = died \ {sweep[p].at}
            /\ sweep' = [sweep EXCEPT ![p].at = Absent, ![p].stale = FALSE]
            /\ befell' = SweptBy(p)
            /\ UNCHANGED <<pc, proc, claim, kind, got, held, answer>>
            /\ UNCHANGED <<final, rows, mode, current>>

Serve(p) ==
    /\ mode[p] = "sweep" /\ sweep[p] = NoSweep
    /\ mode' = [mode EXCEPT ![p] = "up"]
    /\ UNCHANGED <<request, disk, current, sweep>>

\* SIGTERM: the server drains its connections, then the database is closed.
\* Mutant: it does not wait for them.
StopAtOnce(p) ==
    /\ mode[p] = "up"
    /\ mode' = [mode EXCEPT ![p] = "down"]
    /\ UNCHANGED <<request, disk, current, sweep>>
Stop(p) ==
    /\ mode[p] = "up"
    /\ \A r \in Requests : proc[r] # p
    /\ mode' = [mode EXCEPT ![p] = "down"]
    /\ UNCHANGED <<request, disk, current, sweep>>

Crash(p) ==
    /\ mode[p] # "down"
    /\ LET R == {r \in Requests : proc[r] = p}
           Drop(f, v) == [r \in Requests |-> IF r \in R THEN v ELSE f[r]]
       IN  /\ pc' = Drop(pc, "idle") /\ answer' = Drop(answer, "lost")
           /\ proc' = Drop(proc, Absent) /\ claim' = Drop(claim, Absent)
           /\ kind' = Drop(kind, Absent) /\ got' = Drop(got, <<>>)
           /\ held' = Drop(held, Absent) /\ befell' = Drop(befell, "failure")
           /\ died' = died \cup {n \in TmpNames : tmp[n] # Absent
                                                  /\ \E r \in R : held[r] = n}
    /\ mode' = [mode EXCEPT ![p] = "down"]
    /\ current' = [current EXCEPT ![p] = Absent]
    /\ sweep' = [sweep EXCEPT ![p] = NoSweep]
    /\ UNCHANGED <<tmp, final, rows>>

\* upload_timeout_s passes without a write. A sweep reads the clock once, so a
\* file that ages during a sweep is not stale for it.
Age(n) ==
    /\ tmp[n] # Absent /\ ~tmp[n].old
    /\ \A p \in Procs : mode[p] # "sweep"
    /\ tmp' = [tmp EXCEPT ![n].old = TRUE]
    /\ UNCHANGED <<request, final, rows, died, process>>

-----------------------------------------------------------------------------
Handler(r) == \/ FindFinal(r) \/ DropTmp(r) \/ Rename(r)
              \/ WriteRow(r) \/ Respond(r)
Stream(r) == EndOfStream(r) \/ \E c \in Chunks : Chunk(r, c)
Ask(r) == \E p \in Procs : \/ Reject(r, p)
                           \/ \E d \in Digests, k \in Kinds, n \in TmpNames :
                                 Begin(r, p, d, k, n)
HandlerFails(r) == \/ Abort(r) \/ RenameFails(r)
                   \/ WriteRowFails(r) \/ RespondFails(r)
Sweep(p) == SweepStat(p) \/ SweepUnlink(p) \/ Serve(p)
            \/ \E n \in TmpNames : SweepVisit(p, n)

Next == \/ \E r \in Requests : Ask(r) \/ Stream(r) \/ Handler(r) \/ HandlerFails(r)
        \/ \E p \in Procs : Start(p) \/ Sweep(p) \/ Stop(p) \/ Crash(p)
        \/ \E n \in TmpNames : Age(n)

Spec == Init /\ [][Next]_vars

(* asyncio's ready queue is first in, first out, so a handler that has a   *)
(* chunk to read is resumed however often others run in between (strong);  *)
(* a handler past its last await, and a startup sweep, simply run (weak).  *)
(* Clients keep sending what they began. Time passes whatever the          *)
(* processes do, so a file ages however often they restart (strong).       *)
Fairness == /\ \A r \in Requests : SF_vars(Stream(r)) /\ WF_vars(Handler(r))
            /\ \A p \in Procs : WF_vars(Sweep(p))
            /\ \A n \in TmpNames : SF_vars(Age(n))

FairSpec == Spec /\ Fairness
-----------------------------------------------------------------------------
(* Properties *)

TypeOK ==
    /\ pc \in [Requests -> Active \cup {"idle"}]
    /\ proc \in [Requests -> Procs \cup {Absent}]
    /\ claim \in [Requests -> Digests \cup {Absent}]
    /\ kind \in [Requests -> Kinds \cup {Absent}]
    /\ got \in [Requests -> Seq(Chunks)]
    /\ held \in [Requests -> TmpNames \cup {Absent}]
    /\ answer \in [Requests -> Codes \cup {"none"}]
    /\ befell \in [Requests -> Fates]
    /\ tmp \in [TmpNames -> TmpFile \cup {Absent}]
    /\ final \in [Digests -> Seq(Chunks) \cup {Absent}]
    /\ rows \in [Digests -> Nat \cup {Absent}]
    /\ died \in SUBSET TmpNames
    /\ mode \in [Procs -> {"down", "sweep", "up"}]
    /\ current \in [Procs -> Requests \cup {Absent}]
    /\ sweep \in [Procs -> SweepState]

\* "The store never holds a partial file under a real name" (blobstore.py),
\* whatever truncated, mislabelled or interrupted bodies clients send.
FilesAreWhole == \A d \in Digests : final[d] # Absent => Sha256(final[d]) = d

\* A download never finds a row without its file (410), and the Content-Length
\* it takes from the row is the length of the body it streams from the file.
DownloadsAreExact ==
    \A d \in Digests :
        LET get == Download(d)
        IN  \/ get.status = 404
            \/ get.status = 200 /\ Sha256(get.body) = d /\ get.length = Len(get.body)

\* A client that was answered 201 or 200 can download what it uploaded, also
\* after crashes, sweeps and other uploads of the same digest.
AnswersAreDurable ==
    \A r \in Requests :
        answer[r] \in {"200", "201"} => Download(claim[r]).status = 200

\* Whatever way a request ends, its temporary file is gone: a file in tmp/
\* belongs to a request in flight or to one that died with its process.
NoDebris == \A n \in TmpNames :
                tmp[n] # Absent => n \in died \/ \E r \in Requests : held[r] = n

\* Bytes under a digest and the recorded size never change or vanish, so a
\* download in progress and a client's cache stay right ("immutable").
Immutable == [][\A d \in Digests : /\ (final[d] # Absent => final'[d] = final[d])
                                   /\ (rows[d] # Absent => rows'[d] = rows[d])]_vars

\* No race between uploads answers 500, and no upload whose file was taken is
\* answered as stored (ingest: is_file, unlink, os.replace): behind every 500
\* is a failure of the disk, the database or the connection, or the sweep of a
\* process other than the one that served the request.
AnswersAreExplained ==
    \A r \in Requests :
        /\ answer[r] = "500" => befell[r] \in {"failure", "foreign"}
        /\ answer[r] \in {"200", "201"} => befell[r] = "nothing"

\* sweep_tmp: "anything still there is an upload whose request died".
SweepsOnlyTheDead ==
    [][\A p \in Procs, n \in TmpNames :
          SweepUnlink(p) /\ tmp[n] # Absent /\ tmp'[n] = Absent => n \in died]_vars

Faulty == \/ \E r \in Requests : HandlerFails(r)
          \/ \E p \in Procs : SweepUnlink(p)
          \/ \E p \in Procs, r \in Requests : proc[r] = p /\ Crash(p)

\* The retry "only has to write the row": when failures stop, a digest whose
\* body clients keep sending completely is recorded, whatever file, row or
\* temporary file earlier attempts left behind.
RetriesHeal ==
    \A d \in Digests :
        (<>[][~Faulty]_vars
         /\ []<>(\E r \in Requests : pc[r] = "exists" /\ claim[r] = d))
        => <>(rows[d] # Absent)

\* Debris of a crash does not stay: if processes keep starting and their
\* startup is no longer cut short, each file a dead request left in tmp/ is
\* swept, also when it was too young for the first sweeps that met it.
CutShort(p) == mode[p] = "sweep" /\ mode'[p] = "down"
DebrisIsSwept ==
    \A n \in TmpNames :
        (<>[][\A p \in Procs : ~CutShort(p)]_vars
         /\ []<><<\E p \in Procs : Start(p)>>_vars)
        => (n \in died ~> n \notin died)

\* The system implements the promise of BlobPromise.
Promise == INSTANCE BlobPromise WITH
    known <- {d \in Digests : rows[d] # Absent},
    decided <- [r \in Requests |-> IF pc[r] \in {"created", "existing"}
                                    THEN pc[r] ELSE "none"],
    answer <- answer

KeepsPromise == Promise!Spec
=============================================================================
