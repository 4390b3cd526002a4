------------------------------ MODULE BringUp ------------------------------
(* What the start of a control plane promises, however it goes about it:   *)
(* the data directory is touched, and its database raised, only by a       *)
(* process whose configuration may run; the database is raised by one      *)
(* version at a time; and whoever is up has its release's schema, and has  *)
(* seen each upload that was stale when it was launched go, or be written  *)
(* to again by a process that is up.                                       *)
EXTENDS Integers

CONSTANTS Procs, Releases, Names

VARIABLES
    dir,      \* whether the data directory exists
    at,       \* the version its database is at
    stale,    \* the stale files in tmp/
    phase,    \* of each process: "down", "starting" or "up"
    release,  \* the version each process brings the database to
    may,      \* whether its configuration lets it touch the disk, and serve
    due       \* stale files it has still to see gone or written to

vars == <<dir, at, stale, phase, release, may, due>>

Init ==
    /\ dir = FALSE /\ at = 0 /\ stale = {}
    /\ phase = [p \in Procs |-> "down"]
    /\ release = [p \in Procs |-> 0]
    /\ may = [p \in Procs |-> FALSE]
    /\ due = [p \in Procs |-> {}]

Launch(p, r, m) ==
    /\ phase[p] = "down"
    /\ phase' = [phase EXCEPT ![p] = "starting"]
    /\ release' = [release EXCEPT ![p] = r]
    /\ may' = [may EXCEPT ![p] = m]
    /\ due' = [due EXCEPT ![p] = stale]
    /\ UNCHANGED <<dir, at, stale>>

Starting(p) == phase[p] = "starting" /\ may[p]

MakeDir(p) ==
    /\ Starting(p)
    /\ dir' = TRUE
    /\ UNCHANGED <<at, stale, phase, release, may, due>>

Raise(p) ==
    /\ Starting(p) /\ dir
    /\ at < release[p]
    /\ at' = at + 1
    /\ UNCHANGED <<dir, stale, phase, release, may, due>>

\* A file is stale no more: the sweep of a start takes it, or the process whose
\* upload it is ends the upload or goes on with it.
Settle(p, f) ==
    /\ Starting(p) \/ phase[p] = "up"
    /\ dir
    /\ stale' = stale \ {f}
    /\ due' = [q \in Procs |-> due[q] \ {f}]
    /\ UNCHANGED <<dir, at, phase, release, may>>

ComeUp(p) ==
    /\ Starting(p)
    /\ at >= release[p] /\ due[p] = {}
    /\ phase' = [phase EXCEPT ![p] = "up"]
    /\ UNCHANGED <<dir, at, stale, release, may, due>>

GoDown(p) ==
    /\ phase[p] # "down"
    /\ phase' = [phase EXCEPT ![p] = "down"]
    /\ release' = [release EXCEPT ![p] = 0]
    /\ may' = [may EXCEPT ![p] = FALSE]
    /\ due' = [due EXCEPT ![p] = {}]
    /\ UNCHANGED <<dir, at, stale>>

GrowStale(f) ==
    /\ stale' = stale \cup {f}
    /\ UNCHANGED <<dir, at, phase, release, may, due>>

Next ==
    \/ \E p \in Procs :
         \/ \E r \in Releases, m \in BOOLEAN : Launch(p, r, m)
         \/ MakeDir(p) \/ Raise(p) \/ ComeUp(p) \/ GoDown(p)
         \/ \E f \in Names : Settle(p, f)
    \/ \E f \in Names : GrowStale(f)

Spec == Init /\ [][Next]_vars
=============================================================================
