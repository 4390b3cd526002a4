--------------------------- MODULE MCControlPlane ---------------------------
(* Small instances of ControlPlane for TLC.                                *)
EXTENDS ControlPlane, TLC

CONSTANTS Client, Worker

Config(loads, timed, loopback, insecure, client, worker) ==
    [loads |-> loads, timed |-> timed, loopback |-> loopback, insecure |-> insecure,
     client |-> client, worker |-> worker]

\* One token set; none on loopback; and three that must not run: none
\* elsewhere, bad timing, and what does not load.
MCConfigs ==
    {Config(TRUE, TRUE, FALSE, FALSE, Absent, Worker),
     Config(TRUE, TRUE, TRUE, FALSE, Absent, Absent),
     Config(TRUE, TRUE, FALSE, FALSE, Absent, Absent),
     Config(TRUE, FALSE, TRUE, FALSE, Absent, Absent),
     Config(FALSE, TRUE, TRUE, FALSE, Absent, Absent)}

Symmetry == Permutations(Procs)
=============================================================================
