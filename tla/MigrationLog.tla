---------------------------- MODULE MigrationLog ----------------------------
(***************************************************************************)
(* What migrations promise: the database only ever goes from one version   *)
(* to the next, each change of the next script taking effect exactly once  *)
(* and all of them at once; a process that is up finds at least the        *)
(* versions of its release. Migrate implements this specification.         *)
(***************************************************************************)
EXTENDS Integers

CONSTANTS Procs, Releases,
          Last,       \* the newest version there is
          Changes     \* Changes[v]: the changes script v makes

VARIABLES effects,    \* how often each change has taken effect
          version,    \* the database's version
          up          \* the processes that are up, with their release

vars == <<effects, version, up>>

Applied(v) == [c \in UNION {Changes[u] : u \in 1..Last} |->
                  IF \E u \in 1..v : c \in Changes[u] THEN 1 ELSE 0]

Init == version = 0 /\ effects = Applied(0) /\ up = {}

Migrate == /\ version < Last
           /\ version' = version + 1
           /\ effects' = Applied(version + 1)
           /\ UNCHANGED up

Up(p, n) == /\ n <= version
            /\ up' = up \cup {<<p, n>>}
            /\ UNCHANGED <<effects, version>>

Down(p) == /\ up' = {u \in up : u[1] # p}
           /\ UNCHANGED <<effects, version>>

Next == \/ Migrate
        \/ \E p \in Procs : Down(p) \/ \E n \in Releases : Up(p, n)

Spec == Init /\ [][Next]_vars
=============================================================================
