----------------------------- MODULE MCReading -----------------------------
(* Small instances of Reading for TLC.                                     *)
EXTENDS Reading, TLC

CONSTANTS p1, p2, r1, r2, d1, ta

\* One design of two tasks, one of which waits for the other.
MCSize == d1 :> 1
MCFiles == [flow |-> {[path |-> "a.v", sha |-> d1, size |-> 1]}]
MCTasks == [flow |-> {"compile", "simulate"}]
MCDeps == [flow |-> {<<"simulate", "compile">>}]
MCPin == [flow |-> ta]
MCConfigs == {[toolchain |-> ta, timed |-> Works, fileCap |-> 1, jobCap |-> 1]}

Symmetry == Permutations({p1, p2}) \cup Permutations({r1, r2})
=============================================================================
