---------------------------- MODULE MCSubmission ----------------------------
(* Small instances of Submission for TLC.                                  *)
EXTENDS Submission, TLC

CONSTANTS r1, r2, p1, p2, j1, j2, j3, k1, d1, d2, ta, tb

File(path, sha, size) == [path |-> path, sha |-> sha, size |-> size]

\* "flow": two files, one shared blob; "one": a single file; "lying": a wrong
\* size; "bad": a manifest, pipeline or selection that is rejected.
MCSize == (d1 :> 1) @@ (d2 :> 2)
MCFiles == [flow |-> {File("a.v", d1, 1), File("b.v", d2, 2), File("tb.v", d1, 1)},
            one |-> {File("a.v", d1, 1)},
            lying |-> {File("a.v", d1, 2)},
            bad |-> {}]
MCTasks == [flow |-> {"compile", "simulate"}, one |-> {"lint"}, lying |-> {"lint"},
            bad |-> Absent]
MCDeps == [flow |-> {<<"simulate", "compile">>}, one |-> {}, lying |-> {}, bad |-> {}]
MCPin == [flow |-> ta, one |-> Absent, lying |-> ta, bad |-> ta]
\* Narrow takes longer to kill than "flow" has for a stage.
Roomy == [toolchain |-> ta, timed |-> Works, fileCap |-> 2, jobCap |-> 4]
Tight == [toolchain |-> Absent, timed |-> Works, fileCap |-> 2, jobCap |-> 3]
Narrow == [toolchain |-> ta, timed |-> Works \ {"flow"}, fileCap |-> 1, jobCap |-> 4]
MCConfigs == {Roomy, Tight, Narrow}
MCRoomy == {Roomy}
MCSnug == {[toolchain |-> ta, timed |-> Works, fileCap |-> 1, jobCap |-> 1]}

Symmetry == Permutations({r1, r2}) \cup Permutations({p1, p2})
            \cup Permutations({j1, j2, j3})
=============================================================================
