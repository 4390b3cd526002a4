----------------------------- MODULE Expansion -----------------------------
(***************************************************************************)
(* A submission's pipeline is checked, its targets are selected, and its   *)
(* task graph is built. The cycle search is the depth-first search of      *)
(* _has_cycle, one call of visit at a time; expand takes one stage at a    *)
(* time. One submission is expanded at once: the handler does not yield    *)
(* before it has the job.                                                  *)
(*                                                                         *)
(* A stage is its place in the file, and a name that no stage has is a     *)
(* larger number. What the checks say of single entries (reserved          *)
(* plusargs, roles without files, and so on) is the field "flawed".        *)
(***************************************************************************)
EXTENDS Integers, Sequences, Functions

CONSTANTS Pipelines, Selections, Names, Tags,
          Whole,       \* "_", the target of a whole-design task
          Nothing

Stage == [per_target : BOOLEAN, fan_out : BOOLEAN, deps : Seq(Nat \ {0})]
Target == [name : Names, seeds : Seq(Nat \ {0}), tags : SUBSET Tags]
Pipeline == [stages : Seq(Stage), targets : Seq(Target), flawed : BOOLEAN]
\* No cap and no pinned seed is 0: the request model admits neither.
Selection == [tags : SUBSET Tags, targets : SUBSET Names, seeds : Nat, seed : Nat]

ASSUME ConstantsAssumption ==
    /\ Pipelines \subseteq Pipeline
    /\ Selections \subseteq Selection
    /\ Whole \in Names

\* What a task is called by others.
TaskId == Nat \X Names \X Nat
Task == [stage : Nat \ {0}, at : Nat \X Nat, target : Names, seed : Nat,
         depends_on : SUBSET TaskId]

\* Nothing is no submission, and not what comes of one.
ASSUME NothingAssumption ==
    /\ Nothing \notin Pipelines \cup (Pipelines \X Selections)
    /\ Nothing \notin Seq(SUBSET ([stage : Nat, at : Nat \X Nat, target : Names, seed : Nat]
                                   \X SUBSET TaskId))

VARIABLES
    pc,            \* where the handler is
    pipeline, selection,
    stack,         \* calls of visit: the stage, and which dependency is next
    done,          \* stages visited
    issues,        \* what is wrong with the submission
    kept,          \* targets selected, each with the seeds it runs
    expanded,      \* stages whose tasks exist
    tasks

vars == <<pc, pipeline, selection, stack, done, issues, kept, expanded, tasks>>

NoTargets == [i \in {} |-> <<>>]
Init ==
    /\ pc = "idle" /\ pipeline = Nothing /\ selection = Nothing
    /\ stack = <<>> /\ done = {} /\ issues = {}
    /\ kept = NoTargets /\ expanded = {} /\ tasks = {}

Stages == DOMAIN pipeline.stages
Deps(s) == Range(pipeline.stages[s].deps)

\* The outermost loop of the search, over all stages, is the call for stage 0.
Submit(p, sel) ==
    /\ pc = "idle" /\ pc' = "visit"
    /\ pipeline' = p /\ selection' = sel
    /\ stack' = << [stage |-> 0, next |-> 1] >>
    /\ UNCHANGED <<done, issues, kept, expanded, tasks>>

-----------------------------------------------------------------------------
(* parse_pipeline *)

Targeted(stage) == stage.fan_out \/ stage.per_target

\* The rules about entries that must fit together, cycles excepted.
\* Mutant: a repeated seed is not noticed.
WellFormedSeedless(p) ==
    /\ ~p.flawed
    /\ IsInjective([i \in DOMAIN p.targets |-> p.targets[i].name])
    /\ \A s \in DOMAIN p.stages : LET stage == p.stages[s] IN
          /\ ~(stage.per_target /\ stage.fan_out)
          /\ ~(Targeted(stage) /\ p.targets = <<>>)
          /\ \A i \in DOMAIN stage.deps :
                /\ stage.deps[i] \in DOMAIN p.stages
                /\ \A j \in 1..(i - 1) : stage.deps[i] # stage.deps[j]
WellFormed(p) ==
    /\ ~p.flawed
    /\ IsInjective([i \in DOMAIN p.targets |-> p.targets[i].name])
    /\ \A i \in DOMAIN p.targets : IsInjective(p.targets[i].seeds)
    /\ \A s \in DOMAIN p.stages : LET stage == p.stages[s] IN
          /\ ~(stage.per_target /\ stage.fan_out)
          /\ ~(Targeted(stage) /\ p.targets = <<>>)
          /\ \A i \in DOMAIN stage.deps :
                /\ stage.deps[i] \in DOMAIN p.stages
                /\ \A j \in 1..(i - 1) : stage.deps[i] # stage.deps[j]

Top == stack[Len(stack)]
Calls(s) == IF s = 0 THEN [i \in Stages |-> i] ELSE pipeline.stages[s].deps
Exhausted == Top.next > Len(Calls(Top.stage))

\* Mutant: names stay on the path when their visit returns.
OnPathForever(c) == c \in done \/ \E k \in 2..Len(stack) : stack[k].stage = c
OnPath(c) == \E k \in 2..Len(stack) : stack[k].stage = c

\* All issues found are reported at once.
Judge(found) ==
    /\ issues' = found \cup IF WellFormed(pipeline) THEN {} ELSE {"flaw"}
    /\ pc' = IF issues' = {} THEN "select" ELSE "refused"
    /\ stack' = <<>>

\* A cycle ends the search: each caller in turn returns that it was found.
Visit ==
    /\ pc = "visit" /\ ~Exhausted
    /\ LET c == Calls(Top.stage)[Top.next]
           proceeded == [stack EXCEPT ![Len(stack)].next = @ + 1]
       IN  \/ OnPath(c) /\ Judge({"cycle"})
           \/ /\ ~OnPath(c) /\ (c \in done \/ c \notin Stages)
              /\ stack' = proceeded
              /\ UNCHANGED <<pc, issues>>
           \/ /\ ~OnPath(c) /\ c \notin done /\ c \in Stages
              /\ stack' = Append(proceeded, [stage |-> c, next |-> 1])
              /\ UNCHANGED <<pc, issues>>
    /\ UNCHANGED <<pipeline, selection, done, kept, expanded, tasks>>

\* Mutant: the outermost loop counts as a stage.
ReturnAny ==
    /\ pc = "visit" /\ Exhausted /\ stack # <<>>
    /\ done' = done \cup {Top.stage}
    /\ IF Len(stack) > 1
       THEN stack' = SubSeq(stack, 1, Len(stack) - 1) /\ UNCHANGED <<pc, issues>>
       ELSE Judge({})
    /\ UNCHANGED <<pipeline, selection, kept, expanded, tasks>>
Return ==
    /\ pc = "visit" /\ Exhausted
    /\ IF Len(stack) > 1
       THEN /\ done' = done \cup {Top.stage}
            /\ stack' = SubSeq(stack, 1, Len(stack) - 1)
            /\ UNCHANGED <<pc, issues>>
       ELSE Judge({}) /\ UNCHANGED done
    /\ UNCHANGED <<pipeline, selection, kept, expanded, tasks>>

-----------------------------------------------------------------------------
(* expand *)

Picked(t) == /\ selection.targets = {} \/ t.name \in selection.targets
             /\ selection.tags = {} \/ selection.tags \cap t.tags # {}

SeedsOf(t) ==
    IF selection.seed # 0 THEN <<selection.seed>>
    ELSE IF selection.seeds \in 1..Len(t.seeds) THEN SubSeq(t.seeds, 1, selection.seeds)
    ELSE t.seeds

\* select_targets, and the look at what is left.
Select ==
    /\ pc = "select"
    /\ LET targets == pipeline.targets
           chosen == {i \in DOMAIN targets : Picked(targets[i])}
       IN  IF \/ \E name \in selection.targets : \A i \in DOMAIN targets : targets[i].name # name
              \/ chosen = {} /\ \E s \in Stages : Targeted(pipeline.stages[s])
           THEN pc' = "refused" /\ issues' = {"selection"} /\ UNCHANGED kept
           ELSE /\ pc' = "expand" /\ UNCHANGED issues
                /\ kept' = [i \in chosen |-> SeedsOf(targets[i])]
    /\ UNCHANGED <<pipeline, selection, stack, done, expanded, tasks>>

\* _instances: places in the list of targets kept and in its seeds, or 0.
Instances(s) ==
    LET stage == pipeline.stages[s]
    IN  IF stage.fan_out THEN UNION {{<<i, k>> : k \in DOMAIN kept[i]} : i \in DOMAIN kept}
        ELSE IF stage.per_target THEN {<<i, 0>> : i \in DOMAIN kept}
        ELSE {<<0, 0>>}

TargetName(i) == IF i = 0 THEN Whole ELSE pipeline.targets[i].name
Id(t) == <<t.stage, t.target, t.seed>>

\* _dependencies on one stage.
\* Mutant: a stage without a task for the target is not waited for.
UpstreamOwn(u, i) ==
    {t \in tasks : t.stage = u /\ (i # 0 => t.target = TargetName(i))}
Upstream(u, i) ==
    LET candidates == {t \in tasks : t.stage = u}
        same == {t \in candidates : t.target = TargetName(i)}
    IN  IF i # 0 /\ same # {} THEN same ELSE candidates

TaskSpec(s, at) ==
    [stage |-> s, at |-> at, target |-> TargetName(at[1]),
     seed |-> IF at[2] = 0 THEN 0 ELSE kept[at[1]][at[2]],
     depends_on |-> {Id(t) : t \in UNION {Upstream(u, at[1]) : u \in Deps(s)}}]

Remaining == Stages \ expanded
Ready == {s \in Remaining : Deps(s) \subseteq expanded}

\* The next stage of _stage_order: the first in the file that is ready. (The
\* code orders them all before it takes the first one, which reads no tasks.)
\* When none is, next() raises StopIteration.
ExpandStage ==
    /\ pc = "expand" /\ Remaining # {}
    /\ IF Ready = {}
       THEN pc' = "failed" /\ UNCHANGED <<expanded, tasks>>
       ELSE \E s \in Ready :
          /\ \A r \in Ready : s <= r
          /\ tasks' = tasks \cup {TaskSpec(s, at) : at \in Instances(s)}
          /\ expanded' = expanded \cup {s}
          /\ UNCHANGED pc
    /\ UNCHANGED <<pipeline, selection, stack, done, issues, kept>>

Finish ==
    /\ pc = "expand" /\ Remaining = {}
    /\ pc' = "expanded"
    /\ UNCHANGED <<pipeline, selection, stack, done, issues, kept, expanded, tasks>>

\* The job, or the error, leaves; the next submission starts from nothing.
Leave ==
    /\ pc \in {"refused", "failed", "expanded"}
    /\ pc' = "idle" /\ pipeline' = Nothing /\ selection' = Nothing
    /\ stack' = <<>> /\ done' = {} /\ issues' = {}
    /\ kept' = NoTargets /\ expanded' = {} /\ tasks' = {}

-----------------------------------------------------------------------------
Run == Visit \/ Return \/ Select \/ ExpandStage \/ Finish \/ Leave
Next == Run \/ \E p \in Pipelines, sel \in Selections : Submit(p, sel)

Spec == Init /\ [][Next]_vars
-----------------------------------------------------------------------------
(* Properties *)

Call == [stage : Nat, next : Nat \ {0}]

TypeOK ==
    /\ pc \in {"idle", "visit", "select", "expand", "refused", "failed", "expanded"}
    /\ IF pc = "idle" THEN pipeline = Nothing /\ selection = Nothing
                      ELSE pipeline \in Pipelines /\ selection \in Selections
    /\ stack \in Seq(Call)
    /\ done \subseteq Nat \ {0}
    /\ issues \subseteq {"flaw", "cycle", "selection"}
    /\ \A i \in DOMAIN kept : i \in Nat \ {0} /\ kept[i] \in Seq(Nat \ {0})
    /\ expanded \subseteq Nat \ {0}
    /\ tasks \subseteq Task

\* Stages that each depend on another one of them can never be put in order.
Cyclic == \E C \in SUBSET Stages : C # {} /\ \A s \in C : \E d \in C : d \in Deps(s)

\* "depends_on forms a cycle" is reported exactly for the pipelines with one:
\* neither does a stage reached twice count as one, nor does the search, which
\* visits each stage once, overlook one behind a stage already visited.
CycleVerdict ==
    /\ pc = "refused" => ("cycle" \in issues => Cyclic) /\ (issues = {"flaw"} => ~Cyclic)
    /\ pc \in {"select", "expand", "failed", "expanded"} => ~Cyclic

\* What the checks let through can be put in order: the call of next() in
\* _stage_order, which has no default, always finds a stage.
NeverStuck == pc # "failed"

\* Task ids, built from stage, target and seed alone, name one task each:
\* they are the primary key of the rows the job becomes.
IdsAreUnique == \A t, u \in tasks : Id(t) = Id(u) => t.at = u.at

\* Expansion implements the promise of JobGraph.
Bare(t) == [stage |-> t.stage, at |-> t.at, target |-> t.target, seed |-> t.seed]
Promise == INSTANCE JobGraph WITH
    request <- IF pc = "idle" THEN Nothing ELSE <<pipeline, selection>>,
    answer <- CASE pc = "expanded" -> << {<<Bare(t), t.depends_on>> : t \in tasks} >>
                [] pc = "refused" -> <<>>
                [] pc = "failed" -> <<"failed">>
                [] OTHER -> Nothing

KeepsPromise == Promise!Spec
=============================================================================
