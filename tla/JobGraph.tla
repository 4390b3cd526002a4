------------------------------ MODULE JobGraph ------------------------------
(***************************************************************************)
(* What expansion promises for each submission: it is refused when its     *)
(* pipeline is not legal or its selection leaves no target to a stage that *)
(* needs one; otherwise the answer is the task graph the pipeline          *)
(* declares. The graph is stated in closed form, without an order in which *)
(* to find it. Expansion implements this specification.                    *)
(***************************************************************************)
EXTENDS Integers, Sequences, Functions

CONSTANTS Pipelines, Selections,
          Whole,       \* the target of a whole-design task
          Nothing

VARIABLES request, answer

vars == <<request, answer>>

Targeted(stage) == stage.fan_out \/ stage.per_target

\* Stages that each need another one of them can never run.
Cyclic(p) == \E C \in SUBSET DOMAIN p.stages :
    C # {} /\ \A s \in C : \E d \in C : d \in Range(p.stages[s].deps)

Legal(p) ==
    /\ ~p.flawed /\ ~Cyclic(p)
    /\ \A i, j \in DOMAIN p.targets : p.targets[i].name = p.targets[j].name => i = j
    /\ \A t \in Range(p.targets) : IsInjective(t.seeds)
    /\ \A s \in Range(p.stages) :
          /\ IsInjective(s.deps) /\ Range(s.deps) \subseteq DOMAIN p.stages
          /\ ~(s.fan_out /\ s.per_target)
          /\ Targeted(s) => p.targets # <<>>

Chosen(p, sel) == {i \in DOMAIN p.targets :
    /\ sel.targets # {} => p.targets[i].name \in sel.targets
    /\ sel.tags # {} => \E tag \in sel.tags : tag \in p.targets[i].tags}

Granted(p, sel) ==
    /\ sel.targets \subseteq {t.name : t \in Range(p.targets)}
    /\ (\E s \in Range(p.stages) : Targeted(s)) => Chosen(p, sel) # {}

\* The seeds a chosen target runs, by their place in its list. A pinned seed
\* (0 when none is) stands for the whole list, a cap (likewise) cuts it short.
Runs(t, sel) ==
    IF sel.seed # 0 THEN {<<1, sel.seed>>}
    ELSE {<<k, t.seeds[k]>> : k \in {k \in DOMAIN t.seeds : sel.seeds = 0 \/ k <= sel.seeds}}

\* One task for the design, for each target, or for each target and seed.
Instances(p, sel, s) ==
    LET stage == p.stages[s]
    IN  IF stage.fan_out
        THEN UNION {{[stage |-> s, at |-> <<i, run[1]>>, target |-> p.targets[i].name, seed |-> run[2]] :
                        run \in Runs(p.targets[i], sel)} : i \in Chosen(p, sel)}
        ELSE IF stage.per_target
        THEN {[stage |-> s, at |-> <<i, 0>>, target |-> p.targets[i].name, seed |-> 0] :
                 i \in Chosen(p, sel)}
        ELSE {[stage |-> s, at |-> <<0, 0>>, target |-> Whole, seed |-> 0]}

Name(t) == <<t.stage, t.target, t.seed>>

\* A task needs the tasks for its own target of every stage its stage depends
\* on, and all the tasks of one that has none for it.
Needs(p, sel, t) == UNION {
    LET all == Instances(p, sel, u)
        own == {x \in all : x.target = t.target}
    IN  {Name(x) : x \in IF t.at[1] # 0 /\ own # {} THEN own ELSE all}
    : u \in Range(p.stages[t.stage].deps)}

Graph(p, sel) == {<<t, Needs(p, sel, t)>> :
                     t \in UNION {Instances(p, sel, s) : s \in DOMAIN p.stages}}

Outcome(r) == IF Legal(r[1]) /\ Granted(r[1], r[2]) THEN <<Graph(r[1], r[2])>> ELSE <<>>

Init == request = Nothing /\ answer = Nothing

Ask == /\ request = Nothing
       /\ request' \in Pipelines \X Selections
       /\ UNCHANGED answer
Answer == /\ request # Nothing /\ answer = Nothing
          /\ answer' = Outcome(request) /\ UNCHANGED request
Forget == answer # Nothing /\ request' = Nothing /\ answer' = Nothing

Next == Ask \/ Answer \/ Forget

Spec == Init /\ [][Next]_vars
=============================================================================
