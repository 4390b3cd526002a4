-------------------------- MODULE ExpansionProofs --------------------------
(***************************************************************************)
(* Proofs about Expansion for pipelines of any size.                       *)
(***************************************************************************)
EXTENDS Expansion, TLAPS

\* The stack of the search is a chain of calls: below every call but the
\* outermost is the one whose last call it is, and no stage is on it twice.
Chain ==
    /\ stack # <<>> /\ stack[1].stage = 0
    /\ \A k \in 1..Len(stack) : stack[k].next \in 1..(Len(Calls(stack[k].stage)) + 1)
    /\ \A k \in 2..Len(stack) :
          /\ stack[k].stage \in Stages \ done
          /\ stack[k - 1].next > 1
          /\ stack[k].stage = Calls(stack[k - 1].stage)[stack[k - 1].next - 1]
    /\ \A j, k \in 2..Len(stack) : stack[j].stage = stack[k].stage => j = k

\* What a call has called is visited, names no stage, or is under way above it.
Passed == \A k \in 1..Len(stack) : \A i \in 1..(stack[k].next - 1) :
    LET c == Calls(stack[k].stage)[i]
    IN  c \in done \/ c \notin Stages \/ (k < Len(stack) /\ i = stack[k].next - 1)

\* Stages visited lead to such only, and no set of them is a cycle.
Sound ==
    /\ done \subseteq Stages
    /\ \A s \in done : Deps(s) \cap Stages \subseteq done
    /\ \A C \in SUBSET done : C # {} => \E s \in C : \A d \in C : d \notin Deps(s)

Searching == pc = "visit" => Chain /\ Passed /\ Sound /\ issues = {}
Checked == pc \in {"select", "expand", "expanded"} => WellFormed(pipeline)
Kept == pc \in {"expand", "expanded"} =>
    /\ DOMAIN kept \subseteq DOMAIN pipeline.targets
    /\ \A i \in DOMAIN kept : IsInjective(kept[i])
    /\ expanded \subseteq Stages
Built == \A t \in tasks :
    /\ pc \in {"expand", "expanded"} /\ t.stage \in Stages /\ t.at \in Instances(t.stage)
    /\ t.target = TargetName(t.at[1])
    /\ t.seed = IF t.at[2] = 0 THEN 0 ELSE kept[t.at[1]][t.at[2]]
Fresh == /\ pc \in {"idle", "visit"} => issues = {}
         /\ pc = "idle" => stack = <<>> /\ done = {}
         /\ pc \in {"idle", "visit", "select", "refused"} => tasks = {} /\ expanded = {}

IInv == /\ TypeOK /\ Searching /\ Checked /\ Kept /\ Built /\ Fresh
        /\ CycleVerdict /\ NeverStuck
-----------------------------------------------------------------------------
(* Facts about the data *)

\* What a pipeline is made of.
LEMMA PipelineData ==
  ASSUME NEW p \in Pipelines
  PROVE  /\ Len(p.stages) \in Nat /\ DOMAIN p.stages = 1..Len(p.stages)
         /\ \A s \in DOMAIN p.stages : /\ s \in Nat \ {0}
                                       /\ p.stages[s] \in Stage
                                       /\ p.stages[s].deps \in Seq(Nat \ {0})
         /\ Len(p.targets) \in Nat /\ DOMAIN p.targets = 1..Len(p.targets)
         /\ \A i \in DOMAIN p.targets : /\ i \in Nat \ {0}
                                        /\ p.targets[i].name \in Names
                                        /\ p.targets[i].seeds \in Seq(Nat \ {0})
<1>1. /\ p.stages \in Seq(Stage) /\ p.targets \in Seq(Target)
  BY ConstantsAssumption DEF Pipeline
<1>2. /\ Len(p.stages) \in Nat /\ DOMAIN p.stages = 1..Len(p.stages)
      /\ \A s \in DOMAIN p.stages : s \in Nat \ {0} /\ p.stages[s] \in Stage
  BY <1>1
<1>3. \A stage \in Stage : stage.deps \in Seq(Nat \ {0})
  BY DEF Stage
<1>4. /\ Len(p.targets) \in Nat /\ DOMAIN p.targets = 1..Len(p.targets)
      /\ \A i \in DOMAIN p.targets : i \in Nat \ {0} /\ p.targets[i] \in Target
  BY <1>1
<1>5. \A t \in Target : t.name \in Names /\ t.seeds \in Seq(Nat \ {0})
  BY DEF Target
<1> QED BY <1>2, <1>3, <1>4, <1>5

\* The stack of calls: a call that has made its next call, and a call made.
LEMMA StackData ==
  ASSUME NEW s \in Seq(Call)
  PROVE  /\ Len(s) \in Nat /\ DOMAIN s = 1..Len(s)
         /\ \A k \in 1..Len(s) : s[k] \in Call /\ s[k].stage \in Nat /\ s[k].next \in Nat \ {0}
<1>1. /\ Len(s) \in Nat /\ DOMAIN s = 1..Len(s)
      /\ \A k \in 1..Len(s) : s[k] \in Call
  OBVIOUS
<1>2. \A f \in Call : f.stage \in Nat /\ f.next \in Nat \ {0}
  BY DEF Call
<1> QED BY <1>1, <1>2

LEMMA ProceedData ==
  ASSUME NEW s \in Seq(Call), Len(s) # 0,
         NEW t, t = [s EXCEPT ![Len(s)].next = @ + 1]
  PROVE  /\ t \in Seq(Call) /\ Len(t) = Len(s)
         /\ t[Len(s)].next = s[Len(s)].next + 1
         /\ \A k \in 1..Len(s) : t[k].stage = s[k].stage /\ (k # Len(s) => t[k] = s[k])
<1>1. Len(s) \in 1..Len(s)
  OBVIOUS
<1>2. /\ s[Len(s)] \in Call /\ s[Len(s)].next + 1 \in Nat \ {0}
  BY <1>1, StackData
<1>3. [s[Len(s)] EXCEPT !.next = @ + 1] \in Call
  BY <1>2 DEF Call
<1>4. t = [s EXCEPT ![Len(s)] = [s[Len(s)] EXCEPT !.next = @ + 1]]
  BY <1>1
<1>5. t \in Seq(Call) /\ Len(t) = Len(s)
  BY <1>1, <1>3, <1>4
<1>6. t[Len(s)] = [s[Len(s)] EXCEPT !.next = @ + 1]
  BY <1>1, <1>4
<1>7. t[Len(s)].next = s[Len(s)].next + 1 /\ t[Len(s)].stage = s[Len(s)].stage
  BY <1>2, <1>6 DEF Call
<1>8. \A k \in 1..Len(s) : k # Len(s) => t[k] = s[k]
  BY <1>1, <1>4
<1> QED BY <1>5, <1>7, <1>8

LEMMA PushData ==
  ASSUME NEW s \in Seq(Call), NEW c \in Nat,
         NEW t, t = Append(s, [stage |-> c, next |-> 1])
  PROVE  /\ t \in Seq(Call) /\ Len(t) = Len(s) + 1
         /\ t[Len(s) + 1].stage = c /\ t[Len(s) + 1].next = 1
         /\ \A k \in 1..Len(s) : t[k] = s[k]
<1>1. [stage |-> c, next |-> 1] \in Call
  BY DEF Call
<1>2. /\ t \in Seq(Call) /\ Len(t) = Len(s) + 1
      /\ t[Len(s) + 1] = [stage |-> c, next |-> 1]
      /\ \A k \in 1..Len(s) : t[k] = s[k]
  BY <1>1
<1> QED BY <1>2

\* What a call of the search calls.
LEMMA CallsData ==
  ASSUME pipeline \in Pipelines
  PROVE  /\ 0 \notin Stages
         /\ \A s \in Stages \cup {0} : /\ Len(Calls(s)) \in Nat
                                       /\ DOMAIN Calls(s) = 1..Len(Calls(s))
                                       /\ \A i \in DOMAIN Calls(s) : Calls(s)[i] \in Nat \ {0}
         /\ \A s \in Stages : \A i \in DOMAIN Calls(s) : Calls(s)[i] \in Deps(s)
         /\ \A s \in Stages : \A d \in Deps(s) : \E i \in DOMAIN Calls(s) : Calls(s)[i] = d
         /\ DOMAIN Calls(0) = Stages /\ \A i \in Stages : Calls(0)[i] = i
<1>1. /\ Len(pipeline.stages) \in Nat /\ Stages = 1..Len(pipeline.stages)
      /\ \A s \in Stages : s \in Nat \ {0} /\ pipeline.stages[s].deps \in Seq(Nat \ {0})
  BY PipelineData DEF Stages
<1>2. Calls(0) = [i \in 1..Len(pipeline.stages) |-> i]
  BY <1>1 DEF Calls
<1>3. Calls(0) \in Seq(Nat \ {0}) /\ Len(Calls(0)) = Len(pipeline.stages)
  <2>1. \A i \in 1..Len(pipeline.stages) : i \in Nat \ {0}
    BY <1>1
  <2>2. Calls(0) \in [1..Len(pipeline.stages) -> Nat \ {0}]
    BY <1>2, <2>1
  <2> QED BY <1>1, <2>2, SMTT(60)
<1>4. \A s \in Stages : Calls(s) = pipeline.stages[s].deps
  BY <1>1 DEF Calls
<1>5. \A s \in Stages \cup {0} : Calls(s) \in Seq(Nat \ {0})
  BY <1>1, <1>3, <1>4
<1>6. \A s \in Stages : \A d : d \in Deps(s) <=> \E i \in DOMAIN Calls(s) : Calls(s)[i] = d
  BY <1>4 DEF Deps, Range
<1> QED BY <1>1, <1>2, <1>3, <1>5, <1>6

\* Any part of a list without repetition is without repetition.
LEMMA SeedsData ==
  ASSUME TypeOK, selection \in Selections, NEW t \in Target, IsInjective(t.seeds)
  PROVE  SeedsOf(t) \in Seq(Nat \ {0}) /\ IsInjective(SeedsOf(t))
<1>1. selection.seed \in Nat /\ selection.seeds \in Nat
  BY ConstantsAssumption DEF Selection
<1>2. t.seeds \in Seq(Nat \ {0}) /\ Len(t.seeds) \in Nat
  BY DEF Target
<1>3. CASE selection.seed # 0
  BY <1>1, <1>3 DEF SeedsOf, IsInjective
<1>4. CASE selection.seed = 0 /\ selection.seeds \in 1..Len(t.seeds)
  <2>1. SeedsOf(t) = SubSeq(t.seeds, 1, selection.seeds)
    BY <1>4 DEF SeedsOf
  <2>2. /\ SeedsOf(t) \in Seq(Nat \ {0}) /\ DOMAIN SeedsOf(t) = 1..selection.seeds
        /\ \A i \in 1..selection.seeds : SeedsOf(t)[i] = t.seeds[i]
    BY <1>1, <1>2, <1>4, <2>1
  <2>3. 1..selection.seeds \subseteq DOMAIN t.seeds
    BY <1>1, <1>2, <1>4
  <2> QED BY <2>2, <2>3 DEF IsInjective
<1>5. CASE selection.seed = 0 /\ selection.seeds \notin 1..Len(t.seeds)
  BY <1>2, <1>5 DEF SeedsOf
<1> QED BY <1>3, <1>4, <1>5
-----------------------------------------------------------------------------
(* Proof that IInv is inductive: one lemma per action. *)

LEMMA InitIInv == Init => IInv
BY DEF Init, IInv, TypeOK, Searching, Checked, Kept, Built, Fresh, CycleVerdict, NeverStuck, NoTargets

LEMMA SubmitStep ==
  ASSUME IInv, NEW p \in Pipelines, NEW sel \in Selections, Submit(p, sel)
  PROVE  IInv'
<1> USE DEF IInv, Submit
<1>1. stack' = << [stage |-> 0, next |-> 1] >> /\ done' = {}
  BY DEF Fresh
<1>2. TypeOK'
  <2>1. [stage |-> 0, next |-> 1] \in Call
    BY DEF Call
  <2> QED BY <1>1, <2>1 DEF TypeOK
<1>3. Len(Calls(0)') \in Nat
  <2>1. pipeline' = p /\ p \in Pipelines
    OBVIOUS
  <2>2. Calls(0)' = [i \in 1..Len(p.stages) |-> i]
    BY <2>1, PipelineData DEF Calls, Stages
  <2> QED BY <2>2, PipelineData
<1>4. Searching'
  <2>1. Chain'
    BY <1>1, <1>3 DEF Chain, Calls
  <2>2. Passed' /\ Sound' /\ issues' = {}
    BY <1>1 DEF Passed, Sound, Fresh
  <2> QED BY <2>1, <2>2 DEF Searching
<1> QED BY <1>2, <1>4 DEF Checked, Kept, Built, Fresh, CycleVerdict, NeverStuck

LEMMA VisitStep ==
  ASSUME IInv, Visit
  PROVE  IInv'
<1> DEFINE n == Len(stack)
           c == Calls(Top.stage)[Top.next]
           proceeded == [stack EXCEPT ![n].next = @ + 1]
<1>1. /\ pc = "visit" /\ Chain /\ Passed /\ Sound /\ issues = {}
      /\ pipeline \in Pipelines /\ tasks = {} /\ expanded = {}
  BY DEF IInv, TypeOK, Visit, Searching, Fresh
<1>2. /\ stack \in Seq(Call) /\ n \in Nat \ {0} /\ n = Len(stack)
      /\ \A k \in 1..n : stack[k].next \in Nat \ {0} /\ stack[k].stage \in Nat
  BY <1>1, StackData DEF IInv, TypeOK, Chain
<1>3. Top = stack[n] /\ n \in 1..n
  BY <1>2 DEF Top
<1>4. /\ Top.stage \in Stages \cup {0} /\ Top.next \in DOMAIN Calls(Top.stage)
      /\ c \in Nat \ {0} /\ c = Calls(Top.stage)[Top.next]
  <2>1. Top.stage \in Stages \cup {0}
    BY <1>1, <1>2, <1>3 DEF Chain
  <2>2. Top.next \in Nat \ {0} /\ Top.next <= Len(Calls(Top.stage))
    BY <1>1, <1>2, <1>3, <2>1, CallsData DEF Visit, Exhausted
  <2> QED BY <1>1, <2>1, <2>2, CallsData
<1>5. /\ UNCHANGED <<pipeline, selection, done, kept, expanded, tasks>>
      /\ Stages' = Stages /\ \A s : Calls(s)' = Calls(s) /\ Deps(s)' = Deps(s)
  BY DEF Visit, Stages, Calls, Deps
<1>6. /\ proceeded \in Seq(Call) /\ Len(proceeded) = n
      /\ proceeded[n].next = stack[n].next + 1
      /\ \A k \in 1..n : /\ proceeded[k].stage = stack[k].stage
                         /\ k # n => proceeded[k] = stack[k]
  BY <1>2, ProceedData
<1>7. \A k \in 1..n : /\ proceeded[k].next \in 1..(Len(Calls(stack[k].stage)) + 1)
                      /\ proceeded[k].next \in Nat
                      /\ k # n => proceeded[k].next = stack[k].next
  BY <1>1, <1>2, <1>3, <1>4, <1>6, CallsData DEF Chain
<1>8. \/ OnPath(c) /\ Judge({"cycle"})
      \/ ~OnPath(c) /\ (c \in done \/ c \notin Stages) /\ stack' = proceeded /\ UNCHANGED <<pc, issues>>
      \/ /\ ~OnPath(c) /\ c \notin done /\ c \in Stages
         /\ stack' = Append(proceeded, [stage |-> c, next |-> 1]) /\ UNCHANGED <<pc, issues>>
  BY DEF Visit
<1> HIDE DEF n, c, proceeded
<1>10. CASE OnPath(c) /\ Judge({"cycle"})
  <2>1. PICK k \in 2..n : stack[k].stage = c
    BY <1>2, <1>10 DEF OnPath
  <2> DEFINE C == {stack[j].stage : j \in k..n}
  <2>2. C \subseteq Stages /\ C # {}
    BY <1>1, <1>2, <2>1 DEF Chain
  <2>3. ASSUME NEW j \in k..n PROVE \E d \in C : d \in Deps(stack[j].stage)
    <3>1. j \in 2..n /\ j \in 1..n /\ stack[j].stage \in Stages
      BY <1>1, <1>2, <2>1 DEF Chain
    <3>2. CASE j = n
      <4>1. c \in Deps(stack[j].stage)
        BY <1>1, <1>3, <1>4, <3>1, <3>2, CallsData
      <4> QED BY <2>1, <4>1
    <3>3. CASE j # n
      <4>1. j + 1 \in 2..n /\ j + 1 \in k..n /\ (j + 1) - 1 = j
        BY <1>2, <2>1, <3>1, <3>3
      <4>2. /\ stack[j].next > 1 /\ stack[j].next \in Nat /\ stack[j].next \in 1..(Len(Calls(stack[j].stage)) + 1)
            /\ stack[j + 1].stage = Calls(stack[j].stage)[stack[j].next - 1]
        BY <1>1, <1>2, <3>1, <4>1 DEF Chain
      <4>3. stack[j].next - 1 \in DOMAIN Calls(stack[j].stage)
        BY <1>1, <3>1, <4>2, CallsData
      <4>4. stack[j + 1].stage \in Deps(stack[j].stage)
        BY <1>1, <3>1, <4>2, <4>3, CallsData
      <4> QED BY <4>1, <4>4
    <3> QED BY <3>2, <3>3
  <2>4. Cyclic
    <3>1. \A s \in C : \E d \in C : d \in Deps(s)
      BY <2>3
    <3> QED BY <2>2, <3>1 DEF Cyclic
  <2>5. "cycle" \in issues' /\ issues' \subseteq {"cycle", "flaw"} /\ pc' = "refused" /\ stack' = <<>>
    BY <1>10 DEF Judge
  <2>6. CycleVerdict'
    BY <1>5, <2>4, <2>5 DEF CycleVerdict, Cyclic
  <2>7. TypeOK'
    BY <1>1, <1>5, <2>5 DEF IInv, TypeOK
  <2> QED BY <1>1, <1>5, <2>5, <2>6, <2>7
          DEF IInv, Searching, Checked, Kept, Built, Fresh, NeverStuck
<1>11. CASE /\ ~OnPath(c) /\ (c \in done \/ c \notin Stages)
           /\ stack' = proceeded /\ UNCHANGED <<pc, issues>>
  <2>1. Chain'
    <3>1. \A k \in 2..n : k - 1 \in 1..n /\ k - 1 # n /\ k \in 1..n
      BY <1>2
    <3>2. \A k \in 2..n : stack'[k].stage = stack[k].stage /\ stack'[k - 1] = stack[k - 1]
      BY <1>6, <1>11, <3>1
    <3>3. /\ \A k \in 1..n : stack'[k].next \in 1..(Len(Calls(stack'[k].stage)) + 1)
          /\ stack'[1].stage = 0 /\ Len(stack') = n /\ stack' # <<>>
      BY <1>1, <1>2, <1>3, <1>6, <1>7, <1>11 DEF Chain
    <3> QED BY <1>1, <1>2, <1>5, <3>2, <3>3 DEF Chain
  <2>2. Passed'
    <3> SUFFICES ASSUME NEW k \in 1..n, NEW i \in 1..(stack'[k].next - 1)
                 PROVE  LET x == Calls(stack[k].stage)[i]
                        IN  x \in done \/ x \notin Stages \/ (k < n /\ i = stack'[k].next - 1)
      BY <1>5, <1>6, <1>11 DEF Passed
    <3>1. CASE k = n /\ i = stack[n].next
      BY <1>3, <1>4, <1>11, <3>1
    <3>2. CASE k = n /\ i # stack[n].next
      <4>1. i \in 1..(stack[k].next - 1) /\ ~(k < n)
        BY <1>2, <1>3, <1>6, <1>11, <3>2
      <4> QED BY <1>1, <1>2, <4>1 DEF Passed
    <3>3. CASE k # n
      <4>1. i \in 1..(stack[k].next - 1) /\ stack'[k].next = stack[k].next
        BY <1>6, <1>11, <3>3
      <4> QED BY <1>1, <1>2, <4>1 DEF Passed
    <3> QED BY <3>1, <3>2, <3>3
  <2>3. Sound'
    BY <1>1, <1>5 DEF Sound
  <2>4. TypeOK'
    BY <1>1, <1>5, <1>6, <1>11 DEF IInv, TypeOK
  <2> QED BY <1>1, <1>5, <1>11, <2>1, <2>2, <2>3, <2>4
          DEF IInv, Searching, Checked, Kept, Built, Fresh, NeverStuck, CycleVerdict
<1>12. CASE /\ ~OnPath(c) /\ c \notin done /\ c \in Stages
           /\ stack' = Append(proceeded, [stage |-> c, next |-> 1]) /\ UNCHANGED <<pc, issues>>
  <2>1. /\ Len(stack') = n + 1 /\ stack'[n + 1].stage = c /\ stack'[n + 1].next = 1
        /\ \A k \in 1..n : /\ stack'[k] = proceeded[k] /\ stack'[k].stage = stack[k].stage
                           /\ stack'[k].next = proceeded[k].next
                           /\ k # n => stack'[k].next = stack[k].next
        /\ stack' \in Seq(Call)
    <3>1. c \in Nat
      BY <1>4
    <3> QED BY <1>6, <1>12, <3>1, PushData
  <2>2. Chain'
    <3>1. \A k \in 1..(n + 1) : stack'[k].next \in 1..(Len(Calls(stack'[k].stage)) + 1)
      <4>1. 1 \in 1..(Len(Calls(c)) + 1)
        BY <1>1, <1>12, CallsData
      <4>2. \A k \in 1..(n + 1) : k \in 1..n \/ k = n + 1
        BY <1>2
      <4> QED BY <1>7, <2>1, <4>1, <4>2
    <3>2. \A k \in 2..(n + 1) :
             /\ stack'[k].stage \in Stages \ done
             /\ stack'[k - 1].next > 1
             /\ stack'[k].stage = Calls(stack'[k - 1].stage)[stack'[k - 1].next - 1]
      <4> TAKE k \in 2..(n + 1)
      <4>1. CASE k = n + 1
        <5>1. /\ k - 1 = n /\ stack'[n].stage = Top.stage /\ stack'[n].next = Top.next + 1
              /\ Top.next \in Nat \ {0}
          BY <1>2, <1>3, <1>6, <2>1, <4>1
        <5>2. stack'[n].next - 1 = Top.next /\ stack'[n].next > 1
          BY <5>1
        <5> QED BY <1>4, <1>12, <2>1, <4>1, <5>1, <5>2
      <4>2. CASE k # n + 1
        <5>1. k \in 2..n /\ k \in 1..n /\ k - 1 \in 1..n /\ k - 1 # n
          BY <1>2, <4>2
        <5>2. /\ stack[k].stage \in Stages \ done /\ stack[k - 1].next > 1
              /\ stack[k].stage = Calls(stack[k - 1].stage)[stack[k - 1].next - 1]
          BY <1>1, <1>2, <5>1 DEF Chain
        <5> QED BY <2>1, <5>1, <5>2
      <4> QED BY <4>1, <4>2
    <3>3. \A j, k \in 2..(n + 1) : stack'[j].stage = stack'[k].stage => j = k
      <4>1. \A k \in 2..n : k \in 1..n /\ stack'[k].stage = stack[k].stage /\ stack[k].stage # c
        BY <1>2, <1>12, <2>1 DEF OnPath
      <4>2. \A k \in 2..(n + 1) : k \in 2..n \/ k = n + 1
        BY <1>2
      <4>3. \A j, k \in 2..n : stack[j].stage = stack[k].stage => j = k
        BY <1>1, <1>2 DEF Chain
      <4> QED BY <2>1, <4>1, <4>2, <4>3
    <3>4. stack' # <<>> /\ stack'[1].stage = 0
      <4>1. 1 \in 1..n /\ stack[1].stage = 0
        BY <1>1, <1>2 DEF Chain
      <4>2. Len(stack') # 0
        BY <1>2, <2>1
      <4> QED BY <2>1, <4>1, <4>2
    <3> QED BY <1>5, <2>1, <3>1, <3>2, <3>3, <3>4 DEF Chain
  <2>3. Passed'
    <3> SUFFICES ASSUME NEW k \in 1..(n + 1), NEW i \in 1..(stack'[k].next - 1)
                 PROVE  LET x == Calls(stack'[k].stage)[i]
                        IN  x \in done \/ x \notin Stages \/ (k < n + 1 /\ i = stack'[k].next - 1)
      BY <1>5, <2>1 DEF Passed
    <3>1. CASE k = n + 1
      BY <2>1, <3>1
    <3>2. CASE k = n /\ i = stack[n].next
      BY <1>2, <1>3, <1>6, <2>1, <3>2
    <3>3. CASE k = n /\ i # stack[n].next
      <4>1. i \in 1..(stack[k].next - 1) /\ ~(k < n) /\ stack'[k].stage = stack[k].stage
        BY <1>2, <1>3, <1>6, <2>1, <3>3
      <4> QED BY <1>1, <1>2, <1>3, <3>3, <4>1 DEF Passed
    <3>4. CASE k \in 1..n /\ k # n
      <4>1. /\ i \in 1..(stack[k].next - 1) /\ k < n + 1
            /\ stack'[k].stage = stack[k].stage /\ stack'[k].next = stack[k].next
        BY <1>2, <2>1, <3>4
      <4> QED BY <1>1, <1>2, <3>4, <4>1 DEF Passed
    <3> QED BY <1>2, <3>1, <3>2, <3>3, <3>4
  <2>4. Sound'
    BY <1>1, <1>5 DEF Sound
  <2>5. TypeOK'
    BY <1>1, <1>5, <1>12, <2>1 DEF IInv, TypeOK
  <2> QED BY <1>1, <1>5, <1>12, <2>2, <2>3, <2>4, <2>5
          DEF IInv, Searching, Checked, Kept, Built, Fresh, NeverStuck, CycleVerdict
<1> QED BY <1>8, <1>10, <1>11, <1>12

LEMMA ReturnStep ==
  ASSUME IInv, Return
  PROVE  IInv'
<1> DEFINE n == Len(stack)
<1>1. /\ pc = "visit" /\ Chain /\ Passed /\ Sound /\ issues = {}
      /\ pipeline \in Pipelines /\ tasks = {} /\ expanded = {}
  BY DEF IInv, TypeOK, Return, Searching, Fresh
<1>2. /\ stack \in Seq(Call) /\ n \in Nat \ {0} /\ n = Len(stack)
      /\ \A k \in 1..n : stack[k].next \in Nat \ {0} /\ stack[k].stage \in Nat
  BY <1>1, StackData DEF IInv, TypeOK, Chain
<1>3. /\ Top = stack[n] /\ n \in 1..n /\ Top.stage \in Stages \cup {0}
      /\ Top.next = Len(Calls(Top.stage)) + 1 /\ Len(Calls(Top.stage)) \in Nat
  <2>1. Top = stack[n] /\ n \in 1..n
    BY <1>2 DEF Top
  <2>2. Top.stage \in Stages \cup {0}
    BY <1>1, <1>2, <2>1 DEF Chain
  <2>3. /\ Top.next \in 1..(Len(Calls(Top.stage)) + 1)
        /\ Top.next > Len(Calls(Top.stage)) /\ Len(Calls(Top.stage)) \in Nat
    BY <1>1, <1>2, <2>1, <2>2, CallsData DEF Chain, Return, Exhausted
  <2> QED BY <2>1, <2>2, <2>3
<1>4. /\ UNCHANGED <<pipeline, selection, kept, expanded, tasks>>
      /\ Stages' = Stages /\ \A s : Calls(s)' = Calls(s) /\ Deps(s)' = Deps(s)
  BY DEF Return, Stages, Calls, Deps
<1>5. \A i \in DOMAIN Calls(Top.stage) : LET c == Calls(Top.stage)[i] IN c \in done \/ c \notin Stages
  <2> SUFFICES ASSUME NEW i \in DOMAIN Calls(Top.stage)
               PROVE  LET c == Calls(Top.stage)[i] IN c \in done \/ c \notin Stages
    OBVIOUS
  <2>1. i \in 1..(stack[n].next - 1) /\ ~(n < n)
    BY <1>1, <1>2, <1>3, CallsData
  <2> QED BY <1>1, <1>2, <1>3, <2>1 DEF Passed
<1>6. \/ /\ n > 1 /\ done' = done \cup {Top.stage}
         /\ stack' = SubSeq(stack, 1, n - 1) /\ UNCHANGED <<pc, issues>>
      \/ ~(n > 1) /\ Judge({}) /\ UNCHANGED done
  BY DEF Return
<1> HIDE DEF n
<1>7. CASE /\ n > 1 /\ done' = done \cup {Top.stage}
           /\ stack' = SubSeq(stack, 1, n - 1) /\ UNCHANGED <<pc, issues>>
  <2>1. /\ stack' \in Seq(Call) /\ Len(stack') = n - 1 /\ n - 1 \in Nat \ {0}
        /\ \A k \in 1..(n - 1) : stack'[k] = stack[k] /\ k \in 1..n /\ k # n
    BY <1>2, <1>7
  <2>2. n \in 2..n /\ Top.stage \in Stages \ done
    <3>1. n \in 2..n
      BY <1>2, <1>7
    <3> QED BY <1>1, <1>2, <1>3, <3>1 DEF Chain
  <2>3. Chain'
    <3>1. \A k \in 2..(n - 1) : k \in 2..n /\ k \in 1..(n - 1) /\ k - 1 \in 1..(n - 1) /\ k # n
      BY <1>2
    <3>2. \A k \in 2..(n - 1) :
             /\ stack'[k].stage \in Stages \ done'
             /\ stack'[k - 1].next > 1
             /\ stack'[k].stage = Calls(stack'[k - 1].stage)[stack'[k - 1].next - 1]
      <4> TAKE k \in 2..(n - 1)
      <4>1. /\ stack[k].stage \in Stages \ done /\ stack[k - 1].next > 1
            /\ stack[k].stage = Calls(stack[k - 1].stage)[stack[k - 1].next - 1]
            /\ stack[k].stage # Top.stage
        BY <1>1, <1>2, <1>3, <2>2, <3>1 DEF Chain
      <4> QED BY <1>7, <2>1, <3>1, <4>1
    <3>3. \A j, k \in 2..(n - 1) : stack'[j].stage = stack'[k].stage => j = k
      BY <1>1, <1>2, <2>1, <3>1 DEF Chain
    <3>4. \A k \in 1..(n - 1) : stack'[k].next \in 1..(Len(Calls(stack'[k].stage)) + 1)
      BY <1>1, <1>2, <2>1 DEF Chain
    <3>5. stack' # <<>> /\ stack'[1].stage = 0
      <4>1. stack[1].stage = 0
        BY <1>1 DEF Chain
      <4>2. 1 \in 1..(n - 1)
        BY <1>2, <2>1
      <4>3. Len(stack') # 0
        BY <2>1
      <4> QED BY <2>1, <4>1, <4>2, <4>3
    <3> QED BY <1>4, <2>1, <3>2, <3>3, <3>4, <3>5 DEF Chain
  <2>4. Passed'
    <3> SUFFICES ASSUME NEW k \in 1..(n - 1), NEW i \in 1..(stack[k].next - 1)
                 PROVE  LET c == Calls(stack[k].stage)[i]
                        IN  c \in done' \/ c \notin Stages \/ (k < n - 1 /\ i = stack[k].next - 1)
      BY <1>4, <2>1 DEF Passed
    <3>1. LET c == Calls(stack[k].stage)[i]
          IN  c \in done \/ c \notin Stages \/ i = stack[k].next - 1
      BY <1>1, <1>2, <2>1 DEF Passed
    <3>2. CASE k = n - 1 /\ i = stack[k].next - 1
      <4>1. n - 1 = k
        BY <3>2
      <4>2. stack[n].stage = Calls(stack[n - 1].stage)[stack[n - 1].next - 1]
        BY <1>1, <1>2, <2>2 DEF Chain
      <4>3. Calls(stack[k].stage)[i] = Top.stage
        BY <1>3, <3>2, <4>1, <4>2
      <4> QED BY <1>7, <4>3
    <3>3. CASE k < n - 1 \/ i # stack[k].next - 1
      BY <1>7, <3>1, <3>3
    <3> QED BY <2>1, <3>2, <3>3
  <2>5. Sound'
    <3>1. done' \subseteq Stages
      BY <1>1, <1>7, <2>2 DEF Sound
    <3>2. Deps(Top.stage) \cap Stages \subseteq done
      BY <1>1, <1>5, <2>2, CallsData
    <3>3. \A s \in done' : Deps(s) \cap Stages \subseteq done'
      BY <1>1, <1>7, <3>2 DEF Sound
    <3>4. ASSUME NEW C \in SUBSET done', C # {}
          PROVE  \E s \in C : \A d \in C : d \notin Deps(s)
      <4>1. CASE C \cap done = {}
        <5>1. C = {Top.stage}
          BY <1>7, <3>4, <4>1
        <5>2. Top.stage \notin Deps(Top.stage)
          BY <2>2, <3>2
        <5> QED BY <5>1, <5>2
      <4>2. CASE C \cap done # {}
        <5>1. PICK s \in C \cap done : \A d \in C \cap done : d \notin Deps(s)
          BY <1>1, <4>2 DEF Sound
        <5>2. \A d \in C : d \in Deps(s) => d \in done
          BY <1>1, <3>1, <5>1 DEF Sound
        <5> QED BY <5>1, <5>2
      <4> QED BY <4>1, <4>2
    <3> QED BY <1>4, <3>1, <3>3, <3>4 DEF Sound
  <2>6. TypeOK'
    <3>1. done' \subseteq Nat \ {0}
      <4>1. done \subseteq Nat \ {0}
        BY DEF IInv, TypeOK
      <4>2. Top.stage \in Nat \ {0}
        BY <1>1, <2>2, CallsData
      <4> QED BY <1>7, <4>1, <4>2
    <3> QED BY <1>4, <1>7, <2>1, <3>1 DEF IInv, TypeOK
  <2> QED BY <1>1, <1>4, <1>7, <2>3, <2>4, <2>5, <2>6
          DEF IInv, Searching, Checked, Kept, Built, Fresh, NeverStuck, CycleVerdict
<1>8. CASE ~(n > 1) /\ Judge({}) /\ UNCHANGED done
  <2>1. Top.stage = 0
    BY <1>1, <1>2, <1>3, <1>8 DEF Chain
  <2>2. Stages \subseteq done
    BY <1>1, <1>5, <2>1, CallsData
  <2>3. ~Cyclic
    BY <1>1, <2>2 DEF Cyclic, Sound
  <2>4. /\ issues' \in {{}, {"flaw"}} /\ pc' = (IF issues' = {} THEN "select" ELSE "refused")
        /\ stack' = <<>> /\ (issues' = {} => WellFormed(pipeline))
    BY <1>8 DEF Judge
  <2>5. CycleVerdict'
    BY <1>4, <2>3, <2>4 DEF CycleVerdict, Cyclic
  <2>6. TypeOK'
    BY <1>1, <1>4, <1>8, <2>4 DEF IInv, TypeOK
  <2> QED BY <1>1, <1>4, <2>4, <2>5, <2>6
          DEF IInv, Searching, Checked, Kept, Built, Fresh, NeverStuck
<1> QED BY <1>6, <1>7, <1>8

LEMMA SelectStep ==
  ASSUME IInv, Select
  PROVE  IInv'
<1>1. /\ pc = "select" /\ pipeline \in Pipelines /\ selection \in Selections
      /\ WellFormed(pipeline) /\ ~Cyclic /\ tasks = {} /\ expanded = {}
  BY DEF IInv, TypeOK, Select, Checked, Fresh, CycleVerdict
<1>2. /\ UNCHANGED <<pipeline, selection, stack, done, expanded, tasks>>
      /\ Stages' = Stages /\ \A s : Deps(s)' = Deps(s)
  BY DEF Select, Stages, Deps
<1>3. CASE pc' = "refused" /\ issues' = {"selection"} /\ UNCHANGED kept
  <2>1. TypeOK'
    BY <1>1, <1>2, <1>3 DEF IInv, TypeOK
  <2> QED BY <1>1, <1>2, <1>3, <2>1
          DEF IInv, Searching, Checked, Kept, Built, Fresh, NeverStuck, CycleVerdict
<1>4. ASSUME NEW chosen \in SUBSET DOMAIN pipeline.targets, pc' = "expand", UNCHANGED issues,
             kept' = [i \in chosen |-> SeedsOf(pipeline.targets[i])]
      PROVE  IInv'
  <2>1. ASSUME NEW i \in DOMAIN pipeline.targets
        PROVE  /\ i \in Nat \ {0} /\ SeedsOf(pipeline.targets[i]) \in Seq(Nat \ {0})
               /\ IsInjective(SeedsOf(pipeline.targets[i]))
    <3>1. pipeline.targets \in Seq(Target)
      BY <1>1, ConstantsAssumption DEF Pipeline
    <3>2. pipeline.targets[i] \in Target /\ i \in Nat \ {0}
      BY <3>1, <2>1
    <3>3. IsInjective(pipeline.targets[i].seeds)
      BY <1>1, <2>1 DEF WellFormed
    <3> QED BY <1>1, <3>2, <3>3, SeedsData DEF IInv
  <2>2. /\ DOMAIN kept' = chosen
        /\ \A i \in DOMAIN kept' : /\ i \in Nat \ {0} /\ kept'[i] \in Seq(Nat \ {0})
                                   /\ IsInjective(kept'[i])
    BY <1>4, <2>1
  <2>3. TypeOK'
    BY <1>1, <1>2, <1>4, <2>2 DEF IInv, TypeOK
  <2>4. Kept' /\ Checked'
    BY <1>1, <1>2, <1>4, <2>2 DEF Kept, Checked
  <2>5. CycleVerdict'
    BY <1>1, <1>2, <1>4 DEF CycleVerdict, Cyclic
  <2> QED BY <1>1, <1>2, <1>4, <2>3, <2>4, <2>5
          DEF IInv, Searching, Built, Fresh, NeverStuck
<1> QED BY <1>3, <1>4 DEF Select

LEMMA ExpandStageStep ==
  ASSUME IInv, ExpandStage
  PROVE  IInv'
<1>1. /\ pc = "expand" /\ pipeline \in Pipelines /\ selection \in Selections
      /\ WellFormed(pipeline) /\ ~Cyclic /\ Remaining # {} /\ Kept
  BY DEF IInv, TypeOK, ExpandStage, Checked, CycleVerdict
<1>2. /\ UNCHANGED <<pipeline, selection, stack, done, issues, kept>>
      /\ Stages' = Stages /\ \A s : Deps(s)' = Deps(s)
      /\ \A s : Instances(s)' = Instances(s) /\ \A i : TargetName(i)' = TargetName(i)
  BY DEF ExpandStage, Stages, Deps, Instances, TargetName
<1>3. Ready # {}
  <2>1. PICK s \in Remaining : \A d \in Remaining : d \notin Deps(s)
    BY <1>1 DEF Cyclic, Remaining
  <2>2. Deps(s) \subseteq Stages
    BY <1>1, <2>1 DEF WellFormed, Deps, Range, Stages, Remaining
  <2> QED BY <2>1, <2>2 DEF Ready, Remaining
<1>4. PICK s \in Ready : /\ tasks' = tasks \cup {TaskSpec(s, at) : at \in Instances(s)}
                         /\ expanded' = expanded \cup {s}
                         /\ UNCHANGED pc
  BY <1>3 DEF ExpandStage
<1>5. s \in Stages /\ s \in Nat \ {0}
  BY <1>1, PipelineData DEF Ready, Remaining, Stages
<1>6. ASSUME NEW at \in Instances(s)
      PROVE  /\ TaskSpec(s, at) \in Task
             /\ TaskSpec(s, at).stage = s /\ TaskSpec(s, at).at = at
             /\ TaskSpec(s, at).target = TargetName(at[1])
             /\ TaskSpec(s, at).seed = IF at[2] = 0 THEN 0 ELSE kept[at[1]][at[2]]
  <2>1. /\ \A i \in DOMAIN kept : /\ i \in Nat \ {0} /\ i \in DOMAIN pipeline.targets
                                  /\ kept[i] \in Seq(Nat \ {0})
                                  /\ \A k \in DOMAIN kept[i] : k \in Nat \ {0} /\ kept[i][k] \in Nat
    BY <1>1 DEF IInv, TypeOK, Kept
  <2>2. \/ at = <<0, 0>> \/ \E i \in DOMAIN kept : at = <<i, 0>>
        \/ \E i \in DOMAIN kept : \E k \in DOMAIN kept[i] : at = <<i, k>>
    BY <1>6 DEF Instances
  <2>3. /\ at \in Nat \X Nat /\ TargetName(at[1]) \in Names
        /\ (IF at[2] = 0 THEN 0 ELSE kept[at[1]][at[2]]) \in Nat
    BY <1>1, <2>1, <2>2, PipelineData, ConstantsAssumption DEF TargetName
  <2>4. \A t \in tasks : Id(t) \in TaskId
    BY DEF IInv, TypeOK, Task, TaskId, Id
  <2>5. {Id(t) : t \in UNION {Upstream(u, at[1]) : u \in Deps(s)}} \subseteq TaskId
    BY <2>4 DEF Upstream
  <2> QED BY <1>5, <2>3, <2>5 DEF TaskSpec, Task
<1>7. TypeOK'
  <2>1. expanded' \subseteq Nat \ {0} /\ tasks' \subseteq Task
    BY <1>4, <1>5, <1>6 DEF IInv, TypeOK
  <2> QED BY <1>1, <1>2, <1>4, <2>1 DEF IInv, TypeOK
<1>8. Built'
  <2>1. \A t \in tasks : /\ t.stage \in Stages /\ t.at \in Instances(t.stage)
                         /\ t.target = TargetName(t.at[1])
                         /\ t.seed = IF t.at[2] = 0 THEN 0 ELSE kept[t.at[1]][t.at[2]]
    BY DEF IInv, Built
  <2>2. \A t \in tasks' : t \in tasks \/ \E at \in Instances(s) : t = TaskSpec(s, at)
    BY <1>4
  <2> QED BY <1>1, <1>2, <1>4, <1>5, <1>6, <2>1, <2>2 DEF Built
<1>9. Kept' /\ Checked'
  BY <1>1, <1>2, <1>4, <1>5 DEF Kept, Checked
<1>10. CycleVerdict' /\ NeverStuck'
  BY <1>1, <1>2, <1>4 DEF CycleVerdict, Cyclic, NeverStuck
<1> QED BY <1>1, <1>2, <1>4, <1>7, <1>8, <1>9, <1>10 DEF IInv, Searching, Fresh

LEMMA FinishStep ==
  ASSUME IInv, Finish
  PROVE  IInv'
<1>1. /\ pc = "expand" /\ pc' = "expanded"
      /\ UNCHANGED <<pipeline, selection, stack, done, issues, kept, expanded, tasks>>
      /\ Stages' = Stages /\ \A s : Deps(s)' = Deps(s)
      /\ \A s : Instances(s)' = Instances(s) /\ \A i : TargetName(i)' = TargetName(i)
  BY DEF Finish, Stages, Deps, Instances, TargetName
<1>2. TypeOK'
  BY <1>1 DEF IInv, TypeOK
<1>3. Built' /\ Kept' /\ Checked'
  BY <1>1 DEF IInv, Built, Kept, Checked
<1>4. CycleVerdict' /\ NeverStuck'
  BY <1>1 DEF IInv, CycleVerdict, Cyclic, NeverStuck
<1> QED BY <1>1, <1>2, <1>3, <1>4 DEF IInv, Searching, Fresh

LEMMA LeaveStep ==
  ASSUME IInv, Leave
  PROVE  IInv'
BY DEF Leave, IInv, TypeOK, Searching, Checked, Kept, Built, Fresh, CycleVerdict, NeverStuck, NoTargets

LEMMA StutterStep ==
  ASSUME IInv, UNCHANGED vars
  PROVE  IInv'
<1>1. UNCHANGED <<pc, pipeline, selection, stack, done, issues, kept, expanded, tasks>>
  BY DEF vars
<1>2. /\ Stages' = Stages /\ \A s : Deps(s)' = Deps(s) /\ Calls(s)' = Calls(s)
      /\ \A s : Instances(s)' = Instances(s) /\ \A i : TargetName(i)' = TargetName(i)
  BY <1>1 DEF Stages, Deps, Calls, Instances, TargetName
<1>3. TypeOK' /\ Checked' /\ Kept' /\ Built' /\ Fresh' /\ NeverStuck'
  BY <1>1, <1>2 DEF IInv, TypeOK, Checked, Kept, Built, Fresh, NeverStuck
<1>4. CycleVerdict'
  BY <1>1, <1>2 DEF IInv, CycleVerdict, Cyclic
<1>5. Searching'
  BY <1>1, <1>2 DEF IInv, Searching, Chain, Passed, Sound
<1> QED BY <1>3, <1>4, <1>5 DEF IInv

LEMMA NextIInv == IInv /\ [Next]_vars => IInv'
BY SubmitStep, VisitStep, ReturnStep, SelectStep, ExpandStageStep, FinishStep, LeaveStep,
   StutterStep DEF Next, Run
-----------------------------------------------------------------------------
(* The theorems *)

\* The invariant holds in every reachable state.
THEOREM Invariance == Spec => []IInv
BY InitIInv, NextIInv, PTL DEF Spec

\* Every variable keeps its type.
THEOREM TypeCorrect == Spec => []TypeOK
<1>1. IInv => TypeOK
  BY DEF IInv
<1> QED BY <1>1, Invariance, PTL

\* _has_cycle finds a cycle exactly when there is one.
THEOREM CyclesAlwaysFound == Spec => []CycleVerdict
<1>1. IInv => CycleVerdict
  BY DEF IInv
<1> QED BY <1>1, Invariance, PTL

\* next() in _stage_order always finds a stage that is ready.
THEOREM OrderNeverStuck == Spec => []NeverStuck
<1>1. IInv => NeverStuck
  BY DEF IInv
<1> QED BY <1>1, Invariance, PTL

LEMMA BuiltSuffices == IInv => IdsAreUnique
<1> SUFFICES ASSUME IInv, NEW t \in tasks, NEW u \in tasks, Id(t) = Id(u)
             PROVE  t.at = u.at
  BY DEF IdsAreUnique
<1> DEFINE s == t.stage
<1>1. u.stage = s /\ u.target = t.target /\ u.seed = t.seed
  BY DEF Id
<1>2. /\ s \in Stages /\ t.at \in Instances(s) /\ u.at \in Instances(s)
      /\ t.target = TargetName(t.at[1]) /\ u.target = TargetName(u.at[1])
      /\ t.seed = IF t.at[2] = 0 THEN 0 ELSE kept[t.at[1]][t.at[2]]
      /\ u.seed = IF u.at[2] = 0 THEN 0 ELSE kept[u.at[1]][u.at[2]]
  BY <1>1 DEF IInv, Built
<1>3. /\ WellFormed(pipeline) /\ DOMAIN kept \subseteq DOMAIN pipeline.targets
      /\ \A i \in DOMAIN kept : /\ IsInjective(kept[i]) /\ i # 0
                                /\ \A k \in DOMAIN kept[i] : k # 0
  BY DEF IInv, TypeOK, Built, Checked, Kept
<1>4. \A i, j \in DOMAIN kept : TargetName(i) = TargetName(j) => i = j
  BY <1>3 DEF WellFormed, TargetName, IsInjective
<1>5. CASE pipeline.stages[s].fan_out
  <2>1. PICK i \in DOMAIN kept : \E k \in DOMAIN kept[i] : t.at = <<i, k>>
    BY <1>2, <1>5 DEF Instances
  <2>2. PICK j \in DOMAIN kept : \E l \in DOMAIN kept[j] : u.at = <<j, l>>
    BY <1>2, <1>5 DEF Instances
  <2>3. PICK k \in DOMAIN kept[i] : t.at = <<i, k>>
    BY <2>1
  <2>4. PICK l \in DOMAIN kept[j] : u.at = <<j, l>>
    BY <2>2
  <2>5. i = j
    BY <1>1, <1>2, <1>4, <2>3, <2>4
  <2>6. kept[i][k] = kept[i][l]
    BY <1>1, <1>2, <1>3, <2>3, <2>4, <2>5
  <2>7. k = l
    BY <1>3, <2>4, <2>5, <2>6 DEF IsInjective
  <2> QED BY <2>3, <2>4, <2>5, <2>7
<1>6. CASE ~pipeline.stages[s].fan_out /\ pipeline.stages[s].per_target
  <2>1. PICK i \in DOMAIN kept : t.at = <<i, 0>>
    BY <1>2, <1>6 DEF Instances
  <2>2. PICK j \in DOMAIN kept : u.at = <<j, 0>>
    BY <1>2, <1>6 DEF Instances
  <2>3. i = j
    BY <1>1, <1>2, <1>4, <2>1, <2>2
  <2> QED BY <2>1, <2>2, <2>3
<1>7. CASE ~pipeline.stages[s].fan_out /\ ~pipeline.stages[s].per_target
  BY <1>2, <1>7 DEF Instances
<1> QED BY <1>5, <1>6, <1>7

\* The primary keys of the rows a job becomes do not collide (ids.py, task_id).
THEOREM IdsAlwaysUnique == Spec => []IdsAreUnique
BY BuiltSuffices, Invariance, PTL
-----------------------------------------------------------------------------
(* The refinement of JobGraph. What the tasks built so far are needs three  *)
(* more clauses than the checks did.                                        *)

\* The targets kept are those the selection names, and it was right to name them.
Selected == pc \in {"expand", "expanded"} =>
    /\ Promise!Granted(pipeline, selection)
    /\ DOMAIN kept = Promise!Chosen(pipeline, selection)
    /\ \A i \in DOMAIN kept : kept[i] = SeedsOf(pipeline.targets[i])

\* Stages are expanded after the stages they depend on.
Ordered == \A s \in expanded : Deps(s) \subseteq expanded

\* The stages expanded have their tasks, and these what they need.
Drawn ==
    /\ \A t \in tasks : /\ t.stage \in expanded
                        /\ t.depends_on = Promise!Needs(pipeline, selection, Bare(t))
    /\ \A s \in expanded : \A at \in Instances(s) :
          \E t \in tasks : t.stage = s /\ t.at = at

GInv == IInv /\ Selected /\ Ordered /\ Drawn

\* The checks let through what is legal.
LEMMA LegalIsWellFormed ==
  ASSUME pipeline \in Pipelines
  PROVE  Promise!Legal(pipeline) <=> WellFormed(pipeline) /\ ~Cyclic
<1>1. Promise!Cyclic(pipeline) <=> Cyclic
  BY DEF Promise!Cyclic, Cyclic, Stages, Deps, Promise!Range, Range
<1>2. /\ Len(pipeline.stages) \in Nat /\ DOMAIN pipeline.stages = 1..Len(pipeline.stages)
      /\ Len(pipeline.targets) \in Nat /\ DOMAIN pipeline.targets = 1..Len(pipeline.targets)
      /\ \A s \in DOMAIN pipeline.stages : pipeline.stages[s].deps \in Seq(Nat \ {0})
  BY PipelineData
<1>3. (\A i, j \in DOMAIN pipeline.targets :
          pipeline.targets[i].name = pipeline.targets[j].name => i = j)
      <=> IsInjective([i \in DOMAIN pipeline.targets |-> pipeline.targets[i].name])
  BY DEF IsInjective
<1>4. (\A t \in Promise!Range(pipeline.targets) : Promise!IsInjective(t.seeds))
      <=> \A i \in DOMAIN pipeline.targets : IsInjective(pipeline.targets[i].seeds)
  BY DEF Promise!IsInjective, IsInjective, Promise!Range
<1>5. ASSUME NEW s \in DOMAIN pipeline.stages
      PROVE  (/\ Promise!IsInjective(pipeline.stages[s].deps)
              /\ Promise!Range(pipeline.stages[s].deps) \subseteq DOMAIN pipeline.stages)
             <=> \A i \in DOMAIN pipeline.stages[s].deps :
                    /\ pipeline.stages[s].deps[i] \in DOMAIN pipeline.stages
                    /\ \A j \in 1..(i - 1) : pipeline.stages[s].deps[i] # pipeline.stages[s].deps[j]
  <2> DEFINE deps == pipeline.stages[s].deps
  <2>1. Len(deps) \in Nat /\ DOMAIN deps = 1..Len(deps)
    BY <1>2
  <2> HIDE DEF deps
  <2>2. Promise!IsInjective(deps) <=> \A i \in DOMAIN deps : \A j \in 1..(i - 1) : deps[i] # deps[j]
    BY <2>1 DEF Promise!IsInjective
  <2>3. Promise!Range(deps) \subseteq DOMAIN pipeline.stages
        <=> \A i \in DOMAIN deps : deps[i] \in DOMAIN pipeline.stages
    BY DEF Promise!Range
  <2> QED BY <2>2, <2>3 DEF deps
<1>6. Promise!Range(pipeline.stages) = {pipeline.stages[s] : s \in DOMAIN pipeline.stages}
  BY DEF Promise!Range
<1> QED BY <1>1, <1>3, <1>4, <1>5, <1>6
        DEF Promise!Legal, WellFormed, Promise!Targeted, Targeted

\* The seeds a target runs, as selected.
LEMMA RunsAgree ==
  ASSUME selection \in Selections, NEW t \in Target
  PROVE  Promise!Runs(t, selection) = {<<k, SeedsOf(t)[k]>> : k \in DOMAIN SeedsOf(t)}
<1>1. selection.seed \in Nat /\ selection.seeds \in Nat
  BY ConstantsAssumption DEF Selection
<1>2. t.seeds \in Seq(Nat \ {0}) /\ Len(t.seeds) \in Nat /\ DOMAIN t.seeds = 1..Len(t.seeds)
  BY DEF Target
<1>3. CASE selection.seed # 0
  <2>1. SeedsOf(t) = <<selection.seed>>
    BY <1>3 DEF SeedsOf
  <2>2. DOMAIN SeedsOf(t) = {1} /\ SeedsOf(t)[1] = selection.seed
    BY <2>1
  <2>3. Promise!Runs(t, selection) = {<<1, selection.seed>>}
    BY <1>3 DEF Promise!Runs
  <2> QED BY <2>2, <2>3
<1>4. CASE selection.seed = 0 /\ selection.seeds \in 1..Len(t.seeds)
  <2>1. SeedsOf(t) = SubSeq(t.seeds, 1, selection.seeds)
    BY <1>4 DEF SeedsOf
  <2>2. /\ DOMAIN SeedsOf(t) = 1..selection.seeds
        /\ \A i \in 1..selection.seeds : SeedsOf(t)[i] = t.seeds[i]
    BY <1>1, <1>2, <1>4, <2>1
  <2>3. {k \in DOMAIN t.seeds : selection.seeds = 0 \/ k <= selection.seeds} = 1..selection.seeds
    BY <1>1, <1>2, <1>4
  <2>4. Promise!Runs(t, selection) = {<<k, t.seeds[k]>> : k \in 1..selection.seeds}
    BY <1>4, <2>3 DEF Promise!Runs
  <2> QED BY <2>2, <2>4
<1>5. CASE selection.seed = 0 /\ selection.seeds \notin 1..Len(t.seeds)
  <2>1. SeedsOf(t) = t.seeds
    BY <1>5 DEF SeedsOf
  <2>2. {k \in DOMAIN t.seeds : selection.seeds = 0 \/ k <= selection.seeds} = DOMAIN t.seeds
    BY <1>1, <1>2, <1>5
  <2> QED BY <1>5, <2>1, <2>2 DEF Promise!Runs
<1> QED BY <1>1, <1>3, <1>4, <1>5

Inst(s, at) ==
    [stage |-> s, at |-> at, target |-> TargetName(at[1]),
     seed |-> IF at[2] = 0 THEN 0 ELSE kept[at[1]][at[2]]]

\* _instances makes the tasks the promise names.
LEMMA InstancesAgree ==
  ASSUME IInv, Selected, pc \in {"expand", "expanded"}, NEW s
  PROVE  Promise!Instances(pipeline, selection, s) = {Inst(s, at) : at \in Instances(s)}
<1> DEFINE chosen == Promise!Chosen(pipeline, selection)
           stage == pipeline.stages[s]
<1>1. /\ pipeline \in Pipelines /\ selection \in Selections /\ DOMAIN kept = chosen
      /\ \A i \in DOMAIN kept : /\ i \in Nat \ {0} /\ kept[i] \in Seq(Nat \ {0})
                                /\ kept[i] = SeedsOf(pipeline.targets[i])
      /\ DOMAIN kept \subseteq DOMAIN pipeline.targets
  BY DEF IInv, TypeOK, Kept, Selected
<1>2. ASSUME NEW i \in chosen
      PROVE  /\ Promise!Runs(pipeline.targets[i], selection)
                  = {<<k, kept[i][k]>> : k \in DOMAIN kept[i]}
             /\ i # 0 /\ \A k \in DOMAIN kept[i] : k # 0
  <2>1. pipeline.targets \in Seq(Target)
    BY <1>1, ConstantsAssumption DEF Pipeline
  <2>2. pipeline.targets[i] \in Target
    BY <1>1, <2>1
  <2>3. \A k \in DOMAIN kept[i] : k # 0
    BY <1>1
  <2> QED BY <1>1, <2>2, <2>3, RunsAgree
<1>3. CASE stage.fan_out
  <2> DEFINE Rec(i, run) == [stage |-> s, at |-> <<i, run[1]>>,
                             target |-> pipeline.targets[i].name, seed |-> run[2]]
  <2>1. \A at : at \in Instances(s) <=>
                  \E i \in chosen : \E k \in DOMAIN kept[i] : at = <<i, k>>
    BY <1>1, <1>3 DEF Instances
  <2>2. \A x : x \in Promise!Instances(pipeline, selection, s) <=>
                  \E i \in chosen : \E run \in Promise!Runs(pipeline.targets[i], selection) :
                     x = Rec(i, run)
    BY <1>3 DEF Promise!Instances
  <2>3. ASSUME NEW i \in chosen, NEW k \in DOMAIN kept[i]
        PROVE  Rec(i, <<k, kept[i][k]>>) = Inst(s, <<i, k>>)
    BY <1>2 DEF Inst, TargetName
  <2>4. ASSUME NEW x
        PROVE  x \in Promise!Instances(pipeline, selection, s) <=>
                  \E i \in chosen : \E k \in DOMAIN kept[i] : x = Inst(s, <<i, k>>)
    <3> HIDE DEF chosen, Rec
    <3>1. ASSUME NEW i \in chosen
          PROVE  (\E run \in Promise!Runs(pipeline.targets[i], selection) : x = Rec(i, run))
                 <=> \E k \in DOMAIN kept[i] : x = Inst(s, <<i, k>>)
      <4>1. \A run : run \in Promise!Runs(pipeline.targets[i], selection) <=>
                       \E k \in DOMAIN kept[i] : run = <<k, kept[i][k]>>
        BY <1>2
      <4>2. (\E run \in Promise!Runs(pipeline.targets[i], selection) : x = Rec(i, run))
            <=> \E k \in DOMAIN kept[i] : x = Rec(i, <<k, kept[i][k]>>)
        BY <4>1
      <4>3. \A k \in DOMAIN kept[i] : Rec(i, <<k, kept[i][k]>>) = Inst(s, <<i, k>>)
        BY <2>3
      <4> QED BY <4>2, <4>3
    <3> QED BY <2>2, <3>1
  <2>5. \A x : x \in {Inst(s, at) : at \in Instances(s)} <=>
                  \E i \in chosen : \E k \in DOMAIN kept[i] : x = Inst(s, <<i, k>>)
    BY <2>1
  <2> QED BY <2>4, <2>5
<1>4. CASE ~stage.fan_out /\ stage.per_target
  <2>1. Instances(s) = {<<i, 0>> : i \in chosen}
    BY <1>1, <1>4 DEF Instances
  <2>2. ASSUME NEW i \in chosen
        PROVE  Inst(s, <<i, 0>>) = [stage |-> s, at |-> <<i, 0>>,
                                    target |-> pipeline.targets[i].name, seed |-> 0]
    BY <1>2 DEF Inst, TargetName
  <2>3. Promise!Instances(pipeline, selection, s)
          = {[stage |-> s, at |-> <<i, 0>>, target |-> pipeline.targets[i].name, seed |-> 0] :
                i \in chosen}
    BY <1>4 DEF Promise!Instances
  <2> QED BY <2>1, <2>2, <2>3
<1>5. CASE ~stage.fan_out /\ ~stage.per_target
  <2>1. Instances(s) = {<<0, 0>>}
    BY <1>5 DEF Instances
  <2>2. Promise!Instances(pipeline, selection, s)
          = {[stage |-> s, at |-> <<0, 0>>, target |-> Whole, seed |-> 0]}
    BY <1>5 DEF Promise!Instances
  <2>3. Inst(s, <<0, 0>>) = [stage |-> s, at |-> <<0, 0>>, target |-> Whole, seed |-> 0]
    BY DEF Inst, TargetName
  <2> QED BY <2>1, <2>2, <2>3
<1> QED BY <1>3, <1>4, <1>5

\* Of a stage that is expanded the tasks are those the promise names.
LEMMA DrawnAgree ==
  ASSUME GInv, pc \in {"expand", "expanded"}, NEW s \in expanded
  PROVE  {Bare(t) : t \in {t \in tasks : t.stage = s}} = Promise!Instances(pipeline, selection, s)
<1>1. \A t \in tasks : /\ t.at \in Instances(t.stage) /\ Bare(t) = Inst(t.stage, t.at)
  BY DEF GInv, IInv, Built, Bare, Inst
<1>2. \A at \in Instances(s) : \E t \in tasks : t.stage = s /\ t.at = at
  BY DEF GInv, Drawn
<1>3. Promise!Instances(pipeline, selection, s) = {Inst(s, at) : at \in Instances(s)}
  BY InstancesAgree DEF GInv
<1> QED BY <1>1, <1>2, <1>3

\* _dependencies, once the stages a stage depends on are expanded.
LEMMA NeedsAgree ==
  ASSUME GInv, pc \in {"expand", "expanded"}, NEW s \in Stages, Deps(s) \subseteq expanded,
         NEW at \in Instances(s)
  PROVE  TaskSpec(s, at).depends_on
           = Promise!Needs(pipeline, selection, Bare(TaskSpec(s, at)))
<1> DEFINE b == Bare(TaskSpec(s, at))
           All(u) == Promise!Instances(pipeline, selection, u)
           Own(u) == {x \in All(u) : x.target = b.target}
           Which(u) == IF b.at[1] # 0 /\ Own(u) # {} THEN Own(u) ELSE All(u)
<1>1. b.stage = s /\ b.at = at /\ b.target = TargetName(at[1])
  BY DEF Bare, TaskSpec
<1>2. ASSUME NEW u \in Deps(s)
      PROVE  {Bare(t) : t \in Upstream(u, at[1])} = Which(u)
  <2>1. All(u) = {Bare(t) : t \in {t \in tasks : t.stage = u}}
    BY <1>2, DrawnAgree
  <2>2. \A t \in tasks : Bare(t).target = t.target
    BY DEF Bare
  <2>3. Own(u) = {Bare(t) : t \in {t \in tasks : t.stage = u /\ t.target = TargetName(at[1])}}
    BY <1>1, <2>1, <2>2
  <2> QED BY <1>1, <2>1, <2>3 DEF Upstream
<1>3. \A t : Promise!Name(Bare(t)) = Id(t)
  BY DEF Promise!Name, Bare, Id
<1>4. TaskSpec(s, at).depends_on = {Id(t) : t \in UNION {Upstream(u, at[1]) : u \in Deps(s)}}
  BY DEF TaskSpec
<1>5. Promise!Needs(pipeline, selection, b)
        = UNION {{Promise!Name(x) : x \in Which(u)} : u \in Deps(s)}
  BY <1>1 DEF Promise!Needs, Deps, Promise!Range, Range
<1>6. ASSUME NEW u \in Deps(s)
      PROVE  {Promise!Name(x) : x \in Which(u)} = {Id(t) : t \in Upstream(u, at[1])}
  BY <1>2, <1>3
<1>7. \A x : x \in UNION {{Promise!Name(y) : y \in Which(u)} : u \in Deps(s)} <=>
               \E u \in Deps(s) : x \in {Promise!Name(y) : y \in Which(u)}
  OBVIOUS
<1>8. \A x : x \in {Id(t) : t \in UNION {Upstream(u, at[1]) : u \in Deps(s)}} <=>
               \E u \in Deps(s) : x \in {Id(t) : t \in Upstream(u, at[1])}
  OBVIOUS
<1> HIDE DEF Which, b
<1>9. \A x : x \in Promise!Needs(pipeline, selection, b) <=> x \in TaskSpec(s, at).depends_on
  BY <1>4, <1>5, <1>6, <1>7, <1>8
<1>10. Promise!Needs(pipeline, selection, b) = TaskSpec(s, at).depends_on
  <2>1. Promise!Needs(pipeline, selection, b)
          = UNION {{Promise!Name(x) : x \in Which(u)} : u \in Deps(s)}
    BY <1>5
  <2> QED BY <1>4, <1>9, <2>1
<1> QED BY <1>10 DEF b

\* select_targets raises exactly when the selection asks for what is not there.
LEMMA SelectAgrees ==
  ASSUME IInv, Select
  PROVE  /\ pc' = "refused" => ~Promise!Granted(pipeline, selection)
         /\ Selected' /\ pc' \in {"refused", "expand"}
<1> DEFINE targets == pipeline.targets
           chosen == {i \in DOMAIN targets : Picked(targets[i])}
<1>1. chosen = Promise!Chosen(pipeline, selection)
  BY DEF Promise!Chosen, Picked
<1>2. Promise!Granted(pipeline, selection) <=>
        ~(\/ \E name \in selection.targets : \A i \in DOMAIN targets : targets[i].name # name
          \/ chosen = {} /\ \E s \in Stages : Targeted(pipeline.stages[s]))
  BY <1>1 DEF Promise!Granted, Promise!Range, Promise!Targeted, Targeted, Stages
<1>3. UNCHANGED <<pipeline, selection>>
  BY DEF Select
<1> HIDE DEF chosen
<1>4. \/ pc' = "refused" /\ ~Promise!Granted(pipeline, selection)
      \/ /\ pc' = "expand" /\ Promise!Granted(pipeline, selection)
         /\ kept' = [i \in chosen |-> SeedsOf(targets[i])]
  BY <1>2 DEF Select, chosen
<1>5. pc' = "expand" => Selected'
  <2> SUFFICES ASSUME pc' = "expand" PROVE Selected'
    OBVIOUS
  <2>1. DOMAIN kept' = chosen /\ \A i \in DOMAIN kept' : kept'[i] = SeedsOf(targets[i])
    BY <1>4
  <2>2. \A t : SeedsOf(t)' = SeedsOf(t')
    BY <1>3 DEF SeedsOf
  <2>3. \A i \in DOMAIN kept' : kept'[i] = SeedsOf(pipeline.targets[i])'
    BY <1>3, <2>1 DEF SeedsOf
  <2> QED BY <1>1, <1>3, <1>4, <2>1, <2>3 DEF Selected
<1> QED BY <1>4, <1>5 DEF Selected

\* The clauses hold wherever nothing is selected yet.
LEMMA NothingDrawn ==
  ASSUME IInv, pc \notin {"expand", "expanded"}
  PROVE  Selected /\ Ordered /\ Drawn
<1>1. tasks = {} /\ expanded = {}
  BY DEF IInv, TypeOK, Fresh, NeverStuck
<1> QED BY <1>1 DEF Selected, Ordered, Drawn

LEMMA SelectDraws ==
  ASSUME GInv, IInv', Select
  PROVE  GInv'
<1>1. Selected'
  BY SelectAgrees DEF GInv
<1>2. tasks' = {} /\ expanded' = {}
  BY DEF Select, GInv, IInv, Fresh
<1> QED BY <1>1, <1>2 DEF GInv, Ordered, Drawn

LEMMA ExpandStageDraws ==
  ASSUME GInv, IInv', ExpandStage
  PROVE  GInv'
<1>1. /\ pc = "expand" /\ pc' = "expand"
      /\ UNCHANGED <<pipeline, selection, stack, done, issues, kept>>
  BY DEF ExpandStage, GInv, IInv, NeverStuck
<1>2. PICK s \in Ready : /\ tasks' = tasks \cup {TaskSpec(s, at) : at \in Instances(s)}
                         /\ expanded' = expanded \cup {s}
  BY <1>1 DEF ExpandStage
<1>3. s \in Stages /\ Deps(s) \subseteq expanded
  BY <1>2 DEF Ready, Remaining
<1>4. /\ \A u : Deps(u)' = Deps(u) /\ Instances(u)' = Instances(u)
      /\ \A t : SeedsOf(t)' = SeedsOf(t')
  BY <1>1 DEF Deps, Instances, SeedsOf
<1>5. Selected'
  <2>1. \A i \in DOMAIN kept : SeedsOf(pipeline.targets[i])' = SeedsOf(pipeline.targets[i])
    BY <1>1 DEF SeedsOf
  <2> QED BY <1>1, <2>1 DEF GInv, Selected
<1>6. Ordered'
  BY <1>2, <1>3, <1>4 DEF GInv, Ordered
<1>7. ASSUME NEW at \in Instances(s)
      PROVE  /\ TaskSpec(s, at).stage = s /\ TaskSpec(s, at).at = at
             /\ TaskSpec(s, at).depends_on
                  = Promise!Needs(pipeline, selection, Bare(TaskSpec(s, at)))
  BY <1>1, <1>3, <1>7, NeedsAgree DEF TaskSpec
<1>8. \A t \in tasks' : t \in tasks \/ \E at \in Instances(s) : t = TaskSpec(s, at)
  BY <1>2
<1>9. ASSUME NEW t \in tasks'
      PROVE  /\ t.stage \in expanded'
             /\ t.depends_on = Promise!Needs(pipeline', selection', Bare(t))
  <2>1. CASE t \in tasks
    BY <1>1, <1>2, <2>1 DEF GInv, Drawn
  <2>2. CASE \E at \in Instances(s) : t = TaskSpec(s, at)
    BY <1>1, <1>2, <1>7, <2>2
  <2> QED BY <1>8, <2>1, <2>2
<1>10. ASSUME NEW u \in expanded', NEW at \in Instances(u)
       PROVE  \E t \in tasks' : t.stage = u /\ t.at = at
  <2>1. CASE u \in expanded
    BY <1>2, <2>1 DEF GInv, Drawn
  <2>2. CASE u = s
    <3>1. TaskSpec(s, at) \in tasks'
      BY <1>2, <1>10, <2>2
    <3> QED BY <1>7, <1>10, <2>2, <3>1
  <2> QED BY <1>2, <2>1, <2>2
<1>11. Drawn'
  BY <1>4, <1>9, <1>10 DEF Drawn, Bare
<1> QED BY <1>5, <1>6, <1>11 DEF GInv

LEMMA StillDrawn ==
  ASSUME GInv, IInv', pc \in {"expand", "expanded"},
         UNCHANGED <<pipeline, selection, kept, expanded, tasks>>
  PROVE  GInv'
<1>1. \A u : Deps(u)' = Deps(u) /\ Instances(u)' = Instances(u)
  BY DEF Deps, Instances
<1>2. Selected'
  <2>1. \A i \in DOMAIN kept : SeedsOf(pipeline.targets[i])' = SeedsOf(pipeline.targets[i])
    BY DEF SeedsOf
  <2> QED BY <2>1 DEF GInv, Selected
<1>3. Ordered' /\ Drawn'
  BY <1>1 DEF GInv, Ordered, Drawn, Bare
<1> QED BY <1>2, <1>3 DEF GInv

LEMMA NextGInv == GInv /\ [Next]_vars => GInv'
<1> SUFFICES ASSUME GInv, [Next]_vars PROVE GInv'
  OBVIOUS
<1>1. IInv /\ IInv'
  BY NextIInv DEF GInv
<1>2. CASE pc' \notin {"expand", "expanded"}
  <2>1. tasks' = {} /\ expanded' = {}
    BY <1>1, <1>2 DEF IInv, TypeOK, Fresh, NeverStuck
  <2> QED BY <1>1, <1>2, <2>1 DEF GInv, Selected, Ordered, Drawn
<1>3. CASE pc' \in {"expand", "expanded"}
  <2>1. CASE Select
    BY <1>1, <2>1, SelectDraws
  <2>2. CASE ExpandStage
    BY <1>1, <2>2, ExpandStageDraws
  <2>3. CASE Finish \/ UNCHANGED vars
    <3>1. pc \in {"expand", "expanded"} /\ UNCHANGED <<pipeline, selection, kept, expanded, tasks>>
      BY <1>3, <2>3 DEF Finish, vars
    <3> QED BY <1>1, <3>1, StillDrawn
  <2>4. CASE Visit \/ Return \/ Leave \/ \E p \in Pipelines, sel \in Selections : Submit(p, sel)
    BY <1>3, <2>4 DEF Visit, Return, Judge, Leave, Submit
  <2> QED BY <2>1, <2>2, <2>3, <2>4 DEF Next, Run
<1> QED BY <1>2, <1>3

THEOREM GraphInvariance == Spec => []GInv
<1>1. Init => GInv
  BY InitIInv, NothingDrawn DEF Init, GInv
<1> QED BY <1>1, NextGInv, PTL DEF Spec

\* When all stages are expanded, the tasks are the graph of the promise.
LEMMA GraphAgrees ==
  ASSUME GInv, Finish
  PROVE  {<<Bare(t), t.depends_on>> : t \in tasks} = Promise!Graph(pipeline, selection)
<1>1. pc = "expand" /\ Stages \subseteq expanded
  BY DEF Finish, Remaining
<1>2. ASSUME NEW s \in Stages
      PROVE  {Bare(t) : t \in {t \in tasks : t.stage = s}}
               = Promise!Instances(pipeline, selection, s)
  BY <1>1, <1>2, DrawnAgree
<1>3. \A t \in tasks : /\ t.stage \in Stages
                       /\ t.depends_on = Promise!Needs(pipeline, selection, Bare(t))
  BY DEF GInv, Drawn, IInv, Built
<1>4. \A b : b \in UNION {Promise!Instances(pipeline, selection, s) : s \in DOMAIN pipeline.stages}
               <=> \E t \in tasks : b = Bare(t)
  BY <1>2, <1>3 DEF Stages
<1>5. Promise!Graph(pipeline, selection) =
        {<<b, Promise!Needs(pipeline, selection, b)>> :
            b \in UNION {Promise!Instances(pipeline, selection, s) : s \in DOMAIN pipeline.stages}}
  BY DEF Promise!Graph
<1> QED BY <1>3, <1>4, <1>5

\* Expansion answers each submission as JobGraph promises: the order in which
\* stages are checked and expanded does not show in the graph (expand).
THEOREM Refinement == Spec => KeepsPromise
<1> DEFINE req == IF pc = "idle" THEN Nothing ELSE <<pipeline, selection>>
           ans == CASE pc = "expanded" -> << {<<Bare(t), t.depends_on>> : t \in tasks} >>
                    [] pc = "refused" -> <<>>
                    [] pc = "failed" -> <<"failed">>
                    [] OTHER -> Nothing
<1>1. Init => Promise!Init
  BY DEF Init, Promise!Init
<1>2. ASSUME GInv, pc # "idle"
      PROVE  req = <<pipeline, selection>> /\ req # Nothing
  BY <1>2, NothingAssumption DEF GInv, IInv, TypeOK
<1>3. ASSUME NEW p \in Pipelines, NEW sel \in Selections, Submit(p, sel)
      PROVE  Promise!Ask
  <2>1. pc = "idle" /\ pc' = "visit" /\ pipeline' = p /\ selection' = sel
    BY <1>3 DEF Submit
  <2> QED BY <2>1 DEF Promise!Ask
<1>4. ASSUME GInv, IInv', pc \in {"visit", "select", "expand"}, pc' = pc,
             UNCHANGED <<pipeline, selection>>
      PROVE  UNCHANGED Promise!vars
  BY <1>4 DEF Promise!vars
<1>5. ASSUME pc \in {"visit", "select"}, pc' \in {"visit", "select", "expand"},
             UNCHANGED <<pipeline, selection>>
      PROVE  UNCHANGED Promise!vars
  BY <1>5 DEF Promise!vars
<1>6. ASSUME GInv, pc \in {"visit", "select"}, pc' = "refused",
             UNCHANGED <<pipeline, selection>>,
             ~(Promise!Legal(pipeline) /\ Promise!Granted(pipeline, selection))
      PROVE  Promise!Answer
  <2>1. req # Nothing /\ req = <<pipeline, selection>> /\ req' = req /\ ans = Nothing /\ ans' = <<>>
    BY <1>2, <1>6
  <2>2. Promise!Outcome(<<pipeline, selection>>) = <<>>
    BY <1>6 DEF Promise!Outcome
  <2> QED BY <2>1, <2>2 DEF Promise!Answer
<1>7. ASSUME GInv, IInv', Visit \/ Return
      PROVE  Promise!Next \/ UNCHANGED Promise!vars
  <2>1. /\ pc = "visit" /\ UNCHANGED <<pipeline, selection>> /\ pipeline \in Pipelines
        /\ issues = {}
    BY <1>7 DEF Visit, Return, GInv, IInv, TypeOK, Fresh
  <2>2. CASE pc' = "refused"
    <3>1. "cycle" \in issues' \/ ~WellFormed(pipeline)
      BY <1>7, <2>1, <2>2 DEF Visit, Return, Judge
    <3>2. "cycle" \in issues' => Cyclic
      BY <1>7, <2>1, <2>2 DEF IInv, CycleVerdict, Cyclic, Stages, Deps
    <3>3. ~Promise!Legal(pipeline)
      BY <2>1, <3>1, <3>2, LegalIsWellFormed
    <3> QED BY <1>6, <1>7, <2>1, <2>2, <3>3 DEF Promise!Next
  <2>3. CASE pc' # "refused"
    <3>1. pc' \in {"visit", "select"}
      BY <1>7, <2>1, <2>3 DEF Visit, Return, Judge
    <3> QED BY <1>5, <2>1, <3>1
  <2> QED BY <2>2, <2>3
<1>8. ASSUME GInv, Select
      PROVE  Promise!Next \/ UNCHANGED Promise!vars
  <2>1. /\ pc = "select" /\ UNCHANGED <<pipeline, selection>> /\ pc' \in {"refused", "expand"}
        /\ pc' = "refused" => ~Promise!Granted(pipeline, selection)
    BY <1>8, SelectAgrees DEF Select, GInv
  <2>2. CASE pc' = "refused"
    BY <1>6, <1>8, <2>1, <2>2 DEF Promise!Next
  <2>3. CASE pc' = "expand"
    BY <1>5, <2>1, <2>3
  <2> QED BY <2>1, <2>2, <2>3
<1>9. ASSUME GInv, IInv', ExpandStage PROVE UNCHANGED Promise!vars
  <2>1. pc = "expand" /\ pc' = pc /\ UNCHANGED <<pipeline, selection>>
    BY <1>9 DEF ExpandStage, IInv, NeverStuck
  <2> QED BY <1>4, <1>9, <2>1
<1>10. ASSUME GInv, Finish PROVE Promise!Answer
  <2>1. /\ pc = "expand" /\ pc' = "expanded" /\ UNCHANGED <<pipeline, selection, tasks>>
        /\ pipeline \in Pipelines /\ WellFormed(pipeline) /\ ~Cyclic
        /\ Promise!Granted(pipeline, selection)
    BY <1>10 DEF Finish, GInv, IInv, TypeOK, Checked, CycleVerdict, Selected
  <2>2. Promise!Outcome(<<pipeline, selection>>) = <<Promise!Graph(pipeline, selection)>>
    BY <2>1, LegalIsWellFormed DEF Promise!Outcome
  <2>3. ans = Nothing /\ ans' = << {<<Bare(t), t.depends_on>> : t \in tasks} >>
    BY <2>1 DEF Bare
  <2>4. req # Nothing /\ req = <<pipeline, selection>> /\ req' = req
    BY <1>2, <1>10, <2>1
  <2> QED BY <1>10, <2>2, <2>3, <2>4, GraphAgrees DEF Promise!Answer
<1>11. ASSUME GInv, Leave PROVE Promise!Forget
  <2>1. /\ pc \in {"refused", "expanded"} /\ pc' = "idle"
        /\ tasks \subseteq Task
    BY <1>11 DEF Leave, GInv, IInv, NeverStuck, TypeOK
  <2>2. req' = Nothing /\ ans' = Nothing
    BY <2>1
  <2>3. ans # Nothing
    <3>1. CASE pc = "refused"
      <4>1. \A S : <<>> \in Seq(S)
        OBVIOUS
      <4>2. Nothing # <<>>
        BY <4>1, NothingAssumption
      <4>3. ans = <<>>
        BY <3>1
      <4> QED BY <4>2, <4>3
    <3>2. CASE pc = "expanded"
      <4> DEFINE G == {<<Bare(t), t.depends_on>> : t \in tasks}
                 Inst0 == [stage : Nat, at : Nat \X Nat, target : Names, seed : Nat]
      <4>1. \A t \in tasks : Bare(t) \in Inst0 /\ t.depends_on \in SUBSET TaskId
        BY <2>1 DEF Bare, Task
      <4>2. G \in SUBSET (Inst0 \X SUBSET TaskId)
        BY <4>1
      <4> HIDE DEF G, Inst0
      <4>3. <<G>> \in Seq(SUBSET (Inst0 \X SUBSET TaskId))
        BY <4>2
      <4>4. Nothing \notin Seq(SUBSET (Inst0 \X SUBSET TaskId))
        BY NothingAssumption DEF Inst0
      <4>5. ans = <<G>>
        BY <3>2 DEF G
      <4> QED BY <4>3, <4>4, <4>5
    <3> QED BY <2>1, <3>1, <3>2
  <2> QED BY <2>2, <2>3 DEF Promise!Forget
<1>12. ASSUME UNCHANGED vars PROVE UNCHANGED Promise!vars
  BY <1>12 DEF vars, Promise!vars, Bare
<1>13. GInv /\ IInv' /\ [Next]_vars => [Promise!Next]_(Promise!vars)
  BY <1>3, <1>7, <1>8, <1>9, <1>10, <1>11, <1>12 DEF Next, Run, Promise!Next
<1> QED BY <1>1, <1>13, Invariance, GraphInvariance, PTL DEF Spec, KeepsPromise, Promise!Spec
=============================================================================
