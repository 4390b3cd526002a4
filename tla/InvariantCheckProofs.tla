------------------------ MODULE InvariantCheckProofs ------------------------
(***************************************************************************)
(* Proofs about InvariantCheck for every set of tasks and every database   *)
(* the schema admits.                                                      *)
(***************************************************************************)
EXTENDS InvariantCheck, FiniteSetTheorems, TLAPS

(* Facts about the state that is read *)

LEMMA EdgesFact ==
  ASSUME NEW d, Legal(d), NEW j, NEW u, NEW t
  PROVE  <<u, t>> \in Edges(d, j) <=> <<t, u>> \in d.deps /\ JobOf[t] = j
<1>1. \A e \in d.deps : e = <<e[1], e[2]>>
  BY DEF Legal
<1> QED BY <1>1 DEF Edges

LEMMA EdgeShape ==
  ASSUME NEW d, Legal(d), NEW j, NEW e \in Edges(d, j)
  PROVE  e = <<e[1], e[2]>> /\ e[1] \in DOMAIN d.tasks /\ e[2] \in DOMAIN d.tasks
BY DEF Legal, Edges

LEMMA NodesFact ==
  ASSUME Legal(view), NEW j, NEW t
  PROVE  t \in Nodes(j) <=> \E u : <<u, t>> \in Edges(view, j) \/ <<t, u>> \in Edges(view, j)
<1>1. ASSUME t \in Nodes(j) PROVE \E u : <<u, t>> \in Edges(view, j) \/ <<t, u>> \in Edges(view, j)
  <2>1. PICK e \in Edges(view, j) : t = e[1] \/ t = e[2]
    BY <1>1 DEF Nodes
  <2>2. <<e[1], e[2]>> \in Edges(view, j)
    BY EdgeShape
  <2> QED BY <2>1, <2>2
<1>2. ASSUME NEW u, <<u, t>> \in Edges(view, j) \/ <<t, u>> \in Edges(view, j)
      PROVE  t \in Nodes(j)
  BY <1>2 DEF Nodes
<1> QED BY <1>1, <1>2

LEMMA NodesAreTasks ==
  ASSUME Legal(view), NEW j
  PROVE  /\ Nodes(j) \subseteq DOMAIN view.tasks
         /\ IsFiniteSet(Nodes(j))
<1>1. Nodes(j) \subseteq DOMAIN view.tasks
  BY EdgeShape DEF Nodes
<1>2. DOMAIN view.tasks \subseteq Tasks /\ IsFiniteSet(Tasks)
  BY ConstantsAssumption DEF Legal
<1> QED BY <1>1, <1>2, FS_Subset

LEMMA UpstreamFact ==
  ASSUME Legal(view), NEW j, NEW t, NEW u
  PROVE  /\ u \in Upstream(j, t) <=> <<u, t>> \in Edges(view, j)
         /\ Upstream(j, t) \subseteq Nodes(j)
         /\ IsFiniteSet(Upstream(j, t))
<1>1. ASSUME NEW v, <<v, t>> \in Edges(view, j) PROVE v \in DOMAIN view.tasks /\ v \in Nodes(j)
  BY <1>1, EdgeShape, NodesFact
<1>2. Upstream(j, t) \subseteq Nodes(j)
  BY <1>1 DEF Upstream
<1>3. IsFiniteSet(Upstream(j, t))
  BY <1>2, NodesAreTasks, FS_Subset
<1> QED BY <1>1, <1>2, <1>3 DEF Upstream

-----------------------------------------------------------------------------
(* What each query finds is what Audit names *)

LEMMA Several ==
  ASSUME NEW S, IsFiniteSet(S)
  PROVE  Cardinality(S) > 1 <=> \E a, b \in S : a # b
<1>1. Cardinality(S) \in Nat
  BY FS_CardinalityType
<1>2. Cardinality(S) = 0 <=> S = {}
  BY FS_EmptySet
<1>3. Cardinality(S) = 1 <=> \E x : S = {x}
  BY FS_Singleton
<1>4. CASE Cardinality(S) > 1
  <2>1. Cardinality(S) # 0 /\ Cardinality(S) # 1
    BY <1>1, <1>4
  <2>2. PICK a \in S : TRUE
    BY <2>1, <1>2
  <2>3. S # {a}
    BY <2>1, <1>3
  <2> QED BY <1>4, <2>2, <2>3
<1>5. CASE ~ (Cardinality(S) > 1)
  <2>1. Cardinality(S) = 0 \/ Cardinality(S) = 1
    BY <1>1, <1>5
  <2>2. ~ \E a, b \in S : a # b
    BY <2>1, <1>2, <1>3
  <2> QED BY <1>5, <2>2
<1> QED BY <1>4, <1>5

LEMMA CommittedFact ==
  ASSUME NEW d, Legal(d)
  PROVE  OneCommittedAttemptPerTask(d) = {<<1, t>> : t \in Promise!CommittedTwice(d)}
<1> DEFINE S(t) == {a \in DOMAIN d.attempts : /\ d.attempts[a].task = t
                                              /\ d.attempts[a].state = "COMMITTED"}
<1>1. ASSUME NEW t PROVE IsFiniteSet(S(t))
  BY FS_Subset, ConstantsAssumption DEF Legal
<1>2. ASSUME NEW t PROVE Cardinality(S(t)) > 1 <=> \E a, b \in S(t) : a # b
  <2> HIDE DEF S
  <2> QED BY <1>1, Several
<1>3. Promise!CommittedTwice(d) = {t \in DOMAIN d.tasks : Cardinality(S(t)) > 1}
  BY <1>2 DEF Promise!CommittedTwice
<1> QED BY <1>3 DEF OneCommittedAttemptPerTask

LEMMA LeasesFact ==
  ASSUME NEW d, Legal(d)
  PROVE  LeasesMatch(d) = {<<2, t>> : t \in Promise!LeaseAstray(d)}
<1>1. ASSUME NEW t, NEW l
      PROVE  ActiveOf(d, t) = {l} <=>
               \A a \in DOMAIN d.attempts \cup {l} :
                  a = l <=> /\ a \in DOMAIN d.attempts
                            /\ d.attempts[a].task = t /\ d.attempts[a].state = "ACTIVE"
  BY DEF ActiveOf
<1>2. Promise!LeaseAstray(d)
        = {t \in DOMAIN d.tasks : d.tasks[t].state \in Leased /\ ActiveOf(d, t) # {d.tasks[t].lease}}
  <2>1. ASSUME NEW t \in DOMAIN d.tasks
        PROVE  t \in Promise!LeaseAstray(d)
                 <=> d.tasks[t].state \in Leased /\ ActiveOf(d, t) # {d.tasks[t].lease}
    <3> DEFINE l == d.tasks[t].lease
    <3> HIDE DEF l
    <3>1. ActiveOf(d, t) = {l} <=>
            \A a \in DOMAIN d.attempts \cup {l} :
               a = l <=> /\ a \in DOMAIN d.attempts
                         /\ d.attempts[a].task = t /\ d.attempts[a].state = "ACTIVE"
      BY <1>1
    <3> QED BY <3>1 DEF Promise!LeaseAstray, Leased, Promise!Leased, l
  <2>2. Promise!LeaseAstray(d) \subseteq DOMAIN d.tasks
    BY DEF Promise!LeaseAstray
  <2> QED BY <2>1, <2>2
<1> QED BY <1>2 DEF LeasesMatch

LEMMA ActiveFact ==
  ASSUME NEW d, Legal(d)
  PROVE  ActiveAttemptsMatch(d) = {<<2, a>> : a \in Promise!AttemptAstray(d)}
BY DEF ActiveAttemptsMatch, Promise!AttemptAstray, Leased, Promise!Leased

LEMMA TerminalFact ==
  ASSUME NEW d, Legal(d)
  PROVE  TerminalTasksHoldNoLease(d) = {<<3, t>> : t \in Promise!StillHolds(d)}
BY DEF TerminalTasksHoldNoLease, Promise!StillHolds, Terminal, Promise!Terminal

\* Counting the rows decides whether the numbers run from 1 on.
LEMMA Run1 ==
  ASSUME NEW S \in SUBSET Nat, IsFiniteSet(S), S # {}
  PROVE  S = 1..Cardinality(S) <=> \E n \in S : S = 1..n
<1>1. Cardinality(S) \in Nat /\ Cardinality(S) # 0
  BY FS_CardinalityType, FS_EmptySet
<1>2. ASSUME S = 1..Cardinality(S) PROVE Cardinality(S) \in S
  BY <1>1, <1>2
<1>3. ASSUME NEW n \in S, S = 1..n PROVE n = Cardinality(S)
  <2>1. n \in Int /\ n >= 1
    BY <1>3
  <2>2. Cardinality(1..n) = n
    BY <2>1, FS_Interval
  <2> QED BY <1>3, <2>2
<1> QED BY <1>2, <1>3

LEMMA GapsFact ==
  ASSUME NEW d, Legal(d)
  PROVE  EventsAreContiguous(d) = {<<8, t>> : t \in Promise!Gapped(d)}
<1> DEFINE S(t) == DOMAIN d.events[t]
<1>1. ASSUME NEW t \in DOMAIN d.tasks, S(t) # {}
      PROVE  S(t) = 1..Cardinality(S(t)) <=> \E n \in S(t) : S(t) = 1..n
  <2>1. S(t) \in SUBSET Nat /\ IsFiniteSet(S(t))
    BY DEF Legal
  <2> HIDE DEF S
  <2> QED BY <1>1, <2>1, Run1
<1>2. Promise!Gapped(d) = {t \in DOMAIN d.tasks : S(t) # {} /\ S(t) # 1..Cardinality(S(t))}
  BY <1>1 DEF Promise!Gapped
<1> QED BY <1>2 DEF EventsAreContiguous

LEMMA CurrentFact ==
  ASSUME NEW d, Legal(d)
  PROVE  EventsAreCurrent(d) = {<<8, t>> : t \in Promise!Outdated(d)}
<1>1. Promise!Outdated(d) = {t \in DOMAIN d.tasks :
        \E n \in DOMAIN d.events[t] : /\ \A m \in DOMAIN d.events[t] : m <= n
                                      /\ d.events[t][n] # d.tasks[t].state}
  BY DEF Promise!Outdated
<1> QED BY <1>1 DEF EventsAreCurrent

GraphJobs(d) == {JobOf[e[1]] : e \in d.deps}

LEMMA CircularFact ==
  ASSUME Legal(view)
  PROVE  Promise!Circular(view) = {j \in GraphJobs(view) : Cyclic(j)}
<1>1. ASSUME NEW j \in Promise!Circular(view) PROVE j \in GraphJobs(view) /\ Cyclic(j)
  <2>1. PICK C \in SUBSET DOMAIN view.tasks :
          C # {} /\ \A t \in C : JobOf[t] = j /\ \E u \in C : <<t, u>> \in view.deps
    BY <1>1 DEF Promise!Circular
  <2>2. PICK t \in C, u \in C : JobOf[t] = j /\ <<t, u>> \in view.deps
    BY <2>1
  <2>3. j \in GraphJobs(view)
    BY <2>2 DEF GraphJobs
  <2>4. \A t1 \in C : \E u1 \in C : <<u1, t1>> \in Edges(view, j)
    BY <2>1, EdgesFact
  <2>5. C \in SUBSET Nodes(j)
    BY <2>4, NodesFact
  <2> QED BY <2>1, <2>3, <2>4, <2>5 DEF Cyclic
<1>2. ASSUME NEW j \in GraphJobs(view), Cyclic(j) PROVE j \in Promise!Circular(view)
  <2>1. PICK C \in SUBSET Nodes(j) :
          C # {} /\ \A t \in C : \E u \in C : <<u, t>> \in Edges(view, j)
    BY <1>2 DEF Cyclic
  <2>2. \A t \in C : JobOf[t] = j /\ \E u \in C : <<t, u>> \in view.deps
    BY <2>1, EdgesFact
  <2>3. C \subseteq DOMAIN view.tasks
    BY NodesAreTasks
  <2>4. j \in {JobOf[t] : t \in DOMAIN view.tasks}
    BY <2>1, <2>2, <2>3
  <2> QED BY <2>1, <2>2, <2>3, <2>4 DEF Promise!Circular
<1> QED BY <1>1, <1>2 DEF Promise!Circular
-----------------------------------------------------------------------------
(* Kahn's algorithm over any finite graph: N its nodes, up[n] what n waits  *)
(* for, deg, rdy and gone as in the code between two turns of the loop.     *)

LEMMA OneMore ==
  ASSUME NEW S, IsFiniteSet(S), NEW x, x \notin S, NEW T, T = S \cup {x}
  PROVE  Cardinality(T) = Cardinality(S) + 1
BY FS_AddElement

Balanced(N, up, deg, rdy, gone) ==
    /\ deg \in [N -> Nat] /\ rdy \in SUBSET N
    /\ gone = {n \in N : deg[n] = 0} \ rdy
    /\ \A n \in N : deg[n] = Cardinality(up[n] \ gone)
    /\ \A n \in rdy : deg[n] = 0
Turn(N, up, deg, rdy, t, deg2, rdy2) ==
    /\ t \in rdy
    /\ deg2 = [n \in N |-> IF t \in up[n] THEN deg[n] - 1 ELSE deg[n]]
    /\ rdy2 = (rdy \ {t}) \cup {n \in N : t \in up[n] /\ deg2[n] = 0}

LEMMA KahnStep ==
  ASSUME NEW N, IsFiniteSet(N), NEW up \in [N -> SUBSET N],
         NEW deg, NEW rdy, NEW gone, Balanced(N, up, deg, rdy, gone),
         NEW t, NEW deg2, NEW rdy2, Turn(N, up, deg, rdy, t, deg2, rdy2)
  PROVE  /\ Balanced(N, up, deg2, rdy2, gone \cup {t})
         /\ Cardinality(gone \cup {t}) = Cardinality(gone) + 1
<1> DEFINE D == {n \in N : t \in up[n]}
           gone2 == {n \in N : deg2[n] = 0} \ rdy2
<1> USE DEF Balanced, Turn
<1>1. ASSUME NEW n \in N PROVE IsFiniteSet(up[n] \ gone)
  <2>1. up[n] \ gone \in SUBSET N
    OBVIOUS
  <2> QED BY <2>1, FS_Subset
<1>2. t \in N /\ t \notin gone
  OBVIOUS
<1>3. ASSUME NEW n \in D PROVE deg[n] # 0
  <2>1. n \in N /\ t \in up[n] \ gone
    BY <1>2
  <2>2. Cardinality(up[n] \ gone) # 0
    BY <2>1, <1>1, FS_EmptySet
  <2> QED BY <2>1, <2>2
<1>4. t \notin D
  BY <1>3
<1>5. deg2 \in [N -> Nat]
  <2>1. ASSUME NEW n \in N PROVE (IF n \in D THEN deg[n] - 1 ELSE deg[n]) \in Nat
    <3>1. deg[n] \in Nat
      OBVIOUS
    <3> QED BY <3>1, <1>3
  <2> QED BY <2>1
<1>6. gone2 = gone \cup {t}
  <2>1. ASSUME NEW n \in gone PROVE n \in gone2
    <3>1. n \notin D
      BY <1>3
    <3> QED BY <3>1
  <2>2. t \in gone2
    BY <1>2, <1>4
  <2>3. ASSUME NEW n \in gone2 PROVE n \in gone \cup {t}
    <3>1. n \notin D /\ deg[n] = 0
      OBVIOUS
    <3> QED BY <3>1
  <2> QED BY <2>1, <2>2, <2>3
<1>7. Cardinality(gone2) = Cardinality(gone) + 1
  <2>1. IsFiniteSet(gone)
    BY FS_Subset
  <2>2. t \notin gone
    BY <1>2
  <2> QED BY ONLY <2>1, <2>2, <1>6, OneMore
<1>8. ASSUME NEW n \in N PROVE deg2[n] = Cardinality(up[n] \ gone2)
  <2>1. up[n] \ gone2 = (up[n] \ gone) \ {t}
    BY <1>6
  <2>2. Cardinality(up[n] \ gone2)
          = IF t \in up[n] \ gone THEN Cardinality(up[n] \ gone) - 1 ELSE Cardinality(up[n] \ gone)
    BY <2>1, <1>1, FS_RemoveElement
  <2>3. t \in up[n] \ gone <=> n \in D
    BY <1>2
  <2> QED BY <2>2, <2>3
<1>9. ASSUME NEW n \in rdy2 PROVE deg2[n] = 0
  <2>1. CASE n \in rdy
    <3>1. n \notin D /\ n \in N
      BY <2>1, <1>3
    <3> QED BY <3>1, <2>1
  <2> QED BY <2>1
<1> QED BY <1>5, <1>6, <1>7, <1>8, <1>9

\* When nothing is ready any more, what is left over is a set in which
\* everything waits for something.
LEMMA KahnEnd ==
  ASSUME NEW N, IsFiniteSet(N), NEW up \in [N -> SUBSET N],
         NEW deg, NEW gone, Balanced(N, up, deg, {}, gone),
         \A C \in SUBSET N : (\A n \in C : up[n] \cap C # {}) => C \cap gone = {}
  PROVE  Cardinality(gone) # Cardinality(N)
           <=> \E C \in SUBSET N : C # {} /\ \A n \in C : up[n] \cap C # {}
<1> USE DEF Balanced
<1>1. gone \in SUBSET N
  OBVIOUS
<1>2. CASE Cardinality(gone) = Cardinality(N)
  <2>1. gone = N
    BY <1>1, <1>2, FS_Subset
  <2> QED BY <1>2, <2>1
<1>3. CASE Cardinality(gone) # Cardinality(N)
  <2>1. N \ gone # {}
    BY <1>1, <1>3
  <2>2. ASSUME NEW n \in N \ gone PROVE up[n] \cap (N \ gone) # {}
    <3>1. Cardinality(up[n] \ gone) # 0
      OBVIOUS
    <3>2. up[n] \ gone # {}
      BY <3>1, FS_EmptySet
    <3> QED BY <3>2
  <2> QED BY <1>3, <2>1, <2>2
<1> QED BY <1>2, <1>3

-----------------------------------------------------------------------------
(* The invariant *)

Kinds == {1, 2, 3, 8, 9}
Verdicts == Kinds \X (Tasks \cup Attempts \cup Jobs)

Snapshot ==
    /\ db \in Databases
    /\ IF pc \in {"idle", "begun"} THEN view = Absent ELSE view \in Databases

First(d) == OneCommittedAttemptPerTask(d)
Second(d) == First(d) \cup LeasesMatch(d)
Third(d) == Second(d) \cup ActiveAttemptsMatch(d)
Fourth(d) == Third(d) \cup TerminalTasksHoldNoLease(d)
Fifth(d) == Fourth(d) \cup (EventsAreContiguous(d) \cup EventsAreCurrent(d))

\* What has been found belongs to the queries made and the graphs looked at.
FoundSoFar ==
    /\ pc = "begun" => found = {}
    /\ pc = "leases" => found = First(view)
    /\ pc = "active" => found = Second(view)
    /\ pc = "terminal" => found = Third(view)
    /\ pc = "events" => found = Fourth(view)
    /\ pc = "deps" => found = Fifth(view)
    /\ pc = "graphs" =>
          found = Fifth(view) \cup {<<9, j>> : j \in {j \in GraphJobs(view) \ todo : Cyclic(j)}}

ToDo == IF pc = "graphs" THEN todo \subseteq GraphJobs(view) ELSE todo = {}

Gone == {n \in DOMAIN indegree : indegree[n] = 0} \ ready
Up(j) == [n \in Nodes(j) |-> Upstream(j, n)]

\* The tasks removed are those without open dependencies that are not ready any
\* more, and none of them is in a set each of which waits for another.
Search ==
    at # Absent =>
      /\ \A n \in Nodes(at) : indegree[n] = Cardinality(Upstream(at, n) \ Gone)
      /\ \A n \in ready : indegree[n] = 0
      /\ removed = Cardinality(Gone)
      /\ \A C \in SUBSET Nodes(at) :
            (\A n \in C : Upstream(at, n) \cap C # {}) => C \cap Gone = {}

IInv == TypeOK /\ Snapshot /\ FoundSoFar /\ ToDo /\ Search

LEMMA CyclicFact ==
  ASSUME Legal(view), NEW j
  PROVE  Cyclic(j) <=> \E C \in SUBSET Nodes(j) : C # {} /\ \A n \in C : Upstream(j, n) \cap C # {}
<1>1. ASSUME NEW C, NEW n
      PROVE  Upstream(j, n) \cap C # {} <=> \E u \in C : <<u, n>> \in Edges(view, j)
  BY UpstreamFact
<1> QED BY <1>1 DEF Cyclic

LEMMA Lawful == \A d \in Databases : Legal(d) /\ d # Absent
BY ConstantsAssumption

LEMMA FifthVerdicts ==
  ASSUME NEW d, Legal(d)
  PROVE  /\ Fifth(d) \subseteq {1, 2, 3, 8} \X (Tasks \cup Attempts)
         /\ GraphJobs(d) \subseteq Jobs
<1>1. DOMAIN d.tasks \subseteq Tasks /\ DOMAIN d.attempts \subseteq Attempts
  BY DEF Legal
<1>2. First(d) \subseteq {1, 2, 3, 8} \X (Tasks \cup Attempts)
  <2>1. Promise!CommittedTwice(d) \subseteq Tasks
    BY <1>1 DEF Promise!CommittedTwice
  <2> QED BY <2>1, CommittedFact DEF First
<1>3. LeasesMatch(d) \cup ActiveAttemptsMatch(d) \subseteq {1, 2, 3, 8} \X (Tasks \cup Attempts)
  BY <1>1 DEF LeasesMatch, ActiveAttemptsMatch
<1>4. TerminalTasksHoldNoLease(d) \subseteq {1, 2, 3, 8} \X (Tasks \cup Attempts)
  BY <1>1 DEF TerminalTasksHoldNoLease
<1>5. EventsAreContiguous(d) \cup EventsAreCurrent(d) \subseteq {1, 2, 3, 8} \X (Tasks \cup Attempts)
  BY <1>1 DEF EventsAreContiguous, EventsAreCurrent
<1>6. GraphJobs(d) \subseteq Jobs
  <2>1. \A e \in d.deps : e[1] \in Tasks
    BY DEF Legal
  <2> QED BY <2>1, ConstantsAssumption DEF GraphJobs
<1> QED BY <1>2, <1>3, <1>4, <1>5, <1>6 DEF Second, Third, Fourth, Fifth

LEMMA InitInvariant == Init => IInv
<1> SUFFICES ASSUME Init PROVE IInv
  OBVIOUS
<1>1. TypeOK
  BY Lawful DEF Init, TypeOK, NoGraph
<1> QED BY <1>1 DEF Init, IInv, Snapshot, FoundSoFar, ToDo, Search

\* The search reads the snapshot only.
LEMMA SameGraphs ==
  ASSUME view' = view
  PROVE  /\ \A j : Nodes(j)' = Nodes(j)
         /\ \A j, n : Upstream(j, n)' = Upstream(j, n)
         /\ \A j : Cyclic(j)' = Cyclic(j)
         /\ GraphJobs(view)' = GraphJobs(view)
BY DEF Nodes, Upstream, Cyclic, GraphJobs

LEMMA SameSearch ==
  ASSUME IInv, view' = view \/ at = Absent, UNCHANGED search
  PROVE  /\ Search'
         /\ indegree' \in [IF at' = Absent THEN {} ELSE Nodes(at)' -> Nat]
         /\ ready' \subseteq DOMAIN indegree' /\ removed' \in Nat
<1>1. CASE at = Absent
  BY <1>1 DEF IInv, TypeOK, search, Search
<1>2. CASE at # Absent
  <2>1. view' = view /\ at' = at /\ indegree' = indegree /\ ready' = ready /\ removed' = removed
    BY <1>2 DEF search
  <2>2. Gone' = Gone
    BY <2>1 DEF Gone
  <2>3. Nodes(at)' = Nodes(at) /\ \A n : Upstream(at, n)' = Upstream(at, n)
    BY <2>1 DEF Nodes, Upstream
  <2> QED BY <1>2, <2>1, <2>2, <2>3 DEF IInv, TypeOK, Search
<1> QED BY <1>1, <1>2

-----------------------------------------------------------------------------
(* One lemma for the steps of each part *)

LEMMA QueryInvariant ==
  ASSUME IInv,
         BeginCheck \/ FirstQuery \/ LaterQueries \/ QueryFails \/ Write \/ UNCHANGED vars
  PROVE  IInv'
<1>1. at = Absent \/ view' = view
  BY DEF BeginCheck, FirstQuery, LaterQueries, Query, QueryFails, Write, vars, IInv, TypeOK, ToDo
<1>2. UNCHANGED search /\ todo' = todo
  BY DEF BeginCheck, FirstQuery, LaterQueries, Query, QueryFails, Write, vars, search
<1>3. Search' /\ indegree' \in [IF at' = Absent THEN {} ELSE Nodes(at)' -> Nat]
      /\ ready' \subseteq DOMAIN indegree' /\ removed' \in Nat
  BY <1>1, <1>2, SameSearch
<1>4. Snapshot'
  BY ConstantsAssumption DEF IInv, Snapshot, TypeOK, BeginCheck, FirstQuery, LaterQueries, Query, QueryFails, Write, vars
<1>5. ToDo'
  BY <1>2, SameGraphs DEF IInv, ToDo, BeginCheck, FirstQuery, LaterQueries, Query, QueryFails, Write, vars
<1>6. FoundSoFar'
  <2>1. CASE pc = "graphs"
    <3>1. UNCHANGED <<view, pc, found, todo>>
      BY <2>1 DEF BeginCheck, FirstQuery, LaterQueries, Query, QueryFails, Write, vars
    <3>2. \A j : Cyclic(j)' = Cyclic(j)
      BY <3>1, SameGraphs
    <3> QED BY <2>1, <3>1, <3>2, SameGraphs DEF IInv, FoundSoFar
  <2>2. CASE pc # "graphs"
    <3>1. pc' # "graphs"
      BY <2>2 DEF BeginCheck, FirstQuery, LaterQueries, Query, QueryFails, Write, vars
    <3> QED BY <2>2, <3>1 DEF IInv, FoundSoFar, BeginCheck, FirstQuery, LaterQueries, Query,
               QueryFails, Write, vars, Seen, First, Second, Third, Fourth, Fifth
  <2> QED BY <2>1, <2>2
<1>7. TypeOK'
  <2>1. Legal(db)' /\ IF pc' \in {"idle", "begun"} THEN view' = Absent ELSE Legal(view)'
    BY <1>4, Lawful DEF Snapshot
  <2>2. found' \subseteq Verdicts
    <3>1. CASE found' = found \/ found' = {}
      BY <3>1 DEF IInv, TypeOK, Verdicts, Kinds
    <3>2. CASE LaterQueries \/ FirstQuery
      <4>1. found' \subseteq Fifth(view')
        BY <3>2 DEF IInv, FoundSoFar, FirstQuery, LaterQueries, Query, Seen,
                    First, Second, Third, Fourth, Fifth
      <4>2. Legal(view')
        BY <2>1, <3>2 DEF FirstQuery, LaterQueries, Query
      <4> QED BY <4>1, <4>2, FifthVerdicts DEF Verdicts, Kinds
    <3> QED BY <3>1, <3>2 DEF BeginCheck, QueryFails, Write, vars
  <2>3. answer' = answer /\ pc' \in {"idle", "begun", "leases", "active", "terminal", "events", "deps", "graphs"}
    BY DEF IInv, TypeOK, BeginCheck, FirstQuery, LaterQueries, Query, QueryFails, Write, vars
  <2>4. todo' \subseteq Jobs /\ at' \in todo' \cup {Absent}
    BY <1>2 DEF IInv, TypeOK, search
  <2> QED BY <1>3, <2>1, <2>2, <2>3, <2>4 DEF IInv, TypeOK, Verdicts, Kinds
<1> QED BY <1>3, <1>4, <1>5, <1>6, <1>7 DEF IInv

LEMMA SnapshotKept ==
  ASSUME IInv, UNCHANGED <<db, view>>, pc \notin {"idle", "begun"}, pc' \notin {"idle", "begun"}
  PROVE  Snapshot' /\ Legal(db)' /\ Legal(view)'
<1>1. Snapshot'
  BY DEF IInv, Snapshot
<1> QED BY <1>1, Lawful DEF Snapshot

LEMMA ReadDepsInvariant ==
  ASSUME IInv, ReadDeps
  PROVE  IInv'
<1>1. pc = "deps" /\ pc' = "graphs" /\ UNCHANGED <<db, view, found, answer, search>>
      /\ todo' = GraphJobs(view)
  BY DEF ReadDeps, Seen, GraphJobs
<1>2. Search' /\ indegree' \in [IF at' = Absent THEN {} ELSE Nodes(at)' -> Nat]
      /\ ready' \subseteq DOMAIN indegree' /\ removed' \in Nat
  BY <1>1, SameSearch
<1>3. Snapshot' /\ Legal(db)' /\ Legal(view)'
  BY <1>1, SnapshotKept
<1>4. ToDo'
  BY <1>1 DEF ToDo
<1>5. FoundSoFar'
  <2>1. found = Fifth(view)
    BY <1>1 DEF IInv, FoundSoFar
  <2>2. GraphJobs(view)' \ todo' = {}
    BY <1>1 DEF GraphJobs
  <2>3. Fifth(view)' = Fifth(view)
    BY <1>1 DEF Fifth, Fourth, Third, Second, First
  <2> QED BY <1>1, <2>1, <2>2, <2>3 DEF FoundSoFar
<1>6. TypeOK'
  <2>1. todo' \subseteq Jobs
    BY <1>1, <1>3, FifthVerdicts
  <2>2. at' = Absent
    BY <1>1 DEF IInv, TypeOK, ToDo, search
  <2> QED BY <1>1, <1>2, <1>3, <2>1, <2>2 DEF IInv, TypeOK
<1> QED BY <1>2, <1>3, <1>4, <1>5, <1>6 DEF IInv

\* The steps of the search change nothing but the search, and at most the job.
LEMMA SearchSteps ==
  ASSUME IInv, pc = "graphs", UNCHANGED <<db, view, pc, found, answer, todo>>,
         at' \in todo,
         indegree' \in [Nodes(at') -> Nat], ready' \subseteq Nodes(at'), removed' \in Nat,
         Search'
  PROVE  IInv'
<1>1. Snapshot' /\ Legal(db)' /\ Legal(view)'
  BY SnapshotKept
<1>2. ToDo'
  BY SameGraphs DEF IInv, ToDo
<1>3. FoundSoFar'
  <2>1. \A j : Cyclic(j)' = Cyclic(j)
    BY SameGraphs
  <2>2. Fifth(view)' = Fifth(view) /\ GraphJobs(view)' = GraphJobs(view)
    BY DEF Fifth, Fourth, Third, Second, First, GraphJobs
  <2> QED BY <2>1, <2>2 DEF IInv, FoundSoFar
<1>4. at' # Absent
  BY ConstantsAssumption DEF IInv, TypeOK
<1>5. Nodes(at)' = Nodes(at')
  BY DEF Nodes
<1>6. TypeOK'
  BY <1>1, <1>4, <1>5 DEF IInv, TypeOK
<1> QED BY <1>1, <1>2, <1>3, <1>6 DEF IInv

LEMMA StartGraphInvariant ==
  ASSUME IInv, StartGraph
  PROVE  IInv'
<1>1. Legal(view)
  BY Lawful DEF StartGraph, IInv, Snapshot
<1>2. PICK j \in todo :
         /\ at' = j /\ indegree' = Indegree(j)
         /\ ready' = {t \in Nodes(j) : indegree'[t] = 0} /\ removed' = 0
  BY DEF StartGraph
<1>3. pc = "graphs" /\ UNCHANGED <<db, view, pc, found, answer, todo>>
  BY DEF StartGraph
<1>4. ASSUME NEW n \in Nodes(j)
      PROVE  IsFiniteSet(Upstream(j, n)) /\ Cardinality(Upstream(j, n)) \in Nat
  BY <1>1, UpstreamFact, FS_CardinalityType
<1>5. indegree' \in [Nodes(j) -> Nat]
  BY <1>2, <1>4 DEF Indegree
<1>6. Gone' = {}
  BY <1>2, <1>5 DEF Gone
<1>7. Search'
  <2>1. Nodes(at)' = Nodes(j) /\ \A n : Upstream(at, n)' = Upstream(j, n)
    BY <1>2, <1>3 DEF Nodes, Upstream
  <2>2. \A n \in Nodes(j) : indegree'[n] = Cardinality(Upstream(j, n) \ {})
    <3>1. \A n : Upstream(j, n) \ {} = Upstream(j, n)
      OBVIOUS
    <3> QED BY <1>2, <3>1 DEF Indegree
  <2>3. removed' = Cardinality({})
    BY <1>2, FS_EmptySet
  <2> QED BY <1>2, <1>6, <2>1, <2>2, <2>3 DEF Search
<1>8. ready' \subseteq Nodes(at') /\ removed' \in Nat /\ at' \in todo /\ indegree' \in [Nodes(at') -> Nat]
  BY <1>2, <1>5
<1> QED BY <1>3, <1>7, <1>8, SearchSteps

LEMMA RemoveInvariant ==
  ASSUME IInv, Remove
  PROVE  IInv'
<1> DEFINE N == Nodes(at)
           up == [n \in Nodes(at) |-> Upstream(at, n)]
           gone == Gone
<1>1. Legal(view) /\ pc = "graphs" /\ at # Absent /\ UNCHANGED <<db, view, pc, found, answer, todo, at>>
  BY Lawful DEF Remove, IInv, Snapshot
<1>2. PICK t \in ready :
         /\ indegree' = [n \in DOMAIN indegree |->
                             IF n \in Downstream(t) THEN indegree[n] - 1 ELSE indegree[n]]
         /\ ready' = (ready \ {t}) \cup {n \in Downstream(t) : indegree'[n] = 0}
  BY DEF Remove
<1>3. removed' = removed + 1
  BY DEF Remove
<1>4. IsFiniteSet(N)
  BY <1>1, NodesAreTasks
<1>5. up \in [N -> SUBSET N]
  BY <1>1, UpstreamFact
<1>6. indegree \in [N -> Nat] /\ ready \in SUBSET N
  BY <1>1 DEF IInv, TypeOK
<1>7. gone = {n \in N : indegree[n] = 0} \ ready
  BY <1>6 DEF Gone
<1>8. \A n \in N : indegree[n] = Cardinality(up[n] \ gone)
  BY <1>1 DEF IInv, Search
<1>9. \A n \in ready : indegree[n] = 0
  BY <1>1 DEF IInv, Search
<1>10. Downstream(t) = {n \in N : t \in up[n]}
  BY <1>1, UpstreamFact DEF Downstream
<1>11. Turn(N, up, indegree, ready, t, indegree', ready')
  BY <1>2, <1>6, <1>10 DEF Turn
<1>12. Balanced(N, up, indegree, ready, gone)
  BY <1>6, <1>7, <1>8, <1>9 DEF Balanced
<1>13. \A C \in SUBSET N : (\A n \in C : up[n] \cap C # {}) => C \cap gone = {}
  BY <1>1 DEF IInv, Search
<1>14. N' = N /\ \A n : Upstream(at, n)' = Upstream(at, n)
  BY <1>1 DEF Nodes, Upstream
<1>15. DOMAIN indegree' = N
  BY <1>2, <1>6
<1>16. \A n \in N : up[n] = Upstream(at, n)
  OBVIOUS
<1>17. removed = Cardinality(gone) /\ removed \in Nat
  BY <1>1 DEF IInv, Search, TypeOK
<1> HIDE DEF N, up, gone
<1>18. /\ Balanced(N, up, indegree', ready', gone \cup {t})
       /\ Cardinality(gone \cup {t}) = Cardinality(gone) + 1
  BY <1>4, <1>5, <1>11, <1>12, KahnStep
<1>19. Gone' = gone \cup {t}
  BY <1>15, <1>18 DEF Balanced, Gone
<1>20. ASSUME NEW C \in SUBSET N, \A n \in C : up[n] \cap C # {}
       PROVE  C \cap (gone \cup {t}) = {}
  <2>1. C \cap gone = {}
    BY <1>13, <1>20
  <2>2. t \in N /\ up[t] \ gone = {}
    <3>1. t \in N
      BY <1>6
    <3>2. IsFiniteSet(up[t] \ gone)
      BY <1>4, <1>5, <3>1, FS_Subset
    <3>3. Cardinality(up[t] \ gone) = 0
      BY <1>8, <1>9, <3>1
    <3> QED BY <3>1, <3>2, <3>3, FS_EmptySet
  <2>3. t \notin C
    BY <2>1, <2>2, <1>20
  <2> QED BY <2>1, <2>3
<1>21. Search'
  <2>1. \A n \in N' : indegree'[n] = Cardinality(Upstream(at, n)' \ Gone')
    BY <1>14, <1>16, <1>18, <1>19 DEF Balanced
  <2>2. removed' = Cardinality(Gone')
    BY <1>3, <1>17, <1>18, <1>19
  <2>3. \A C \in SUBSET N' : (\A n \in C : Upstream(at, n)' \cap C # {}) => C \cap Gone' = {}
    BY <1>14, <1>16, <1>19, <1>20
  <2> QED BY <1>18, <2>1, <2>2, <2>3 DEF Search, N, Balanced
<1>22. /\ indegree' \in [Nodes(at') -> Nat] /\ ready' \subseteq Nodes(at')
       /\ removed' \in Nat /\ at' \in todo
  BY <1>1, <1>3, <1>17, <1>18 DEF N, Balanced, IInv, TypeOK
<1> QED BY <1>1, <1>21, <1>22, SearchSteps

LEMMA EndGraphInvariant ==
  ASSUME IInv, EndGraph
  PROVE  IInv'
<1>1. pc = "graphs" /\ at # Absent /\ ready = {} /\ UNCHANGED <<db, view, pc, answer, ready>>
  BY DEF EndGraph
<1>2. /\ found' = found \cup IF removed # Cardinality(DOMAIN indegree) THEN {<<9, at>>} ELSE {}
      /\ todo' = todo \ {at} /\ at' = Absent /\ indegree' = NoGraph /\ removed' = 0
  BY DEF EndGraph
<1>3. Legal(view)
  BY Lawful, <1>1 DEF IInv, Snapshot
<1>4. removed # Cardinality(DOMAIN indegree) <=> Cyclic(at)
  <2> DEFINE N == Nodes(at)
             up == [n \in Nodes(at) |-> Upstream(at, n)]
             gone == Gone
  <2>1. IsFiniteSet(N) /\ up \in [N -> SUBSET N]
    BY <1>3, NodesAreTasks, UpstreamFact
  <2>2. indegree \in [N -> Nat]
    BY <1>1 DEF IInv, TypeOK
  <2>3. gone = {n \in N : indegree[n] = 0}
    BY <1>1, <2>2 DEF Gone
  <2>4. \A n \in N : indegree[n] = Cardinality(up[n] \ gone)
    BY <1>1 DEF IInv, Search
  <2>5. \A C \in SUBSET N : (\A n \in C : up[n] \cap C # {}) => C \cap gone = {}
    BY <1>1 DEF IInv, Search
  <2>6. Cyclic(at) <=> \E C \in SUBSET N : C # {} /\ \A n \in C : up[n] \cap C # {}
    BY <1>3, CyclicFact
  <2>7. removed = Cardinality(gone) /\ DOMAIN indegree = N
    BY <1>1, <2>2 DEF IInv, Search
  <2>8. Balanced(N, up, indegree, {}, gone)
    BY <2>2, <2>3, <2>4 DEF Balanced
  <2> HIDE DEF N, up, gone
  <2>9. Cardinality(gone) # Cardinality(N)
          <=> \E C \in SUBSET N : C # {} /\ \A n \in C : up[n] \cap C # {}
    BY <2>1, <2>5, <2>8, KahnEnd
  <2> QED BY <2>6, <2>7, <2>9
<1>5. Snapshot' /\ Legal(db)' /\ Legal(view)'
  BY <1>1, SnapshotKept
<1>6. at \in todo /\ todo \subseteq GraphJobs(view) /\ todo \subseteq Jobs
  BY <1>1 DEF IInv, TypeOK, ToDo
<1>7. Search' /\ ToDo'
  BY <1>1, <1>2, <1>6, SameGraphs DEF Search, ToDo
<1>8. FoundSoFar'
  <2>1. \A j : Cyclic(j)' = Cyclic(j)
    BY <1>1, SameGraphs
  <2>2. Fifth(view)' = Fifth(view) /\ GraphJobs(view)' = GraphJobs(view)
    BY <1>1 DEF Fifth, Fourth, Third, Second, First, GraphJobs
  <2>3. found = Fifth(view) \cup {<<9, j>> : j \in {j \in GraphJobs(view) \ todo : Cyclic(j)}}
    BY <1>1 DEF IInv, FoundSoFar
  <2>4. GraphJobs(view) \ todo' = (GraphJobs(view) \ todo) \cup {at}
    BY <1>2, <1>6
  <2>5. found' = Fifth(view) \cup {<<9, j>> : j \in {j \in GraphJobs(view) \ todo' : Cyclic(j)}}
    BY <1>2, <1>4, <2>3, <2>4
  <2> QED BY <1>1, <2>1, <2>2, <2>5 DEF FoundSoFar
<1>9. TypeOK'
  <2>1. found' \subseteq Verdicts
    BY <1>2, <1>6 DEF IInv, TypeOK, Verdicts, Kinds
  <2>2. indegree' \in [{} -> Nat] /\ ready' \subseteq DOMAIN indegree'
    BY <1>1, <1>2 DEF NoGraph
  <2> QED BY <1>1, <1>2, <1>5, <1>6, <2>1, <2>2 DEF IInv, TypeOK, Verdicts, Kinds
<1> QED BY <1>5, <1>7, <1>8, <1>9 DEF IInv

LEMMA ReturnInvariant ==
  ASSUME IInv, Return
  PROVE  IInv'
<1>1. pc = "graphs" /\ at = Absent /\ todo = {} /\ pc' = "idle" /\ view' = Absent /\ answer' = found
      /\ UNCHANGED <<db, found, todo, search>>
  BY DEF Return
<1>2. Search' /\ indegree' \in [IF at' = Absent THEN {} ELSE Nodes(at)' -> Nat]
      /\ ready' \subseteq DOMAIN indegree' /\ removed' \in Nat
  BY <1>1, SameSearch
<1>3. Snapshot' /\ FoundSoFar' /\ ToDo'
  BY <1>1 DEF IInv, Snapshot, FoundSoFar, ToDo
<1>4. TypeOK'
  BY <1>1, <1>2 DEF IInv, TypeOK, search
<1> QED BY <1>2, <1>3, <1>4 DEF IInv

LEMMA StepInvariant == IInv /\ [Next]_vars => IInv'
<1> SUFFICES ASSUME IInv, [Next]_vars PROVE IInv'
  OBVIOUS
<1>1. CASE Run
  BY <1>1, QueryInvariant, ReadDepsInvariant, StartGraphInvariant, RemoveInvariant,
     EndGraphInvariant, ReturnInvariant DEF Run
<1> QED BY <1>1, QueryInvariant DEF Next

LEMMA Invariance == Spec => []IInv
BY InitInvariant, StepInvariant, PTL DEF Spec

\* At every step of a check of any database the schema admits, every variable
\* has its type: no count of open dependencies falls below zero.
THEOREM TypeCorrect == Spec => []TypeOK
<1>1. IInv => TypeOK
  BY DEF IInv
<1> QED BY <1>1, Invariance, PTL

\* Kahn's algorithm reports a job exactly when its graph has a cycle, for graphs
\* of any size and whatever order tasks and jobs are taken in.
THEOREM CyclesFound == Spec => []CyclesAreFound
<1>1. IInv => CyclesAreFound
  <2> SUFFICES ASSUME IInv, pc = "graphs", NEW j \in GraphJobs(view) \ todo
               PROVE  <<9, j>> \in found <=> Cyclic(j)
    BY DEF CyclesAreFound, GraphJobs
  <2>1. Legal(view)
    BY Lawful DEF IInv, Snapshot
  <2>2. <<9, j>> \notin Fifth(view)
    BY <2>1, FifthVerdicts
  <2> QED BY <2>2 DEF IInv, FoundSoFar
<1> QED BY <1>1, Invariance, PTL

-----------------------------------------------------------------------------
(* A check implements Audit *)

LEMMA AllFound ==
  ASSUME IInv, pc = "graphs", todo = {}
  PROVE  found = Promise!Contradictions(view)
<1>1. Legal(view)
  BY Lawful DEF IInv, Snapshot
<1>2. found = Fifth(view) \cup {<<9, j>> : j \in Promise!Circular(view)}
  <2>1. GraphJobs(view) \ todo = GraphJobs(view)
    OBVIOUS
  <2> QED BY <1>1, <2>1, CircularFact DEF IInv, FoundSoFar
<1>3. Fifth(view) = {<<1, t>> : t \in Promise!CommittedTwice(view)}
                      \cup {<<2, t>> : t \in Promise!LeaseAstray(view)}
                      \cup {<<2, a>> : a \in Promise!AttemptAstray(view)}
                      \cup {<<3, t>> : t \in Promise!StillHolds(view)}
                      \cup {<<8, t>> : t \in Promise!Gapped(view)}
                      \cup {<<8, t>> : t \in Promise!Outdated(view)}
  BY <1>1, CommittedFact, LeasesFact, ActiveFact, TerminalFact, GapsFact, CurrentFact
     DEF First, Second, Third, Fourth, Fifth
<1> QED BY <1>2, <1>3 DEF Promise!Contradictions

LEMMA InitAudit == Init => Promise!Init
BY DEF Init, Promise!Init

LEMMA StepAudit == IInv /\ [Next]_vars => [Promise!Next]_(Promise!vars)
<1> SUFFICES ASSUME IInv, [Next]_vars PROVE [Promise!Next]_(Promise!vars)
  OBVIOUS
<1> USE DEF Promise!Next, Promise!vars
<1>1. CASE BeginCheck
  BY <1>1 DEF BeginCheck, Promise!Ask
<1>2. CASE FirstQuery
  BY <1>2 DEF FirstQuery, Promise!Look, IInv, Snapshot
<1>3. CASE LaterQueries \/ ReadDeps
  BY <1>3 DEF LaterQueries, Query, ReadDeps
<1>4. CASE StartGraph \/ Remove \/ EndGraph
  BY <1>4 DEF StartGraph, Remove, EndGraph
<1>5. CASE Return
  <2>1. view # Absent
    BY <1>5, Lawful DEF Return, IInv, Snapshot
  <2>2. found = Promise!Contradictions(view)
    BY <1>5, AllFound DEF Return
  <2> QED BY <1>5, <2>1, <2>2 DEF Return, Promise!Tell
<1>6. CASE QueryFails
  BY <1>6 DEF QueryFails, Promise!GiveUp
<1>7. CASE Write
  BY <1>7 DEF Write, Promise!Write
<1>8. CASE UNCHANGED vars
  BY <1>8 DEF vars
<1> QED BY <1>1, <1>2, <1>3, <1>4, <1>5, <1>6, <1>7, <1>8 DEF Next, Run

\* Whatever commits while a check runs, its answer is exactly what contradicts
\* the invariants in one committed state between its beginning and its end.
THEOREM Refinement == Spec => KeepsAudit
BY InitAudit, StepAudit, Invariance, PTL DEF Spec, KeepsAudit, Promise!Spec
=============================================================================
