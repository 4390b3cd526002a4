---------------------------- MODULE MCExpansion ----------------------------
(* Small instances of Expansion for TLC.                                   *)
EXTENDS Expansion

MCNames == {"a", "b", "_"}
MCTags == {"smoke"}

Kinds == {[per_target |-> FALSE, fan_out |-> FALSE],
          [per_target |-> TRUE, fan_out |-> FALSE],
          [per_target |-> FALSE, fan_out |-> TRUE]}
StageOf(kind, deps) == [per_target |-> kind.per_target, fan_out |-> kind.fan_out, deps |-> deps]
File(kinds, deps, targets) ==
    [stages |-> [s \in DOMAIN deps |-> StageOf(kinds[s], deps[s])],
     targets |-> targets, flawed |-> FALSE]
T(name, seeds, tags) == [name |-> name, seeds |-> seeds, tags |-> tags]

\* Every graph of three stages with at most two dependencies each; also one
\* listed twice, and the fourth name, which is no stage.
DepLists == {<<>>} \cup {<<d>> : d \in 1..4} \cup {<<1, 2>>, <<2, 1>>, <<2, 3>>, <<1, 3>>, <<2, 2>>}
Graphs == {File([s \in 1..3 |-> [per_target |-> FALSE, fan_out |-> FALSE]], deps, <<>>) :
              deps \in [1..3 -> DepLists]}

\* The ways stages of every kind can follow each other, and the target lists a
\* file may have: also one called like the whole design, one twice, a seed
\* twice, one that has no seed.
Orders == { << <<>>, <<1>>, <<2>> >>,            \* a chain
            << <<2>>, <<3>>, <<>> >>,            \* declared last first
            << <<>>, <<1>>, <<1, 2>> >>,         \* a short cut
            << <<>>, <<>>, <<2, 1>> >>,          \* a join
            << <<>>, <<1>>, <<1>>, <<3, 2>> >> } \* a diamond
TargetLists == { <<>>,
                 << T("a", <<1, 2>>, {"smoke"}), T("b", <<2>>, {}) >>,
                 << T("_", <<1, 2>>, {}), T("a", <<1>>, {"smoke"}) >>,
                 << T("a", <<3>>, {}), T("a", <<1>>, {}) >>,
                 << T("a", <<1, 1>>, {}) >>,
                 << T("a", <<>>, {}), T("b", <<1>>, {"smoke"}) >> }
KindLists(n) == {k \in [1..n -> Kinds] : n < 4 \/ k[1] = k[4]}
Files == UNION {{File(kinds, deps, targets) : kinds \in KindLists(Len(deps)), targets \in TargetLists} :
                   deps \in Orders}

\* Both kinds at once, and a rule about a single entry broken.
Odd == { [File([s \in 1..2 |-> [per_target |-> TRUE, fan_out |-> TRUE]], << <<>>, <<1>> >>,
               << T("a", <<1>>, {}) >>) EXCEPT !.flawed = b] : b \in BOOLEAN }

MCPipelines == Graphs \cup Files \cup Odd
MCSelections == { [tags |-> {}, targets |-> {}, seeds |-> 0, seed |-> 0],
                  [tags |-> {"smoke"}, targets |-> {}, seeds |-> 1, seed |-> 0],
                  [tags |-> {"smoke"}, targets |-> {"b"}, seeds |-> 0, seed |-> 2] }
=============================================================================
