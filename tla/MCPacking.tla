----------------------------- MODULE MCPacking -----------------------------
(* Small instances of Packing for TLC.                                     *)
EXTENDS Packing

CONSTANTS d, a, b, c, w, z

MCNodes == {d, a, b, c, w, z}
\* a and b are in directory d, c is beside it, w has a backslash in its name,
\* z is in .git.
MCWithin == [p \in MCNodes |-> IF p \in {a, b} THEN {d} ELSE {}]
MCRank == [p \in MCNodes |-> CASE p = z -> 1 [] p = c -> 2 [] p = d -> 3
                               [] p = a -> 4 [] p = b -> 5 [] p = w -> 6]

MCGlobs == {"d/*", "d/a", "c", "*", "/c"}
MCMatches == [g \in MCGlobs |-> CASE g = "d/*" -> {a, b} [] g = "d/a" -> {a}
                                  [] g = "c" -> {c}      [] g = "*" -> {c, d, w, z}
                                  [] g = "/c" -> {c}]

N(kind, bytes) == [kind |-> kind, bytes |-> bytes]
Whole == [p \in MCNodes |-> CASE p = d -> N("dir", 1) [] p = w -> N("absent", 1)
                              [] OTHER -> N("file", 1)]
\* A file missing, or missing while another has other bytes; a link for a file
\* and for the directory; no file in it; a file whose name the route refuses.
MCTrees == { Whole,
             [Whole EXCEPT ![a].kind = "absent"],
             [Whole EXCEPT ![c].kind = "absent", ![b].bytes = 2],
             [Whole EXCEPT ![b].kind = "link"],
             [Whole EXCEPT ![d].kind = "link"],
             [Whole EXCEPT ![a].kind = "absent", ![b].kind = "absent"],
             [Whole EXCEPT ![w].kind = "file"] }

Declare(rtl, tb, data) ==
    [r \in RoleNames |-> CASE r = "rtl" -> rtl [] r = "tb" -> tb [] r = "data" -> data
                           [] OTHER -> <<>>]
File(globs, needs) == [globs |-> globs, needs |-> needs, timeouts |-> {2, 3}, flawed |-> FALSE]
\* One glob or two, overlapping or not; one role, two that share no file, two
\* that do; targets that find their files and targets that do not.
Rtl == { <<"d/*">>, <<"d/a", "d/*">>, <<"d/*", "d/a">>, <<"c", "d/*">>, <<"*", "d/a">> }
Rest == { << <<>>, <<>>, {} >>, << <<>>, <<"*">>, {} >>, << <<"c">>, <<>>, {<<"tb", c>>} >>,
          << <<"c">>, <<"d/*">>, {<<"data", a>>, <<"tb", c>>} >>,
          << <<"c">>, <<>>, {<<"data", a>>} >> }
MCPipelines ==
    { File(Declare(rtl, rest[1], rest[2]), rest[3]) : rtl \in Rtl, rest \in Rest }
    \cup { File(Declare(<<"/c", "c">>, <<>>, <<>>), {<<"tb", c>>}),
           \* A stage with no more time than the control plane takes to kill it.
           [File(Declare(<<"d/*">>, <<"c">>, <<>>), {<<"tb", c>>}) EXCEPT !.timeouts = {1, 2}],
           [File(Declare(<<"c">>, <<>>, <<>>), {}) EXCEPT !.flawed = TRUE] }

\* Entries in any order, with equal ordinals, a path twice, one too many; one
\* manifest of a design that has another name.
E(p, r, n) == [path |-> p, role |-> r, ordinal |-> n, bytes |-> 1]
Lines == { E(a, "rtl", 1), E(c, "tb", 0), E(a, "rtl", 0) }
Small == File(Declare(<<"c">>, <<>>, <<>>), {})
MCHandmade == { [files |-> files, pipeline |-> [Small EXCEPT !.needs = {<<"tb", c>>}],
                 renamed |-> files = <<E(c, "tb", 0)>>] :
    files \in UNION {[1..n -> Lines] : n \in 1..2}
              \cup { <<E(b, "rtl", 1), E(c, "tb", 0), E(a, "rtl", 1)>>,
                     <<E(a, "rtl", 0), E(c, "tb", 0), E(a, "data", 0)>>,
                     <<E(a, "rtl", 0), E(b, "rtl", 0), E(c, "tb", 0), E(w, "data", 0)>> } }
=============================================================================
