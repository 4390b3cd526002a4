----------------------------- MODULE PackOrder -----------------------------
(***************************************************************************)
(* What packing promises: of a directory nobody touches meanwhile, the one *)
(* manifest that declarations and files determine, or every problem at     *)
(* once. Of a directory that changes meanwhile it promises nothing here.   *)
(* Packing implements this specification.                                  *)
(***************************************************************************)
EXTENDS Integers, FiniteSets

CONSTANTS Nodes, Rank, Within, Skipped, Matches, BadGlobs, Trees, Nothing

VARIABLES
    tree,       \* the directory
    pipeline,   \* its pipeline file
    asking,     \* a pack is going on
    since,      \* the directory as packing found it, unless it has changed
    packed      \* the answer

vars == <<tree, pipeline, asking, since, packed>>

Roles == <<"rtl", "include", "tb", "data">>
Places(d) == UNION {{<<k, i>> : i \in DOMAIN d.globs[Roles[k]]} : k \in DOMAIN Roles}
Glob(d, x) == d.globs[Roles[x[1]]][x[2]]

Reaches(t, p) == /\ t[p].kind \in {"file", "link"}
                 /\ \A c \in Within[p] : t[c].kind \in {"dir", "link"}
Takers(t, d, p) == {x \in Places(d) : /\ Glob(d, x) \notin BadGlobs
                                      /\ p \in Matches[Glob(d, x)] \ Skipped
                                      /\ Reaches(t, p)}

\* The order of the declarations: roles first, then the globs of each.
Earlier(x, y) == x[1] < y[1] \/ (x[1] = y[1] /\ x[2] < y[2])
Taken(t, d) == {p \in Nodes : Takers(t, d, p) # {}}
Owner(t, d, p) == CHOOSE x \in Takers(t, d, p) : \A y \in Takers(t, d, p) : ~Earlier(y, x)

Before(t, d, p) == {q \in Taken(t, d) :
    LET x == Owner(t, d, p)  y == Owner(t, d, q)
    IN  y[1] = x[1] /\ (y[2] < x[2] \/ (y[2] = x[2] /\ Rank[q] < Rank[p]))}

Regular(t, p) == t[p].kind = "file" /\ \A c \in Within[p] : t[c].kind = "dir"

Trouble(t, d) ==
    {<<"glob", x>> : x \in {x \in Places(d) : \/ Glob(d, x) \in BadGlobs
                                              \/ \A p \in Nodes : x \notin Takers(t, d, p)}}
    \cup {<<"roles", p>> : p \in {p \in Taken(t, d) :
              \E x, y \in Takers(t, d, p) : x[1] # y[1]}}
    \cup {<<"location", p>> : p \in {p \in Taken(t, d) : ~Regular(t, p)}}
    \cup {<<"target", x>> : x \in {x \in d.needs :
              ~(x[2] \in Taken(t, d) /\ Roles[Owner(t, d, x[2])[1]] = x[1])}}

Entries(t, d) == {[path |-> p, role |-> Roles[Owner(t, d, p)[1]],
                   ordinal |-> Cardinality(Before(t, d, p)), bytes |-> t[p].bytes] :
                      p \in Taken(t, d)}

Outcome(t, d) ==
    IF d = Nothing THEN [trouble |-> {<<"missing">>}, files |-> {}]
    ELSE IF d.flawed THEN [trouble |-> {<<"pipeline">>}, files |-> {}]
    ELSE [trouble |-> Trouble(t, d),
          files |-> IF Trouble(t, d) = {} THEN Entries(t, d) ELSE {}]

Init == asking = FALSE /\ since = Nothing /\ packed = Nothing /\ tree \in Trees

Edit == /\ tree' \in Trees /\ since' = Nothing
        /\ UNCHANGED <<pipeline, asking, packed>>
Ask == /\ ~asking /\ asking' = TRUE /\ since' = tree /\ packed' = Nothing
       /\ UNCHANGED <<tree, pipeline>>
Tell == /\ asking /\ asking' = FALSE /\ since' = Nothing
        /\ since # Nothing => packed' = Outcome(since, pipeline)
        /\ UNCHANGED <<tree, pipeline>>

Next == Edit \/ Ask \/ Tell

Spec == Init /\ [][Next]_vars
=============================================================================
