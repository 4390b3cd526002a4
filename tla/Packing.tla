------------------------------ MODULE Packing ------------------------------
(***************************************************************************)
(* pack: the globs of the pipeline file one after the other, the place of  *)
(* every file found, then its bytes, all read from a directory that others *)
(* edit meanwhile; and what the submission route says of a manifest,       *)
(* packed or written by hand.                                              *)
(*                                                                         *)
(* Paths are abstract: Within names the directories on a path, Rank their  *)
(* order as strings, Matches what a pattern matches. A digest stands for   *)
(* the bytes it is of.                                                     *)
(***************************************************************************)
EXTENDS Integers, Sequences, FiniteSets

CONSTANTS
    Nodes, Within, Rank,
    Skipped,        \* under .git or __pycache__, or given as excluded
    Misnamed,       \* a backslash in the name, which the route refuses
    Globs, Matches,
    BadGlobs,       \* absolute, with a backslash or with ..
    Bytes, Trees, Pipelines,
    Handmade,       \* manifests that no pack made
    MaxFiles,       \* MAX_MANIFEST_FILES
    KillGrace,      \* kill_grace_s of the control plane
    Nothing

Roles == <<"rtl", "include", "tb", "data">>
RoleNames == {Roles[k] : k \in DOMAIN Roles}
RoleIndex(r) == CHOOSE k \in DOMAIN Roles : Roles[k] = r

Node == [kind : {"absent", "dir", "file", "link"}, bytes : Bytes]
\* needs: what targets name, under tb and under data. timeouts: timeout_s of the
\* stages. flawed: load_pipeline raises.
Pipeline == [globs : [RoleNames -> Seq(Globs)],
             needs : SUBSET ({"tb", "data"} \X Nodes),
             timeouts : SUBSET (Nat \ {0}), flawed : BOOLEAN]
Entry == [path : Nodes, role : RoleNames, ordinal : Nat, bytes : Bytes]
\* renamed: the design's name is not the one in the pipeline.
Manifest == [files : Seq(Entry), pipeline : Pipeline, renamed : BOOLEAN]

ASSUME ConstantsAssumption ==
    /\ IsFiniteSet(Nodes) /\ Skipped \cup Misnamed \subseteq Nodes
    /\ Within \in [Nodes -> SUBSET Nodes]
    /\ Rank \in [Nodes -> Nat] /\ \A p, q \in Nodes : Rank[p] = Rank[q] => p = q
    /\ Matches \in [Globs -> SUBSET Nodes] /\ BadGlobs \subseteq Globs
    /\ Trees \subseteq [Nodes -> Node] /\ Pipelines \subseteq Pipeline
    /\ Handmade \subseteq Manifest /\ MaxFiles \in Nat /\ KillGrace \in Nat
    /\ Nothing \notin Trees \cup Pipelines

\* What a pack may say is wrong.
Issue == {<<"missing">>, <<"pipeline">>, <<"vanished">>}
         \cup ({"glob"} \X (Nat \X Nat)) \cup ({"roles", "location"} \X Nodes)
         \cup ({"target"} \X ({"tb", "data"} \X Nodes))

\* Nothing is no answer.
ASSUME NothingAssumption == Nothing \notin [trouble : SUBSET Issue, files : Seq(Entry)]

VARIABLES
    tree,       \* the directory
    pipeline,   \* its pipeline file, or Nothing
    pc,
    at,         \* the glob that is next: its role's place in ROLES, its own place
    ordinal,
    matched,    \* path |-> role and ordinal
    todo,       \* paths the current loop has still to come to
    issues, entries,
    answer,     \* what pack returned or raised
    verdict,    \* what the route said of the last manifest
    since       \* for the promise only: the tree when pack began, unless changed

work == <<at, ordinal, matched, todo, issues, entries>>
vars == <<tree, pipeline, pc, work, answer, verdict, since>>

NoFiles == [p \in {} |-> 0]
Idle == pc = "idle" /\ at = <<1, 1>> /\ ordinal = 0 /\ matched = NoFiles
        /\ todo = {} /\ issues = {} /\ entries = {}
Init == /\ tree \in Trees /\ pipeline \in Pipelines \cup {Nothing}
        /\ Idle /\ answer = Nothing /\ verdict = Nothing /\ since = Nothing

-----------------------------------------------------------------------------
(* pack *)

Refused(trouble) == [trouble |-> trouble, files |-> <<>>]
\* pack returns or raises; its local variables are gone.
Leave(result) == /\ answer' = result /\ since' = Nothing
                 /\ pc' = "idle" /\ at' = <<1, 1>> /\ ordinal' = 0 /\ matched' = NoFiles
                 /\ todo' = {} /\ issues' = {} /\ entries' = {}

Begin ==
    /\ pc = "idle" /\ pc' = "load" /\ answer' = Nothing /\ since' = tree
    /\ verdict' = Nothing
    /\ UNCHANGED <<tree, pipeline, work>>

Load ==
    /\ pc = "load"
    /\ \/ pipeline = Nothing /\ Leave(Refused({<<"missing">>}))
       \/ pipeline # Nothing /\ pipeline.flawed /\ Leave(Refused({<<"pipeline">>}))
       \/ /\ pipeline # Nothing /\ ~pipeline.flawed
          /\ pc' = "globs" /\ UNCHANGED <<work, answer, since>>
    /\ UNCHANGED <<tree, pipeline, verdict>>

\* _expand_glob: what a pattern finds, also through symlinked directories.
Reaches(t, p) == /\ t[p].kind \in {"file", "link"}
                 /\ \A c \in Within[p] : t[c].kind \in {"dir", "link"}
Found(g) == {p \in Matches[g] \ Skipped : Reaches(tree, p)}

\* How many of the files S are sorted before p.
\* Mutant: files are taken in the order the file system lists them.
PlaceListed(S, p) == Cardinality({q \in S : Rank[p] < Rank[q]})
Place(S, p) == Cardinality({q \in S : Rank[q] < Rank[p]})

\* One turn of the loop over a role's globs. An issue names the first role only.
ExpandGlob ==
    /\ pc = "globs" /\ at[2] \in DOMAIN pipeline.globs[Roles[at[1]]]
    /\ LET role  == Roles[at[1]]
           g     == pipeline.globs[role][at[2]]
           paths == IF g \in BadGlobs THEN {} ELSE Found(g)
           new   == paths \ DOMAIN matched
       IN  /\ matched' = [p \in DOMAIN matched \cup new |->
                            IF p \in new THEN [role |-> role, ordinal |-> ordinal + Place(new, p)]
                                        ELSE matched[p]]
           /\ ordinal' = ordinal + Cardinality(new)
           /\ issues' = issues \cup (IF paths = {} THEN {<<"glob", at>>} ELSE {})
                               \cup {<<"roles", p>> : p \in {p \in paths \ new : matched[p].role # role}}
    /\ at' = <<at[1], at[2] + 1>>
    /\ UNCHANGED <<tree, pipeline, pc, todo, entries, answer, verdict, since>>

GlobsDone == pc = "globs" /\ at[2] \notin DOMAIN pipeline.globs[Roles[at[1]]]

\* Mutant: one ordinal for all roles.
NextRoleCounting ==
    /\ GlobsDone /\ at[1] < Len(Roles)
    /\ at' = <<at[1] + 1, 1>>
    /\ UNCHANGED <<tree, pipeline, pc, ordinal, matched, todo, issues, entries, answer, verdict, since>>
NextRole ==
    /\ GlobsDone /\ at[1] < Len(Roles)
    /\ at' = <<at[1] + 1, 1>> /\ ordinal' = 0
    /\ UNCHANGED <<tree, pipeline, pc, matched, todo, issues, entries, answer, verdict, since>>

LastRole ==
    /\ GlobsDone /\ at[1] = Len(Roles)
    /\ pc' = "locations" /\ todo' = DOMAIN matched
    /\ UNCHANGED <<tree, pipeline, at, ordinal, matched, issues, entries, answer, verdict, since>>

\* _bad_location: a file, and no symlink on the way, so inside the pack.
Regular(t, p) == t[p].kind = "file" /\ \A c \in Within[p] : t[c].kind = "dir"

CheckLocation ==
    /\ pc = "locations"
    /\ \E p \in todo :
          /\ \A q \in todo : Rank[p] <= Rank[q]
          /\ todo' = todo \ {p}
          /\ issues' = issues \cup IF Regular(tree, p) THEN {} ELSE {<<"location", p>>}
    /\ UNCHANGED <<tree, pipeline, pc, at, ordinal, matched, entries, answer, verdict, since>>

\* target_issues, here and in the route. roles: path |-> role.
TargetIssues(d, roles) == {<<"target", x>> : x \in {x \in d.needs :
                              ~(x[2] \in DOMAIN roles /\ roles[x[2]] = x[1])}}

\* Mutant: targets are left to the route.
JudgeLax ==
    /\ pc = "locations" /\ todo = {}
    /\ IF issues # {} THEN Leave(Refused(issues))
       ELSE /\ pc' = "hash" /\ todo' = DOMAIN matched
            /\ UNCHANGED <<at, ordinal, matched, issues, entries, answer, since>>
    /\ UNCHANGED <<tree, pipeline, verdict>>
Judge ==
    /\ pc = "locations" /\ todo = {}
    /\ LET all == issues \cup TargetIssues(pipeline, [p \in DOMAIN matched |-> matched[p].role])
       IN  IF all # {} THEN Leave(Refused(all))
           ELSE /\ pc' = "hash" /\ todo' = DOMAIN matched
                /\ UNCHANGED <<at, ordinal, matched, issues, entries, answer, since>>
    /\ UNCHANGED <<tree, pipeline, verdict>>

\* hash_file follows links; what is not there any more raises. In any order.
Hash ==
    /\ pc = "hash"
    /\ \E p \in todo :
          IF Reaches(tree, p)
          THEN /\ entries' = entries \cup {[path |-> p, role |-> matched[p].role,
                                            ordinal |-> matched[p].ordinal,
                                            bytes |-> tree[p].bytes]}
               /\ todo' = todo \ {p}
               /\ UNCHANGED <<pc, at, ordinal, matched, issues, answer, since>>
          ELSE Leave(Refused({<<"vanished">>}))
    /\ UNCHANGED <<tree, pipeline, verdict>>

\* S sorted by a strict order, a set of pairs, that leaves no two of S unrelated.
Sequenced(S, less) ==
    [k \in 1..Cardinality(S) |->
        CHOOSE e \in S : Cardinality({f \in S : <<f, e>> \in less}) = k - 1]
Precedes(e, f) == \/ RoleIndex(e.role) < RoleIndex(f.role)
                  \/ e.role = f.role /\ e.ordinal < f.ordinal

Finish ==
    /\ pc = "hash" /\ todo = {}
    /\ LET less == {x \in entries \X entries : Precedes(x[1], x[2])}
       IN  Leave([trouble |-> {}, files |-> Sequenced(entries, less)])
    /\ UNCHANGED <<tree, pipeline, verdict>>

\* Somebody else writes into the directory.
Edit == /\ tree' \in Trees \ {tree} /\ since' = Nothing
        /\ UNCHANGED <<pipeline, pc, work, answer, verdict>>

-----------------------------------------------------------------------------
(* The route: the shape of the request, then _manifest_from *)

Malformed(m) == Len(m.files) > MaxFiles \/ \E i \in DOMAIN m.files : m.files[i].path \in Misnamed

Repeated(m) == {<<"repeated", j>> : j \in {j \in DOMAIN m.files :
                   \E i \in 1..(j - 1) : m.files[i].path = m.files[j].path}}

\* A dict comprehension: of two entries with one path the last counts.
RolesOf(m) == [p \in {m.files[i].path : i \in DOMAIN m.files} |->
    LET last == CHOOSE i \in DOMAIN m.files :
                    /\ m.files[i].path = p
                    /\ \A j \in DOMAIN m.files : m.files[j].path = p => j <= i
    IN  m.files[last].role]
Refusals(m) == Repeated(m) \cup TargetIssues(m.pipeline, RolesOf(m))
               \cup (IF m.renamed THEN {<<"design">>} ELSE {})

\* validate_timing, asked last: what the control plane's own constants must
\* fulfil was checked when it started, so what is left is what it asks of the stages.
Timed(p) == \A x \in p.timeouts : KillGrace < x

Accepts(m) == ~Malformed(m) /\ ~m.pipeline.flawed /\ Refusals(m) = {} /\ Timed(m.pipeline)

\* sorted() is stable: equal ordinals keep the order of the request.
Sorted(files) ==
    LET less == {x \in (DOMAIN files) \X (DOMAIN files) :
                    \/ Precedes(files[x[1]], files[x[2]])
                    \/ x[1] < x[2] /\ ~Precedes(files[x[2]], files[x[1]])}
        order == Sequenced(DOMAIN files, less)
    IN  [k \in DOMAIN files |-> files[order[k]]]

Submit(m) ==
    /\ pc = "idle"
    /\ verdict' = IF Accepts(m)
                  THEN [manifest |-> m, accepted |-> TRUE, files |-> Sorted(m.files)]
                  ELSE [manifest |-> m, accepted |-> FALSE, files |-> <<>>]
    /\ UNCHANGED <<tree, pipeline, pc, work, answer, since>>

IsPacked == answer # Nothing /\ answer.trouble = {}
AsManifest == [files |-> answer.files, pipeline |-> pipeline, renamed |-> FALSE]

Next ==
    \/ Begin \/ Load \/ ExpandGlob \/ NextRole \/ LastRole
    \/ CheckLocation \/ Judge \/ Hash \/ Finish \/ Edit
    \/ IsPacked /\ Submit(AsManifest)
    \/ \E m \in Handmade : Submit(m)

Spec == Init /\ [][Next]_vars
-----------------------------------------------------------------------------
(* Properties *)

TypeOK ==
    /\ tree \in [Nodes -> Node] /\ pipeline \in Pipelines \cup {Nothing}
    /\ pc \in {"idle", "load", "globs", "locations", "hash"}
    /\ at \in (DOMAIN Roles) \X (Nat \ {0})
    /\ DOMAIN matched \subseteq Nodes
    /\ matched \in [DOMAIN matched -> [role : RoleNames, ordinal : Nat]]
    /\ pc = "globs" => ordinal = Cardinality({p \in DOMAIN matched : matched[p].role = Roles[at[1]]})
    /\ todo \subseteq DOMAIN matched
    /\ \A e \in entries : e \in Entry
    /\ pc = "hash" => DOMAIN matched \ todo = {e.path : e \in entries}
    /\ pc = "idle" => Idle
    /\ since \in {tree, Nothing}

\* The files of a manifest m that have role r, in its order.
OfRole(m, r) == {i \in DOMAIN m : m[i].role = r}

\* A manifest that is packed, from a directory edited meanwhile or not, has each
\* path once, one role after the other in the order of ROLES, and in each role
\* ordinals from 0 without a gap in which globs keep the order they are declared
\* in and files of one glob their order as strings; no file is a skipped one.
ManifestsAreOrdered ==
    IsPacked =>
      LET m == answer.files
          Declared(e) == {i \in DOMAIN pipeline.globs[e.role] :
                             e.path \in Matches[pipeline.globs[e.role][i]]}
      IN  /\ \A i, j \in DOMAIN m : m[i].path = m[j].path => i = j
          /\ \A i, j \in DOMAIN m : i < j => RoleIndex(m[i].role) <= RoleIndex(m[j].role)
          /\ \A r \in RoleNames : \A i \in OfRole(m, r) :
                m[i].ordinal = Cardinality({j \in OfRole(m, r) : j < i})
          /\ \A i \in DOMAIN m : Declared(m[i]) # {} /\ m[i].path \notin Skipped
          /\ \A i, j \in DOMAIN m : i < j /\ m[i].role = m[j].role =>
                \E a \in Declared(m[i]), b \in Declared(m[j]) :
                    a < b \/ (a = b /\ Rank[m[i].path] < Rank[m[j].path])

\* "The same rules a pack obeys" (wire.py): a packed manifest, of an edited
\* directory or not, is refused for what pack does not look at, the name of a
\* file, their number, or a stage's timeout below what the control plane needs to
\* kill it (test_stage_timeouts_are_checked_against_the_timing_constants), and
\* never for a path sent twice, a target's file or the pipeline itself.
PackedIsAccepted ==
    IsPacked => \/ Accepts(AsManifest)
                \/ Malformed(AsManifest)
                \/ ~Timed(pipeline)

\* Whatever is sent, what is accepted has each path once and every file a target
\* names under its role, and lists by role and ordinal exactly what was sent,
\* files with equal ordinals in the order they were sent in.
AcceptedIsSound ==
    verdict # Nothing /\ verdict.accepted =>
      LET sent == verdict.manifest.files
          files == verdict.files
      IN  /\ \A i, j \in DOMAIN files : files[i].path = files[j].path => i = j
          /\ {files[i] : i \in DOMAIN files} = {sent[i] : i \in DOMAIN sent}
          /\ \A i, j \in DOMAIN files : i < j => ~Precedes(files[j], files[i])
          /\ \A x \in verdict.manifest.pipeline.needs :
                \E i \in DOMAIN files : files[i].path = x[2] /\ files[i].role = x[1]
          /\ \A i, j \in DOMAIN sent : i < j /\ ~Precedes(sent[j], sent[i]) =>
                \E k, l \in DOMAIN files : k < l /\ files[k] = sent[i] /\ files[l] = sent[j]

\* Pack and route agree on what a manifest is (pack, _manifest_from): whatever
\* happens to the directory, and whoever wrote the manifest.
ManifestsAreSound == ManifestsAreOrdered /\ PackedIsAccepted /\ AcceptedIsSound

\* A pack of a directory that nobody touches is the one the promise determines,
\* and a refusal names every problem there is.
Promise == INSTANCE PackOrder WITH
    asking <- pc # "idle",
    packed <- IF answer = Nothing THEN Nothing
              ELSE [trouble |-> answer.trouble,
                    files |-> {answer.files[i] : i \in DOMAIN answer.files}]
KeepsOrder == Promise!Spec
=============================================================================
