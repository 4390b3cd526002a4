--------------------------- MODULE PackingProofs ---------------------------
(***************************************************************************)
(* Proofs about Packing, for directories, pipelines and manifests of any   *)
(* number and size: the state it keeps, that what it packs is ordered and  *)
(* accepted, and that it implements PackOrder.                             *)
(*                                                                         *)
(* A pack is a function from files to the globs that found them. It orders *)
(* them, and each of them is counted when its glob is expanded.            *)
(***************************************************************************)
EXTENDS Packing, FiniteSetTheorems, FunctionTheorems, TLAPS

-----------------------------------------------------------------------------
(* The inductive invariant *)

\* While a pack is past its pipeline file.
Packs == pc \in {"globs", "locations", "hash"}
Places == Promise!Places(pipeline)
GlobAt(x) == Promise!Glob(pipeline, x)
Past(x) == Promise!Earlier(x, at)
Takers(p) == Promise!Takers(tree, pipeline, p)

\* What a pack has before it comes to its globs, and what it keeps for later.
Steady ==
    /\ tree \in Trees /\ since \in {tree, Nothing}
    /\ pc = "load" => at = <<1, 1>> /\ ordinal = 0 /\ matched = NoFiles /\ issues = {}
    /\ pc \in {"load", "globs"} => todo = {}
    /\ pc \in {"load", "globs", "locations"} => entries = {}
    /\ Packs => pipeline \in Pipelines /\ ~pipeline.flawed
    /\ pc \in {"locations", "hash"} => \A x \in Places : Past(x)
    /\ issues \subseteq Issue

\* The files that come before p in its role, when own names each file's glob.
Behind(own, p) == {q \in DOMAIN own : /\ own[q][1] = own[p][1]
                                      /\ \/ own[q][2] < own[p][2]
                                         \/ own[q][2] = own[p][2] /\ Rank[q] < Rank[p]}
First(x, p) == x \in Takers(p) /\ \A y \in Takers(p) : ~Promise!Earlier(y, x)

\* Every file matched is so for one glob the loop is past, and its ordinal says
\* how many come before it. Of a directory nobody touched it is the first glob
\* that finds the file.
Owners(own) == \A p \in DOMAIN own :
    /\ Past(own[p]) /\ GlobAt(own[p]) \notin BadGlobs
    /\ p \in Matches[GlobAt(own[p])] \ Skipped
    /\ matched[p] = [role |-> Roles[own[p][1]], ordinal |-> Cardinality(Behind(own, p))]
    /\ since # Nothing => First(own[p], p)
Owned == Packs => \E own \in [DOMAIN matched -> Places] : Owners(own)

\* What is hashed is what was matched, and what targets need is among it.
Hashed ==
    /\ \A e \in entries : /\ e.path \in DOMAIN matched \ todo
                          /\ e.role = matched[e.path].role /\ e.ordinal = matched[e.path].ordinal
                          /\ since # Nothing => e.bytes = tree[e.path].bytes
    /\ \A e, f \in entries : e.path = f.path => e = f
    /\ pc = "hash" => TargetIssues(pipeline, [p \in DOMAIN matched |-> matched[p].role]) = {}

\* What has been found wrong so far with a directory nobody touched.
GlobTrouble == {x \in Places : Past(x) /\ (GlobAt(x) \in BadGlobs
                                           \/ \A p \in Nodes : x \notin Takers(p))}
RoleTrouble == {p \in Nodes : \E x, y \in Takers(p) : Past(x) /\ Past(y) /\ x[1] # y[1]}
Astray == {p \in DOMAIN matched \ todo : ~Regular(tree, p)}
Synced == since # Nothing /\ Packs =>
    /\ DOMAIN matched = {p \in Nodes : \E x \in Takers(p) : Past(x)}
    /\ pc # "hash" => issues = {<<"glob", x>> : x \in GlobTrouble}
                               \cup {<<"roles", p>> : p \in RoleTrouble}
                               \cup {<<"location", p>> : p \in IF pc = "globs" THEN {} ELSE Astray}
    /\ pc = "hash" => Promise!Trouble(tree, pipeline) = {}

Answered == IsPacked => AsManifest \in Manifest

IInv == /\ TypeOK /\ Steady /\ Owned /\ Hashed /\ Synced /\ Answered /\ ManifestsAreSound
-----------------------------------------------------------------------------
(* The constants *)

LEMMA RolesAre ==
  /\ DOMAIN Roles = 1..4 /\ Len(Roles) = 4 /\ Promise!Roles = Roles
  /\ \A k \in 1..4 : Roles[k] \in RoleNames
  /\ \A k, l \in 1..4 : Roles[k] = Roles[l] => k = l
<1>1. DOMAIN Roles = 1..4 /\ Len(Roles) = 4
  BY DEF Roles
<1>2. Roles[1] = "rtl" /\ Roles[2] = "include" /\ Roles[3] = "tb" /\ Roles[4] = "data"
  BY DEF Roles
<1>3. \A k \in 1..4 : k = 1 \/ k = 2 \/ k = 3 \/ k = 4
  OBVIOUS
<1>4. Promise!Roles = Roles
  BY DEF Roles, Promise!Roles
<1>5. \A k \in 1..4 : Roles[k] \in RoleNames
  BY <1>1 DEF RoleNames
<1>6. \A k, l \in 1..4 : Roles[k] = Roles[l] => k = l
  BY <1>2, <1>3
<1> QED BY <1>1, <1>4, <1>5, <1>6

LEMMA IndexOfRole ==
  /\ \A k \in 1..4 : RoleIndex(Roles[k]) = k
  /\ \A r \in RoleNames : RoleIndex(r) \in 1..4 /\ Roles[RoleIndex(r)] = r
<1>1. \A r \in RoleNames : \E k \in 1..4 : Roles[k] = r
  BY RolesAre DEF RoleNames
<1>2. \A r \in RoleNames : RoleIndex(r) \in 1..4 /\ Roles[RoleIndex(r)] = r
  BY <1>1, RolesAre DEF RoleIndex
<1> QED BY <1>2, RolesAre

LEMMA NodesAre ==
  /\ IsFiniteSet(Nodes) /\ Within \in [Nodes -> SUBSET Nodes] /\ Rank \in [Nodes -> Nat]
  /\ \A p, q \in Nodes : Rank[p] = Rank[q] => p = q
  /\ \A g \in Globs : Matches[g] \subseteq Nodes
  /\ Trees \subseteq [Nodes -> Node] /\ Pipelines \subseteq Pipeline
  /\ Handmade \subseteq Manifest /\ Nothing \notin Trees /\ Nothing \notin Pipelines
BY ConstantsAssumption

-----------------------------------------------------------------------------
(* Sorting: the number of those before it tells the elements apart, so it  *)
(* is a place for each.                                                    *)

Under(S, less, e) == {f \in S : <<f, e>> \in less}
Sorts(S, less) == /\ \A e \in S : <<e, e>> \notin less
                  /\ \A e, f \in S : e # f => <<e, f>> \in less \/ <<f, e>> \in less
                  /\ \A e, f, g \in S : <<e, f>> \in less /\ <<f, g>> \in less => <<e, g>> \in less

LEMMA UnderIsBelow ==
  ASSUME NEW S, IsFiniteSet(S), NEW less, Sorts(S, less), NEW e \in S
  PROVE  Cardinality(Under(S, less, e)) \in 0..(Cardinality(S) - 1)
<1>1. Under(S, less, e) \in SUBSET (S \ {e})
  BY DEF Under, Sorts
<1>2. IsFiniteSet(S \ {e}) /\ Cardinality(S \ {e}) = Cardinality(S) - 1
  BY FS_RemoveElement
<1>3. /\ IsFiniteSet(Under(S, less, e))
      /\ Cardinality(Under(S, less, e)) <= Cardinality(S) - 1
  BY <1>1, <1>2, FS_Subset
<1> QED BY <1>3, FS_CardinalityType

LEMMA UnderGrows ==
  ASSUME NEW S, IsFiniteSet(S), NEW less, Sorts(S, less),
         NEW e \in S, NEW f \in S, <<e, f>> \in less
  PROVE  Cardinality(Under(S, less, e)) < Cardinality(Under(S, less, f))
<1>1. /\ Under(S, less, e) \in SUBSET Under(S, less, f)
      /\ e \in Under(S, less, f) /\ e \notin Under(S, less, e)
  BY DEF Under, Sorts
<1>2. Under(S, less, f) \in SUBSET S
  BY DEF Under
<1>3. IsFiniteSet(Under(S, less, f))
  BY <1>2, FS_Subset
<1>4. /\ IsFiniteSet(Under(S, less, e))
      /\ Cardinality(Under(S, less, e)) <= Cardinality(Under(S, less, f))
      /\ Cardinality(Under(S, less, e)) # Cardinality(Under(S, less, f))
  BY <1>1, <1>3, FS_Subset
<1> QED BY <1>3, <1>4, FS_CardinalityType

LEMMA UpTo ==
  ASSUME NEW m \in Nat
  PROVE  IsFiniteSet(0..(m - 1)) /\ Cardinality(0..(m - 1)) = m
<1>1. 0 \in Int /\ m - 1 \in Int
  OBVIOUS
<1>2. Cardinality(0..(m - 1)) = IF 0 > m - 1 THEN 0 ELSE m - 1 - 0 + 1
  BY <1>1, FS_Interval
<1> QED BY <1>1, <1>2, FS_Interval

LEMMA SequencedSorts ==
  ASSUME NEW S, IsFiniteSet(S), NEW less, Sorts(S, less)
  PROVE  LET s == Sequenced(S, less)  N == Cardinality(S) IN
         /\ N \in Nat /\ s \in [1..N -> S]
         /\ \A e \in S : \E k \in 1..N : s[k] = e
         /\ \A i, j \in 1..N : i < j => <<s[i], s[j]>> \in less
         /\ \A i, j \in 1..N : s[i] = s[j] => i = j
<1> DEFINE N == Cardinality(S)
           s == Sequenced(S, less)
           rank == [e \in S |-> Cardinality(Under(S, less, e))]
<1>1. N \in Nat
  BY FS_CardinalityType
<1>2. rank \in [S -> 0..(N - 1)]
  BY UnderIsBelow
<1>3. \A e, f \in S : <<e, f>> \in less => rank[e] < rank[f]
  BY UnderGrows
<1>4. rank \in Injection(S, 0..(N - 1))
  <2>1. ASSUME NEW e \in S, NEW f \in S, e # f PROVE rank[e] # rank[f]
    <3>1. <<e, f>> \in less \/ <<f, e>> \in less
      BY <2>1 DEF Sorts
    <3>2. rank[e] \in Nat /\ rank[f] \in Nat
      BY <1>2
    <3> QED BY <1>3, <3>1, <3>2
  <2> QED BY <1>2, <2>1 DEF Injection, IsInjective
<1>5. IsFiniteSet(0..(N - 1)) /\ Cardinality(0..(N - 1)) = N
  BY <1>1, UpTo
<1>6. rank \in Surjection(S, 0..(N - 1))
  BY <1>4, <1>5, FS_Injection
<1>7. ASSUME NEW k \in 1..N PROVE s[k] \in S /\ rank[s[k]] = k - 1
  <2>1. k - 1 \in 0..(N - 1)
    BY <1>1
  <2>2. \E e \in S : rank[e] = k - 1
    BY <1>6, <2>1 DEF Surjection
  <2>3. s[k] = CHOOSE e \in S : rank[e] = k - 1
    BY DEF Sequenced, Under
  <2> QED BY <2>2, <2>3
<1>8. s \in [1..N -> S]
  BY <1>7 DEF Sequenced
<1>9. ASSUME NEW e \in S PROVE \E k \in 1..N : s[k] = e
  <2>1. rank[e] + 1 \in 1..N /\ rank[e] \in Nat
    BY <1>1, <1>2
  <2>2. rank[s[rank[e] + 1]] = rank[e] /\ s[rank[e] + 1] \in S
    BY <1>7, <2>1
  <2>3. s[rank[e] + 1] = e
    BY <1>4, <2>2 DEF Injection, IsInjective
  <2> QED BY <2>1, <2>3
<1>10. ASSUME NEW i \in 1..N, NEW j \in 1..N, i < j PROVE <<s[i], s[j]>> \in less
  <2>1. /\ rank[s[i]] = i - 1 /\ rank[s[j]] = j - 1
        /\ s[i] \in S /\ s[j] \in S
    BY <1>7
  <2>2. s[i] # s[j] /\ ~(rank[s[j]] < rank[s[i]])
    BY <1>1, <1>10, <2>1
  <2>3. <<s[i], s[j]>> \in less \/ <<s[j], s[i]>> \in less
    BY <2>1, <2>2 DEF Sorts
  <2> QED BY <1>3, <2>1, <2>2, <2>3
<1>11. ASSUME NEW i \in 1..N, NEW j \in 1..N, s[i] = s[j] PROVE i = j
  <2>1. i - 1 = j - 1
    BY <1>7, <1>11
  <2> QED BY <1>1, <2>1
<1> QED BY <1>1, <1>8, <1>9, <1>10, <1>11

-----------------------------------------------------------------------------
(* What the route says *)

LEMMA EntryIs == \A e \in Entry : e.path \in Nodes /\ e.role \in RoleNames /\ e.ordinal \in Nat
BY DEF Entry

LEMMA PrecedesIsByNumbers ==
  ASSUME NEW e, NEW f, e.role \in RoleNames, f.role \in RoleNames
  PROVE  /\ RoleIndex(e.role) \in 1..4 /\ RoleIndex(f.role) \in 1..4
         /\ e.role = f.role <=> RoleIndex(e.role) = RoleIndex(f.role)
         /\ Precedes(e, f) <=> \/ RoleIndex(e.role) < RoleIndex(f.role)
                               \/ RoleIndex(e.role) = RoleIndex(f.role) /\ e.ordinal < f.ordinal
BY IndexOfRole DEF Precedes

\* The order of sorted() on the places of a list: by what is there, then as it was.
Stable(files) == {x \in (DOMAIN files) \X (DOMAIN files) :
                     \/ Precedes(files[x[1]], files[x[2]])
                     \/ x[1] < x[2] /\ ~Precedes(files[x[2]], files[x[1]])}

LEMMA StableSorts ==
  ASSUME NEW files \in Seq(Entry)
  PROVE  Sorts(DOMAIN files, Stable(files)) /\ IsFiniteSet(DOMAIN files)
         /\ Cardinality(DOMAIN files) = Len(files)
<1> DEFINE K(i) == RoleIndex(files[i].role)
           O(i) == files[i].ordinal
           Less(i, j) == K(i) < K(j) \/ (K(i) = K(j) /\ O(i) < O(j))
           Prior(i, j) == Less(i, j) \/ (i < j /\ ~Less(j, i))
<1>1. DOMAIN files = 1..Len(files) /\ Len(files) \in Nat
  OBVIOUS
<1>2. \A i \in DOMAIN files : files[i].role \in RoleNames /\ O(i) \in Nat /\ i \in Nat
  <2>1. \A i \in DOMAIN files : files[i] \in Entry
    BY <1>1
  <2> QED BY <1>1, <2>1, EntryIs
<1>3. \A i \in DOMAIN files : K(i) \in 1..4
  BY <1>2, IndexOfRole
<1>4. \A i, j \in DOMAIN files : Precedes(files[i], files[j]) <=> Less(i, j)
  BY <1>2, PrecedesIsByNumbers
<1>5. \A i, j \in DOMAIN files : <<i, j>> \in Stable(files) <=> Prior(i, j)
  BY <1>4 DEF Stable
<1>6. \A i, j, k \in DOMAIN files : /\ ~Prior(i, i)
                                    /\ i # j => Prior(i, j) \/ Prior(j, i)
                                    /\ Prior(i, j) /\ Prior(j, k) => Prior(i, k)
  <2> HIDE DEF K, O
  <2> QED BY <1>2, <1>3
<1>7. Sorts(DOMAIN files, Stable(files))
  <2> HIDE DEF Prior
  <2> QED BY <1>5, <1>6 DEF Sorts
<1>8. IsFiniteSet(1..Len(files)) /\ Cardinality(1..Len(files)) = Len(files)
  <2>1. 1 \in Int /\ Len(files) \in Int
    BY <1>1
  <2>2. Cardinality(1..Len(files)) = IF 1 > Len(files) THEN 0 ELSE Len(files) - 1 + 1
    BY <2>1, FS_Interval
  <2> QED BY <1>1, <2>1, <2>2, FS_Interval
<1> QED BY <1>1, <1>7, <1>8

\* Of a manifest that repeats no path, RolesOf gives each file's role.
LEMMA RolesOfEach ==
  ASSUME NEW m, \A i, j \in DOMAIN m.files : m.files[i].path = m.files[j].path => i = j,
         DOMAIN m.files \subseteq Nat
  PROVE  /\ DOMAIN RolesOf(m) = {m.files[i].path : i \in DOMAIN m.files}
         /\ \A i \in DOMAIN m.files : RolesOf(m)[m.files[i].path] = m.files[i].role
<1> DEFINE Last(p, l) == l \in DOMAIN m.files /\ m.files[l].path = p
                         /\ \A j \in DOMAIN m.files : m.files[j].path = p => j <= l
<1>1. ASSUME NEW i \in DOMAIN m.files
      PROVE  RolesOf(m)[m.files[i].path] = m.files[i].role
  <2>1. i <= i
    OBVIOUS
  <2>2. Last(m.files[i].path, i)
    <3>1. ASSUME NEW j \in DOMAIN m.files, m.files[j].path = m.files[i].path PROVE j <= i
      BY <2>1, <3>1
    <3> QED BY <3>1
  <2>3. \A l \in DOMAIN m.files : Last(m.files[i].path, l) => l = i
    OBVIOUS
  <2>4. (CHOOSE l \in DOMAIN m.files : m.files[l].path = m.files[i].path
             /\ \A j \in DOMAIN m.files : m.files[j].path = m.files[i].path => j <= l) = i
    BY <2>2, <2>3
  <2> QED BY <2>4 DEF RolesOf
<1> QED BY <1>1 DEF RolesOf

Lists(sent, needs, files) ==
  /\ \A i, j \in DOMAIN files : files[i].path = files[j].path => i = j
  /\ {files[i] : i \in DOMAIN files} = {sent[i] : i \in DOMAIN sent}
  /\ \A i, j \in DOMAIN files : i < j => ~Precedes(files[j], files[i])
  /\ \A x \in needs : \E i \in DOMAIN files : files[i].path = x[2] /\ files[i].role = x[1]
  /\ \A i, j \in DOMAIN sent : i < j /\ ~Precedes(sent[j], sent[i]) =>
        \E k, l \in DOMAIN files : k < l /\ files[k] = sent[i] /\ files[l] = sent[j]

LEMMA SortedIsSound ==
  ASSUME NEW m \in Manifest, Refusals(m) = {}
  PROVE  Lists(m.files, m.pipeline.needs, Sorted(m.files))
<1> DEFINE sent == m.files
           files == Sorted(m.files)
           D == DOMAIN sent
           order == Sequenced(D, Stable(sent))
<1>1. sent \in Seq(Entry)
  BY DEF Manifest
<1>2. D = 1..Len(sent) /\ Len(sent) \in Nat
  BY <1>1
<1>3. Sorts(D, Stable(sent)) /\ IsFiniteSet(D) /\ Cardinality(D) = Len(sent)
  BY <1>1, StableSorts
<1>4. /\ order \in [D -> D]
      /\ \A i \in D : \E k \in D : order[k] = i
      /\ \A i, j \in D : i < j => <<order[i], order[j]>> \in Stable(sent)
      /\ \A i, j \in D : order[i] = order[j] => i = j
  <2>1. D = 1..Cardinality(D)
    BY <1>2, <1>3
  <2> HIDE DEF D
  <2>2. /\ order \in [1..Cardinality(D) -> D]
        /\ \A i \in D : \E k \in 1..Cardinality(D) : order[k] = i
        /\ \A i, j \in 1..Cardinality(D) : i < j => <<order[i], order[j]>> \in Stable(sent)
        /\ \A i, j \in 1..Cardinality(D) : order[i] = order[j] => i = j
    BY <1>3, SequencedSorts
  <2> QED BY <2>1, <2>2
<1>5. files = [k \in D |-> sent[order[k]]]
  BY DEF Sorted, Stable
<1>6. DOMAIN files = D /\ \A k \in D : files[k] = sent[order[k]] /\ order[k] \in D
  <2> HIDE DEF files, order
  <2> QED BY <1>4, <1>5
<1>7. \A i, j \in D : sent[i].path = sent[j].path => i = j
  <2>1. Repeated(m) = {}
    BY DEF Refusals
  <2>2. ASSUME NEW i \in D, NEW j \in D, i < j PROVE sent[i].path # sent[j].path
    <3>1. i \in 1..(j - 1)
      BY <1>2, <2>2
    <3> QED BY <2>1, <3>1 DEF Repeated
  <2> QED BY <1>2, <2>2
<1> HIDE DEF files, order
<1>8. \A i, j \in DOMAIN files : files[i].path = files[j].path => i = j
  BY <1>4, <1>6, <1>7
<1>9. {files[i] : i \in DOMAIN files} = {sent[i] : i \in DOMAIN sent}
  BY <1>4, <1>6
<1>10. \A i \in D : sent[i].role \in RoleNames /\ sent[i].ordinal \in Nat
  <2>1. \A i \in D : sent[i] \in Entry
    BY <1>1
  <2> QED BY <2>1, EntryIs
<1>11. \A i, j \in D : Precedes(sent[i], sent[j]) => ~Precedes(sent[j], sent[i])
  <2>1. ASSUME NEW i \in D, NEW j \in D, Precedes(sent[i], sent[j])
        PROVE  ~Precedes(sent[j], sent[i])
    <3>1. sent[i].role \in RoleNames /\ sent[j].role \in RoleNames
          /\ sent[i].ordinal \in Nat /\ sent[j].ordinal \in Nat
      BY <1>10
    <3> QED BY <2>1, <3>1, PrecedesIsByNumbers
  <2> QED BY <2>1
<1>12. \A i, j \in DOMAIN files : i < j => ~Precedes(files[j], files[i])
  <2>1. ASSUME NEW i \in D, NEW j \in D, i < j PROVE ~Precedes(sent[order[j]], sent[order[i]])
    <3>1. <<order[i], order[j]>> \in Stable(sent)
      BY <1>4, <2>1
    <3> QED BY <1>6, <1>11, <3>1 DEF Stable
  <2> QED BY <1>6, <2>1
<1>13. ASSUME NEW x \in m.pipeline.needs
       PROVE  \E i \in DOMAIN files : files[i].path = x[2] /\ files[i].role = x[1]
  <2>1. TargetIssues(m.pipeline, RolesOf(m)) = {}
    BY DEF Refusals
  <2>2. x[2] \in DOMAIN RolesOf(m) /\ RolesOf(m)[x[2]] = x[1]
    BY <2>1 DEF TargetIssues
  <2>3. /\ DOMAIN RolesOf(m) = {sent[i].path : i \in D}
        /\ \A i \in D : RolesOf(m)[sent[i].path] = sent[i].role
    <3>1. D \subseteq Nat
      BY <1>2
    <3> QED BY <1>7, <3>1, RolesOfEach
  <2>4. PICK i \in D : sent[i].path = x[2] /\ sent[i].role = x[1]
    BY <2>2, <2>3
  <2> QED BY <1>4, <1>6, <2>4
<1>14. ASSUME NEW i \in D, NEW j \in D, i < j, ~Precedes(sent[j], sent[i])
       PROVE  \E k, l \in DOMAIN files : k < l /\ files[k] = sent[i] /\ files[l] = sent[j]
  <2>1. <<i, j>> \in Stable(sent)
    BY <1>14 DEF Stable
  <2>2. PICK k \in D : order[k] = i
    BY <1>4
  <2>3. PICK l \in D : order[l] = j
    BY <1>4
  <2>4. ~(l < k) /\ k # l
    <3>1. <<j, i>> \notin Stable(sent) /\ i # j
      BY <1>2, <1>3, <1>14, <2>1 DEF Sorts
    <3> QED BY <1>4, <2>2, <2>3, <3>1
  <2>5. k < l
    BY <1>2, <2>4
  <2> QED BY <1>6, <2>2, <2>3, <2>5
<1>15. Lists(sent, m.pipeline.needs, files)
  <2> HIDE DEF sent
  <2> QED BY <1>8, <1>9, <1>12, <1>13, <1>14 DEF Lists
<1> QED BY <1>15 DEF files

LEMMA SubmitIsSound ==
  ASSUME NEW m \in Manifest, Submit(m)
  PROVE  AcceptedIsSound'
<1>1. CASE verdict' = [manifest |-> m, accepted |-> TRUE, files |-> Sorted(m.files)]
           /\ Refusals(m) = {}
  <2>1. verdict'.manifest = m /\ verdict'.files = Sorted(m.files)
    BY <1>1
  <2>2. Lists(verdict'.manifest.files, verdict'.manifest.pipeline.needs, verdict'.files)
    BY <1>1, <2>1, SortedIsSound
  <2> QED BY <2>2 DEF AcceptedIsSound, Lists
<1>2. CASE verdict' = [manifest |-> m, accepted |-> FALSE, files |-> <<>>]
  <2>1. verdict'.accepted = FALSE
    BY <1>2
  <2> QED BY <2>1 DEF AcceptedIsSound
<1> QED BY <1>1, <1>2 DEF Submit, Accepts
-----------------------------------------------------------------------------
(* The places of declarations, and the order of the files found there      *)

\* What a pipeline file declares.
LEMMA PlacesAre ==
  ASSUME NEW f \in Pipelines
  PROVE  /\ \A x \in Promise!Places(f) : /\ x \in (1..4) \X (Nat \ {0})
                                         /\ x = <<x[1], x[2]>>
                                         /\ x[2] \in DOMAIN f.globs[Roles[x[1]]]
                                         /\ Promise!Glob(f, x) = f.globs[Roles[x[1]]][x[2]]
                                         /\ Promise!Glob(f, x) \in Globs
                                         /\ Matches[Promise!Glob(f, x)] \subseteq Nodes
         /\ \A k \in 1..4 : \A i \in DOMAIN f.globs[Roles[k]] : <<k, i>> \in Promise!Places(f)
         /\ \A k \in 1..4 : \E n \in Nat : DOMAIN f.globs[Roles[k]] = 1..n
<1>1. f.globs \in [RoleNames -> Seq(Globs)]
  BY NodesAre DEF Pipeline
<1>2. \A k \in 1..4 : f.globs[Roles[k]] \in Seq(Globs)
  BY <1>1, RolesAre
<1>3. \A k \in 1..4 : \E n \in Nat : DOMAIN f.globs[Roles[k]] = 1..n
  <2>1. ASSUME NEW k \in 1..4 PROVE \E n \in Nat : DOMAIN f.globs[Roles[k]] = 1..n
    <3>1. f.globs[Roles[k]] \in Seq(Globs)
      BY <1>2
    <3>2. Len(f.globs[Roles[k]]) \in Nat /\ DOMAIN f.globs[Roles[k]] = 1..Len(f.globs[Roles[k]])
      BY <3>1
    <3> QED BY <3>2
  <2> QED BY <2>1
<1>4. \A x : x \in Promise!Places(f) <=>
                 \E k \in 1..4 : \E i \in DOMAIN f.globs[Roles[k]] : x = <<k, i>>
  BY RolesAre DEF Promise!Places
<1>5. ASSUME NEW x \in Promise!Places(f)
      PROVE  /\ x \in (1..4) \X (Nat \ {0})
             /\ x = <<x[1], x[2]>>
             /\ x[2] \in DOMAIN f.globs[Roles[x[1]]]
             /\ Promise!Glob(f, x) = f.globs[Roles[x[1]]][x[2]]
             /\ Promise!Glob(f, x) \in Globs
             /\ Matches[Promise!Glob(f, x)] \subseteq Nodes
  <2>0. PICK k \in 1..4 : \E i \in DOMAIN f.globs[Roles[k]] : x = <<k, i>>
    BY <1>4
  <2>1. PICK i \in DOMAIN f.globs[Roles[k]] : x = <<k, i>>
    BY <2>0
  <2>2. x[1] = k /\ x[2] = i /\ i \in Nat \ {0} /\ f.globs[Roles[k]][i] \in Globs
    BY <1>2, <1>3, <2>1
  <2>3. Promise!Glob(f, x) = f.globs[Roles[x[1]]][x[2]]
    BY RolesAre DEF Promise!Glob
  <2>4. Promise!Glob(f, x) \in Globs
    BY <2>2, <2>3
  <2> QED BY <2>1, <2>2, <2>3, <2>4, NodesAre
<1> QED BY <1>3, <1>4, <1>5

Numbered(own) == /\ DOMAIN own \subseteq Nodes
                 /\ \A p \in DOMAIN own : own[p] \in (1..4) \X (Nat \ {0})

\* In a role the ordinal of a file tells which are before it.
LEMMA BehindIsByOrdinal ==
  ASSUME NEW own, Numbered(own)
  PROVE  /\ \A p \in DOMAIN own : Cardinality(Behind(own, p)) \in Nat
         /\ \A p, q \in DOMAIN own : own[p][1] = own[q][1] =>
               /\ p # q => Cardinality(Behind(own, p)) # Cardinality(Behind(own, q))
               /\ q \in Behind(own, p) <=>
                     Cardinality(Behind(own, q)) < Cardinality(Behind(own, p))
<1>1. IsFiniteSet(DOMAIN own)
  BY NodesAre, FS_Subset DEF Numbered
<1>2. ASSUME NEW p \in DOMAIN own PROVE Cardinality(Behind(own, p)) \in Nat
  <2>1. Behind(own, p) \in SUBSET DOMAIN own
    BY DEF Behind
  <2> QED BY <1>1, <2>1, FS_Subset, FS_CardinalityType
<1>3. ASSUME NEW p \in DOMAIN own, NEW q \in DOMAIN own, own[p][1] = own[q][1]
      PROVE  /\ p # q => Cardinality(Behind(own, p)) # Cardinality(Behind(own, q))
             /\ q \in Behind(own, p) <=>
                   Cardinality(Behind(own, q)) < Cardinality(Behind(own, p))
  <2> DEFINE S == {r \in DOMAIN own : own[r][1] = own[p][1]}
             less == {x \in S \X S : x[1] \in Behind(own, x[2])}
             B(r, s) == own[r][2] < own[s][2] \/ (own[r][2] = own[s][2] /\ Rank[r] < Rank[s])
  <2>1. IsFiniteSet(S) /\ p \in S /\ q \in S
    BY <1>1, <1>3, FS_Subset
  <2>2. \A r \in S : own[r][2] \in Nat /\ Rank[r] \in Nat
    BY NodesAre DEF Numbered
  <2>3. \A r, s \in S : Rank[r] = Rank[s] => r = s
    BY NodesAre DEF Numbered
  <2>4. \A r, s \in S : <<r, s>> \in less <=> B(r, s)
    BY DEF Behind
  <2>5. \A r, s, t \in S : /\ ~B(r, r)
                           /\ r # s => B(r, s) \/ B(s, r)
                           /\ B(r, s) /\ B(s, t) => B(r, t)
    <3> HIDE DEF S
    <3> QED BY <2>2, <2>3
  <2>6. Sorts(S, less)
    <3> HIDE DEF S, less, B
    <3> QED BY <2>4, <2>5 DEF Sorts
  <2>7. \A r \in S : Under(S, less, r) = Behind(own, r)
    BY DEF Under, Behind
  <2>8. \A r, s \in S : <<r, s>> \in less =>
            Cardinality(Behind(own, r)) < Cardinality(Behind(own, s))
    <3> HIDE DEF S, less
    <3> QED BY <2>1, <2>6, <2>7, UnderGrows
  <2>9. q \in Behind(own, p) <=> <<q, p>> \in less
    BY <2>1
  <2>10. p # q => <<p, q>> \in less \/ <<q, p>> \in less
    <3> HIDE DEF S, less
    <3> QED BY <2>1, <2>6 DEF Sorts
  <2>11. p = q => <<q, p>> \notin less
    <3> HIDE DEF S, less
    <3> QED BY <2>1, <2>6 DEF Sorts
  <2> HIDE DEF S, less
  <2> QED BY <1>2, <2>1, <2>8, <2>9, <2>10, <2>11
<1> QED BY <1>2, <1>3
-----------------------------------------------------------------------------
(* What a pack that reaches its end returns *)

Ordering == {x \in entries \X entries : Precedes(x[1], x[2])}
Listed == Sequenced(entries, Ordering)
\* The manifest that would be the answer.
Filed == [files |-> Listed, pipeline |-> pipeline, renamed |-> FALSE]

InOrder(m, f) ==
  LET Declared(e) == {i \in DOMAIN f.globs[e.role] : e.path \in Matches[f.globs[e.role][i]]}
  IN  /\ \A i, j \in DOMAIN m : m[i].path = m[j].path => i = j
      /\ \A i, j \in DOMAIN m : i < j => RoleIndex(m[i].role) <= RoleIndex(m[j].role)
      /\ \A r \in RoleNames : \A i \in OfRole(m, r) :
            m[i].ordinal = Cardinality({j \in OfRole(m, r) : j < i})
      /\ \A i \in DOMAIN m : Declared(m[i]) # {} /\ m[i].path \notin Skipped
      /\ \A i, j \in DOMAIN m : i < j /\ m[i].role = m[j].role =>
            \E a \in Declared(m[i]), b \in Declared(m[j]) :
                a < b \/ (a = b /\ Rank[m[i].path] < Rank[m[j].path])

Complete == pc = "hash" /\ todo = {} /\ TypeOK /\ Steady /\ Hashed

LEMMA OwnersAreNumbered ==
  ASSUME TypeOK, Packs, Steady, NEW own \in [DOMAIN matched -> Places], Owners(own)
  PROVE  /\ Numbered(own) /\ DOMAIN own = DOMAIN matched
         /\ \A p \in DOMAIN matched : /\ own[p] \in Places
                                      /\ own[p][1] \in 1..4 /\ own[p][2] \in Nat \ {0}
                                      /\ matched[p].role = Roles[own[p][1]]
                                      /\ RoleIndex(matched[p].role) = own[p][1]
                                      /\ matched[p].ordinal = Cardinality(Behind(own, p))
<1>1. pipeline \in Pipelines
  BY DEF Steady
<1>2. \A p \in DOMAIN matched : own[p] \in Places
  OBVIOUS
<1>3. \A p \in DOMAIN matched : own[p] \in (1..4) \X (Nat \ {0})
  BY <1>1, <1>2, PlacesAre DEF Places
<1>4. \A p \in DOMAIN matched : own[p][1] \in 1..4 /\ own[p][2] \in Nat \ {0}
  BY <1>3
<1>5. \A p \in DOMAIN matched : /\ matched[p].role = Roles[own[p][1]]
                                /\ matched[p].ordinal = Cardinality(Behind(own, p))
  BY DEF Owners
<1> QED BY <1>2, <1>3, <1>4, <1>5, IndexOfRole DEF TypeOK, Numbered

LEMMA EntriesAreSorted ==
  ASSUME Complete, NEW own \in [DOMAIN matched -> Places], Owners(own)
  PROVE  /\ IsFiniteSet(entries) /\ Sorts(entries, Ordering)
         /\ \A e \in entries : e \in Entry /\ e.path \in DOMAIN matched
         /\ \A p \in DOMAIN matched : \E e \in entries : e.path = p
         /\ \A e, f \in entries : e.path = f.path => e = f
         /\ \A e \in entries : /\ e.role = Roles[own[e.path][1]]
                               /\ RoleIndex(e.role) = own[e.path][1]
                               /\ e.ordinal = Cardinality(Behind(own, e.path))
<1>1. /\ \A e \in entries : e \in Entry /\ e.path \in DOMAIN matched
                            /\ e.role = matched[e.path].role /\ e.ordinal = matched[e.path].ordinal
      /\ \A e, f \in entries : e.path = f.path => e = f
  BY DEF Complete, TypeOK, Hashed
<1>2. \A p \in DOMAIN matched : \E e \in entries : e.path = p
  BY DEF Complete, TypeOK
<1>3. /\ Numbered(own) /\ DOMAIN own = DOMAIN matched
      /\ \A p \in DOMAIN matched : /\ own[p][1] \in 1..4
                                   /\ matched[p].role = Roles[own[p][1]]
                                   /\ RoleIndex(matched[p].role) = own[p][1]
                                   /\ matched[p].ordinal = Cardinality(Behind(own, p))
  BY OwnersAreNumbered DEF Complete, Packs
<1>4. IsFiniteSet(entries)
  <2> DEFINE f == [e \in entries |-> e.path]
  <2>1. f \in Injection(entries, Nodes)
    BY <1>1, EntryIs DEF Injection, IsInjective
  <2> HIDE DEF f
  <2> QED BY <2>1, NodesAre, FS_Injection
<1>5. \A e \in entries : /\ e.role = Roles[own[e.path][1]]
                         /\ RoleIndex(e.role) = own[e.path][1]
                         /\ e.ordinal = Cardinality(Behind(own, e.path))
  BY <1>1, <1>3
<1>6. Sorts(entries, Ordering)
  <2> DEFINE K(e) == RoleIndex(e.role)
             Less(e, f) == K(e) < K(f) \/ (K(e) = K(f) /\ e.ordinal < f.ordinal)
  <2>1. \A e \in entries : K(e) \in 1..4 /\ e.ordinal \in Nat /\ e.role \in RoleNames
    BY <1>1, EntryIs, IndexOfRole
  <2>2. \A e, f \in entries : <<e, f>> \in Ordering <=> Less(e, f)
    BY <2>1, PrecedesIsByNumbers DEF Ordering
  <2>3. \A e, f \in entries : K(e) = K(f) /\ e # f => e.ordinal # f.ordinal
    <3>1. ASSUME NEW e \in entries, NEW f \in entries, K(e) = K(f), e # f
          PROVE  e.ordinal # f.ordinal
      <4>1. e.path \in DOMAIN own /\ f.path \in DOMAIN own /\ e.path # f.path
            /\ own[e.path][1] = own[f.path][1]
        BY <1>1, <1>3, <1>5, <3>1
      <4> QED BY <1>3, <1>5, <4>1, BehindIsByOrdinal
    <3> QED BY <3>1
  <2>4. \A e, f, g \in entries : /\ ~Less(e, e)
                                 /\ e # f => Less(e, f) \/ Less(f, e)
                                 /\ Less(e, f) /\ Less(f, g) => Less(e, g)
    <3> HIDE DEF K
    <3> QED BY <2>1, <2>3
  <2> HIDE DEF Less
  <2> QED BY <2>2, <2>4 DEF Sorts
<1> QED BY <1>1, <1>2, <1>4, <1>5, <1>6

\* The list has every entry once, in its order.
LEMMA ListedIs ==
  ASSUME Complete, Owned
  PROVE  /\ Listed \in Seq(Entry) /\ DOMAIN Listed \subseteq Nat
         /\ {Listed[i] : i \in DOMAIN Listed} = entries
         /\ \A i, j \in DOMAIN Listed : i < j <=> Precedes(Listed[i], Listed[j])
         /\ \A i, j \in DOMAIN Listed : Listed[i].path = Listed[j].path => i = j
<1>1. PICK own \in [DOMAIN matched -> Places] : Owners(own)
  BY DEF Owned, Packs, Complete
<1> DEFINE N == Cardinality(entries)
<1>2. /\ IsFiniteSet(entries) /\ Sorts(entries, Ordering)
      /\ \A e \in entries : e \in Entry
      /\ \A e, f \in entries : e.path = f.path => e = f
  BY <1>1, EntriesAreSorted
<1>3. /\ N \in Nat /\ Listed \in [1..N -> entries]
      /\ \A e \in entries : \E k \in 1..N : Listed[k] = e
      /\ \A i, j \in 1..N : i < j => <<Listed[i], Listed[j]>> \in Ordering
      /\ \A i, j \in 1..N : Listed[i] = Listed[j] => i = j
  BY <1>2, SequencedSorts DEF Listed
<1> HIDE DEF N
<1>4. Listed \in [1..N -> Entry]
  BY <1>2, <1>3
<1>5. Listed \in Seq(Entry)
  BY <1>3, <1>4
<1>6. DOMAIN Listed = 1..N /\ \A i \in 1..N : Listed[i] \in entries
  BY <1>3
<1>7. ASSUME NEW i \in 1..N, NEW j \in 1..N
      PROVE  i < j <=> Precedes(Listed[i], Listed[j])
  <2>1. Precedes(Listed[i], Listed[j]) <=> <<Listed[i], Listed[j]>> \in Ordering
    BY <1>6 DEF Ordering
  <2>2. ~(i < j) => i = j \/ <<Listed[j], Listed[i]>> \in Ordering
    BY <1>3
  <2>3. ~(/\ <<Listed[i], Listed[j]>> \in Ordering
          /\ i = j \/ <<Listed[j], Listed[i]>> \in Ordering)
    BY <1>2, <1>6 DEF Sorts
  <2> QED BY <1>3, <2>1, <2>2, <2>3
<1> QED BY <1>2, <1>3, <1>5, <1>6, <1>7
LEMMA ListedInOrder ==
  ASSUME Complete, Owned
  PROVE  InOrder(Listed, pipeline)
<1> DEFINE m == Listed
           Declared(e) == {i \in DOMAIN pipeline.globs[e.role] :
                              e.path \in Matches[pipeline.globs[e.role][i]]}
<1>1. PICK own \in [DOMAIN matched -> Places] : Owners(own)
  BY DEF Owned, Packs, Complete
<1>2. /\ \A e \in entries : e.path \in DOMAIN matched /\ e \in Entry
      /\ \A p \in DOMAIN matched : \E e \in entries : e.path = p
      /\ \A e \in entries : /\ e.role = Roles[own[e.path][1]]
                            /\ RoleIndex(e.role) = own[e.path][1]
                            /\ e.ordinal = Cardinality(Behind(own, e.path))
  BY <1>1, EntriesAreSorted
<1>3. /\ m \in Seq(Entry) /\ DOMAIN m \subseteq Nat
      /\ {m[i] : i \in DOMAIN m} = entries
      /\ \A i, j \in DOMAIN m : i < j <=> Precedes(m[i], m[j])
      /\ \A i, j \in DOMAIN m : m[i].path = m[j].path => i = j
  BY ListedIs
<1> HIDE DEF m
<1>4. \A i \in DOMAIN m : m[i] \in entries
  BY <1>3
<1>5. \A i \in DOMAIN m : /\ m[i].path \in DOMAIN matched /\ m[i].role \in RoleNames
                          /\ m[i].role = Roles[own[m[i].path][1]]
                          /\ RoleIndex(m[i].role) = own[m[i].path][1]
                          /\ m[i].ordinal = Cardinality(Behind(own, m[i].path))
  BY <1>2, <1>4, EntryIs
<1>6. \A p \in DOMAIN matched : \E i \in DOMAIN m : m[i].path = p
  BY <1>2, <1>3
<1>7. /\ Numbered(own) /\ DOMAIN own = DOMAIN matched
      /\ \A p \in DOMAIN matched : /\ own[p] \in Places
                                   /\ own[p][1] \in 1..4 /\ own[p][2] \in Nat \ {0}
  BY <1>1, OwnersAreNumbered DEF Complete, Packs
<1>8. \A p \in DOMAIN matched : /\ own[p][2] \in DOMAIN pipeline.globs[Roles[own[p][1]]]
                                /\ p \in Matches[pipeline.globs[Roles[own[p][1]]][own[p][2]]]
                                /\ p \notin Skipped
  <2>1. pipeline \in Pipelines
    BY DEF Complete, Steady, Packs
  <2>2. ASSUME NEW p \in DOMAIN matched
        PROVE  /\ own[p][2] \in DOMAIN pipeline.globs[Roles[own[p][1]]]
               /\ p \in Matches[pipeline.globs[Roles[own[p][1]]][own[p][2]]]
               /\ p \notin Skipped
    <3>1. own[p] \in Promise!Places(pipeline)
      BY <1>7, <2>2 DEF Places
    <3>2. /\ own[p][2] \in DOMAIN pipeline.globs[Roles[own[p][1]]]
          /\ GlobAt(own[p]) = pipeline.globs[Roles[own[p][1]]][own[p][2]]
      BY <2>1, <3>1, PlacesAre DEF GlobAt
    <3>3. p \in Matches[GlobAt(own[p])] \ Skipped
      BY <1>1, <1>7 DEF Owners
    <3> QED BY <3>2, <3>3
  <2> QED BY <2>2
<1>9. \A i \in DOMAIN m : own[m[i].path][2] \in Declared(m[i]) /\ m[i].path \notin Skipped
  BY <1>5, <1>8
\* In one role, what is before a file in the list is what its ordinal counts.
<1>10. ASSUME NEW i \in DOMAIN m, NEW j \in DOMAIN m, m[i].role = m[j].role
       PROVE  own[m[i].path][1] = own[m[j].path][1]
              /\ (i < j <=> m[i].path \in Behind(own, m[j].path))
  <2>1. own[m[i].path][1] = own[m[j].path][1]
    BY <1>5, <1>10
  <2>2. m[i].path \in Behind(own, m[j].path) <=> m[i].ordinal < m[j].ordinal
    BY <1>5, <1>7, <2>1, BehindIsByOrdinal
  <2>3. Precedes(m[i], m[j]) <=> m[i].ordinal < m[j].ordinal
    BY <1>5, <1>10, PrecedesIsByNumbers
  <2> QED BY <1>3, <2>1, <2>2, <2>3
<1>11. ASSUME NEW r \in RoleNames, NEW i \in OfRole(m, r)
       PROVE  m[i].ordinal = Cardinality({j \in OfRole(m, r) : j < i})
  <2> DEFINE J == {j \in OfRole(m, r) : j < i}
             B == Behind(own, m[i].path)
             f == [j \in J |-> m[j].path]
  <2>1. i \in DOMAIN m /\ m[i].role = r /\ \A j \in J : j \in DOMAIN m /\ m[j].role = r /\ j < i
    BY DEF OfRole
  <2>2. \A j \in J : m[j].path \in B
    BY <1>10, <2>1
  <2>3. \A q \in B : \E j \in J : m[j].path = q
    <3>1. ASSUME NEW q \in B PROVE \E j \in J : m[j].path = q
      <4>1. q \in DOMAIN matched /\ own[q][1] = own[m[i].path][1]
        BY <1>7 DEF Behind
      <4>2. PICK j \in DOMAIN m : m[j].path = q
        BY <1>6, <4>1
      <4>3. m[j].role = r
        BY <1>5, <2>1, <4>1, <4>2
      <4>4. j < i
        BY <1>10, <2>1, <4>2, <4>3
      <4> QED BY <4>2, <4>3, <4>4 DEF OfRole
    <3> QED BY <3>1
  <2>4. f \in Bijection(J, B)
    <3> HIDE DEF J, B
    <3>1. f \in [J -> B] /\ \A j, k \in J : f[j] = f[k] => j = k
      BY <1>3, <2>1, <2>2
    <3>2. \A q \in B : \E j \in J : f[j] = q
      BY <2>3
    <3> QED BY <3>1, <3>2 DEF Bijection, Injection, Surjection, IsInjective
  <2>5. IsFiniteSet(B)
    <3>1. B \in SUBSET Nodes
      BY <1>7 DEF Behind, Numbered
    <3> QED BY <3>1, NodesAre, FS_Subset
  <2>6. ExistsBijection(B, J)
    BY <2>4, Fun_ExistsBijSymmetric DEF ExistsBijection
  <2>7. Cardinality(J) = Cardinality(B)
    BY <2>5, <2>6, FS_Bijection
  <2> QED BY <1>5, <2>1, <2>7
<1>12. ASSUME NEW i \in DOMAIN m, NEW j \in DOMAIN m, i < j
       PROVE  RoleIndex(m[i].role) <= RoleIndex(m[j].role)
  <2>1. Precedes(m[i], m[j])
    BY <1>3, <1>12
  <2> QED BY <1>5, <2>1, PrecedesIsByNumbers
<1>13. ASSUME NEW i \in DOMAIN m, NEW j \in DOMAIN m, i < j, m[i].role = m[j].role
       PROVE  \E a \in Declared(m[i]), b \in Declared(m[j]) :
                  a < b \/ (a = b /\ Rank[m[i].path] < Rank[m[j].path])
  <2>1. m[i].path \in Behind(own, m[j].path)
    BY <1>10, <1>13
  <2>2. \/ own[m[i].path][2] < own[m[j].path][2]
        \/ own[m[i].path][2] = own[m[j].path][2] /\ Rank[m[i].path] < Rank[m[j].path]
    BY <2>1 DEF Behind
  <2> HIDE DEF Declared
  <2> QED BY <1>9, <2>2
<1> QED
  <2>1. \A i \in DOMAIN m : Declared(m[i]) # {} /\ m[i].path \notin Skipped
    BY <1>9
  <2> QED BY <1>3, <1>11, <1>12, <1>13, <2>1 DEF InOrder, m

\* What pack does not look at aside, a manifest m is accepted.
Welcome(m) == Accepts(m) \/ Malformed(m) \/ ~Timed(m.pipeline)

LEMMA FiledIsAccepted ==
  ASSUME Complete, Owned
  PROVE  Welcome(Filed) /\ Filed \in Manifest
<1> DEFINE m == Filed
<1>1. m.files = Listed /\ m.pipeline = pipeline /\ m.renamed = FALSE
  BY DEF Filed
<1> HIDE DEF m
<1>2. /\ Listed \in Seq(Entry) /\ DOMAIN Listed \subseteq Nat
      /\ {Listed[i] : i \in DOMAIN Listed} = entries
      /\ \A i, j \in DOMAIN Listed : Listed[i].path = Listed[j].path => i = j
  BY ListedIs
<1>3. Repeated(m) = {}
  <2>1. ASSUME NEW j \in DOMAIN m.files, NEW i \in 1..(j - 1), m.files[i].path = m.files[j].path
        PROVE  FALSE
    <3>1. DOMAIN Listed = 1..Len(Listed) /\ Len(Listed) \in Nat
      BY <1>2
    <3>2. i \in DOMAIN Listed /\ i # j
      BY <1>1, <2>1, <3>1
    <3> QED BY <1>1, <1>2, <2>1, <3>2
  <2> QED BY <2>1 DEF Repeated
<1>4. TargetIssues(pipeline, RolesOf(m)) = {}
  <2>1. /\ DOMAIN RolesOf(m) = {Listed[i].path : i \in DOMAIN Listed}
        /\ \A i \in DOMAIN Listed : RolesOf(m)[Listed[i].path] = Listed[i].role
    <3>1. /\ DOMAIN m.files \subseteq Nat
          /\ \A i, j \in DOMAIN m.files : m.files[i].path = m.files[j].path => i = j
      BY <1>1, <1>2
    <3>2. /\ DOMAIN RolesOf(m) = {m.files[i].path : i \in DOMAIN m.files}
          /\ \A i \in DOMAIN m.files : RolesOf(m)[m.files[i].path] = m.files[i].role
      BY <3>1, RolesOfEach
    <3> QED BY <1>1, <3>2
  <2>2. ASSUME NEW x \in pipeline.needs
        PROVE  x[2] \in DOMAIN RolesOf(m) /\ RolesOf(m)[x[2]] = x[1]
    <3> DEFINE roles == [p \in DOMAIN matched |-> matched[p].role]
    <3>1. TargetIssues(pipeline, roles) = {}
      BY DEF Complete, Hashed
    <3>2. x[2] \in DOMAIN roles /\ roles[x[2]] = x[1]
      <4> HIDE DEF roles
      <4> QED BY <3>1 DEF TargetIssues
    <3>3. PICK e \in entries : e.path = x[2]
      BY <3>2 DEF Complete, TypeOK
    <3>4. e.role = x[1]
      BY <3>2, <3>3 DEF Complete, Hashed
    <3>5. PICK i \in DOMAIN Listed : Listed[i] = e
      BY <1>2
    <3> QED BY <2>1, <3>3, <3>4, <3>5
  <2> QED BY <2>2 DEF TargetIssues
<1>5. Refusals(m) = {}
  BY <1>1, <1>3, <1>4 DEF Refusals
<1>6. pipeline \in Pipeline /\ ~pipeline.flawed
  BY NodesAre DEF Complete, Steady, Packs
<1>7. Welcome(m)
  BY <1>1, <1>5, <1>6 DEF Welcome, Accepts
<1> QED BY <1>2, <1>6, <1>7 DEF Filed, Manifest, m
-----------------------------------------------------------------------------
(* Expanding a glob: what it finds is behind all that was found before      *)

LEMMA EarlierIs ==
  ASSUME NEW x \in (1..4) \X (Nat \ {0}), NEW y \in (1..4) \X (Nat \ {0})
  PROVE  /\ ~Promise!Earlier(x, x)
         /\ x = y \/ Promise!Earlier(x, y) \/ Promise!Earlier(y, x)
         /\ ~(Promise!Earlier(x, y) /\ Promise!Earlier(y, x))
         /\ Promise!Earlier(x, <<y[1], y[2] + 1>>) <=> Promise!Earlier(x, y) \/ x = y
BY DEF Promise!Earlier

NextGlob == pipeline.globs[Roles[at[1]]][at[2]]
Paths == IF NextGlob \in BadGlobs THEN {} ELSE Found(NextGlob)
New == Paths \ DOMAIN matched

LEMMA ReachesIs == \A t, p : Promise!Reaches(t, p) = Reaches(t, p)
BY DEF Promise!Reaches, Reaches

LEMMA AtIs ==
  ASSUME TypeOK
  PROVE  /\ at \in (1..4) \X (Nat \ {0}) /\ at = <<at[1], at[2]>>
         /\ at[1] \in 1..4 /\ at[2] \in Nat \ {0} /\ Roles[at[1]] \in RoleNames
BY RolesAre DEF TypeOK

LEMMA ExpandGlobFacts ==
  ASSUME TypeOK, Steady, ExpandGlob
  PROVE  /\ pipeline \in Pipelines /\ Packs
         /\ at \in Places /\ at \in (1..4) \X (Nat \ {0}) /\ GlobAt(at) = NextGlob
         /\ Paths \subseteq Nodes /\ IsFiniteSet(New)
         /\ \A p \in Nodes : p \in Paths <=> at \in Takers(p)
         /\ \A p \in Paths : NextGlob \notin BadGlobs /\ p \in Matches[NextGlob] \ Skipped
         /\ DOMAIN matched' = DOMAIN matched \cup New
         /\ \A p \in DOMAIN matched : matched'[p] = matched[p]
         /\ \A p \in New : matched'[p] = [role |-> Roles[at[1]],
                                         ordinal |-> ordinal + Place(New, p)]
         /\ ordinal' = ordinal + Cardinality(New)
         /\ issues' = issues \cup (IF Paths = {} THEN {<<"glob", at>>} ELSE {})
                   \cup {<<"roles", p>> : p \in 
                        {p \in Paths \ New : matched[p].role # Roles[at[1]]}}
         /\ at' = <<at[1], at[2] + 1>>
         /\ UNCHANGED <<tree, pipeline, pc, todo, entries, answer, verdict, since>>
<1>1. /\ pc = "globs" /\ at[2] \in DOMAIN pipeline.globs[Roles[at[1]]]
      /\ at' = <<at[1], at[2] + 1>>
      /\ UNCHANGED <<tree, pipeline, pc, todo, entries, answer, verdict, since>>
  BY DEF ExpandGlob
<1>2. /\ matched' = [p \in DOMAIN matched \cup New |->
                        IF p \in New
                        THEN [role |-> Roles[at[1]], ordinal |-> ordinal + Place(New, p)]
                        ELSE matched[p]]
      /\ ordinal' = ordinal + Cardinality(New)
      /\ issues' = issues \cup (IF Paths = {} THEN {<<"glob", at>>} ELSE {})
                \cup {<<"roles", p>> : p \in 
                        {p \in Paths \ New : matched[p].role # Roles[at[1]]}}
  BY DEF ExpandGlob, New, Paths, NextGlob
<1>3. pipeline \in Pipelines /\ Packs
  BY <1>1 DEF Steady, Packs
<1>4. at \in Promise!Places(pipeline)
  BY <1>1, <1>3, AtIs, PlacesAre
<1>5. /\ GlobAt(at) = NextGlob /\ NextGlob \in Globs /\ Matches[NextGlob] \subseteq Nodes
  BY <1>3, <1>4, PlacesAre DEF GlobAt, NextGlob
<1>6. \A p : p \in Paths <=> /\ NextGlob \notin BadGlobs
                             /\ p \in Matches[NextGlob] \ Skipped /\ Reaches(tree, p)
  BY DEF Paths, Found
<1>7. Paths \subseteq Nodes
  BY <1>5, <1>6
<1>8. IsFiniteSet(New)
  <2>1. New \in SUBSET Nodes
    BY <1>7 DEF New
  <2> QED BY <2>1, NodesAre, FS_Subset
<1>9. \A p \in Nodes : p \in Paths <=> at \in Takers(p)
  BY <1>4, <1>5, <1>6, ReachesIs DEF Takers, Promise!Takers, GlobAt
<1>10. New \cap DOMAIN matched = {}
  BY DEF New
<1>11. /\ DOMAIN matched' = DOMAIN matched \cup New
       /\ \A p \in DOMAIN matched : matched'[p] = matched[p]
       /\ \A p \in New : matched'[p] = [role |-> Roles[at[1]],
                                       ordinal |-> ordinal + Place(New, p)]
  BY <1>2, <1>10
<1> QED BY <1>1, <1>2, <1>3, <1>4, <1>5, <1>6, <1>7, <1>8, <1>9, <1>11, AtIs DEF Places

LEMMA CountApart ==
  ASSUME NEW S, NEW T, IsFiniteSet(S), IsFiniteSet(T), S \cap T = {}
  PROVE  IsFiniteSet(S \cup T) /\ Cardinality(S \cup T) = Cardinality(S) + Cardinality(T)
BY FS_Union, FS_EmptySet, FS_CardinalityType

LEMMA PlaceIsNat ==
  ASSUME NEW S, IsFiniteSet(S), NEW p
  PROVE  Place(S, p) \in Nat /\ IsFiniteSet({q \in S : Rank[q] < Rank[p]})
<1>1. {q \in S : Rank[q] < Rank[p]} \in SUBSET S
  OBVIOUS
<1> QED BY <1>1, FS_Subset, FS_CardinalityType DEF Place

\* The files of the role whose globs are being expanded.
Current == {p \in DOMAIN matched : matched[p].role = Roles[at[1]]}

LEMMA OrdinalIs ==
  ASSUME TypeOK, pc = "globs"
  PROVE  ordinal = Cardinality(Current) /\ ordinal \in Nat /\ IsFiniteSet(Current)
<1>1. Current \in SUBSET Nodes
  BY DEF TypeOK, Current
<1>2. IsFiniteSet(Current)
  BY <1>1, NodesAre, FS_Subset
<1> QED BY <1>2, FS_CardinalityType DEF TypeOK, Current

LEMMA ExpandGlobType ==
  ASSUME TypeOK, Steady, ExpandGlob
  PROVE  TypeOK'
<1>1. pc = "globs" /\ todo = {} /\ entries = {}
  BY DEF ExpandGlob, Steady
<1>2. ordinal = Cardinality(Current) /\ ordinal \in Nat /\ IsFiniteSet(Current)
  BY <1>1, OrdinalIs
<1>3. IsFiniteSet(New) /\ Cardinality(New) \in Nat /\ DOMAIN matched' = DOMAIN matched \cup New
  BY ExpandGlobFacts, FS_CardinalityType
<1>4. at \in (1..4) \X (Nat \ {0}) /\ at' = <<at[1], at[2] + 1>> /\ Roles[at[1]] \in RoleNames
  BY ExpandGlobFacts, AtIs
<1>5. at' \in (DOMAIN Roles) \X (Nat \ {0}) /\ at'[1] = at[1]
  BY <1>4, RolesAre
<1>6. \A p \in DOMAIN matched' : matched'[p] \in [role : RoleNames, ordinal : Nat]
  <2>1. ASSUME NEW p \in New PROVE matched'[p] \in [role : RoleNames, ordinal : Nat]
    <3>1. matched'[p] = [role |-> Roles[at[1]], ordinal |-> ordinal + Place(New, p)]
      BY ExpandGlobFacts
    <3>2. Place(New, p) \in Nat
      BY <1>3, PlaceIsNat
    <3> QED BY <1>2, <1>4, <3>1, <3>2
  <2>2. ASSUME NEW p \in DOMAIN matched PROVE matched'[p] \in [role : RoleNames, ordinal : Nat]
    BY ExpandGlobFacts DEF TypeOK
  <2> QED BY <1>3, <2>1, <2>2
<1>7. ordinal' = Cardinality({p \in DOMAIN matched' : matched'[p].role = Roles[at'[1]]})
  <2>1. {p \in DOMAIN matched' : matched'[p].role = Roles[at'[1]]} = Current \cup New
    BY <1>3, <1>5, ExpandGlobFacts DEF Current
  <2>2. Current \cap New = {}
    BY DEF Current, New
  <2>3. ordinal' = ordinal + Cardinality(New)
    BY ExpandGlobFacts
  <2> QED BY <1>2, <1>3, <2>1, <2>2, <2>3, CountApart
<1>8. matched' \in [DOMAIN matched' -> [role : RoleNames, ordinal : Nat]]
  <2>1. matched' = [p \in DOMAIN matched' |-> matched'[p]]
    BY DEF ExpandGlob
  <2> QED BY <1>6, <2>1
<1>9. DOMAIN matched' \subseteq Nodes
  BY <1>3, ExpandGlobFacts DEF TypeOK, New
<1>10. UNCHANGED <<tree, pipeline, pc, todo, entries, answer, verdict, since>>
  BY ExpandGlobFacts
<1> QED BY <1>1, <1>5, <1>7, <1>8, <1>9, <1>10 DEF TypeOK

LEMMA ExpandGlobOwned ==
  ASSUME TypeOK, Steady, Owned, Synced, ExpandGlob
  PROVE  Owned'
<1>1. PICK own \in [DOMAIN matched -> Places] : Owners(own)
  BY ExpandGlobFacts DEF Owned
<1>2. /\ DOMAIN matched' = DOMAIN matched \cup New /\ New \cap DOMAIN matched = {}
      /\ New \subseteq Paths /\ Paths \subseteq Nodes /\ at \in Places
      /\ UNCHANGED <<tree, pipeline, since, pc>>
  BY ExpandGlobFacts DEF New
<1>3. PICK new \in [DOMAIN matched' -> Places'] :
          \A p \in DOMAIN matched' : new[p] = IF p \in DOMAIN matched THEN own[p] ELSE at
  <2> DEFINE n == [p \in DOMAIN matched' |-> IF p \in DOMAIN matched THEN own[p] ELSE at]
  <2>1. n \in [DOMAIN matched' -> Places']
    BY <1>2 DEF Places
  <2>2. \A p \in DOMAIN matched' : n[p] = IF p \in DOMAIN matched THEN own[p] ELSE at
    OBVIOUS
  <2> HIDE DEF n
  <2> QED BY <2>1, <2>2
<1>4. /\ \A p \in DOMAIN matched : new[p] = own[p] /\ own[p] \in Places
      /\ \A p \in New : new[p] = at
  BY <1>2, <1>3
<1>5. at \in (1..4) \X (Nat \ {0}) /\ at' = <<at[1], at[2] + 1>>
  BY ExpandGlobFacts
<1>6. \A x \in Places : x \in (1..4) \X (Nat \ {0})
  BY ExpandGlobFacts, PlacesAre DEF Places
<1>7. \A x \in Places : Promise!Earlier(x, at') <=> Promise!Earlier(x, at) \/ x = at
  BY <1>5, <1>6, EarlierIs
<1>8. \A p \in DOMAIN matched : Promise!Earlier(own[p], at)
  BY <1>1, <1>4 DEF Owners, Past
<1>9. DOMAIN new = DOMAIN matched' /\ DOMAIN own = DOMAIN matched
  BY <1>3
<1>10. ASSUME NEW p \in DOMAIN matched
       PROVE  Behind(new, p) = Behind(own, p)
  <2>1. ASSUME NEW q \in New PROVE q \notin Behind(new, p)
    <3>1. new[q] = at /\ new[p] = own[p] /\ Promise!Earlier(own[p], at)
      BY <1>4, <1>8
    <3>2. own[p] \in (1..4) \X (Nat \ {0})
      BY <1>4, <1>6
    <3>3. ~(at[1] = own[p][1] /\ (at[2] < own[p][2] \/ at[2] = own[p][2]))
      BY <1>5, <3>1, <3>2 DEF Promise!Earlier
    <3> QED BY <3>1, <3>3 DEF Behind
  <2> QED BY <1>2, <1>4, <1>9, <2>1 DEF Behind
<1>11. ASSUME NEW p \in New
       PROVE  ordinal + Place(New, p) = Cardinality(Behind(new, p))
  <2>1. ordinal = Cardinality(Current) /\ IsFiniteSet(Current)
    BY OrdinalIs DEF ExpandGlob
  <2>2. Place(New, p) = Cardinality({q \in New : Rank[q] < Rank[p]})
        /\ IsFiniteSet({q \in New : Rank[q] < Rank[p]})
    BY ExpandGlobFacts, PlaceIsNat DEF Place
  <2>3. ASSUME NEW q \in DOMAIN matched
        PROVE  q \in Behind(new, p) <=> q \in Current
    <3>1. /\ own[q] \in (1..4) \X (Nat \ {0}) /\ Promise!Earlier(own[q], at)
          /\ new[p] = at /\ new[q] = own[q]
      BY <1>4, <1>6, <1>8
    <3>2. matched[q].role = Roles[own[q][1]]
      BY <1>1, <1>9 DEF Owners
    <3>3. q \in Current <=> own[q][1] = at[1]
      BY <1>5, <3>1, <3>2, RolesAre DEF Current
    <3>4. own[q][1] = at[1] => own[q][2] < at[2]
      BY <1>5, <3>1 DEF Promise!Earlier
    <3> QED BY <1>2, <1>9, <3>1, <3>3, <3>4 DEF Behind
  <2>4. ASSUME NEW q \in New
        PROVE  q \in Behind(new, p) <=> Rank[q] < Rank[p]
    <3>1. new[p] = at /\ new[q] = at
      BY <1>4
    <3>2. ~(at[2] < at[2])
      BY <1>5
    <3> QED BY <1>2, <1>9, <3>1, <3>2 DEF Behind
  <2>5. Behind(new, p) = Current \cup {q \in New : Rank[q] < Rank[p]}
    <3>1. Behind(new, p) \subseteq DOMAIN matched \cup New
      BY <1>2, <1>9 DEF Behind
    <3>2. Current \subseteq DOMAIN matched
      BY DEF Current
    <3> QED BY <2>3, <2>4, <3>1, <3>2
  <2>6. Current \cap {q \in New : Rank[q] < Rank[p]} = {}
    BY <1>2 DEF Current
  <2> QED BY <2>1, <2>2, <2>5, <2>6, CountApart
<1>12. ASSUME NEW p \in DOMAIN matched'
       PROVE  /\ Promise!Earlier(new[p], at')
              /\ Promise!Glob(pipeline, new[p]) \notin BadGlobs
              /\ p \in Matches[Promise!Glob(pipeline, new[p])] \ Skipped
              /\ matched'[p] = [role |-> Roles[new[p][1]], ordinal |-> Cardinality(Behind(new, p))]
  <2>1. CASE p \in DOMAIN matched
    <3>1. /\ Promise!Glob(pipeline, own[p]) \notin BadGlobs
          /\ p \in Matches[Promise!Glob(pipeline, own[p])] \ Skipped
          /\ matched[p] = [role |-> Roles[own[p][1]], ordinal |-> Cardinality(Behind(own, p))]
      BY <1>1, <1>9, <2>1 DEF Owners, GlobAt
    <3>2. matched'[p] = matched[p]
      BY <2>1, ExpandGlobFacts
    <3> QED BY <1>4, <1>7, <1>8, <1>10, <2>1, <3>1, <3>2
  <2>2. CASE p \in New
    <3>1. /\ matched'[p] = [role |-> Roles[at[1]], ordinal |-> ordinal + Place(New, p)]
          /\ GlobAt(at) \notin BadGlobs /\ p \in Matches[GlobAt(at)] \ Skipped
      BY <1>2, <2>2, ExpandGlobFacts
    <3>2. new[p] = at /\ Promise!Earlier(at, at')
      BY <1>2, <1>4, <1>7, <2>2
    <3> QED BY <1>11, <2>2, <3>1, <3>2 DEF GlobAt
  <2> QED BY <1>2, <2>1, <2>2
<1>13. ASSUME NEW p \in DOMAIN matched', since # Nothing
       PROVE  /\ new[p] \in Takers(p)
              /\ \A y \in Takers(p) : ~Promise!Earlier(y, new[p])
  <2>1. CASE p \in DOMAIN matched
    BY <1>1, <1>4, <1>9, <1>13, <2>1 DEF Owners, First
  <2>2. CASE p \in New
    <3>1. new[p] = at /\ at \in Takers(p) /\ p \in Nodes /\ p \notin DOMAIN matched
      BY <1>2, <1>4, <2>2, ExpandGlobFacts
    <3>2. \A y \in Takers(p) : ~Past(y)
      BY <1>13, <3>1, ExpandGlobFacts DEF Synced
    <3> QED BY <3>1, <3>2 DEF Past
  <2> QED BY <1>2, <2>1, <2>2
<1>14. Owners(new)'
  BY <1>2, <1>9, <1>12, <1>13 DEF Owners, Past, GlobAt, First, Takers
<1> QED BY <1>3, <1>14 DEF Owned

\* What depends on the directory and the pipeline alone.
LEMMA SameFiles ==
  ASSUME UNCHANGED <<tree, pipeline>>
  PROVE  /\ Places' = Places
         /\ \A x : GlobAt(x)' = GlobAt(x)
         /\ \A p : Takers(p)' = Takers(p)
         /\ \A x, p : First(x, p)' = First(x, p)
BY DEF Places, GlobAt, Takers, First

LEMMA TakersArePlaces == \A p : Takers(p) \subseteq Places
BY DEF Takers, Promise!Takers, Places

LEMMA ExpandGlobSynced ==
  ASSUME TypeOK, Steady, Owned, Synced, ExpandGlob
  PROVE  Steady' /\ Synced'
<1>1. /\ UNCHANGED <<tree, pipeline, pc, todo, entries, answer, verdict, since>>
      /\ at \in Places /\ Paths \subseteq Nodes
      /\ \A p \in Nodes : p \in Paths <=> at \in Takers(p)
      /\ Packs /\ Packs' /\ pc = "globs"
      /\ pipeline \in Pipelines
  BY ExpandGlobFacts DEF Packs, ExpandGlob
<1>2. \A x \in Places : Promise!Earlier(x, at') <=> Past(x) \/ x = at
  <2>1. \A x \in Places : x \in (1..4) \X (Nat \ {0})
    BY <1>1, PlacesAre DEF Places
  <2>2. at \in (1..4) \X (Nat \ {0}) /\ at' = <<at[1], at[2] + 1>>
    BY ExpandGlobFacts
  <2> QED BY <2>1, <2>2, EarlierIs DEF Past
<1>3. /\ Places' = Places /\ \A x : GlobAt(x)' = GlobAt(x)
      /\ \A p : Takers(p)' = Takers(p)
  BY <1>1, SameFiles
<1> DEFINE worse == {p \in Paths \ New : matched[p].role # Roles[at[1]]}
           failed == IF Paths = {} THEN {at} ELSE {}
<1>4. issues' = issues \cup {<<"glob", x>> : x \in failed} \cup {<<"roles", p>> : p \in worse}
  BY ExpandGlobFacts
<1>5. worse \subseteq Nodes
  BY <1>1
<1>6. Steady'
  <2>1. issues' \subseteq Issue
    <3>1. at \in Nat \X Nat
      BY ExpandGlobFacts
    <3>2. \A x \in failed : <<"glob", x>> \in Issue
      BY <3>1 DEF Issue
    <3>3. \A p \in worse : <<"roles", p>> \in Issue
      <4> HIDE DEF worse
      <4> QED BY <1>5 DEF Issue
    <3> HIDE DEF worse, failed
    <3> QED BY <1>4, <3>2, <3>3 DEF Steady
  <2> QED BY <1>1, <2>1 DEF Steady, Packs
<1>7. ASSUME since # Nothing PROVE Synced'
  <2>1. DOMAIN matched = {p \in Nodes : \E x \in Takers(p) : Past(x)}
    BY <1>1, <1>7 DEF Synced
  <2>2. issues = {<<"glob", x>> : x \in GlobTrouble} \cup {<<"roles", p>> : p \in RoleTrouble}
    BY <1>1, <1>7 DEF Synced
  <2>3. DOMAIN matched' = {p \in Nodes : \E x \in Takers(p)' : Promise!Earlier(x, at')}
    <3>1. DOMAIN matched' = DOMAIN matched \cup Paths
      BY ExpandGlobFacts DEF New
    <3> QED BY <1>1, <1>2, <1>3, <2>1, <3>1, TakersArePlaces
  <2>4. GlobTrouble' = GlobTrouble \cup failed
    <3>1. Paths = {} <=> GlobAt(at) \in BadGlobs \/ \A p \in Nodes : at \notin Takers(p)
      BY <1>1, ExpandGlobFacts DEF Paths
    <3>2. ASSUME NEW x PROVE x \in GlobTrouble' <=> x \in GlobTrouble \cup failed
      <4>1. x \in GlobTrouble' <=> /\ x \in Places /\ Promise!Earlier(x, at')
                                   /\ GlobAt(x) \in BadGlobs \/ \A p \in Nodes : x \notin Takers(p)
        BY <1>3 DEF GlobTrouble, Past
      <4> QED BY <1>1, <1>2, <3>1, <4>1 DEF GlobTrouble
    <3> HIDE DEF failed
    <3> QED BY <3>2
  <2>5. RoleTrouble' = RoleTrouble \cup worse
    <3>1. PICK own \in [DOMAIN matched -> Places] : Owners(own)
      BY <1>1 DEF Owned
    <3>2. \A p \in DOMAIN matched : /\ own[p] \in Places /\ matched[p].role = Roles[own[p][1]]
                                    /\ Past(own[p]) /\ First(own[p], p)
      BY <1>7, <3>1 DEF Owners
    <3>3. \A x \in Places : x \in (1..4) \X (Nat \ {0})
      BY <1>1, PlacesAre DEF Places
    <3>4. \A p : p \in RoleTrouble' <=>
              p \in Nodes /\ \E x, y \in Takers(p) : /\ Promise!Earlier(x, at')
                                                   /\ Promise!Earlier(y, at') /\ x[1] # y[1]
      BY <1>3 DEF RoleTrouble, Past
    <3>5. ASSUME NEW p \in worse PROVE p \in RoleTrouble'
      <4>1. p \in DOMAIN matched /\ p \in Nodes /\ at \in Takers(p)
        BY <1>1 DEF New
      <4>2. own[p][1] # at[1]
        BY <3>2, <4>1
      <4>3. own[p] \in Takers(p) /\ Promise!Earlier(own[p], at') /\ Promise!Earlier(at, at')
        BY <1>1, <1>2, <3>2, <4>1 DEF First
      <4> QED BY <3>4, <4>1, <4>2, <4>3
    <3>6. ASSUME NEW p \in RoleTrouble PROVE p \in RoleTrouble'
      BY <1>2, <3>4, TakersArePlaces DEF RoleTrouble
    <3>7. ASSUME NEW p \in RoleTrouble', p \notin RoleTrouble PROVE p \in worse
      <4>1. PICK x \in Takers(p) : \E y \in Takers(p) :
                /\ Promise!Earlier(x, at') /\ Promise!Earlier(y, at') /\ x[1] # y[1]
        BY <3>4, <3>7
      <4>2. PICK y \in Takers(p) :
                /\ Promise!Earlier(x, at') /\ Promise!Earlier(y, at') /\ x[1] # y[1]
        BY <4>1
      <4>3. p \in Nodes /\ x \in Places /\ y \in Places
        BY <3>4, <3>7, TakersArePlaces
      <4>4. \E z \in Takers(p) : Past(z) /\ z[1] # at[1] /\ at \in Takers(p)
        <5>1. ~(Past(x) /\ Past(y))
          BY <3>7, <4>2, <4>3 DEF RoleTrouble
        <5>2. CASE x = at
          BY <1>2, <4>2, <4>3, <5>2
        <5>3. CASE x # at
          BY <1>2, <4>2, <4>3, <5>1, <5>3
        <5> QED BY <5>2, <5>3
      <4>5. PICK z \in Takers(p) : Past(z) /\ z[1] # at[1] /\ at \in Takers(p)
        BY <4>4
      <4>6. p \in DOMAIN matched /\ p \in Paths
        BY <1>1, <2>1, <4>3, <4>5
      <4>7. own[p][1] # at[1]
        <5>1. ~Promise!Earlier(z, own[p]) /\ Promise!Earlier(z, at) /\ Promise!Earlier(own[p], at)
          BY <3>2, <4>5, <4>6 DEF First, Past
        <5>2. /\ z \in (1..4) \X (Nat \ {0}) /\ own[p] \in (1..4) \X (Nat \ {0})
              /\ at \in (1..4) \X (Nat \ {0})
          BY <1>1, <3>2, <3>3, <4>5, <4>6, TakersArePlaces
        <5> QED BY <4>5, <5>1, <5>2 DEF Promise!Earlier
      <4>8. own[p][1] \in 1..4 /\ at[1] \in 1..4
        BY <1>1, <3>2, <3>3, <4>6
      <4>9. matched[p].role # Roles[at[1]]
        BY <3>2, <4>6, <4>7, <4>8, RolesAre
      <4> QED BY <4>6, <4>9 DEF New
    <3> QED BY <3>5, <3>6, <3>7
  <2> QED BY <1>1, <1>3, <1>4, <2>2, <2>3, <2>4, <2>5 DEF Synced, Past
<1>8. CASE since = Nothing
  BY <1>1, <1>6, <1>8 DEF Synced
<1> QED BY <1>6, <1>7, <1>8
-----------------------------------------------------------------------------
(* The other steps. Each of the lemmas is about the state a pack keeps, so  *)
(* not about answers and verdicts.                                          *)

Core == TypeOK /\ Steady /\ Owned /\ Hashed /\ Synced

\* A pack that has ended, and one that has not begun, keep nothing.
LEMMA LeaveKeeps ==
  ASSUME Core, NEW r, Leave(r), UNCHANGED <<tree, pipeline>>
  PROVE  Core'
<1>1. Idle' /\ since' = Nothing /\ pc' = "idle" /\ UNCHANGED <<tree, pipeline>>
  BY DEF Leave, Idle
<1>2. matched' = NoFiles /\ todo' = {} /\ entries' = {} /\ issues' = {} /\ at' = <<1, 1>>
  BY <1>1 DEF Idle
<1>3. TypeOK'
  <2>1. DOMAIN matched' = {} /\ matched' = [p \in {} |-> 0]
    BY <1>2 DEF NoFiles
  <2>2. matched' \in [DOMAIN matched' -> [role : RoleNames, ordinal : Nat]]
    BY <2>1
  <2>3. at' \in (DOMAIN Roles) \X (Nat \ {0})
    BY <1>2, RolesAre
  <2> QED BY <1>1, <1>2, <2>1, <2>2, <2>3 DEF TypeOK, Core
<1>4. Steady' /\ Owned' /\ Synced'
  BY <1>1, <1>2 DEF Core, Steady, Owned, Synced, Packs
<1>5. Hashed'
  BY <1>1, <1>2 DEF Hashed
<1> QED BY <1>3, <1>4, <1>5 DEF Core

LEMMA SubmitKeeps ==
  ASSUME Core, UNCHANGED <<tree, pipeline, pc, work, since>>
  PROVE  Core'
<1> USE DEF work
<1>1. TypeOK'
  BY DEF Core, TypeOK, Idle
<1>2. Steady'
  BY DEF Core, Steady, Packs, Places, Past
<1>3. Owned'
  BY DEF Core, Owned, Owners, First, Takers, Packs, Places, Past, GlobAt
<1>4. Hashed'
  BY DEF Core, Hashed
<1>5. Synced'
  BY DEF Core, Synced, Packs, Takers, Past, GlobTrouble, RoleTrouble, Astray, Places, GlobAt
<1> QED BY <1>1, <1>2, <1>3, <1>4, <1>5 DEF Core

LEMMA EditKeeps ==
  ASSUME Core, Edit
  PROVE  Core'
<1>1. tree' \in Trees /\ since' = Nothing /\ UNCHANGED <<pipeline, pc, work>>
  BY DEF Edit
<1>2. tree' \in [Nodes -> Node]
  BY <1>1, NodesAre
<1>3. TypeOK'
  BY <1>1, <1>2 DEF Core, TypeOK, Idle, work
<1>4. Steady'
  BY <1>1 DEF Core, Steady, Packs, Places, Past, work
<1>5. Owned'
  <2>1. ASSUME NEW own \in [DOMAIN matched -> Places], Owners(own) PROVE Owners(own)'
    BY <1>1, <2>1 DEF Owners, Past, GlobAt, work
  <2>2. UNCHANGED <<pc, matched, pipeline>>
    BY <1>1 DEF work
  <2> QED BY <2>1, <2>2 DEF Core, Owned, Packs, Places
<1>6. Hashed'
  BY <1>1 DEF Core, Hashed, work
<1>7. Synced'
  BY <1>1 DEF Synced
<1> QED BY <1>3, <1>4, <1>5, <1>6, <1>7 DEF Core

LEMMA BeginKeeps ==
  ASSUME Core, Begin
  PROVE  Core'
<1>1. /\ pc = "idle" /\ pc' = "load" /\ since' = tree /\ UNCHANGED <<tree, pipeline, work>>
      /\ Idle
  BY DEF Begin, Core, TypeOK
<1>2. TypeOK'
  BY <1>1 DEF Core, TypeOK, Idle, work
<1>3. Steady'
  BY <1>1 DEF Core, Steady, Packs, Idle, work
<1>4. Owned' /\ Synced'
  BY <1>1 DEF Owned, Synced, Packs
<1>5. Hashed'
  BY <1>1 DEF Hashed, Idle, work
<1> QED BY <1>2, <1>3, <1>4, <1>5 DEF Core

LEMMA LoadKeeps ==
  ASSUME Core, Load
  PROVE  Core'
<1>1. ASSUME NEW r, Leave(r), UNCHANGED <<tree, pipeline>> PROVE Core'
  BY <1>1, LeaveKeeps
<1>2. CASE /\ pipeline # Nothing /\ ~pipeline.flawed
           /\ pc = "load" /\ pc' = "globs" /\ UNCHANGED <<work, answer, since, tree, pipeline>>
  <2>1. /\ at = <<1, 1>> /\ ordinal = 0 /\ matched = NoFiles /\ issues = {}
        /\ todo = {} /\ entries = {} /\ pipeline \in Pipelines
    BY <1>2 DEF Core, Steady, TypeOK
  <2>2. DOMAIN matched = {}
    BY <2>1 DEF NoFiles
  <2>3. \A x \in Places : ~Past(x)
    <3>1. \A x \in Places : x \in (1..4) \X (Nat \ {0})
      BY <2>1, PlacesAre DEF Places
    <3> QED BY <2>1, <3>1 DEF Past, Promise!Earlier
  <2>4. TypeOK'
    <3>1. Cardinality({p \in DOMAIN matched : matched[p].role = Roles[at[1]]}) = 0
      BY <2>2, FS_EmptySet
    <3> QED BY <1>2, <2>1, <3>1 DEF Core, TypeOK, Idle, work
  <2>5. Steady'
    BY <1>2, <2>1 DEF Core, Steady, Packs, work
  <2>6. Hashed'
    BY <1>2, <2>1 DEF Hashed, work
  <2>7. Owned'
    <3>1. UNCHANGED <<matched, pipeline>>
      BY <1>2 DEF work
    <3>2. NoFiles \in [DOMAIN matched' -> Places'] /\ DOMAIN NoFiles = {}
      BY <2>1, <2>2, <3>1 DEF NoFiles
    <3>3. Owners(NoFiles)'
      BY <3>2 DEF Owners, NoFiles
    <3> QED BY <3>2, <3>3 DEF Owned, NoFiles
  <2>8. Synced'
    <3>1. UNCHANGED <<matched, pipeline, tree, at, issues>> /\ pc' = "globs"
      BY <1>2 DEF work
    <3>2. {p \in Nodes : \E x \in Takers(p) : Past(x)}' = {}
      BY <2>3, <3>1, TakersArePlaces DEF Takers, Past
    <3>3. GlobTrouble' = {} /\ RoleTrouble' = {}
      BY <2>3, <3>1, TakersArePlaces DEF GlobTrouble, RoleTrouble, Takers, Past, Places
    <3> QED BY <2>1, <2>2, <3>1, <3>2, <3>3 DEF Synced
  <2> QED BY <2>4, <2>5, <2>6, <2>7, <2>8 DEF Core
<1> QED BY <1>1, <1>2 DEF Load
\* What holds of the files matched goes on to hold while no more are.
LEMMA OwnedKept ==
  ASSUME Owned, Packs, UNCHANGED <<matched, pipeline>>,
         since' # Nothing => since' = since /\ tree' = tree,
         \A x \in Places : Promise!Earlier(x, at) => Promise!Earlier(x, at')
  PROVE  Owned'
<1>1. PICK own \in [DOMAIN matched -> Places] : Owners(own)
  BY DEF Owned
<1>2. \A p \in DOMAIN own : own[p] \in Places
  BY <1>1
<1>3. Owners(own)'
  BY <1>1, <1>2 DEF Owners, Past, GlobAt, First, Takers
<1> QED BY <1>1, <1>3 DEF Owned, Places

\* The files found so far.
Gathered == {p \in Nodes : \E x \in Takers(p) : Past(x)}

LEMMA FoundKept ==
  ASSUME UNCHANGED <<tree, pipeline>>,
         \A x \in Places : Promise!Earlier(x, at) <=> Promise!Earlier(x, at')
  PROVE  GlobTrouble' = GlobTrouble /\ RoleTrouble' = RoleTrouble /\ Gathered' = Gathered
<1>1. /\ Places' = Places /\ \A x : GlobAt(x)' = GlobAt(x)
      /\ \A p : Takers(p)' = Takers(p)
  BY SameFiles
<1>2. \A x \in Places : Past(x)' <=> Past(x)
  BY DEF Past
<1>3. GlobTrouble' = GlobTrouble
  BY <1>1, <1>2 DEF GlobTrouble
<1>4. RoleTrouble' = RoleTrouble
  BY <1>1, <1>2, TakersArePlaces DEF RoleTrouble
<1>5. Gathered' = Gathered
  BY <1>1, <1>2, TakersArePlaces DEF Gathered
<1> QED BY <1>3, <1>4, <1>5

\* When a role's globs are expanded, its last one is past.
LEMMA RolePassed ==
  ASSUME TypeOK, Steady, GlobsDone
  PROVE  /\ \A x \in Places : /\ x \in (1..4) \X (Nat \ {0})
                              /\ x[1] = at[1] => x[2] < at[2]
         /\ at[1] \in 1..4 /\ at[2] \in Nat \ {0}
<1>1. pipeline \in Pipelines /\ at[2] \notin DOMAIN pipeline.globs[Roles[at[1]]]
  BY DEF GlobsDone, Steady, Packs
<1>2. at[1] \in 1..4 /\ at[2] \in Nat \ {0}
  BY AtIs
<1>3. PICK n \in Nat : DOMAIN pipeline.globs[Roles[at[1]]] = 1..n
  BY <1>1, <1>2, PlacesAre
<1>4. at[2] > n
  BY <1>1, <1>2, <1>3
<1>5. ASSUME NEW x \in Places
      PROVE  x \in (1..4) \X (Nat \ {0}) /\ (x[1] = at[1] => x[2] < at[2])
  <2>1. x \in (1..4) \X (Nat \ {0}) /\ x[2] \in DOMAIN pipeline.globs[Roles[x[1]]]
    BY <1>1, PlacesAre DEF Places
  <2> QED BY <1>2, <1>3, <1>4, <2>1
<1> QED BY <1>2, <1>5

LEMMA NextRoleKeeps ==
  ASSUME Core, NextRole
  PROVE  Core'
<1>1. /\ pc = "globs" /\ at[1] < 4 /\ at' = <<at[1] + 1, 1>> /\ ordinal' = 0
      /\ UNCHANGED <<tree, pipeline, pc, matched, todo, issues, entries, since>>
      /\ Packs /\ GlobsDone
  BY RolesAre DEF NextRole, GlobsDone, Packs
<1>2. /\ \A x \in Places : x \in (1..4) \X (Nat \ {0}) /\ (x[1] = at[1] => x[2] < at[2])
      /\ at[1] \in 1..4 /\ at[2] \in Nat \ {0}
  BY <1>1, RolePassed DEF Core
<1>3. \A x \in Places : Promise!Earlier(x, at) <=> Promise!Earlier(x, at')
  BY <1>1, <1>2 DEF Promise!Earlier
<1>4. Owned'
  BY <1>1, <1>3, OwnedKept DEF Core
<1>5. {p \in DOMAIN matched : matched[p].role = Roles[at[1] + 1]} = {}
  <2>1. PICK own \in [DOMAIN matched -> Places] : Owners(own)
    BY <1>1 DEF Core, Owned
  <2>2. ASSUME NEW p \in DOMAIN matched PROVE matched[p].role # Roles[at[1] + 1]
    <3>1. own[p] \in Places /\ matched[p].role = Roles[own[p][1]] /\ Promise!Earlier(own[p], at)
      BY <2>1 DEF Owners, Past
    <3>2. own[p][1] \in 1..4 /\ own[p][1] <= at[1] /\ at[1] + 1 \in 1..4
      BY <1>1, <1>2, <3>1 DEF Promise!Earlier
    <3> QED BY <1>2, <3>1, <3>2, RolesAre
  <2> QED BY <2>2
<1>6. TypeOK'
  <2>1. ordinal' = Cardinality({p \in DOMAIN matched' : matched'[p].role = Roles[at'[1]]})
    BY <1>1, <1>5, FS_EmptySet
  <2>2. at' \in (DOMAIN Roles) \X (Nat \ {0})
    BY <1>1, <1>2, RolesAre
  <2> QED BY <1>1, <2>1, <2>2 DEF Core, TypeOK
<1>7. Steady'
  BY <1>1 DEF Core, Steady, Packs
<1>8. Hashed'
  BY <1>1 DEF Core, Hashed
<1>9. Synced'
  <2>1. GlobTrouble' = GlobTrouble /\ RoleTrouble' = RoleTrouble /\ Gathered' = Gathered
    BY <1>1, <1>3, FoundKept
  <2> QED BY <1>1, <2>1 DEF Core, Synced, Gathered
<1> QED BY <1>4, <1>6, <1>7, <1>8, <1>9 DEF Core

LEMMA LastRoleKeeps ==
  ASSUME Core, LastRole
  PROVE  Core'
<1>1. /\ pc = "globs" /\ at[1] = 4 /\ pc' = "locations" /\ todo' = DOMAIN matched
      /\ UNCHANGED <<tree, pipeline, at, ordinal, matched, issues, entries, since>>
      /\ Packs /\ Packs' /\ GlobsDone
  BY RolesAre DEF LastRole, GlobsDone, Packs
<1>2. \A x \in Places : Past(x)
  <2>1. /\ \A x \in Places : x \in (1..4) \X (Nat \ {0}) /\ (x[1] = at[1] => x[2] < at[2])
        /\ at[1] \in 1..4 /\ at[2] \in Nat \ {0}
    BY <1>1, RolePassed DEF Core
  <2> QED BY <1>1, <2>1 DEF Past, Promise!Earlier
<1>3. Owned'
  BY <1>1, OwnedKept DEF Core
<1>4. TypeOK'
  BY <1>1 DEF Core, TypeOK
<1>5. Steady'
  BY <1>1, <1>2 DEF Core, Steady, Packs, Places, Past
<1>6. Hashed'
  BY <1>1 DEF Core, Hashed, Steady
<1>7. Synced'
  <2>1. GlobTrouble' = GlobTrouble /\ RoleTrouble' = RoleTrouble /\ Gathered' = Gathered
    BY <1>1, FoundKept
  <2>2. Astray' = {}
    BY <1>1 DEF Astray
  <2> QED BY <1>1, <2>1, <2>2 DEF Core, Synced, Gathered
<1> QED BY <1>3, <1>4, <1>5, <1>6, <1>7 DEF Core

LEMMA CheckLocationKeeps ==
  ASSUME Core, CheckLocation
  PROVE  Core'
<1>1. /\ pc = "locations"
      /\ UNCHANGED <<tree, pipeline, pc, at, ordinal, matched, entries, since>>
      /\ Packs /\ Packs'
  BY DEF CheckLocation, Packs
<1>2. PICK p \in todo : /\ todo' = todo \ {p}
                        /\ issues' = issues \cup IF Regular(tree, p) THEN {} ELSE {<<"location", p>>}
  BY DEF CheckLocation
<1>3. p \in DOMAIN matched /\ p \in Nodes
  BY DEF Core, TypeOK
<1>4. Owned'
  BY <1>1, OwnedKept DEF Core
<1>5. TypeOK'
  BY <1>1, <1>2 DEF Core, TypeOK
<1>6. Steady'
  <2>1. <<"location", p>> \in Issue
    BY <1>3 DEF Issue
  <2>2. issues' \subseteq Issue
    BY <1>2, <2>1 DEF Core, Steady
  <2> QED BY <1>1, <2>2 DEF Core, Steady, Packs, Places, Past
<1>7. Hashed'
  BY <1>1 DEF Core, Hashed, Steady
<1>8. Synced'
  <2>1. GlobTrouble' = GlobTrouble /\ RoleTrouble' = RoleTrouble /\ Gathered' = Gathered
    BY <1>1, FoundKept
  <2>2. Astray' = Astray \cup IF Regular(tree, p) THEN {} ELSE {p}
    BY <1>1, <1>2, <1>3 DEF Astray
  <2>3. since # Nothing => /\ DOMAIN matched = Gathered
                           /\ issues = {<<"glob", x>> : x \in GlobTrouble}
                                       \cup {<<"roles", q>> : q \in RoleTrouble}
                                       \cup {<<"location", q>> : q \in Astray}
    BY <1>1 DEF Core, Synced, Gathered
  <2>4. since # Nothing => issues' = {<<"glob", x>> : x \in GlobTrouble'}
                                     \cup {<<"roles", q>> : q \in RoleTrouble'}
                                     \cup {<<"location", q>> : q \in Astray'}
    BY <1>2, <2>1, <2>2, <2>3
  <2> QED BY <1>1, <2>1, <2>3, <2>4 DEF Synced, Gathered
<1> QED BY <1>4, <1>5, <1>6, <1>7, <1>8 DEF Core
-----------------------------------------------------------------------------
(* A directory nobody touched is packed as the promise says                *)

LEMMA OwnerIs ==
  ASSUME pipeline \in Pipelines, NEW p, NEW x, First(x, p)
  PROVE  Promise!Owner(tree, pipeline, p) = x
<1>1. \A y \in Takers(p) : y \in (1..4) \X (Nat \ {0})
  BY TakersArePlaces, PlacesAre DEF Places
<1>2. x \in Takers(p) /\ \A y \in Takers(p) : ~Promise!Earlier(y, x)
  BY DEF First
<1>3. \A y \in Takers(p) : (\A z \in Takers(p) : ~Promise!Earlier(z, y)) => y = x
  BY <1>1, <1>2, EarlierIs
<1>4. (CHOOSE y \in Takers(p) : \A z \in Takers(p) : ~Promise!Earlier(z, y)) = x
  BY <1>2, <1>3
<1> QED BY <1>4 DEF Promise!Owner, Takers

RolesMatched == [p \in DOMAIN matched |-> matched[p].role]

LEMMA SameCount == \A S : Promise!Cardinality(S) = Cardinality(S)
BY DEF Promise!Cardinality, Cardinality, Promise!IsFiniteSet, IsFiniteSet

LEMMA MatchedAsPromised ==
  ASSUME Core, since # Nothing, pc \in {"locations", "hash"}
  PROVE  /\ DOMAIN matched = Promise!Taken(tree, pipeline)
         /\ \A p \in DOMAIN matched :
               /\ matched[p].role = Roles[Promise!Owner(tree, pipeline, p)[1]]
               /\ matched[p].ordinal = Cardinality(Promise!Before(tree, pipeline, p))
<1>1. Packs /\ pipeline \in Pipelines /\ \A x \in Places : Past(x)
  BY DEF Packs, Core, Steady
<1>2. DOMAIN matched = Promise!Taken(tree, pipeline)
  <2>1. DOMAIN matched = {p \in Nodes : \E x \in Takers(p) : Past(x)}
    BY <1>1 DEF Core, Synced
  <2>2. \A p : p \in Promise!Taken(tree, pipeline) <=> p \in Nodes /\ Takers(p) # {}
    BY DEF Promise!Taken, Takers
  <2> QED BY <1>1, <2>1, <2>2, TakersArePlaces
<1>3. PICK own \in [DOMAIN matched -> Places] : Owners(own)
  BY <1>1 DEF Core, Owned
<1>4. \A p \in DOMAIN matched :
         /\ matched[p] = [role |-> Roles[own[p][1]], ordinal |-> Cardinality(Behind(own, p))]
         /\ First(own[p], p)
  BY <1>3 DEF Owners
<1>5. \A p \in DOMAIN matched : Promise!Owner(tree, pipeline, p) = own[p]
  BY <1>1, <1>4, OwnerIs
<1>6. ASSUME NEW p \in DOMAIN matched
      PROVE  Behind(own, p) = Promise!Before(tree, pipeline, p)
  <2>1. DOMAIN own = Promise!Taken(tree, pipeline)
    BY <1>2, <1>3
  <2> QED BY <1>2, <1>5, <2>1 DEF Behind, Promise!Before
<1> QED BY <1>2, <1>4, <1>5, <1>6

LEMMA TargetsAsPromised ==
  ASSUME Core, since # Nothing, pc \in {"locations", "hash"}
  PROVE  TargetIssues(pipeline, RolesMatched) =
            {<<"target", x>> : x \in {x \in pipeline.needs :
                ~(x[2] \in Promise!Taken(tree, pipeline)
                  /\ Promise!Roles[Promise!Owner(tree, pipeline, x[2])[1]] = x[1])}}
<1>1. /\ DOMAIN RolesMatched = Promise!Taken(tree, pipeline)
      /\ \A p \in DOMAIN RolesMatched :
            RolesMatched[p] = Promise!Roles[Promise!Owner(tree, pipeline, p)[1]]
  BY MatchedAsPromised, RolesAre DEF RolesMatched
<1>2. \A x \in pipeline.needs :
         x[2] \in DOMAIN RolesMatched /\ RolesMatched[x[2]] = x[1]
         <=> x[2] \in Promise!Taken(tree, pipeline)
             /\ Promise!Roles[Promise!Owner(tree, pipeline, x[2])[1]] = x[1]
  BY <1>1
<1>3. {x \in pipeline.needs : ~(x[2] \in DOMAIN RolesMatched /\ RolesMatched[x[2]] = x[1])}
      = {x \in pipeline.needs :
            ~(x[2] \in Promise!Taken(tree, pipeline)
              /\ Promise!Roles[Promise!Owner(tree, pipeline, x[2])[1]] = x[1])}
  BY <1>2
<1> QED BY <1>3 DEF TargetIssues

LEMMA JudgedAsPromised ==
  ASSUME Core, since # Nothing, pc = "locations", todo = {}
  PROVE  issues \cup TargetIssues(pipeline, RolesMatched) = Promise!Trouble(tree, pipeline)
<1> DEFINE T == Promise!Taken(tree, pipeline)
<1>1. Packs /\ \A x \in Places : Past(x)
  BY DEF Packs, Core, Steady
<1>2. DOMAIN matched = T
  BY MatchedAsPromised
<1>3. issues = {<<"glob", x>> : x \in GlobTrouble} \cup {<<"roles", p>> : p \in RoleTrouble}
               \cup {<<"location", p>> : p \in Astray}
  BY <1>1 DEF Core, Synced
<1>4. GlobTrouble = {x \in Promise!Places(pipeline) :
         \/ Promise!Glob(pipeline, x) \in BadGlobs
         \/ \A p \in Nodes : x \notin Promise!Takers(tree, pipeline, p)}
  BY <1>1 DEF GlobTrouble, Places, GlobAt, Takers
<1>5. RoleTrouble = {p \in T : \E x, y \in Promise!Takers(tree, pipeline, p) : x[1] # y[1]}
  BY <1>1, TakersArePlaces DEF RoleTrouble, Takers, Promise!Taken
<1>6. Astray = {p \in T : ~Promise!Regular(tree, p)}
  BY <1>2 DEF Astray, Regular, Promise!Regular
<1>7. TargetIssues(pipeline, RolesMatched) =
         {<<"target", x>> : x \in {x \in pipeline.needs :
             ~(x[2] \in T /\ Promise!Roles[Promise!Owner(tree, pipeline, x[2])[1]] = x[1])}}
  BY TargetsAsPromised
<1> QED
  <2> DEFINE A == {<<"glob", x>> : x \in GlobTrouble}
             B == {<<"roles", p>> : p \in RoleTrouble}
             C == {<<"location", p>> : p \in Astray}
             D == TargetIssues(pipeline, RolesMatched)
  <2>1. Promise!Trouble(tree, pipeline) = A \cup B \cup C \cup D
    BY <1>4, <1>5, <1>6, <1>7 DEF Promise!Trouble
  <2> QED BY <1>3, <2>1

LEMMA JudgeKeeps ==
  ASSUME Core, Judge
  PROVE  Core'
<1>1. ASSUME NEW r, Leave(r), UNCHANGED <<tree, pipeline>> PROVE Core'
  BY <1>1, LeaveKeeps
<1>2. CASE /\ issues \cup TargetIssues(pipeline, RolesMatched) = {}
           /\ pc = "locations" /\ todo = {} /\ pc' = "hash" /\ todo' = DOMAIN matched
           /\ UNCHANGED <<at, ordinal, matched, issues, entries, answer, since, tree, pipeline>>
  <2>1. Packs /\ Packs' /\ entries = {}
    BY <1>2 DEF Packs, Core, Steady
  <2>2. Owned'
    BY <1>2, <2>1, OwnedKept DEF Core
  <2>3. TypeOK'
    BY <1>2, <2>1 DEF Core, TypeOK
  <2>4. Steady'
    BY <1>2, <2>1 DEF Core, Steady, Packs, Places, Past
  <2>5. Hashed'
    BY <1>2, <2>1 DEF Hashed, RolesMatched
  <2>6. Synced'
    <3>1. Gathered' = Gathered
      BY <1>2, FoundKept
    <3>2. since # Nothing => Promise!Trouble(tree, pipeline) = {}
      BY <1>2, JudgedAsPromised
    <3> QED BY <1>2, <2>1, <3>1, <3>2 DEF Core, Synced, Gathered
  <2> QED BY <2>2, <2>3, <2>4, <2>5, <2>6 DEF Core
<1>3. \/ \E r : Leave(r) /\ UNCHANGED <<tree, pipeline>>
      \/ /\ issues \cup TargetIssues(pipeline, RolesMatched) = {}
         /\ pc = "locations" /\ todo = {} /\ pc' = "hash" /\ todo' = DOMAIN matched
         /\ UNCHANGED <<at, ordinal, matched, issues, entries, answer, since, tree, pipeline>>
  BY DEF Judge, RolesMatched
<1> QED BY <1>1, <1>2, <1>3

LEMMA HashKeeps ==
  ASSUME Core, Hash
  PROVE  Core'
<1>1. pc = "hash" /\ UNCHANGED <<tree, pipeline>>
  BY DEF Hash
<1>2. PICK p \in todo :
         IF Reaches(tree, p)
         THEN /\ entries' = entries \cup {[path |-> p, role |-> matched[p].role,
                                           ordinal |-> matched[p].ordinal,
                                           bytes |-> tree[p].bytes]}
              /\ todo' = todo \ {p}
              /\ UNCHANGED <<pc, at, ordinal, matched, issues, answer, since>>
         ELSE Leave(Refused({<<"vanished">>}))
  BY DEF Hash
<1>3. CASE ~Reaches(tree, p)
  BY <1>1, <1>2, <1>3, LeaveKeeps
<1>4. CASE Reaches(tree, p)
  <2> DEFINE e == [path |-> p, role |-> matched[p].role,
                   ordinal |-> matched[p].ordinal, bytes |-> tree[p].bytes]
  <2>1. /\ entries' = entries \cup {e} /\ todo' = todo \ {p}
        /\ UNCHANGED <<pc, at, ordinal, matched, issues, answer, since, tree, pipeline>>
    BY <1>1, <1>2, <1>4
  <2>2. p \in DOMAIN matched /\ p \in Nodes /\ e \in Entry
    <3>1. p \in DOMAIN matched /\ p \in Nodes
      BY DEF Core, TypeOK
    <3>2. matched[p] \in [role : RoleNames, ordinal : Nat] /\ tree[p] \in Node
      BY <3>1 DEF Core, TypeOK
    <3> QED BY <3>1, <3>2 DEF Entry, Node
  <2>3. e.path = p /\ e.role = matched[p].role /\ e.ordinal = matched[p].ordinal
        /\ e.bytes = tree[p].bytes
    OBVIOUS
  <2> HIDE DEF e
  <2>4. Packs /\ Packs'
    BY <1>1, <2>1 DEF Packs
  <2>5. Owned'
    BY <2>1, <2>4, OwnedKept DEF Core
  <2>6. TypeOK'
    <3>1. DOMAIN matched' \ todo' = {f.path : f \in entries'}
      <4>1. DOMAIN matched \ todo = {f.path : f \in entries}
        BY <1>1 DEF Core, TypeOK
      <4>2. DOMAIN matched' \ todo' = (DOMAIN matched \ todo) \cup {p}
        BY <2>1, <2>2
      <4> QED BY <2>1, <2>3, <4>1, <4>2
    <3> QED BY <1>1, <2>1, <2>2, <3>1 DEF Core, TypeOK
  <2>7. Steady'
    BY <1>1, <2>1 DEF Core, Steady, Packs, Places, Past
  <2>8. Hashed'
    <3>1. p \notin {f.path : f \in entries}
      BY DEF Core, Hashed
    <3>2. \A f \in entries' : /\ f.path \in DOMAIN matched' \ todo'
                              /\ f.role = matched'[f.path].role /\ f.ordinal = matched'[f.path].ordinal
                              /\ since' # Nothing => f.bytes = tree'[f.path].bytes
      BY <2>1, <2>2, <2>3 DEF Core, Hashed
    <3>3. \A f, g \in entries' : f.path = g.path => f = g
      BY <2>1, <2>3, <3>1 DEF Core, Hashed
    <3>4. TargetIssues(pipeline', [q \in DOMAIN matched' |-> matched'[q].role]) = {}
      BY <1>1, <2>1 DEF Core, Hashed
    <3> QED BY <3>2, <3>3, <3>4 DEF Hashed
  <2>9. Synced'
    <3>1. Gathered' = Gathered
      BY <2>1, FoundKept
    <3> QED BY <1>1, <2>1, <2>4, <3>1 DEF Core, Synced, Gathered
  <2> QED BY <2>5, <2>6, <2>7, <2>8, <2>9 DEF Core
<1> QED BY <1>3, <1>4
-----------------------------------------------------------------------------
(* Answers and verdicts                                                     *)

Said == Answered /\ ManifestsAreSound

LEMMA InOrderIs ==
  /\ ManifestsAreOrdered <=> (IsPacked => InOrder(answer.files, pipeline))
  /\ ManifestsAreOrdered' <=> (IsPacked' => InOrder(answer'.files, pipeline'))
BY Zenon DEF ManifestsAreOrdered, InOrder

LEMMA ListsIs ==
  /\ AcceptedIsSound <=>
        (verdict # Nothing /\ verdict.accepted =>
            Lists(verdict.manifest.files, verdict.manifest.pipeline.needs, verdict.files))
  /\ AcceptedIsSound' <=>
        (verdict' # Nothing /\ verdict'.accepted =>
            Lists(verdict'.manifest.files, verdict'.manifest.pipeline.needs, verdict'.files))
BY Zenon DEF AcceptedIsSound, Lists

LEMMA NewAnswer ==
  ASSUME Said, UNCHANGED <<pipeline, verdict>>,
         IsPacked' => /\ InOrder(answer'.files, pipeline)
                      /\ [files |-> answer'.files, pipeline |-> pipeline,
                          renamed |-> FALSE] \in Manifest
                      /\ Welcome([files |-> answer'.files, pipeline |-> pipeline,
                                  renamed |-> FALSE])
  PROVE  Said'
<1>1. ManifestsAreOrdered'
  BY InOrderIs
<1>2. Answered' /\ PackedIsAccepted'
  BY DEF Answered, PackedIsAccepted, AsManifest, Welcome
<1>3. AcceptedIsSound'
  BY ListsIs DEF Said, ManifestsAreSound
<1> QED BY <1>1, <1>2, <1>3 DEF Said, ManifestsAreSound

LEMMA RefusalSaysNothing ==
  ASSUME Said, NEW t, t # {}, Leave(Refused(t)), UNCHANGED <<pipeline, verdict>>
  PROVE  Said'
<1>1. answer'.trouble = t
  BY DEF Leave, Refused
<1>2. ~IsPacked'
  BY <1>1 DEF IsPacked
<1> QED BY <1>2, NewAnswer

LEMMA SameAnswer ==
  ASSUME Said, UNCHANGED <<pipeline, verdict, answer>>
  PROVE  Said'
<1>1. IsPacked' => IsPacked /\ answer'.files = answer.files
  BY DEF IsPacked
<1>2. IsPacked => InOrder(answer.files, pipeline)
  BY InOrderIs DEF Said, ManifestsAreSound
<1>3. IsPacked => AsManifest \in Manifest
  BY DEF Said, Answered
<1>4. ManifestsAreOrdered'
  BY <1>1, <1>2, InOrderIs
<1>5. Answered' /\ PackedIsAccepted'
  BY DEF Said, ManifestsAreSound, Answered, PackedIsAccepted, AsManifest, IsPacked
<1>6. AcceptedIsSound'
  BY ListsIs DEF Said, ManifestsAreSound
<1> QED BY <1>4, <1>5, <1>6 DEF Said, ManifestsAreSound

LEMMA FinishIs ==
  ASSUME Finish
  PROVE  /\ pc = "hash" /\ todo = {} /\ UNCHANGED <<tree, pipeline, verdict>>
         /\ Leave([trouble |-> {}, files |-> Listed])
         /\ answer' = [trouble |-> {}, files |-> Listed]
BY DEF Finish, Leave, Listed, Ordering

LEMMA FinishSays ==
  ASSUME Core, Said, Finish
  PROVE  Said'
<1>1. Complete /\ Owned
  BY FinishIs DEF Complete, Core
<1>2. answer'.files = Listed /\ UNCHANGED <<pipeline, verdict>>
  BY FinishIs
<1>3. InOrder(Listed, pipeline)
  BY <1>1, ListedInOrder
<1>4. Welcome(Filed) /\ Filed \in Manifest
  BY <1>1, FiledIsAccepted
<1> QED BY <1>2, <1>3, <1>4, NewAnswer DEF Filed

LEMMA SubmitSays ==
  ASSUME Said, NEW m \in Manifest, Submit(m)
  PROVE  Said'
<1>1. UNCHANGED <<pipeline, answer>>
  BY DEF Submit
<1>2. AcceptedIsSound'
  BY SubmitIsSound
<1>3. ManifestsAreOrdered'
  BY <1>1, InOrderIs DEF Said, ManifestsAreSound, IsPacked
<1>4. Answered' /\ PackedIsAccepted'
  BY <1>1 DEF Said, ManifestsAreSound, Answered, PackedIsAccepted, AsManifest, IsPacked
<1> QED BY <1>2, <1>3, <1>4 DEF Said, ManifestsAreSound

LEMMA BeginSays ==
  ASSUME Said, Begin
  PROVE  Said'
<1>1. answer' = Nothing /\ verdict' = Nothing
  BY DEF Begin
<1>2. ~IsPacked'
  BY <1>1 DEF IsPacked
<1>3. AcceptedIsSound'
  BY <1>1 DEF AcceptedIsSound
<1> QED BY <1>2, <1>3 DEF Said, ManifestsAreSound, ManifestsAreOrdered, Answered, PackedIsAccepted

-----------------------------------------------------------------------------
(* The invariant                                                            *)

LEMMA Initially == Init => IInv
<1> SUFFICES ASSUME Init PROVE IInv
  OBVIOUS
<1>1. /\ tree \in Trees /\ pipeline \in Pipelines \cup {Nothing} /\ Idle
      /\ answer = Nothing /\ verdict = Nothing /\ since = Nothing
      /\ pc = "idle" /\ at = <<1, 1>> /\ matched = NoFiles /\ todo = {} /\ issues = {}
      /\ entries = {}
  BY DEF Init, Idle
<1>2. TypeOK
  <2>1. DOMAIN matched = {} /\ matched = [p \in {} |-> 0]
    BY <1>1 DEF NoFiles
  <2>2. at \in (DOMAIN Roles) \X (Nat \ {0})
    BY <1>1, RolesAre
  <2>3. matched \in [DOMAIN matched -> [role : RoleNames, ordinal : Nat]]
    BY <2>1
  <2> QED BY <1>1, <2>1, <2>2, <2>3, NodesAre DEF TypeOK
<1>3. Steady /\ Owned /\ Hashed /\ Synced
  BY <1>1 DEF Steady, Owned, Hashed, Synced, Packs
<1>4. Answered /\ ManifestsAreSound
  BY <1>1 DEF Answered, ManifestsAreSound, ManifestsAreOrdered, PackedIsAccepted, AcceptedIsSound,
              IsPacked
<1> QED BY <1>2, <1>3, <1>4 DEF IInv

LEMMA Inductive == IInv /\ [Next]_vars => IInv'
<1> SUFFICES ASSUME IInv, [Next]_vars PROVE IInv'
  OBVIOUS
<1>0. Core /\ Said
  BY DEF IInv, Core, Said
<1> SUFFICES Core' /\ Said'
  BY DEF IInv, Core, Said
<1>1. CASE Begin
  BY <1>0, <1>1, BeginKeeps, BeginSays
<1>2. CASE Load
  <2>1. Core'
    BY <1>0, <1>2, LoadKeeps
  <2>2. Said'
    <3>1. \/ \E t : t # {} /\ Leave(Refused(t)) /\ UNCHANGED <<pipeline, verdict>>
          \/ UNCHANGED <<pipeline, verdict, answer>>
      BY <1>2 DEF Load
    <3> QED BY <1>0, <3>1, RefusalSaysNothing, SameAnswer
  <2> QED BY <2>1, <2>2
<1>3. CASE ExpandGlob
  <2>1. TypeOK'
    BY <1>0, <1>3, ExpandGlobType DEF Core
  <2>2. Owned'
    BY <1>0, <1>3, ExpandGlobOwned DEF Core
  <2>3. Steady' /\ Synced'
    BY <1>0, <1>3, ExpandGlobSynced DEF Core
  <2>4. Hashed'
    BY <1>0, <1>3 DEF ExpandGlob, Core, Hashed, Steady
  <2>5. Said'
    BY <1>0, <1>3, SameAnswer DEF ExpandGlob
  <2> QED BY <2>1, <2>2, <2>3, <2>4, <2>5 DEF Core
<1>4. CASE NextRole
  BY <1>0, <1>4, NextRoleKeeps, SameAnswer DEF NextRole
<1>5. CASE LastRole
  BY <1>0, <1>5, LastRoleKeeps, SameAnswer DEF LastRole
<1>6. CASE CheckLocation
  BY <1>0, <1>6, CheckLocationKeeps, SameAnswer DEF CheckLocation
<1>7. CASE Judge
  <2>1. Core'
    BY <1>0, <1>7, JudgeKeeps
  <2>2. Said'
    <3>1. \/ \E t : t # {} /\ Leave(Refused(t)) /\ UNCHANGED <<pipeline, verdict>>
          \/ UNCHANGED <<pipeline, verdict, answer>>
      BY <1>7 DEF Judge
    <3> QED BY <1>0, <3>1, RefusalSaysNothing, SameAnswer
  <2> QED BY <2>1, <2>2
<1>8. CASE Hash
  <2>1. Core'
    BY <1>0, <1>8, HashKeeps
  <2>2. Said'
    <3>1. \/ \E t : t # {} /\ Leave(Refused(t)) /\ UNCHANGED <<pipeline, verdict>>
          \/ UNCHANGED <<pipeline, verdict, answer>>
      BY <1>8 DEF Hash
    <3> QED BY <1>0, <3>1, RefusalSaysNothing, SameAnswer
  <2> QED BY <2>1, <2>2
<1>9. CASE Finish
  BY <1>0, <1>9, FinishIs, FinishSays, LeaveKeeps
<1>10. CASE Edit
  BY <1>0, <1>10, EditKeeps, SameAnswer DEF Edit
<1>11. ASSUME NEW m \in Manifest, Submit(m) PROVE Core' /\ Said'
  BY <1>0, <1>11, SubmitKeeps, SubmitSays DEF Submit
<1>12. CASE IsPacked /\ Submit(AsManifest)
  BY <1>0, <1>11, <1>12 DEF Said, Answered
<1>13. CASE \E m \in Handmade : Submit(m)
  BY <1>11, <1>13, NodesAre
<1>14. CASE UNCHANGED vars
  BY <1>0, <1>14, SubmitKeeps, SameAnswer DEF vars
<1> QED BY <1>1, <1>2, <1>3, <1>4, <1>5, <1>6, <1>7, <1>8, <1>9, <1>10, <1>12, <1>13, <1>14 DEF Next

LEMMA Invariance == Spec => []IInv
BY Initially, Inductive, PTL DEF Spec

\* The state a pack keeps between its steps stays within its types, and while
\* globs are expanded the ordinal counts the role's files so far (pack).
THEOREM TypeCorrect == Spec => []TypeOK
<1>1. IInv => TypeOK
  BY DEF IInv
<1> QED BY <1>1, Invariance, PTL

\* Whatever happens to a directory while it is packed, and whoever wrote a
\* manifest, for any files, patterns and declarations: what is packed is ordered;
\* it is refused for a file's name, the number of files or a stage's timeout only;
\* and what is accepted is sound (pack, _manifest_from).
THEOREM ManifestsAlwaysSound == Spec => []ManifestsAreSound
<1>1. IInv => ManifestsAreSound
  BY DEF IInv
<1> QED BY <1>1, Invariance, PTL
-----------------------------------------------------------------------------
(* Packing implements PackOrder                                             *)

\* What the promise makes of an answer.
Told(r) == [trouble |-> r.trouble, files |-> {r.files[i] : i \in DOMAIN r.files}]

LEMMA LeaveTells ==
  ASSUME Core, pc # "idle", NEW r \in [trouble : SUBSET Issue, files : Seq(Entry)],
         Leave(r), UNCHANGED <<tree, pipeline>>,
         since # Nothing => Told(r) = Promise!Outcome(tree, pipeline)
  PROVE  Promise!Tell
<1>1. answer' = r /\ answer' # Nothing /\ since' = Nothing /\ pc' = "idle"
  BY NothingAssumption DEF Leave
<1>2. since # Nothing => since = tree
  BY DEF Core, Steady
<1>3. (IF answer' = Nothing THEN Nothing
       ELSE [trouble |-> answer'.trouble,
             files |-> {answer'.files[i] : i \in DOMAIN answer'.files}]) = Told(r)
  BY <1>1 DEF Told
<1> QED BY <1>1, <1>2, <1>3 DEF Promise!Tell

LEMMA RefusalTells ==
  ASSUME Core, pc # "idle", NEW t \in SUBSET Issue,
         Leave(Refused(t)), UNCHANGED <<tree, pipeline>>,
         since # Nothing => Promise!Outcome(tree, pipeline) = [trouble |-> t, files |-> {}]
  PROVE  Promise!Tell
<1>1. Refused(t) \in [trouble : SUBSET Issue, files : Seq(Entry)]
  BY DEF Refused
<1>2. Told(Refused(t)) = [trouble |-> t, files |-> {}]
  <2>1. DOMAIN <<>> = {}
    OBVIOUS
  <2>2. Refused(t).trouble = t /\ Refused(t).files = <<>>
    BY DEF Refused
  <2>3. {Refused(t).files[i] : i \in DOMAIN Refused(t).files} = {}
    BY <2>1, <2>2
  <2> QED BY <2>2, <2>3 DEF Told
<1> QED BY <1>1, <1>2, LeaveTells

LEMMA LoadRefines ==
  ASSUME Core, Load
  PROVE  Promise!Tell \/ UNCHANGED Promise!vars
<1>1. pc = "load" /\ UNCHANGED <<tree, pipeline, verdict>>
  BY DEF Load
<1>2. {<<"missing">>} \in SUBSET Issue /\ {<<"pipeline">>} \in SUBSET Issue
  BY DEF Issue
<1>3. CASE pipeline = Nothing /\ Leave(Refused({<<"missing">>}))
  <2>1. Promise!Outcome(tree, pipeline) = [trouble |-> {<<"missing">>}, files |-> {}]
    BY <1>3 DEF Promise!Outcome
  <2> QED BY <1>1, <1>2, <1>3, <2>1, RefusalTells
<1>4. CASE pipeline # Nothing /\ pipeline.flawed /\ Leave(Refused({<<"pipeline">>}))
  <2>1. Promise!Outcome(tree, pipeline) = [trouble |-> {<<"pipeline">>}, files |-> {}]
    BY <1>4 DEF Promise!Outcome
  <2> QED BY <1>1, <1>2, <1>4, <2>1, RefusalTells
<1>5. CASE pc' = "globs" /\ UNCHANGED <<work, answer, since>>
  BY <1>1, <1>5 DEF Promise!vars
<1> QED BY <1>3, <1>4, <1>5 DEF Load

\* Packs has a pipeline that was read.
LEMMA OutcomeIs ==
  ASSUME Core, Packs
  PROVE  Promise!Outcome(tree, pipeline) =
            [trouble |-> Promise!Trouble(tree, pipeline),
             files |-> IF Promise!Trouble(tree, pipeline) = {} THEN Promise!Entries(tree, pipeline)
                       ELSE {}]
<1>1. pipeline # Nothing /\ ~pipeline.flawed
  BY NodesAre DEF Core, Steady
<1> QED BY <1>1 DEF Promise!Outcome

LEMMA JudgeRefines ==
  ASSUME Core, Judge
  PROVE  Promise!Tell \/ UNCHANGED Promise!vars
<1> DEFINE all == issues \cup TargetIssues(pipeline, RolesMatched)
<1>1. pc = "locations" /\ todo = {} /\ Packs /\ UNCHANGED <<tree, pipeline, verdict>>
  BY DEF Judge, Packs
<1>2. CASE all # {} /\ Leave(Refused(all))
  <2>1. all \in SUBSET Issue
    <3>1. pipeline.needs \subseteq {"tb", "data"} \X Nodes
      BY <1>1, NodesAre DEF Core, Steady, Pipeline
    <3>2. TargetIssues(pipeline, RolesMatched) \subseteq {"target"} \X ({"tb", "data"} \X Nodes)
      BY <3>1 DEF TargetIssues
    <3> QED BY <3>2 DEF Core, Steady, Issue
  <2>2. since # Nothing => Promise!Outcome(tree, pipeline) = [trouble |-> all, files |-> {}]
    <3>1. since # Nothing => Promise!Trouble(tree, pipeline) = all
      BY <1>1, JudgedAsPromised
    <3> HIDE DEF all
    <3> QED BY <1>1, <1>2, <3>1, OutcomeIs
  <2> HIDE DEF all
  <2> QED BY <1>1, <1>2, <2>1, <2>2, RefusalTells
<1>3. CASE pc' = "hash" /\ UNCHANGED <<answer, since>>
  BY <1>1, <1>3 DEF Promise!vars
<1> QED BY <1>2, <1>3 DEF Judge, RolesMatched

LEMMA HashRefines ==
  ASSUME Core, Hash
  PROVE  Promise!Tell \/ UNCHANGED Promise!vars
<1>1. pc = "hash" /\ UNCHANGED <<tree, pipeline>> /\ Packs
  BY DEF Hash, Packs
<1>2. PICK p \in todo : \/ ~Reaches(tree, p) /\ Leave(Refused({<<"vanished">>}))
                        \/ UNCHANGED <<pc, answer, since>>
  BY DEF Hash
<1>3. CASE ~Reaches(tree, p) /\ Leave(Refused({<<"vanished">>}))
\* What nobody touched is where it was found.
  <2>1. since = Nothing
    <3>1. ASSUME since # Nothing PROVE FALSE
      <4>1. p \in Promise!Taken(tree, pipeline)
        BY <1>1, <3>1, MatchedAsPromised DEF Core, TypeOK
      <4>2. Promise!Trouble(tree, pipeline) = {}
        BY <1>1, <3>1 DEF Core, Synced
      <4>3. Promise!Regular(tree, p)
        BY <4>1, <4>2 DEF Promise!Trouble
      <4> QED BY <1>3, <4>3 DEF Promise!Regular, Reaches
    <3> QED BY <3>1
  <2>2. {<<"vanished">>} \in SUBSET Issue
    BY DEF Issue
  <2> QED BY <1>1, <1>3, <2>1, <2>2, RefusalTells
<1>4. CASE UNCHANGED <<pc, answer, since>>
  BY <1>1, <1>4 DEF Promise!vars
<1> QED BY <1>2, <1>3, <1>4

LEMMA FinishRefines ==
  ASSUME Core, Finish
  PROVE  Promise!Tell
<1> DEFINE r == [trouble |-> {}, files |-> Listed]
<1>1. /\ pc = "hash" /\ todo = {} /\ UNCHANGED <<tree, pipeline, verdict>> /\ Leave(r)
      /\ Complete /\ Owned /\ Packs
  BY FinishIs DEF Complete, Core, Packs
<1>2. Listed \in Seq(Entry) /\ {Listed[i] : i \in DOMAIN Listed} = entries
  BY <1>1, ListedIs
<1>3. /\ r \in [trouble : SUBSET Issue, files : Seq(Entry)]
      /\ Told(r) = [trouble |-> {}, files |-> entries]
  BY <1>2 DEF Told
<1>4. ASSUME since # Nothing PROVE Told(r) = Promise!Outcome(tree, pipeline)
  <2>1. /\ DOMAIN matched = Promise!Taken(tree, pipeline)
        /\ \A p \in DOMAIN matched :
              /\ matched[p].role = Promise!Roles[Promise!Owner(tree, pipeline, p)[1]]
              /\ matched[p].ordinal = Cardinality(Promise!Before(tree, pipeline, p))
    BY <1>1, <1>4, MatchedAsPromised, RolesAre
  <2> DEFINE E(p) == [path |-> p, role |-> Promise!Roles[Promise!Owner(tree, pipeline, p)[1]],
                      ordinal |-> Cardinality(Promise!Before(tree, pipeline, p)),
                      bytes |-> tree[p].bytes]
  <2>2. ASSUME NEW e \in entries PROVE e.path \in DOMAIN matched /\ e = E(e.path)
    <3>1. /\ e \in Entry /\ e.path \in DOMAIN matched
          /\ e.role = matched[e.path].role /\ e.ordinal = matched[e.path].ordinal
          /\ e.bytes = tree[e.path].bytes
      BY <1>4 DEF Core, TypeOK, Hashed
    <3>2. e = [path |-> e.path, role |-> e.role, ordinal |-> e.ordinal, bytes |-> e.bytes]
      BY <3>1 DEF Entry
    <3> QED BY <2>1, <3>1, <3>2
  <2>3. ASSUME NEW p \in DOMAIN matched PROVE \E e \in entries : e.path = p
    BY <1>1 DEF Core, TypeOK
  <2>4. Promise!Entries(tree, pipeline) = {E(p) : p \in DOMAIN matched}
    BY <2>1, SameCount DEF Promise!Entries
  <2>5. entries = Promise!Entries(tree, pipeline)
    <3> HIDE DEF E
    <3> QED BY <2>2, <2>3, <2>4
  <2>6. Promise!Trouble(tree, pipeline) = {}
    BY <1>1, <1>4 DEF Core, Synced
  <2> QED BY <1>1, <1>3, <2>5, <2>6, OutcomeIs
<1> HIDE DEF r
<1>5. Leave(r) /\ pc # "idle" /\ UNCHANGED <<tree, pipeline>>
  BY <1>1
<1> QED BY <1>3, <1>4, <1>5, LeaveTells

\* A pack of a directory nobody touches, however many files and declarations it
\* has, returns what they determine or every problem at once (pack): every step
\* is one of PackOrder or leaves what that says alone.
THEOREM Refinement == Spec => KeepsOrder
<1>1. Init => Promise!Init
  <2>1. Init => pc = "idle" /\ since = Nothing /\ answer = Nothing /\ tree \in Trees
    BY DEF Init, Idle
  <2> QED BY <2>1 DEF Promise!Init
<1>2. IInv /\ [Next]_vars => [Promise!Next]_(Promise!vars)
  <2> SUFFICES ASSUME IInv, [Next]_vars PROVE Promise!Next \/ UNCHANGED Promise!vars
    BY DEF Promise!vars
  <2>0. Core
    BY DEF IInv, Core
  <2>1. CASE Begin
    <3>1. pc = "idle" /\ pc' = "load" /\ answer' = Nothing /\ since' = tree
          /\ UNCHANGED <<tree, pipeline>>
      BY <2>1 DEF Begin
    <3>2. Promise!Ask
      BY <3>1 DEF Promise!Ask
    <3> QED BY <3>2 DEF Promise!Next
  <2>2. CASE Load
    BY <2>0, <2>2, LoadRefines DEF Promise!Next
  <2>3. CASE ExpandGlob
    BY <2>3 DEF ExpandGlob, Promise!vars
  <2>4. CASE NextRole
    BY <2>4 DEF NextRole, Promise!vars
  <2>5. CASE LastRole
    BY <2>5 DEF LastRole, GlobsDone, Promise!vars
  <2>6. CASE CheckLocation
    BY <2>6 DEF CheckLocation, Promise!vars
  <2>7. CASE Judge
    BY <2>0, <2>7, JudgeRefines DEF Promise!Next
  <2>8. CASE Hash
    BY <2>0, <2>8, HashRefines DEF Promise!Next
  <2>9. CASE Finish
    BY <2>0, <2>9, FinishRefines DEF Promise!Next
  <2>10. CASE Edit
    BY <2>10 DEF Edit, Promise!Edit, Promise!Next
  <2>11. ASSUME NEW m, Submit(m) PROVE UNCHANGED Promise!vars
    BY <2>11 DEF Submit, Promise!vars
  <2>12. CASE UNCHANGED vars
    BY <2>12 DEF vars, Promise!vars
  <2> QED BY <2>1, <2>2, <2>3, <2>4, <2>5, <2>6, <2>7, <2>8, <2>9, <2>10, <2>11, <2>12 DEF Next
<1> QED BY <1>1, <1>2, Invariance, PTL DEF Spec, KeepsOrder, Promise!Spec
=============================================================================
