--------------------------- MODULE MigrateProofs ---------------------------
(***************************************************************************)
(* Proofs about Migrate for any number of processes, any scripts, plain or *)
(* not, and any releases.                                                  *)
(***************************************************************************)
EXTENDS Migrate, FiniteSetTheorems, TLAPS

Trying == {"begin", "script", "record", "commit"}

\* The lock is held by a process inside a migration; a plain script never ends
\* the transaction it runs in.
Held ==
    /\ lock # Absent => pc[lock] \in {"script", "record", "commit"}
    /\ \A p \in Procs :
          /\ pc[p] \in {"record", "commit"} => lock = p
          /\ pc[p] = "script" /\ Plain(version[p]) => lock = p

\* A process is at a migration of its release and has found, or has applied,
\* all before it. The one it is at may be recorded meanwhile.
Climbed == \A p \in Procs :
    /\ pc[p] \in Trying => /\ version[p] \in 1..release[p]
                           /\ 1..(version[p] - 1) \subseteq db.recorded
    /\ pc[p] \in {"analyze", "up"} => 1..release[p] \subseteq db.recorded
    /\ pc[p] \in {"record", "commit"} => next[p] > Len(Scripts[version[p]])

\* The open transaction differs from the committed database in what its script
\* has done so far, and at its end in the row of its version.
Imaged == \A p \in Procs : lock = p =>
    /\ pc[p] \in {"script", "record"} => image.recorded = db.recorded
    /\ pc[p] = "commit" => /\ version[p] \notin db.recorded
                           /\ image.recorded = db.recorded \cup {version[p]}
    /\ \A c \in AllChanges : c[1] # version[p] => image.effects[c] = db.effects[c]
    /\ Plain(version[p]) => \A c \in AllChanges : c[1] = version[p] =>
          image.effects[c] = db.effects[c] + IF c[2] < next[p] THEN 1 ELSE 0

\* The versions recorded are the first ones.
Contiguous == \E k \in 0..Len(Scripts) : db.recorded = 1..k

IInv == TypeOK /\ Held /\ Climbed /\ Imaged /\ Contiguous /\ AppliedIffRecorded
-----------------------------------------------------------------------------
(* Facts about the data *)

LEMMA ScriptsData ==
  /\ Len(Scripts) \in Nat
  /\ \A v \in Versions : /\ v \in Nat \ {0}
                         /\ Len(Scripts[v]) \in Nat
                         /\ DOMAIN Scripts[v] = 1..Len(Scripts[v])
BY ConstantsAssumption DEF Versions

\* A change is a statement of one script.
LEMMA ChangesData ==
  /\ \A v \in Versions : \A c \in Changes[v] :
        /\ c \in AllChanges /\ c[1] = v /\ c[2] \in DOMAIN Scripts[v]
  /\ \A c \in AllChanges : c[1] \in Versions /\ c \in Changes[c[1]]
  /\ \A v, i : <<v, i>> \in AllChanges => v \in Versions /\ i \in DOMAIN Scripts[v]
BY DEF Changes, AllChanges

\* In a plain script every statement is a change.
LEMMA PlainData ==
  ASSUME NEW v \in Versions, Plain(v), NEW i \in DOMAIN Scripts[v]
  PROVE  <<v, i>> \in AllChanges
BY DEF Plain, Changes, AllChanges

LEMMA EffectData ==
  ASSUME NEW view \in Database, NEW c \in AllChanges
  PROVE  /\ Effect(view, c) \in Database
         /\ Effect(view, c).recorded = view.recorded
         /\ \A d \in AllChanges : Effect(view, c).effects[d] =
               IF d = c THEN view.effects[d] + 1 ELSE view.effects[d]
BY DEF Effect, Database

\* The latest version of a contiguous database.
LEMMA LatestData ==
  ASSUME NEW k \in Nat
  PROVE  Latest(1..k) = k
BY DEF Latest

\* A process has a release at hand, and is at one of its migrations.
LEMMA ReleaseData ==
  ASSUME TypeOK, NEW p \in Procs
  PROVE  /\ release[p] \in 0..Len(Scripts)
         /\ next[p] \in Nat \ {0} /\ next[p] + 1 \in Nat \ {0}
         /\ version[p] \in Nat
         /\ Climbed /\ pc[p] \in Trying => version[p] \in Versions
<1>1. release[p] \in Releases \cup {0} /\ next[p] \in Nat \ {0}
  BY DEF TypeOK
<1>2. Len(Scripts) \in Nat
  BY ScriptsData
<1>3. release[p] \in 0..Len(Scripts)
  BY <1>1, <1>2, ConstantsAssumption
<1>4. version[p] \in Nat
  BY <1>2 DEF TypeOK
<1> QED BY <1>1, <1>2, <1>3, <1>4 DEF Climbed, Versions

\* Effects are counted.
LEMMA CountData ==
  ASSUME NEW view \in Database, NEW c \in AllChanges
  PROVE  view.effects[c] \in Nat /\ c[1] \in Nat /\ c[2] \in Nat
<1>1. c[1] \in Versions /\ c[2] \in DOMAIN Scripts[c[1]]
  BY ChangesData
<1>2. c[1] \in Nat /\ c[2] \in Nat
  BY <1>1, ScriptsData
<1> QED BY <1>2 DEF Database
-----------------------------------------------------------------------------
(* Proof that IInv is inductive: one lemma per action. *)

LEMMA InitIInv == Init => IInv
<1>1. Init => TypeOK
  BY ScriptsData DEF Init, TypeOK, Database
<1>2. Init => Held /\ Climbed /\ Imaged
  BY ConstantsAssumption DEF Init, Held, Climbed, Imaged, Trying
<1>3. Init => Contiguous
  <2>1. 1..0 = {} /\ 0 \in 0..Len(Scripts)
    BY ScriptsData
  <2> QED BY <2>1 DEF Init, Contiguous
<1>4. Init => AppliedIffRecorded
  BY ChangesData DEF Init, AppliedIffRecorded
<1> QED BY <1>1, <1>2, <1>3, <1>4 DEF IInv

\* An exception is the same step whatever raised it.
LEMMA RaiseStep ==
  ASSUME IInv, NEW p \in Procs, Raise(p)
  PROVE  IInv'
<1> USE ConstantsAssumption, AbsentAssumption DEF IInv, Raise
<1>1. TypeOK'
  BY DEF TypeOK, Database
<1>2. Held'
  BY DEF TypeOK, Held
<1>3. Climbed'
  BY DEF TypeOK, Held, Climbed, Trying
<1>4. Imaged'
  BY DEF TypeOK, Held, Imaged
<1>5. (Contiguous /\ AppliedIffRecorded)'
  BY DEF TypeOK, Contiguous, AppliedIffRecorded
<1> QED BY <1>1, <1>2, <1>3, <1>4, <1>5

LEMMA OpenStep ==
  ASSUME IInv, NEW p \in Procs, NEW n \in Releases, Open(p, n)
  PROVE  IInv'
<1> USE ConstantsAssumption, AbsentAssumption DEF IInv, Open, Goto
<1>1. TypeOK'
  BY DEF TypeOK, Database
<1>2. Held'
  BY DEF TypeOK, Held
<1>3. Climbed'
  BY DEF TypeOK, Held, Climbed, Trying
<1>4. Imaged'
  BY DEF TypeOK, Held, Imaged
<1>5. (Contiguous /\ AppliedIffRecorded)'
  BY DEF TypeOK, Contiguous, AppliedIffRecorded
<1> QED BY <1>1, <1>2, <1>3, <1>4, <1>5

LEMMA ReadStep ==
  ASSUME IInv, NEW p \in Procs, Read(p)
  PROVE  IInv'
<1> USE ConstantsAssumption, AbsentAssumption DEF IInv, Read, ToNext, Goto
<1>1. PICK k \in 0..Len(Scripts) : db.recorded = 1..k
  BY DEF Contiguous
<1>2. Latest(db.recorded) = k /\ k \in Nat /\ Len(Scripts) \in Nat
  BY <1>1, LatestData, ScriptsData
<1>3. release[p] \in 0..Len(Scripts)
  BY ReleaseData
<1> USE <1>1, <1>2, <1>3
<1>4. TypeOK'
  <2>1. pc' \in [Procs -> {"down", "read", "begin", "script", "record",
                            "commit", "analyze", "up"}]
    BY DEF TypeOK
  <2>2. version' \in [Procs -> 0..Len(Scripts) + 1]
    BY DEF TypeOK
  <2>3. UNCHANGED <<release, next, db, image, lock, stats>>
    OBVIOUS
  <2> QED BY <2>1, <2>2, <2>3 DEF TypeOK, Database
<1>5. Held'
  BY DEF TypeOK, Held
<1>6. Climbed'
  BY DEF TypeOK, Held, Climbed, Trying
<1>7. Imaged'
  BY DEF TypeOK, Held, Imaged
<1>8. (Contiguous /\ AppliedIffRecorded)'
  BY DEF TypeOK, Contiguous, AppliedIffRecorded
<1> QED BY <1>4, <1>5, <1>6, <1>7, <1>8

LEMMA BeginStep ==
  ASSUME IInv, NEW p \in Procs, Begin(p)
  PROVE  IInv'
<1> USE ConstantsAssumption, AbsentAssumption DEF IInv, Begin, Goto
<1> USE ScriptsData, ChangesData
<1>1. TypeOK'
  BY DEF TypeOK, Database
<1>2. Held'
  BY DEF TypeOK, Held
<1>3. Climbed'
  BY DEF TypeOK, Held, Climbed, Trying
<1>4. Imaged'
  BY DEF TypeOK, Held, Climbed, Trying, Imaged, Database, Versions
<1>5. (Contiguous /\ AppliedIffRecorded)'
  BY DEF TypeOK, Contiguous, AppliedIffRecorded
<1> QED BY <1>1, <1>2, <1>3, <1>4, <1>5

LEMMA ChangeStep ==
  ASSUME IInv, NEW p \in Procs, Change(p)
  PROVE  IInv'
<1> DEFINE c == <<version[p], next[p]>>
<1>1. CASE Raise(p)
  BY <1>1, RaiseStep
<1>2. CASE ~Raise(p) /\ lock = p
  <2>1. /\ pc[p] = "script" /\ c \in AllChanges
        /\ image' = Effect(image, c) /\ next' = [next EXCEPT ![p] = @ + 1]
        /\ UNCHANGED <<pc, release, version, stats, db, lock>>
    BY <1>2 DEF Change, InScript, Proceed
  <2>2. image \in Database
    BY <1>2, ConstantsAssumption DEF IInv, TypeOK
  <2>3. /\ image' \in Database /\ image'.recorded = image.recorded
        /\ \A d \in AllChanges : image'.effects[d] =
              IF d = c THEN image.effects[d] + 1 ELSE image.effects[d]
    BY <2>1, <2>2, EffectData
  <2>4. \A d \in AllChanges : d[1] = version[p] /\ d[2] = next[p] => d = c
    BY DEF AllChanges, Changes
  <2>5. /\ \A d \in AllChanges : d[1] \in Versions /\ d[2] \in Nat
        /\ \A d \in AllChanges : db.effects[d] \in Nat
        /\ next[p] \in Nat
    BY ReleaseData, CountData, ChangesData DEF IInv, TypeOK
  <2>6. next' \in [Procs -> Nat \ {0}]
    BY <2>1, ReleaseData DEF IInv, TypeOK
  <2>7. Imaged'
    <3>1. /\ \A d \in AllChanges : d[1] # version[p] => image'.effects[d] = db.effects[d]
          /\ image'.recorded = db.recorded
      BY <1>2, <2>1, <2>3 DEF IInv, Imaged
    <3>2. ASSUME Plain(version[p]), NEW d \in AllChanges, d[1] = version[p]
          PROVE  image'.effects[d] = db.effects[d] + IF d[2] < next'[p] THEN 1 ELSE 0
      <4>1. image.effects[d] = db.effects[d] + IF d[2] < next[p] THEN 1 ELSE 0
        BY <1>2, <3>2 DEF IInv, Imaged
      <4>2. next'[p] = next[p] + 1
        BY <2>1 DEF IInv, TypeOK
      <4> QED BY <2>3, <2>4, <2>5, <3>2, <4>1, <4>2
    <3> QED BY <1>2, <2>1, <3>1, <3>2 DEF Imaged
  <2>8. TypeOK'
    BY <1>2, <2>1, <2>3, <2>6, AbsentAssumption, ConstantsAssumption DEF IInv, TypeOK
  <2> USE ConstantsAssumption, AbsentAssumption, <1>2, <2>1, <2>2, <2>3 DEF IInv
  <2>9. Held'
    BY DEF TypeOK, Held
  <2>10. Climbed'
    BY DEF TypeOK, Held, Climbed, Trying
  <2>11. (Contiguous /\ AppliedIffRecorded)'
    BY DEF TypeOK, Contiguous, AppliedIffRecorded
  <2> QED BY <2>8, <2>9, <2>10, <2>11, <2>7
<1>3. CASE ~Raise(p) /\ lock # p
  <2>1. /\ pc[p] = "script" /\ c \in AllChanges /\ lock = Absent
        /\ db' = Effect(db, c) /\ next' = [next EXCEPT ![p] = @ + 1]
        /\ UNCHANGED <<pc, release, version, stats, image, lock>>
    BY <1>3 DEF Change, InScript, Proceed
  <2>2. /\ db' \in Database /\ db'.recorded = db.recorded
        /\ \A d \in AllChanges : d # c => db'.effects[d] = db.effects[d]
    BY <2>1, EffectData DEF IInv, TypeOK
  <2>3. ~Plain(version[p])
    BY <1>3, <2>1 DEF IInv, Held
  <2>4. \A v \in Versions : Plain(v) =>
           \A d \in Changes[v] : d \in AllChanges /\ db'.effects[d] = db.effects[d]
    BY <2>2, <2>3, ChangesData
  <2>5. next' \in [Procs -> Nat \ {0}]
    BY <2>1, ReleaseData DEF IInv, TypeOK
  <2>6. TypeOK'
    BY <1>3, <2>1, <2>2, <2>5, AbsentAssumption, ConstantsAssumption DEF IInv, TypeOK
  <2> USE ConstantsAssumption, AbsentAssumption, <2>1, <2>2, <2>3, <2>4 DEF IInv
  <2>7. Held'
    BY DEF TypeOK, Held
  <2>8. Climbed'
    BY DEF TypeOK, Held, Climbed, Trying
  <2>9. Imaged'
    BY DEF TypeOK, Held, Imaged
  <2>10. (Contiguous /\ AppliedIffRecorded)'
    BY DEF TypeOK, Contiguous, AppliedIffRecorded
  <2> QED BY <2>6, <2>7, <2>8, <2>9, <2>10
<1> QED BY <1>1, <1>2, <1>3

LEMMA TransactStep ==
  ASSUME IInv, NEW p \in Procs, Transact(p)
  PROVE  IInv'
<1>1. CASE Raise(p)
  BY <1>1, RaiseStep
<1>2. /\ pc[p] = "script" /\ ~Plain(version[p])
      /\ Len(Scripts[version[p]]) \in Nat /\ version[p] \in Versions
  <2>1. pc[p] = "script" /\ next[p] <= Len(Scripts[version[p]]) /\ version[p] \in Versions
    BY ReleaseData DEF Transact, InScript, IInv, Trying
  <2>2. next[p] \in DOMAIN Scripts[version[p]]
    BY <2>1, ScriptsData, ReleaseData DEF IInv
  <2> QED BY <2>1, <2>2, ScriptsData DEF Transact, Statement, Plain
<1>3. next[p] + 1 \in Nat \ {0} /\ next \in [Procs -> Nat \ {0}]
  BY ReleaseData DEF IInv, TypeOK
<1>4. CASE Statement(p) = "COMMIT" /\ lock = p
  <2>1. /\ db' = image /\ image' = Absent /\ lock' = Absent
        /\ next' = [next EXCEPT ![p] = @ + 1]
        /\ UNCHANGED <<pc, release, version, stats>>
    BY <1>4 DEF Transact, Proceed
  <2>2. /\ image \in Database /\ image.recorded = db.recorded
        /\ \A c \in AllChanges : c[1] # version[p] => image.effects[c] = db.effects[c]
    BY <1>2, <1>4, ConstantsAssumption DEF IInv, TypeOK, Imaged
  <2>3. \A v \in Versions : Plain(v) =>
           \A d \in Changes[v] : d \in AllChanges /\ db'.effects[d] = db.effects[d]
    BY <1>2, <2>1, <2>2, ChangesData
  <2> USE ConstantsAssumption, AbsentAssumption, <1>2, <1>4, <2>1, <2>2, <2>3 DEF IInv
  <2>4. TypeOK'
    BY <1>3 DEF TypeOK
  <2>5. Held'
    BY DEF TypeOK, Held
  <2>6. Climbed'
    BY DEF TypeOK, Held, Climbed, Trying
  <2>7. Imaged'
    BY DEF TypeOK, Held, Imaged
  <2>8. (Contiguous /\ AppliedIffRecorded)'
    BY DEF TypeOK, Contiguous, AppliedIffRecorded
  <2> QED BY <2>4, <2>5, <2>6, <2>7, <2>8
<1>5. CASE Statement(p) = "BEGIN IMMEDIATE" /\ lock = Absent
  <2>1. /\ image' = db /\ lock' = p /\ next' = [next EXCEPT ![p] = @ + 1]
        /\ UNCHANGED <<pc, release, version, stats, db>>
    BY <1>5, ConstantsAssumption DEF Transact, Proceed
  <2> USE ConstantsAssumption, AbsentAssumption, <1>2, <1>5, <2>1 DEF IInv
  <2>2. TypeOK'
    BY <1>3 DEF TypeOK
  <2>3. Held'
    BY DEF TypeOK, Held
  <2>4. Climbed'
    BY DEF TypeOK, Held, Climbed, Trying
  <2>5. Imaged'
    BY DEF TypeOK, Held, Imaged
  <2>6. (Contiguous /\ AppliedIffRecorded)'
    BY DEF TypeOK, Contiguous, AppliedIffRecorded
  <2> QED BY <2>2, <2>3, <2>4, <2>5, <2>6
<1> QED BY <1>1, <1>4, <1>5 DEF Transact

LEMMA EndScriptStep ==
  ASSUME IInv, NEW p \in Procs, EndScript(p)
  PROVE  IInv'
<1>1. CASE lock # p
  BY <1>1, RaiseStep DEF EndScript
<1>2. CASE lock = p
  <2> USE ConstantsAssumption, AbsentAssumption, <1>2 DEF IInv, EndScript, Goto
  <2>1. TypeOK'
    BY DEF TypeOK, Database
  <2>2. Held'
    BY DEF TypeOK, Held
  <2>3. Climbed'
    BY DEF TypeOK, Held, Climbed, Trying, Versions
  <2>4. Imaged'
    BY DEF TypeOK, Held, Imaged
  <2>5. (Contiguous /\ AppliedIffRecorded)'
    BY DEF TypeOK, Contiguous, AppliedIffRecorded
  <2> QED BY <2>1, <2>2, <2>3, <2>4, <2>5
<1> QED BY <1>1, <1>2

LEMMA RecordStep ==
  ASSUME IInv, NEW p \in Procs, Record(p)
  PROVE  IInv'
<1>1. CASE version[p] \in image.recorded
  BY <1>1, RaiseStep DEF Record
<1>2. CASE version[p] \notin image.recorded
  <2>1. /\ pc[p] = "record" /\ pc' = [pc EXCEPT ![p] = "commit"]
        /\ image' = [image EXCEPT !.recorded = @ \cup {version[p]}]
        /\ UNCHANGED <<release, version, next, db, lock, stats>>
    BY <1>2 DEF Record, Goto
  <2>2. lock = p /\ version[p] \in Versions /\ image \in Database
    BY <2>1, ConstantsAssumption, ReleaseData DEF IInv, TypeOK, Held, Trying
  <2>3. /\ image' \in Database /\ image'.effects = image.effects
        /\ image'.recorded = image.recorded \cup {version[p]}
    BY <2>1, <2>2 DEF Database
  <2> USE ConstantsAssumption, AbsentAssumption, <1>2, <2>1, <2>2, <2>3 DEF IInv
  <2>4. TypeOK'
    BY DEF TypeOK, Database
  <2>5. Held'
    BY DEF TypeOK, Held
  <2>6. Climbed'
    BY DEF TypeOK, Held, Climbed, Trying
  <2>7. Imaged'
    BY DEF TypeOK, Held, Imaged
  <2>8. (Contiguous /\ AppliedIffRecorded)'
    BY DEF TypeOK, Contiguous, AppliedIffRecorded
  <2> QED BY <2>4, <2>5, <2>6, <2>7, <2>8
<1> QED BY <1>1, <1>2

LEMMA CommitStep ==
  ASSUME IInv, NEW p \in Procs, Commit(p)
  PROVE  IInv'
<1> USE ConstantsAssumption, AbsentAssumption DEF IInv
<1>1. /\ pc[p] = "commit" /\ lock = p
      /\ db' = image /\ image' = Absent /\ lock' = Absent
      /\ pc' = [pc EXCEPT ![p] = IF version[p] < release[p] THEN "begin" ELSE "analyze"]
      /\ version' = [version EXCEPT ![p] = version[p] + 1]
      /\ UNCHANGED <<release, next, stats>>
  BY DEF Commit, ToNext, Goto, Held
<1>2. /\ image \in Database /\ version[p] \notin db.recorded
      /\ image.recorded = db.recorded \cup {version[p]}
  BY <1>1 DEF TypeOK, Imaged
<1>3. /\ version[p] \in 1..release[p] /\ 1..(version[p] - 1) \subseteq db.recorded
      /\ release[p] \in 0..Len(Scripts) /\ Len(Scripts) \in Nat
      /\ next[p] > Len(Scripts[version[p]]) /\ next[p] \in Nat
      /\ version[p] \in Versions
  BY <1>1, ScriptsData, ReleaseData DEF Climbed, Trying
<1>4. PICK k \in 0..Len(Scripts) : db.recorded = 1..k
  BY DEF Contiguous
<1>5. version[p] = k + 1
  <2>1. version[p] > k
    BY <1>2, <1>3, <1>4
  <2>2. k \in Nat /\ version[p] \in Nat
    BY <1>3, <1>4
  <2>3. ~(version[p] > k + 1)
    <3> SUFFICES ASSUME version[p] > k + 1 PROVE FALSE
      OBVIOUS
    <3>1. k + 1 \in 1..(version[p] - 1)
      BY <2>2
    <3>2. k + 1 \in 1..k
      BY <1>3, <1>4, <3>1
    <3> QED BY <2>2, <3>2
  <2> QED BY <2>1, <2>2, <2>3
<1>6. db'.recorded = 1..(k + 1)
  BY <1>1, <1>2, <1>3, <1>4, <1>5
<1>7. Contiguous'
  BY <1>3, <1>5, <1>6 DEF Contiguous
<1>8. AppliedIffRecorded'
  <2> SUFFICES ASSUME NEW v \in Versions, Plain(v), NEW c \in Changes[v]
               PROVE  image.effects[c] = IF v \in image.recorded THEN 1 ELSE 0
    BY <1>1 DEF AppliedIffRecorded
  <2>1. /\ c \in AllChanges /\ c[1] = v /\ c[2] \in 1..Len(Scripts[v])
        /\ Len(Scripts[v]) \in Nat
        /\ db.effects[c] = IF v \in db.recorded THEN 1 ELSE 0
    BY ChangesData, ScriptsData DEF AppliedIffRecorded
  <2>2. CASE v = version[p]
    <3>1. c[2] < next[p]
      BY <1>3, <2>1, <2>2
    <3>2. image.effects[c] = db.effects[c] + 1
      BY <1>1, <2>1, <2>2, <3>1 DEF Imaged
    <3> QED BY <1>2, <2>1, <2>2, <3>2
  <2>3. CASE v # version[p]
    BY <1>1, <1>2, <2>1, <2>3 DEF Imaged
  <2> QED BY <2>2, <2>3
<1> USE <1>1, <1>2, <1>3
<1>9. TypeOK'
  BY DEF TypeOK, Database
<1>10. Held'
  BY DEF TypeOK, Held
<1>11. Climbed'
  BY <1>4, <1>5, <1>6 DEF TypeOK, Held, Climbed, Trying
<1>12. Imaged'
  BY DEF TypeOK, Held, Imaged
<1> QED BY <1>7, <1>8, <1>9, <1>10, <1>11, <1>12

LEMMA AnalyzeStep ==
  ASSUME IInv, NEW p \in Procs, Analyze(p)
  PROVE  IInv'
<1> USE ConstantsAssumption, AbsentAssumption DEF IInv, Analyze, Goto
<1>1. TypeOK'
  BY DEF TypeOK, Database
<1>2. Held'
  BY DEF TypeOK, Held
<1>3. Climbed'
  BY DEF TypeOK, Held, Climbed, Trying
<1>4. Imaged'
  BY DEF TypeOK, Held, Imaged
<1>5. (Contiguous /\ AppliedIffRecorded)'
  BY DEF TypeOK, Contiguous, AppliedIffRecorded
<1> QED BY <1>1, <1>2, <1>3, <1>4, <1>5

LEMMA StopStep ==
  ASSUME IInv, NEW p \in Procs, Stop(p)
  PROVE  IInv'
<1> USE ConstantsAssumption, AbsentAssumption DEF IInv, Stop, Goto
<1>1. TypeOK'
  BY DEF TypeOK, Database
<1>2. Held'
  BY DEF TypeOK, Held
<1>3. Climbed'
  BY DEF TypeOK, Held, Climbed, Trying
<1>4. Imaged'
  BY DEF TypeOK, Held, Imaged
<1>5. (Contiguous /\ AppliedIffRecorded)'
  BY DEF TypeOK, Contiguous, AppliedIffRecorded
<1> QED BY <1>1, <1>2, <1>3, <1>4, <1>5

LEMMA StutterStep ==
  ASSUME IInv, UNCHANGED vars
  PROVE  IInv'
<1> USE DEF IInv, vars, process
<1>1. TypeOK'
  BY DEF TypeOK, Database
<1>2. Held'
  BY DEF TypeOK, Held
<1>3. Climbed'
  BY DEF TypeOK, Held, Climbed, Trying
<1>4. Imaged'
  BY DEF TypeOK, Held, Imaged
<1>5. (Contiguous /\ AppliedIffRecorded)'
  BY DEF TypeOK, Contiguous, AppliedIffRecorded
<1> QED BY <1>1, <1>2, <1>3, <1>4, <1>5

LEMMA NextIInv == IInv /\ [Next]_vars => IInv'
<1> SUFFICES ASSUME IInv, [Next]_vars PROVE IInv'
  OBVIOUS
<1>1. ASSUME NEW p \in Procs, Run(p) PROVE IInv'
  BY <1>1, ReadStep, BeginStep, RaiseStep, ChangeStep, TransactStep, EndScriptStep,
     RecordStep, CommitStep, AnalyzeStep DEF Run, Busy
<1>2. ASSUME NEW p \in Procs, Fail(p) \/ Crash(p) PROVE IInv'
  BY <1>2, RaiseStep DEF Fail, Crash
<1> QED BY <1>1, <1>2, StopStep, OpenStep, StutterStep DEF Next
-----------------------------------------------------------------------------
(* The theorems *)

\* The invariant holds in every reachable state.
THEOREM Invariance == Spec => []IInv
BY InitIInv, NextIInv, PTL DEF Spec

\* Every variable keeps its type.
THEOREM TypeCorrect == Spec => []TypeOK
<1>1. IInv => TypeOK
  BY DEF IInv
<1> QED BY <1>1, Invariance, PTL

\* The row of a version and the changes of its script are there together or
\* not at all, whatever fails between the two (migrate.py, apply_migrations).
THEOREM NeverHalfMigrated == Spec => []AppliedIffRecorded
<1>1. IInv => AppliedIffRecorded
  BY DEF IInv
<1> QED BY <1>1, Invariance, PTL

LEMMA ReadySuffices == IInv => UpIsMigrated
BY DEF IInv, Climbed, UpIsMigrated

\* control run serves only when every migration of its release is recorded
\* (control/startup.py), although it reads the versions outside the lock.
THEOREM UpAlwaysMigrated == Spec => []UpIsMigrated
BY ReadySuffices, Invariance, PTL
-----------------------------------------------------------------------------
(* Migrate implements MigrationLog. *)

Height == Cardinality(db.recorded)
Visible == [c \in UNION {PlainChanges[v] : v \in Versions} |-> db.effects[c]]
Ready == {u \in Procs \X Releases : pc[u[1]] = "up" /\ release[u[1]] = u[2]}

\* How many versions are recorded tells which, and which changes took effect.
LEMMA LogData ==
  ASSUME IInv
  PROVE  /\ Height \in 0..Len(Scripts)
         /\ db.recorded = 1..Height
         /\ IsFiniteSet(db.recorded)
         /\ Visible = Log!Applied(Height)
<1>1. PICK k \in 0..Len(Scripts) : db.recorded = 1..k
  BY DEF IInv, Contiguous
<1>2. k \in Nat /\ Len(Scripts) \in Nat
  BY <1>1, ScriptsData
<1>3. Height = k /\ IsFiniteSet(db.recorded)
  BY <1>1, <1>2, FS_Interval DEF Height
<1>4. ASSUME NEW c \in UNION {PlainChanges[v] : v \in Versions}
      PROVE  db.effects[c] = IF \E u \in 1..Height : c \in PlainChanges[u] THEN 1 ELSE 0
  <2>1. PICK v \in Versions : Plain(v) /\ c \in Changes[v]
    BY <1>4 DEF PlainChanges
  <2>2. db.effects[c] = IF v \in db.recorded THEN 1 ELSE 0
    BY <2>1 DEF IInv, AppliedIffRecorded
  <2>3. \A u \in Versions : c \in PlainChanges[u] => u = v
    BY <2>1, ChangesData DEF PlainChanges
  <2>4. c \in PlainChanges[v]
    BY <2>1 DEF PlainChanges
  <2>5. 1..Height \subseteq Versions
    BY <1>1, <1>2, <1>3 DEF Versions
  <2> QED BY <1>1, <1>3, <2>2, <2>3, <2>4, <2>5
<1>5. Visible = Log!Applied(Height)
  BY <1>4 DEF Visible, Log!Applied, Versions
<1> QED BY <1>1, <1>3, <1>5

LEMMA InitLog == Init => Log!Init
<1> SUFFICES ASSUME Init PROVE Log!Init
  OBVIOUS
<1>1. Height = 0
  BY FS_EmptySet DEF Init, Height
<1>2. Visible = Log!Applied(0)
  BY <1>1, InitIInv, LogData
<1>3. Ready = {}
  BY DEF Init, Ready
<1> QED BY <1>1, <1>2, <1>3 DEF Log!Init, Height, Visible, Ready

\* The same of the next state.
LEMMA NextLogData ==
  IInv' => /\ Height' \in 0..Len(Scripts)
           /\ Visible' = Log!Applied(Height')
<1> DEFINE Tally == /\ Height \in 0..Len(Scripts)
                    /\ Visible = Log!Applied(Height)
<1>1. IInv => Tally
  BY LogData
<1> HIDE DEF Tally
<1>2. IInv' => Tally'
  BY <1>1, PTL
<1> QED BY <1>2 DEF Tally

\* As long as no row is added, nothing visible changes.
LEMMA SameLog ==
  ASSUME IInv, IInv', db'.recorded = db.recorded
  PROVE  Height' = Height /\ Visible' = Visible
<1>1. Height' = Height
  BY DEF Height
<1> QED BY <1>1, LogData, NextLogData

LEMMA RaiseLog ==
  ASSUME IInv, IInv', NEW p \in Procs, Raise(p)
  PROVE  Log!Down(p)
<1>1. Ready' = {u \in Ready : u[1] # p}
  BY DEF Raise, Ready, IInv, TypeOK
<1>2. Height' = Height /\ Visible' = Visible
  BY SameLog DEF Raise
<1> QED BY <1>1, <1>2 DEF Log!Down, Ready, Height, Visible

\* A step of a process that neither comes up nor goes down shows only in the
\* database.
LEMMA HiddenLog ==
  ASSUME IInv, IInv', NEW p \in Procs, NEW from, NEW to, Goto(p, from, to),
         from # "up", to # "up", UNCHANGED release
  PROVE  Ready' = Ready
BY DEF Goto, Ready, IInv, TypeOK

LEMMA QuietLog ==
  ASSUME IInv, IInv', Ready' = Ready, db'.recorded = db.recorded
  PROVE  UNCHANGED Log!vars
BY SameLog DEF Log!vars, Height, Visible, Ready

\* Coming up with every version of the release recorded.
LEMMA UpLog ==
  ASSUME IInv, IInv', NEW p \in Procs, NEW from, Goto(p, from, "up"),
         UNCHANGED <<release, db>>
  PROVE  [Log!Next]_(Log!vars)
<1>1. pc' = [pc EXCEPT ![p] = "up"] /\ pc'[p] = "up"
      /\ \A q \in Procs : q # p => pc'[q] = pc[q]
  BY DEF Goto, IInv, TypeOK
<1>2. Height' = Height /\ Visible' = Visible
  BY SameLog
<1>3. CASE release[p] \notin Releases
  <2>1. Ready' = Ready
    BY <1>1, <1>3 DEF Ready
  <2> QED BY <2>1, QuietLog
<1>4. CASE release[p] \in Releases
  <2> PICK n \in Releases : n = release[p]
    BY <1>4
  <2>1. Ready' = Ready \cup {<<p, n>>}
    BY <1>1, <1>4 DEF Ready
  <2>2. 1..release[p] \subseteq db.recorded
    BY <1>1 DEF IInv, Climbed
  <2>3. release[p] \in Nat /\ Height \in Nat /\ db.recorded = 1..Height
    BY ReleaseData, LogData, ScriptsData DEF IInv
  <2>4. release[p] <= Height
    <3>1. CASE release[p] = 0
      BY <2>3, <3>1
    <3>2. CASE release[p] # 0
      <4>1. release[p] \in 1..release[p]
        BY <2>3, <3>2
      <4>2. release[p] \in 1..Height
        BY <2>2, <2>3, <4>1
      <4> QED BY <2>3, <4>2
    <3> QED BY <3>1, <3>2
  <2>5. Log!Up(p, n)
    BY <1>2, <2>1, <2>4 DEF Log!Up, Ready, Height, Visible
  <2> QED BY <2>5 DEF Log!Next
<1> QED BY <1>3, <1>4

LEMMA CommitLog ==
  ASSUME IInv, IInv', NEW p \in Procs, Commit(p)
  PROVE  Log!Migrate
<1>1. /\ db' = image /\ UNCHANGED release
      /\ Goto(p, "commit", IF version[p] < release[p] THEN "begin" ELSE "analyze")
  BY DEF Commit, ToNext
<1>2. Ready' = Ready
  BY <1>1, HiddenLog
<1>3. /\ version[p] \notin db.recorded
      /\ db'.recorded = db.recorded \cup {version[p]}
  BY <1>1 DEF Goto, IInv, Held, Imaged
<1>4. Height' = Height + 1
  BY <1>3, LogData, FS_AddElement DEF Height
<1>5. Height < Len(Scripts)
  BY <1>4, LogData, NextLogData, ScriptsData
<1>6. Visible' = Log!Applied(Height + 1)
  BY <1>4, NextLogData
<1> QED BY <1>2, <1>4, <1>5, <1>6 DEF Log!Migrate, Height, Visible, Ready

LEMMA ChangeLog ==
  ASSUME IInv, IInv', NEW p \in Procs, Change(p) \/ Transact(p)
  PROVE  [Log!Next]_(Log!vars)
<1>1. CASE Raise(p)
  BY <1>1, RaiseLog DEF Log!Next
<1>2. CASE ~Raise(p)
  <2>1. /\ UNCHANGED <<pc, release>>
        /\ \/ UNCHANGED db
           \/ db' = Effect(db, <<version[p], next[p]>>)
           \/ lock = p /\ pc[p] = "script" /\ db' = image
    BY <1>2 DEF Change, Transact, InScript, Proceed
  <2>2. db'.recorded = db.recorded
    <3>1. CASE UNCHANGED db
      BY <3>1
    <3>2. CASE db' = Effect(db, <<version[p], next[p]>>)
      BY <3>2 DEF Effect, IInv, TypeOK, Database
    <3>3. CASE lock = p /\ pc[p] = "script" /\ db' = image
      BY <3>3 DEF IInv, Imaged
    <3> QED BY <2>1, <3>1, <3>2, <3>3
  <2>3. Ready' = Ready
    BY <2>1 DEF Ready
  <2> QED BY <2>2, <2>3, QuietLog
<1> QED BY <1>1, <1>2

\* A step inside a run that writes only to the open transaction.
LEMMA InnerLog ==
  ASSUME IInv, IInv', NEW p \in Procs, Begin(p) \/ EndScript(p) \/ Record(p)
  PROVE  [Log!Next]_(Log!vars)
<1>1. CASE Raise(p)
  BY <1>1, RaiseLog DEF Log!Next
<1>2. CASE ~Raise(p)
  <2>1. PICK from \in {"begin", "script", "record"}, to \in {"script", "record", "commit"} :
           Goto(p, from, to) /\ UNCHANGED <<release, db>>
    BY <1>2 DEF Begin, EndScript, Record
  <2>2. Ready' = Ready
    BY <2>1, HiddenLog
  <2> QED BY <2>1, <2>2, QuietLog
<1> QED BY <1>1, <1>2

LEMMA ReadLog ==
  ASSUME IInv, IInv', NEW p \in Procs, Read(p)
  PROVE  [Log!Next]_(Log!vars)
<1>1. UNCHANGED <<release, db>>
  BY DEF Read
<1>2. CASE Goto(p, "read", "up")
  BY <1>1, <1>2, UpLog
<1>3. CASE Goto(p, "read", "begin")
  <2>1. Ready' = Ready
    BY <1>1, <1>3, HiddenLog
  <2> QED BY <1>1, <2>1, QuietLog
<1> QED BY <1>2, <1>3 DEF Read, ToNext

LEMMA OpenLog ==
  ASSUME IInv, IInv', NEW p \in Procs, NEW n \in Releases, Open(p, n)
  PROVE  [Log!Next]_(Log!vars)
<1>1. Ready' = Ready
  BY DEF Open, Goto, Ready, IInv, TypeOK
<1> QED BY <1>1, QuietLog DEF Open

LEMMA StopLog ==
  ASSUME IInv, IInv', NEW p \in Procs, Stop(p)
  PROVE  Log!Down(p)
<1>1. Ready' = {u \in Ready : u[1] # p}
  BY DEF Stop, Goto, Ready, IInv, TypeOK
<1>2. Height' = Height /\ Visible' = Visible
  BY SameLog DEF Stop
<1> QED BY <1>1, <1>2 DEF Log!Down, Ready, Height, Visible

LEMMA StepLog == IInv /\ IInv' /\ [Next]_vars => [Log!Next]_(Log!vars)
<1> SUFFICES ASSUME IInv, IInv', [Next]_vars PROVE [Log!Next]_(Log!vars)
  OBVIOUS
<1>1. ASSUME NEW p \in Procs, Run(p) PROVE [Log!Next]_(Log!vars)
  <2>1. CASE Raise(p)
    BY <2>1, RaiseLog DEF Log!Next
  <2>2. CASE Commit(p)
    BY <2>2, CommitLog DEF Log!Next
  <2>3. CASE Analyze(p)
    BY <2>3, UpLog DEF Analyze
  <2> QED BY <1>1, <2>1, <2>2, <2>3, ReadLog, InnerLog, ChangeLog DEF Run, Busy
<1>2. ASSUME NEW p \in Procs, Fail(p) \/ Crash(p) PROVE [Log!Next]_(Log!vars)
  BY <1>2, RaiseLog DEF Fail, Crash, Log!Next
<1>3. ASSUME NEW p \in Procs, Stop(p) PROVE [Log!Next]_(Log!vars)
  BY <1>3, StopLog DEF Log!Next
<1>4. CASE UNCHANGED vars
  <2>1. Ready' = Ready /\ db'.recorded = db.recorded
    BY <1>4 DEF vars, process, Ready
  <2> QED BY <2>1, QuietLog
<1> QED BY <1>1, <1>2, <1>3, <1>4, OpenLog DEF Next

\* Every step of a run is one of MigrationLog or changes nothing of it: the
\* database moves one version at a time, all changes of it at once.
THEOREM Refinement == Spec => KeepsLog
BY InitLog, StepLog, Invariance, PTL DEF Spec, KeepsLog, Log!Spec
=============================================================================
