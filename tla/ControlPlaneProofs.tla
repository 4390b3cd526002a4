------------------------- MODULE ControlPlaneProofs -------------------------
(* Proofs about ControlPlane for any number of processes, releases,        *)
(* configurations and files.                                               *)
EXTENDS ControlPlane, TLAPS

Brought == {"laying", "sweeping", "prepared", "serving", "draining", "reporting"}
RunOnly == {"laying", "sweeping", "prepared", "serving", "draining"}

\* What a process s may count on, with the directory d, the version a, the old
\* files o and the files t: it has passed the guards, its release is reached once
\* it has migrated, its handler stands while it serves, what was old when it was
\* launched is still to be looked at or settled, and what it would answer to
\* /readyz has its reason.
Sane(s, d, a, o, t) ==
    /\ s.pc \notin {"down", "guards"} => MayRun(s.run, s.config)
    /\ s.pc \notin {"down", "guards", "mkdir"} => d
    /\ s.pc = "migrating" => s.done <= a
    /\ s.pc \in Brought => s.release <= a
    /\ s.pc \in RunOnly => s.run
    /\ s.pc \in {"serving", "draining"} => s.handler
    /\ s.held # Absent => s.pc \in {"serving", "draining"}
    /\ s.due \subseteq o
    /\ s.pc = "sweeping" => s.due \subseteq s.stale \cap (s.todo \cup {s.look})
    /\ s.pc \in {"prepared", "serving", "draining"} => s.due = {}
    /\ s.asks # "none" =>
          /\ s.pc \in {"serving", "draining"}
          /\ IF s.ready THEN ~s.late ELSE s.release < a \/ s.lost
    /\ s.asks \in {"none", "migrated"} => ~s.lost
    /\ s.asks = "probing" => s.held # Absent /\ (s.lost <=> s.held \notin t)
    /\ s.asks = "answering" => (s.ready => ~s.lost)

Well(s) == IF s.pc = "down" THEN s = Down ELSE s.config \in Configs

\* A file is in one hand at most.
NamesUnique == \A p, q \in Procs :
    st[p].held = st[q].held /\ st[p].held # Absent => p = q

\* Process p, going to s, has in hand what it had or what nobody has.
Holds(p, s) ==
    \/ s.held \in {Absent, st[p].held}
    \/ \A q \in Procs : st[q].held # s.held

IInv == /\ TypeOK
        /\ \A p \in Procs : Sane(st[p], dir, at, old, tmp)
        /\ served <= at
        /\ WalIsExplained
        /\ NamesUnique
-----------------------------------------------------------------------------
(* IInv is inductive. *)

LEMMA DownIsProcess == Down \in Process /\ Down.pc = "down"
BY DEF Down, Process, Labels

LEMMA DownIsSane ==
  ASSUME NEW d, NEW a, NEW o, NEW t
  PROVE  Sane(Down, d, a, o, t) /\ Down.held = Absent
BY DEF Sane, Down, Brought, RunOnly

LEMMA InitIInv == Init => IInv
<1> SUFFICES ASSUME Init PROVE IInv
  OBVIOUS
<1>1. TypeOK
  BY DownIsProcess DEF Init, TypeOK, At
<1>2. \A p \in Procs : Sane(st[p], dir, at, old, tmp)
  BY DownIsSane DEF Init
<1>3. NamesUnique
  BY DownIsSane DEF Init, NamesUnique
<1> QED BY <1>1, <1>2, <1>3 DEF Init, IInv, WalIsExplained

\* One process goes to the state s; what the others count on only grows.
LEMMA OneStep ==
  ASSUME IInv, NEW p \in Procs, NEW s \in Process, Set(p, s), Well(s),
         dir' \in BOOLEAN, dir => dir', at' \in Nat, at <= at',
         old \subseteq old', old' \subseteq tmp', tmp' \subseteq Files,
         \A q \in Procs \ {p} : st[q].held # Absent =>
             (st[q].held \in tmp' <=> st[q].held \in tmp),
         wal' \in BOOLEAN, dirty' \in BOOLEAN, served' \in Nat, served' <= at',
         Sane(s, dir', at', old', tmp'), Holds(p, s),
         wal' => dirty' \/ HasDb(s) \/ \E q \in Procs \ {p} : HasDb(st[q])
  PROVE  IInv'
<1>1. /\ st' \in [Procs -> Process] /\ st'[p] = s
      /\ \A q \in Procs \ {p} : st'[q] = st[q]
  BY DEF Set, IInv, TypeOK
<1>2. TypeOK'
  BY <1>1 DEF IInv, TypeOK, Well, At
<1>3. ASSUME NEW q \in Procs \ {p} PROVE Sane(st[q], dir', at', old', tmp')
  <2>1. /\ st[q] \in Process /\ Sane(st[q], dir, at, old, tmp) /\ at \in Nat
    BY DEF IInv, TypeOK
  <2>2. st[q].done \in Nat /\ st[q].release \in Nat
    BY <2>1 DEF Process
  <2>3. /\ st[q].pc = "migrating" => st[q].done <= at'
        /\ st[q].pc \in Brought => st[q].release <= at'
        /\ st[q].release < at => st[q].release < at'
    BY <2>1, <2>2 DEF Sane
  <2>4. st[q].held # Absent => (st[q].held \in tmp' <=> st[q].held \in tmp)
    OBVIOUS
  <2> QED BY <2>1, <2>3, <2>4 DEF Sane
<1>4. \A q \in Procs : Sane(st'[q], dir', at', old', tmp')
  BY <1>1, <1>3
<1>5. WalIsExplained'
  BY <1>1 DEF WalIsExplained
<1>6. NamesUnique'
  BY <1>1 DEF IInv, NamesUnique, Holds
<1> QED BY <1>2, <1>4, <1>5, <1>6 DEF IInv

\* The same when nothing else changes.
LEMMA LocalStep ==
  ASSUME IInv, NEW p \in Procs, NEW s \in Process, Set(p, s), Well(s),
         UNCHANGED shared, Sane(s, dir, at, old, tmp), Holds(p, s),
         HasDb(st[p]) => HasDb(s)
  PROVE  IInv'
<1>1. /\ dir \in BOOLEAN /\ wal \in BOOLEAN /\ dirty \in BOOLEAN
      /\ at \in Nat /\ served \in Nat /\ served <= at
      /\ old \subseteq tmp /\ tmp \subseteq Files
  BY DEF IInv, TypeOK
<1>2. UNCHANGED dir /\ UNCHANGED at /\ UNCHANGED wal /\ UNCHANGED tmp /\ UNCHANGED old
      /\ UNCHANGED dirty /\ UNCHANGED served
  BY DEF shared
<1>3. at <= at' /\ served' <= at'
  BY <1>1, <1>2
<1>4. wal' => dirty' \/ HasDb(s) \/ \E q \in Procs \ {p} : HasDb(st[q])
  BY <1>2 DEF IInv, WalIsExplained
<1> QED BY <1>1, <1>2, <1>3, <1>4, OneStep

\* What is known of a process before its step.
LEMMA Before ==
  ASSUME IInv, NEW p \in Procs
  PROVE  /\ st[p] \in Process /\ Sane(st[p], dir, at, old, tmp) /\ Well(st[p])
         /\ at \in Nat /\ old \subseteq tmp /\ tmp \subseteq Files
         /\ dir \in BOOLEAN /\ wal \in BOOLEAN /\ dirty \in BOOLEAN
         /\ served \in Nat /\ served <= at
BY DEF IInv, TypeOK, Well, At

LEMMA LaunchStep ==
  ASSUME IInv, NEW p \in Procs, NEW run \in BOOLEAN, NEW r \in Releases, NEW c \in Configs,
         Launch(p, run, r, c)
  PROVE  IInv'
<1>1. PICK s : s = [Down EXCEPT !.pc = "guards", !.run = run, !.release = r,
                                !.config = c, !.due = old]
  OBVIOUS
<1>2. s \in Process /\ Well(s) /\ Holds(p, s) /\ Sane(s, dir, at, old, tmp)
  BY <1>1, Before, ConstantsAssumption
     DEF Process, Down, Labels, Well, Holds, Sane, Brought, RunOnly
<1>3. ~HasDb(st[p])
  BY DEF Launch, At, HasDb
<1>4. Set(p, s) /\ UNCHANGED shared
  BY <1>1 DEF Launch
<1> QED BY <1>2, <1>3, <1>4, LocalStep

LEMMA GuardsStep ==
  ASSUME IInv, NEW p \in Procs, Guards(p)
  PROVE  IInv'
<1>1. UNCHANGED shared /\ ~HasDb(st[p]) /\ st[p].pc = "guards"
  BY DEF Guards, At, HasDb
<1>2. CASE MayRun(st[p].run, st[p].config)
  <2>1. PICK s : s = [st[p] EXCEPT !.pc = "mkdir"]
    OBVIOUS
  <2>2. s \in Process /\ Well(s) /\ Holds(p, s) /\ Sane(s, dir, at, old, tmp)
    BY <1>1, <1>2, <2>1, Before DEF Process, Labels, Well, Holds, Sane, Brought, RunOnly
  <2>3. Set(p, s)
    BY <1>2, <2>1 DEF Guards, Goto
  <2> QED BY <1>1, <2>2, <2>3, LocalStep
<1>3. CASE ~MayRun(st[p].run, st[p].config)
  <2>1. PICK s : s = Down
    OBVIOUS
  <2>2. s \in Process /\ Well(s) /\ Holds(p, s) /\ Sane(s, dir, at, old, tmp)
    BY <2>1, DownIsProcess, DownIsSane DEF Well, Holds
  <2>3. Set(p, s)
    BY <1>3, <2>1 DEF Guards
  <2> QED BY <1>1, <2>2, <2>3, LocalStep
<1> QED BY <1>2, <1>3

LEMMA MigratedStep ==
  ASSUME IInv, NEW p \in Procs, Migrated(p)
  PROVE  IInv'
<1>1. PICK s : s = [st[p] EXCEPT !.pc = IF st[p].run THEN "laying" ELSE "reporting"]
  OBVIOUS
<1>2. Set(p, s) /\ UNCHANGED shared
  BY <1>1 DEF Migrated, Goto
<1>3. s \in Process /\ Well(s) /\ Holds(p, s) /\ Sane(s, dir, at, old, tmp)
  BY <1>1, Before DEF Migrated, At, Process, Labels, Well, Holds, Sane, Brought, RunOnly
<1>4. HasDb(st[p]) => HasDb(s)
  BY <1>1, Before DEF Migrated, At, HasDb, Process
<1> QED BY <1>2, <1>3, <1>4, LocalStep

LEMMA LayOutStep ==
  ASSUME IInv, NEW p \in Procs, LayOut(p)
  PROVE  IInv'
<1>1. PICK s : s = [st[p] EXCEPT !.pc = "sweeping", !.todo = tmp, !.stale = old]
  OBVIOUS
<1>2. Set(p, s) /\ UNCHANGED shared
  BY <1>1 DEF LayOut, Goto
<1>3. s \in Process /\ Well(s) /\ Holds(p, s) /\ Sane(s, dir, at, old, tmp)
  <2>1. st[p].pc = "laying"
    BY DEF LayOut, At
  <2>2. /\ s.pc = "sweeping" /\ s.run = st[p].run /\ s.release = st[p].release
        /\ s.config = st[p].config /\ s.done = st[p].done /\ s.todo = tmp
        /\ s.stale = old /\ s.look = st[p].look /\ s.held = st[p].held
        /\ s.handler = st[p].handler /\ s.sig = st[p].sig
        /\ s.ready = st[p].ready /\ s.due = st[p].due
        /\ s.asks = st[p].asks /\ s.late = st[p].late /\ s.lost = st[p].lost
    BY <1>1, Before DEF Process
  <2>3. s \in Process
    <3>1. "sweeping" \in Labels
      BY DEF Labels
    <3> QED BY <3>1, <1>1, Before DEF Process
  <2>4. Well(s) /\ Holds(p, s)
    BY <2>1, <2>2, Before DEF Well, Holds
  <2>5. Sane(s, dir, at, old, tmp)
    BY <2>1, <2>2, Before DEF Sane, Brought, RunOnly
  <2> QED BY <2>3, <2>4, <2>5
<1>4. HasDb(st[p]) => HasDb(s)
  BY <1>1, Before DEF LayOut, At, HasDb, Process
<1> QED BY <1>2, <1>3, <1>4, LocalStep

LEMMA SweepLookStep ==
  ASSUME IInv, NEW p \in Procs, NEW f \in Files, SweepLook(p, f)
  PROVE  IInv'
<1>1. PICK l \in Files \cup {Absent} : l = IF f \in tmp THEN f ELSE Absent
  OBVIOUS
<1>2. PICK s : s = [st[p] EXCEPT !.todo = @ \ {f}, !.look = l]
  OBVIOUS
<1>3. Set(p, s) /\ UNCHANGED shared
  BY <1>1, <1>2 DEF SweepLook
<1>4. st[p].pc = "sweeping" /\ st[p].look = Absent
  BY DEF SweepLook, At
<1>5. /\ s.pc = st[p].pc /\ s.run = st[p].run /\ s.release = st[p].release
      /\ s.config = st[p].config /\ s.done = st[p].done
      /\ s.todo = st[p].todo \ {f} /\ s.stale = st[p].stale /\ s.look = l
      /\ s.held = st[p].held /\ s.handler = st[p].handler /\ s.due = st[p].due
      /\ s.ready = st[p].ready
      /\ s.asks = st[p].asks /\ s.late = st[p].late /\ s.lost = st[p].lost
  BY <1>2, Before DEF Process
<1>6. s \in Process
  BY <1>2, Before DEF Process
<1>7. Sane(s, dir, at, old, tmp)
  <2>1. st[p].due \subseteq Files /\ st[p].due \subseteq tmp
    BY Before DEF Sane
  <2>2. s.due \subseteq s.stale \cap (s.todo \cup {s.look})
    BY <2>1, <1>1, <1>4, <1>5, Before, ConstantsAssumption DEF Sane
  <2> QED BY <2>2, <1>4, <1>5, Before DEF Sane, Brought, RunOnly
<1>8. Well(s) /\ Holds(p, s) /\ HasDb(s)
  BY <1>4, <1>5, Before DEF Well, Holds, HasDb
<1> QED BY <1>3, <1>6, <1>7, <1>8, LocalStep

LEMMA PreparedStep ==
  ASSUME IInv, NEW p \in Procs, Prepared(p)
  PROVE  IInv'
<1>1. PICK s : s = [st[p] EXCEPT !.pc = "prepared"]
  OBVIOUS
<1>2. Set(p, s) /\ UNCHANGED shared
  BY <1>1 DEF Prepared, Goto
<1>3. s \in Process /\ Well(s) /\ Holds(p, s) /\ Sane(s, dir, at, old, tmp)
  <2>1. st[p].pc = "sweeping" /\ st[p].todo = {} /\ st[p].look = Absent
    BY DEF Prepared, At
  <2>2. /\ s.pc = "prepared" /\ s.run = st[p].run /\ s.release = st[p].release
        /\ s.config = st[p].config /\ s.done = st[p].done /\ s.todo = st[p].todo
        /\ s.stale = st[p].stale /\ s.look = st[p].look /\ s.held = st[p].held
        /\ s.handler = st[p].handler /\ s.sig = st[p].sig
        /\ s.ready = st[p].ready /\ s.due = st[p].due
        /\ s.asks = st[p].asks /\ s.late = st[p].late /\ s.lost = st[p].lost
    BY <1>1, Before DEF Process
  <2>3. s \in Process
    <3>1. "prepared" \in Labels
      BY DEF Labels
    <3> QED BY <3>1, <1>1, Before DEF Process
  <2>4. Well(s) /\ Holds(p, s)
    BY <2>1, <2>2, Before DEF Well, Holds
  <2>5. Sane(s, dir, at, old, tmp)
    <3>1. st[p].due \subseteq Files /\ st[p].due \subseteq {Absent}
      BY <2>1, Before DEF Sane
    <3>2. s.due = {}
      BY <3>1, <2>2, ConstantsAssumption
    <3> QED BY <2>1, <2>2, <3>2, Before DEF Sane, Brought, RunOnly
  <2> QED BY <2>3, <2>4, <2>5
<1>4. HasDb(st[p]) => HasDb(s)
  BY <1>1, Before DEF Prepared, At, HasDb, Process
<1> QED BY <1>2, <1>3, <1>4, LocalStep

LEMMA ReportStep ==
  ASSUME IInv, NEW p \in Procs, Report(p)
  PROVE  IInv'
<1>1. PICK s : s = [st[p] EXCEPT !.pc = "closing"]
  OBVIOUS
<1>2. Set(p, s) /\ UNCHANGED shared
  BY <1>1 DEF Report, Goto
<1>3. s \in Process /\ Well(s) /\ Holds(p, s) /\ Sane(s, dir, at, old, tmp)
  BY <1>1, Before DEF Report, At, Process, Labels, Well, Holds, Sane, Brought, RunOnly
<1>4. HasDb(st[p]) => HasDb(s)
  BY <1>1, Before DEF Report, At, HasDb, Process
<1> QED BY <1>2, <1>3, <1>4, LocalStep

LEMMA StopStep ==
  ASSUME IInv, NEW p \in Procs, NEW sig \in {"term", "int", "none"}, Stop(p, sig)
  PROVE  IInv'
<1>1. PICK s : s = [st[p] EXCEPT !.pc = "draining", !.sig = sig]
  OBVIOUS
<1>2. Set(p, s) /\ UNCHANGED shared
  BY <1>1 DEF Stop, Goto
<1>3. s \in Process /\ Well(s) /\ Holds(p, s) /\ Sane(s, dir, at, old, tmp)
  <2>1. st[p].pc = "serving"
    BY DEF Stop, At
  <2>2. /\ s.pc = "draining" /\ s.run = st[p].run /\ s.release = st[p].release
        /\ s.config = st[p].config /\ s.done = st[p].done /\ s.todo = st[p].todo
        /\ s.stale = st[p].stale /\ s.look = st[p].look /\ s.held = st[p].held
        /\ s.handler = st[p].handler /\ s.sig = sig /\ s.ready = st[p].ready
        /\ s.due = st[p].due
        /\ s.asks = st[p].asks /\ s.late = st[p].late /\ s.lost = st[p].lost
    BY <1>1, Before DEF Process
  <2>3. s \in Process
    <3>1. "draining" \in Labels
      BY DEF Labels
    <3> QED BY <3>1, <1>1, Before DEF Process
  <2>4. Well(s) /\ Holds(p, s)
    BY <2>1, <2>2, Before DEF Well, Holds
  <2>5. Sane(s, dir, at, old, tmp)
    BY <2>1, <2>2, Before DEF Sane, Brought, RunOnly
  <2> QED BY <2>3, <2>4, <2>5
<1>4. HasDb(st[p]) => HasDb(s)
  BY <1>1, Before DEF Stop, At, HasDb, Process
<1> QED BY <1>2, <1>3, <1>4, LocalStep

LEMMA DrainedStep ==
  ASSUME IInv, NEW p \in Procs, Drained(p)
  PROVE  IInv'
<1>1. PICK s : s = [st[p] EXCEPT !.pc = "closing", !.handler = FALSE]
  OBVIOUS
<1>2. st[p].handler
  BY Before DEF Drained, At, Sane
<1>3. Set(p, s) /\ UNCHANGED shared
  BY <1>1, <1>2 DEF Drained
<1>4. s \in Process /\ Well(s) /\ Holds(p, s) /\ Sane(s, dir, at, old, tmp)
  <2>1. st[p].pc = "draining" /\ st[p].held = Absent /\ st[p].asks = "none"
    BY DEF Drained, At
  <2>2. /\ s.pc = "closing" /\ s.run = st[p].run /\ s.release = st[p].release
        /\ s.config = st[p].config /\ s.done = st[p].done /\ s.todo = st[p].todo
        /\ s.stale = st[p].stale /\ s.look = st[p].look /\ s.held = st[p].held
        /\ s.handler = FALSE /\ s.sig = st[p].sig /\ s.ready = st[p].ready
        /\ s.due = st[p].due
        /\ s.asks = st[p].asks /\ s.late = st[p].late /\ s.lost = st[p].lost
    BY <1>1, Before DEF Process
  <2>3. s \in Process
    <3>1. "closing" \in Labels
      BY DEF Labels
    <3> QED BY <3>1, <1>1, Before DEF Process
  <2>4. Well(s) /\ Holds(p, s)
    BY <2>1, <2>2, Before DEF Well, Holds
  <2>5. Sane(s, dir, at, old, tmp)
    BY <2>1, <2>2, Before DEF Sane, Brought, RunOnly
  <2> QED BY <2>3, <2>4, <2>5
<1>5. HasDb(s)
  BY <1>1, Before DEF HasDb, Process
<1> QED BY <1>3, <1>4, <1>5, LocalStep

LEMMA StartFailsStep ==
  ASSUME IInv, NEW p \in Procs, StartFails(p)
  PROVE  IInv'
<1>1. CASE st[p].pc \in {"mkdir", "opening"}
  <2>1. PICK s : s = Down
    OBVIOUS
  <2>2. Set(p, s) /\ UNCHANGED shared /\ ~HasDb(st[p])
    BY <1>1, <2>1 DEF StartFails, HasDb
  <2>3. s \in Process /\ Well(s) /\ Holds(p, s) /\ Sane(s, dir, at, old, tmp)
    BY <2>1, DownIsProcess, DownIsSane DEF Well, Holds
  <2> QED BY <2>2, <2>3, LocalStep
<1>2. CASE st[p].pc \in {"migrating", "laying", "sweeping"}
  <2>1. PICK s : s = [st[p] EXCEPT !.pc = "closing"]
    OBVIOUS
  <2>2. Set(p, s) /\ UNCHANGED shared
    BY <1>2, <2>1 DEF StartFails, Goto
  <2>3. s \in Process /\ Well(s) /\ Holds(p, s) /\ Sane(s, dir, at, old, tmp) /\ HasDb(s)
    BY <1>2, <2>1, Before DEF Process, Labels, Well, Holds, Sane, Brought, RunOnly, HasDb
  <2> QED BY <2>2, <2>3, LocalStep
<1> QED BY <1>1, <1>2 DEF StartFails
-----------------------------------------------------------------------------
(* The steps that change what the processes share.                         *)

LEMMA MakeDirStep ==
  ASSUME IInv, NEW p \in Procs, MakeDir(p)
  PROVE  IInv'
<1>1. PICK s : s = [st[p] EXCEPT !.pc = "opening"]
  OBVIOUS
<1>2. Set(p, s)
  BY <1>1 DEF MakeDir, Goto
<1>3. /\ s \in Process /\ Well(s) /\ Holds(p, s)
      /\ Sane(s, TRUE, at, old, tmp) /\ ~HasDb(st[p])
  BY <1>1, Before DEF MakeDir, At, Process, Labels, Well, Holds, Sane, Brought, RunOnly, HasDb
<1>4. wal => dirty \/ \E q \in Procs \ {p} : HasDb(st[q])
  BY <1>3 DEF IInv, WalIsExplained
<1>5. /\ dir' = TRUE /\ at' = at /\ wal' = wal /\ tmp' = tmp /\ old' = old
      /\ dirty' = dirty /\ served' = served
  BY DEF MakeDir
<1>6. at <= at' /\ served' <= at'
  BY <1>5, Before
<1> QED BY <1>2, <1>3, <1>4, <1>5, <1>6, Before, OneStep

LEMMA OpenStep ==
  ASSUME IInv, NEW p \in Procs, Open(p)
  PROVE  IInv'
<1>1. PICK s : s = [st[p] EXCEPT !.pc = "migrating", !.done = at]
  OBVIOUS
<1>2. Set(p, s)
  BY <1>1 DEF Open
<1>3. s \in Process /\ Well(s) /\ Holds(p, s) /\ Sane(s, dir, at, old, tmp) /\ HasDb(s)
  <2>1. st[p].pc = "opening"
    BY DEF Open, At
  <2>2. /\ s.pc = "migrating" /\ s.run = st[p].run /\ s.release = st[p].release
        /\ s.config = st[p].config /\ s.done = at /\ s.todo = st[p].todo
        /\ s.stale = st[p].stale /\ s.look = st[p].look /\ s.held = st[p].held
        /\ s.handler = st[p].handler /\ s.sig = st[p].sig
        /\ s.ready = st[p].ready /\ s.due = st[p].due
        /\ s.asks = st[p].asks /\ s.late = st[p].late /\ s.lost = st[p].lost
    BY <1>1, Before DEF Process
  <2>3. s \in Process
    <3>1. "migrating" \in Labels
      BY DEF Labels
    <3> QED BY <3>1, <1>1, Before DEF Process
  <2>4. Well(s) /\ Holds(p, s)
    BY <2>1, <2>2, Before DEF Well, Holds
  <2>5. Sane(s, dir, at, old, tmp)
    BY <2>1, <2>2, Before DEF Sane, Brought, RunOnly
  <2>6. HasDb(s)
    BY <2>1, <2>2 DEF HasDb
  <2> QED BY <2>3, <2>4, <2>5, <2>6
<1>5. /\ wal' = TRUE /\ dir' = dir /\ at' = at /\ tmp' = tmp /\ old' = old
      /\ dirty' = dirty /\ served' = served
  BY DEF Open
<1>6. at <= at' /\ served' <= at'
  BY <1>5, Before
<1> QED BY <1>2, <1>3, <1>5, <1>6, Before, OneStep

LEMMA MigrateStep ==
  ASSUME IInv, NEW p \in Procs, Migrate(p)
  PROVE  IInv'
<1>1. CASE at = st[p].done
  <2>1. PICK s : s = [st[p] EXCEPT !.done = @ + 1]
    OBVIOUS
  <2>2. Set(p, s)
    BY <1>1, <2>1 DEF Migrate
  <2>3. /\ at' = at + 1 /\ dir' = dir /\ wal' = wal /\ tmp' = tmp /\ old' = old
        /\ dirty' = dirty /\ served' = served
    BY <1>1 DEF Migrate
  <2>4. s \in Process /\ Well(s) /\ Holds(p, s) /\ Sane(s, dir, at + 1, old, tmp) /\ HasDb(s)
    BY <1>1, <2>1, Before DEF Migrate, At, Process, Labels, Well, Holds, Sane, Brought, RunOnly, HasDb
  <2>5. at' \in Nat /\ at <= at' /\ served' <= at'
    BY <2>3, Before
  <2>6. Sane(s, dir', at', old', tmp')
    BY <2>3, <2>4
  <2> QED BY <2>2, <2>3, <2>4, <2>5, <2>6, Before, OneStep
<1>2. CASE at # st[p].done
  <2>1. PICK s : s = [st[p] EXCEPT !.pc = "closing"]
    OBVIOUS
  <2>2. Set(p, s) /\ UNCHANGED shared
    BY <1>2, <2>1 DEF Migrate, Goto, shared
  <2>3. s \in Process /\ Well(s) /\ Holds(p, s) /\ Sane(s, dir, at, old, tmp) /\ HasDb(s)
    BY <2>1, Before DEF Migrate, At, Process, Labels, Well, Holds, Sane, Brought, RunOnly, HasDb
  <2> QED BY <2>2, <2>3, LocalStep
<1> QED BY <1>1, <1>2

LEMMA ServeStep ==
  ASSUME IInv, NEW p \in Procs, Serve(p)
  PROVE  IInv'
<1>1. PICK s : s = [st[p] EXCEPT !.pc = "serving", !.handler = TRUE]
  OBVIOUS
<1>2. Set(p, s)
  BY <1>1 DEF Serve
<1>3. s \in Process /\ Well(s) /\ Holds(p, s) /\ Sane(s, dir, at, old, tmp) /\ HasDb(s)
  <2>1. st[p].pc = "prepared"
    BY DEF Serve, At
  <2>2. /\ s.pc = "serving" /\ s.run = st[p].run /\ s.release = st[p].release
        /\ s.config = st[p].config /\ s.done = st[p].done /\ s.todo = st[p].todo
        /\ s.stale = st[p].stale /\ s.look = st[p].look /\ s.held = st[p].held
        /\ s.handler = TRUE /\ s.sig = st[p].sig /\ s.ready = st[p].ready
        /\ s.due = st[p].due
        /\ s.asks = st[p].asks /\ s.late = st[p].late /\ s.lost = st[p].lost
    BY <1>1, Before DEF Process
  <2>3. s \in Process
    <3>1. "serving" \in Labels
      BY DEF Labels
    <3> QED BY <3>1, <1>1, Before DEF Process
  <2>4. Well(s) /\ Holds(p, s)
    BY <2>1, <2>2, Before DEF Well, Holds
  <2>5. Sane(s, dir, at, old, tmp)
    BY <2>1, <2>2, Before DEF Sane, Brought, RunOnly
  <2>6. HasDb(s)
    BY <2>1, <2>2 DEF HasDb
  <2> QED BY <2>3, <2>4, <2>5, <2>6
<1>4. st[p].release \in Nat /\ st[p].release <= at
  BY Before DEF Serve, At, Process, Sane, Brought
<1>5. /\ dir' = dir /\ at' = at /\ wal' = wal /\ tmp' = tmp /\ old' = old
      /\ dirty' = dirty
      /\ served' = IF st[p].release > served THEN st[p].release ELSE served
  BY DEF Serve
<1>6. at <= at' /\ served' \in Nat /\ served' <= at'
  BY <1>4, <1>5, Before
<1> QED BY <1>2, <1>3, <1>5, <1>6, Before, OneStep

LEMMA CloseStep ==
  ASSUME IInv, NEW p \in Procs, Close(p)
  PROVE  IInv'
<1>1. PICK s : s = Down
  OBVIOUS
<1>2. Set(p, s)
  BY <1>1 DEF Close
<1>3. s \in Process /\ Well(s) /\ Holds(p, s) /\ Sane(s, dir, at, old, tmp)
  BY <1>1, DownIsProcess, DownIsSane DEF Well, Holds
<1>5. /\ dir' = dir /\ at' = at /\ tmp' = tmp /\ old' = old /\ served' = served
      /\ wal' \in BOOLEAN /\ dirty' \in BOOLEAN
      /\ wal' => \E q \in Procs \ {p} : HasDb(st[q])
  BY DEF Close
<1>6. at <= at' /\ served' <= at'
  BY <1>5, Before
<1> QED BY <1>2, <1>3, <1>5, <1>6, Before, OneStep

LEMMA KillStep ==
  ASSUME IInv, NEW p \in Procs, Kill(p)
  PROVE  IInv'
<1>1. PICK s : s = Down
  OBVIOUS
<1>2. Set(p, s)
  BY <1>1 DEF Kill
<1>3. s \in Process /\ Well(s) /\ Holds(p, s) /\ Sane(s, dir, at, old, tmp)
  BY <1>1, DownIsProcess, DownIsSane DEF Well, Holds
<1>4. wal' => dirty' \/ \E q \in Procs \ {p} : HasDb(st[q])
  BY DEF Kill, IInv, WalIsExplained
<1>5. /\ dir' = dir /\ at' = at /\ wal' = wal /\ tmp' = tmp /\ old' = old
      /\ dirty' \in BOOLEAN /\ served' = served
  BY DEF Kill
<1>6. at <= at' /\ served' <= at'
  BY <1>5, Before
<1> QED BY <1>2, <1>3, <1>4, <1>5, <1>6, Before, OneStep

\* A process makes a file of its own.
LEMMA CreateStep ==
  ASSUME IInv, NEW p \in Procs, NEW f \in Files, NEW s \in Process, Create(p, f, s),
         s.held = f, Well(s), HasDb(s), Sane(s, dir, at, old, tmp \cup {f})
  PROVE  IInv'
<1>1. /\ Set(p, s)
      /\ \A q \in Procs : st[q].held # f
  BY DEF Create, Fresh
<1>2. Holds(p, s)
  BY <1>1 DEF Holds
<1>3. /\ dir' = dir /\ at' = at /\ wal' = wal /\ tmp' = tmp \cup {f} /\ old' = old
      /\ dirty' = dirty /\ served' = served
  BY DEF Create
<1>4. \A q \in Procs \ {p} : st[q].held \in tmp' <=> st[q].held \in tmp
  BY <1>1, <1>3
<1>5. /\ at <= at' /\ served' <= at'
      /\ old' \subseteq tmp' /\ tmp' \subseteq Files
  BY <1>3, Before
<1> QED BY <1>1, <1>2, <1>3, <1>4, <1>5, Before, OneStep

LEMMA UploadStep ==
  ASSUME IInv, NEW p \in Procs, NEW f \in Files, Upload(p, f)
  PROVE  IInv'
<1>1. PICK s : s = [st[p] EXCEPT !.held = f]
  OBVIOUS
<1>2. Create(p, f, s) /\ st[p].pc = "serving" /\ st[p].asks = "none"
  BY <1>1 DEF Upload, At
<1>3. /\ s \in Process /\ s.held = f
      /\ s.pc = st[p].pc /\ s.run = st[p].run /\ s.release = st[p].release
      /\ s.config = st[p].config /\ s.done = st[p].done /\ s.handler = st[p].handler
      /\ s.ready = st[p].ready /\ s.due = st[p].due
      /\ s.asks = st[p].asks /\ s.late = st[p].late /\ s.lost = st[p].lost
  BY <1>1, Before DEF Process
<1>4. Well(s) /\ HasDb(s)
  BY <1>2, <1>3, Before DEF Well, HasDb
<1>5. Sane(s, dir, at, old, tmp \cup {f})
  BY <1>2, <1>3, Before DEF Sane, Brought, RunOnly
<1> QED BY <1>2, <1>3, <1>4, <1>5, CreateStep

LEMMA ProbeStep ==
  ASSUME IInv, NEW p \in Procs, NEW f \in Files, Probe(p, f)
  PROVE  IInv'
<1>1. PICK s : s = [st[p] EXCEPT !.held = f, !.asks = "probing"]
  OBVIOUS
<1>2. Create(p, f, s) /\ st[p].asks = "migrated" /\ f # Absent
  BY <1>1, ConstantsAssumption DEF Probe
<1>3. /\ s.held = f /\ s.asks = "probing"
      /\ s.pc = st[p].pc /\ s.run = st[p].run /\ s.release = st[p].release
      /\ s.config = st[p].config /\ s.done = st[p].done /\ s.handler = st[p].handler
      /\ s.ready = st[p].ready /\ s.due = st[p].due
      /\ s.late = st[p].late /\ s.lost = st[p].lost
  BY <1>1, Before DEF Process
<1>4. s \in Process
  BY <1>1, Before DEF Process
<1>5. st[p].pc \in {"serving", "draining"} /\ ~st[p].lost
  BY <1>2, Before DEF Sane
<1>6. Well(s) /\ HasDb(s)
  BY <1>3, <1>5, Before DEF Well, HasDb
<1>7. Sane(s, dir, at, old, tmp \cup {f})
  BY <1>2, <1>3, <1>5, Before DEF Sane, Brought, RunOnly
<1> QED BY <1>2, <1>3, <1>4, <1>6, <1>7, CreateStep

\* What /readyz finds in the database.
LEMMA ReadyzStep ==
  ASSUME IInv, NEW p \in Procs, Readyz(p)
  PROVE  IInv'
<1>1. PICK s : s = [st[p] EXCEPT !.asks = "migrated", !.ready = MigratedExactly(p),
                                 !.late = st[p].release < served]
  OBVIOUS
<1>2. Set(p, s) /\ UNCHANGED shared
  BY <1>1 DEF Readyz
<1>3. st[p].pc = "serving" /\ st[p].asks = "none"
  BY DEF Readyz, At
<1>4. /\ s.asks = "migrated" /\ s.held = st[p].held
      /\ s.pc = st[p].pc /\ s.run = st[p].run /\ s.release = st[p].release
      /\ s.config = st[p].config /\ s.done = st[p].done /\ s.handler = st[p].handler
      /\ s.due = st[p].due /\ s.lost = st[p].lost
      /\ s.ready = MigratedExactly(p) /\ s.late = (st[p].release < served)
  BY <1>1, Before DEF Process
<1>5. s \in Process
  <2>1. PICK a \in BOOLEAN : a = MigratedExactly(p)
    BY DEF MigratedExactly
  <2>2. PICK b \in BOOLEAN : b = (st[p].release < served)
    <3>1. PICK m, n \in Nat : m = st[p].release /\ n = served
      BY Before DEF Process
    <3>2. \E b \in BOOLEAN : b <=> m < n
      OBVIOUS
    <3> QED BY <3>1, <3>2
  <2>3. s = [st[p] EXCEPT !.asks = "migrated", !.ready = a, !.late = b]
    BY <1>1, <2>1, <2>2
  <2> QED BY <2>3, Before DEF Process
<1>6. Well(s) /\ HasDb(s) /\ Holds(p, s)
  BY <1>3, <1>4, Before DEF Well, HasDb, Holds
<1>7. st[p].release \in Nat /\ st[p].release <= at
  BY <1>3, Before DEF Sane, Brought, Process
<1>8. IF s.ready THEN ~s.late ELSE s.release < at
  <2>1. CASE at = st[p].release
    <3>1. ~(st[p].release < served)
      BY <1>7, <2>1, Before
    <3>2. s.ready /\ ~s.late
      BY <1>4, <2>1, <3>1 DEF MigratedExactly
    <3> QED BY <3>2
  <2>2. CASE at # st[p].release
    <3>1. ~s.ready
      BY <1>4, <2>2 DEF MigratedExactly
    <3> QED BY <1>4, <1>7, <2>2, <3>1, Before
  <2> QED BY <2>1, <2>2
<1>9. Sane(s, dir, at, old, tmp)
  BY <1>3, <1>4, <1>8, Before DEF Sane, Brought, RunOnly
<1> QED BY <1>2, <1>5, <1>6, <1>9, LocalStep

LEMMA ProbeFailsStep ==
  ASSUME IInv, NEW p \in Procs, ProbeFails(p)
  PROVE  IInv'
<1>1. PICK s : s = [st[p] EXCEPT !.held = Absent, !.asks = "answering", !.ready = FALSE,
                                 !.lost = TRUE]
  OBVIOUS
<1>2. Set(p, s) /\ UNCHANGED shared /\ st[p].asks # "none"
  BY <1>1 DEF ProbeFails
<1>3. /\ s.asks = "answering" /\ s.held = Absent /\ s.ready = FALSE /\ s.lost = TRUE
      /\ s.pc = st[p].pc /\ s.run = st[p].run /\ s.release = st[p].release
      /\ s.config = st[p].config /\ s.done = st[p].done /\ s.handler = st[p].handler
      /\ s.due = st[p].due
  BY <1>1, Before DEF Process
<1>4. s \in Process
  BY <1>1, Before DEF Process
<1>5. st[p].pc \in {"serving", "draining"}
  BY <1>2, Before DEF Sane
<1>6. Well(s) /\ HasDb(s) /\ Holds(p, s)
  BY <1>3, <1>5, Before DEF Well, HasDb, Holds
<1>7. Sane(s, dir, at, old, tmp)
  BY <1>3, <1>5, Before DEF Sane, Brought, RunOnly
<1> QED BY <1>2, <1>4, <1>6, <1>7, LocalStep

LEMMA AnswerStep ==
  ASSUME IInv, NEW p \in Procs, Answer(p)
  PROVE  IInv'
<1>1. PICK s : s = [st[p] EXCEPT !.asks = "none", !.ready = FALSE, !.late = FALSE,
                                 !.lost = FALSE]
  OBVIOUS
<1>2. Set(p, s) /\ UNCHANGED shared /\ st[p].asks # "none"
  BY <1>1 DEF Answer
<1>3. /\ s.asks = "none" /\ s.held = st[p].held /\ s.lost = FALSE
      /\ s.pc = st[p].pc /\ s.run = st[p].run /\ s.release = st[p].release
      /\ s.config = st[p].config /\ s.done = st[p].done /\ s.handler = st[p].handler
      /\ s.due = st[p].due
  BY <1>1, Before DEF Process
<1>4. s \in Process
  BY <1>1, Before DEF Process
<1>5. st[p].pc \in {"serving", "draining"}
  BY <1>2, Before DEF Sane
<1>6. Well(s) /\ HasDb(s) /\ Holds(p, s)
  BY <1>3, <1>5, Before DEF Well, HasDb, Holds
<1>7. Sane(s, dir, at, old, tmp)
  BY <1>3, <1>5, Before DEF Sane, Brought, RunOnly
<1> QED BY <1>2, <1>4, <1>6, <1>7, LocalStep

-----------------------------------------------------------------------------
(* The steps after which a file is stale no more, and mostly gone.         *)

Less(t, f) == [t EXCEPT !.due = @ \ {f}, !.stale = @ \ {f}]
Robbed(t, f) == [t EXCEPT !.lost = @ \/ Probes(t, f)]

LEMMA LessFields ==
  ASSUME NEW t \in Process, NEW f
  PROVE  /\ Less(t, f) \in Process
         /\ Less(t, f).pc = t.pc /\ Less(t, f).run = t.run
         /\ Less(t, f).release = t.release /\ Less(t, f).config = t.config
         /\ Less(t, f).done = t.done /\ Less(t, f).todo = t.todo
         /\ Less(t, f).stale = t.stale \ {f} /\ Less(t, f).look = t.look
         /\ Less(t, f).held = t.held /\ Less(t, f).handler = t.handler
         /\ Less(t, f).sig = t.sig /\ Less(t, f).ready = t.ready
         /\ Less(t, f).due = t.due \ {f} /\ Less(t, f).asks = t.asks
         /\ Less(t, f).late = t.late /\ Less(t, f).lost = t.lost
BY DEF Less, Process

LEMMA RobbedFields ==
  ASSUME NEW t \in Process, NEW f
  PROVE  /\ Robbed(t, f) \in Process
         /\ Robbed(t, f).pc = t.pc /\ Robbed(t, f).run = t.run
         /\ Robbed(t, f).release = t.release /\ Robbed(t, f).config = t.config
         /\ Robbed(t, f).done = t.done /\ Robbed(t, f).todo = t.todo
         /\ Robbed(t, f).stale = t.stale /\ Robbed(t, f).look = t.look
         /\ Robbed(t, f).held = t.held /\ Robbed(t, f).handler = t.handler
         /\ Robbed(t, f).sig = t.sig /\ Robbed(t, f).ready = t.ready
         /\ Robbed(t, f).due = t.due /\ Robbed(t, f).asks = t.asks
         /\ Robbed(t, f).late = t.late /\ Robbed(t, f).lost = (t.lost \/ Probes(t, f))
<1>1. PICK b \in BOOLEAN : b = (t.lost \/ Probes(t, f))
  OBVIOUS
<1>2. Robbed(t, f) = [t EXCEPT !.lost = b]
  BY <1>1 DEF Robbed
<1> QED BY <1>1, <1>2 DEF Process

LEMMA LessDown ==
  ASSUME NEW f
  PROVE  Less(Down, f) = Down /\ Robbed(Down, f) = Down
<1>1. /\ Down.due \ {f} = Down.due /\ Down.stale \ {f} = Down.stale
      /\ (Down.lost \/ Probes(Down, f)) = Down.lost
  BY DEF Down, Probes
<1>2. /\ Less(Down, f) = [Down EXCEPT !.due = Down.due, !.stale = Down.stale]
      /\ Robbed(Down, f) = [Down EXCEPT !.lost = Down.lost]
  BY <1>1 DEF Less, Robbed
<1>3. \A t \in Process : /\ [t EXCEPT !.due = t.due, !.stale = t.stale] = t
                         /\ [t EXCEPT !.lost = t.lost] = t
  BY DEF Process
<1> QED BY <1>2, <1>3, DownIsProcess

LEMMA LessSane ==
  ASSUME NEW t \in Process, NEW f, NEW tt, Sane(t, dir, at, old, tmp),
         t.held # Absent => (t.held \in tt <=> t.held \in tmp)
  PROVE  Sane(Less(t, f), dir, at, old \ {f}, tt)
<1>1. t.due \ {f} \subseteq old \ {f}
  BY DEF Sane
<1>2. t.pc = "sweeping" => t.due \ {f} \subseteq (t.stale \ {f}) \cap (t.todo \cup {t.look})
  BY DEF Sane
<1>3. t.pc \in {"prepared", "serving", "draining"} => t.due \ {f} = {}
  BY DEF Sane
<1> QED BY <1>1, <1>2, <1>3, LessFields DEF Sane

\* A sweep that takes a probe leaves its process robbed.
LEMMA RobbedSane ==
  ASSUME NEW t \in Process, NEW f, Sane(t, dir, at, old, tmp)
  PROVE  Sane(Less(Robbed(t, f), f), dir, at, old \ {f}, tmp \ {f})
<1>1. PICK r \in Process : r = Robbed(t, f)
  BY RobbedFields
<1>2. /\ r.pc = t.pc /\ r.run = t.run /\ r.release = t.release /\ r.config = t.config
      /\ r.done = t.done /\ r.todo = t.todo /\ r.stale = t.stale /\ r.look = t.look
      /\ r.held = t.held /\ r.handler = t.handler /\ r.ready = t.ready /\ r.due = t.due
      /\ r.asks = t.asks /\ r.late = t.late /\ r.lost = (t.lost \/ Probes(t, f))
  BY <1>1, RobbedFields
<1>3. t.due \ {f} \subseteq old \ {f}
  BY DEF Sane
<1>4. t.pc = "sweeping" => t.due \ {f} \subseteq (t.stale \ {f}) \cap (t.todo \cup {t.look})
  BY DEF Sane
<1>5. t.pc \in {"prepared", "serving", "draining"} => t.due \ {f} = {}
  BY DEF Sane
<1>6. /\ t.asks # "probing" => r.lost = t.lost
      /\ t.asks = "probing" => (r.lost <=> r.held \notin tmp \ {f})
  BY <1>2 DEF Probes, Sane, Process
<1>7. Sane(Less(r, f), dir, at, old \ {f}, tmp \ {f})
  BY <1>2, <1>3, <1>4, <1>5, <1>6, LessFields DEF Sane
<1> QED BY <1>1, <1>7

\* One process goes to the state s, and nobody takes f for stale any more.
LEMMA ForgetStep ==
  ASSUME IInv, NEW p \in Procs, NEW s \in Process, NEW f,
         st' \in [Procs -> Process], st'[p] = s,
         \A q \in Procs \ {p} : st'[q] \in {Less(st[q], f), Less(Robbed(st[q], f), f)},
         \A q \in Procs \ {p} : Sane(st'[q], dir, at, old \ {f}, tmp'),
         old' = old \ {f}, tmp' \in {tmp, tmp \ {f}},
         UNCHANGED <<dir, at, wal, dirty, served>>,
         Well(s), s.pc # "down", HasDb(s), s.held \in {Absent, st[p].held},
         Sane(s, dir, at, old \ {f}, tmp')
  PROVE  IInv'
<1>1. ASSUME NEW q \in Procs \ {p}
      PROVE  /\ st'[q].held = st[q].held
             /\ IF st'[q].pc = "down" THEN st'[q] = Down ELSE st'[q].config \in Configs
  <2>1. st[q] \in Process /\ Well(st[q])
    BY Before
  <2>2. CASE st[q] = Down
    <3>1. st'[q] = Down
      BY <2>2, LessDown
    <3> QED BY <2>2, <3>1, DownIsProcess
  <2>3. CASE st[q] # Down
    <3>1. st[q].pc # "down" /\ st[q].config \in Configs
      BY <2>1, <2>3 DEF Well
    <3>2. PICK r \in Process : /\ st'[q] = Less(r, f) /\ r.pc = st[q].pc
                               /\ r.held = st[q].held /\ r.config = st[q].config
      BY <2>1, RobbedFields
    <3> QED BY <3>1, <3>2, LessFields
  <2> QED BY <2>2, <2>3
<1>2. TypeOK'
  <2>1. \A q \in Procs : IF st'[q].pc = "down" THEN st'[q] = Down ELSE st'[q].config \in Configs
    BY <1>1 DEF Well
  <2>2. old' \subseteq tmp' /\ tmp' \subseteq Files
    BY Before
  <2> QED BY <2>1, <2>2 DEF IInv, TypeOK, At
<1>3. \A q \in Procs : Sane(st'[q], dir', at', old', tmp')
  OBVIOUS
<1>4. WalIsExplained'
  BY DEF WalIsExplained
<1>5. NamesUnique'
  BY <1>1 DEF IInv, NamesUnique
<1> QED BY <1>2, <1>3, <1>4, <1>5 DEF IInv

LEMMA SweepTakeStep ==
  ASSUME IInv, NEW p \in Procs, SweepTake(p)
  PROVE  IInv'
<1>1. PICK f : f = st[p].look
  OBVIOUS
<1>2. st[p].pc = "sweeping" /\ f # Absent
  BY <1>1 DEF SweepTake, At
<1>3. PICK s : s = [st[p] EXCEPT !.look = Absent]
  OBVIOUS
<1>4. /\ s.pc = st[p].pc /\ s.run = st[p].run /\ s.release = st[p].release
      /\ s.config = st[p].config /\ s.done = st[p].done
      /\ s.todo = st[p].todo /\ s.stale = st[p].stale /\ s.look = Absent
      /\ s.held = st[p].held /\ s.handler = st[p].handler /\ s.due = st[p].due
      /\ s.ready = st[p].ready
      /\ s.asks = st[p].asks /\ s.late = st[p].late /\ s.lost = st[p].lost
  BY <1>3, Before DEF Process
<1>5. s \in Process /\ Well(s) /\ Holds(p, s) /\ HasDb(s)
  <2>1. s \in Process
    BY <1>3, Before DEF Process
  <2> QED BY <2>1, <1>2, <1>4, Before DEF Well, Holds, HasDb
<1>6. PICK w \in [Procs -> Process] : w = [st EXCEPT ![p].look = Absent]
  BY <1>3, <1>5 DEF IInv, TypeOK
<1>7. w[p] = s /\ \A q \in Procs \ {p} : w[q] = st[q]
  BY <1>3, <1>6 DEF IInv, TypeOK
<1>8. CASE f \notin tmp
  <2>1. PICK u : u = [st[p] EXCEPT !.pc = "closing"]
    OBVIOUS
  <2>2. Set(p, u) /\ UNCHANGED shared
    BY <1>1, <1>8, <2>1 DEF SweepTake, Goto, shared
  <2>3. u \in Process /\ Well(u) /\ Holds(p, u) /\ Sane(u, dir, at, old, tmp) /\ HasDb(u)
    BY <1>2, <2>1, Before DEF Process, Labels, Well, Holds, Sane, Brought, RunOnly, HasDb
  <2> QED BY <2>2, <2>3, LocalStep
<1>9. CASE f \in tmp /\ f \in st[p].stale
  <2>1. /\ st' = Forgetting(f, Robbing(f, w)) /\ old' = old \ {f} /\ tmp' = tmp \ {f}
        /\ UNCHANGED <<dir, at, wal, dirty, served>>
    BY <1>1, <1>6, <1>9 DEF SweepTake, Remove
  <2>2. st' = [q \in Procs |-> Less(Robbed(w[q], f), f)]
    BY <2>1 DEF Forgetting, Robbing, Less, Robbed
  <2>3. \A q \in Procs : Less(Robbed(w[q], f), f) \in Process
    BY LessFields, RobbedFields
  <2>4. st' \in [Procs -> Process]
    BY <2>2, <2>3
  <2>5. PICK v \in Process : v = Less(Robbed(s, f), f)
    BY <1>5, LessFields, RobbedFields
  <2>6. PICK r \in Process : r = Robbed(s, f)
    BY <1>5, RobbedFields
  <2>7. /\ r.pc = s.pc /\ r.run = s.run /\ r.release = s.release /\ r.config = s.config
        /\ r.done = s.done /\ r.todo = s.todo /\ r.stale = s.stale /\ r.look = s.look
        /\ r.held = s.held /\ r.handler = s.handler /\ r.due = s.due
        /\ r.asks = s.asks /\ r.lost = (s.lost \/ Probes(s, f))
    BY <1>5, <2>6, RobbedFields
  <2>8. /\ v.pc = s.pc /\ v.run = s.run /\ v.release = s.release /\ v.config = s.config
        /\ v.done = s.done /\ v.todo = s.todo /\ v.stale = s.stale \ {f} /\ v.look = Absent
        /\ v.held = s.held /\ v.handler = s.handler /\ v.due = s.due \ {f}
        /\ v.asks = s.asks /\ v.lost = (s.lost \/ Probes(s, f))
    BY <1>4, <2>5, <2>6, <2>7, LessFields
  <2>9. s.asks = "none" /\ ~s.lost /\ s.held = Absent
    BY <1>2, <1>4, Before DEF Sane
  <2>10. ~v.lost
    BY <2>8, <2>9 DEF Probes
  <2>11. v.due \subseteq v.stale \cap (v.todo \cup {Absent}) /\ v.due \subseteq old \ {f}
    <3>1. /\ st[p].due \subseteq st[p].stale \cap (st[p].todo \cup {f})
          /\ st[p].due \subseteq old
      BY <1>1, <1>2, Before DEF Sane
    <3> QED BY <1>4, <2>8, <3>1
  <2>12. Sane(v, dir, at, old \ {f}, tmp')
    BY <1>2, <1>4, <2>8, <2>9, <2>10, <2>11, Before DEF Sane, Brought, RunOnly
  <2>13. Well(v) /\ v.pc # "down" /\ HasDb(v) /\ v.held \in {Absent, st[p].held}
    BY <1>2, <1>4, <1>5, <2>8 DEF Well, HasDb
  <2>14. \A q \in Procs \ {p} : /\ st'[q] = Less(Robbed(st[q], f), f)
                                /\ Sane(st'[q], dir, at, old \ {f}, tmp')
    BY <1>7, <2>1, <2>2, Before, RobbedSane
  <2>15. st'[p] = v
    BY <1>7, <2>2, <2>5
  <2> QED BY <2>1, <2>4, <2>12, <2>13, <2>14, <2>15, ForgetStep
<1>10. CASE f \in tmp /\ f \notin st[p].stale
  <2>1. Set(p, s) /\ UNCHANGED shared
    <3>1. [st EXCEPT ![p].look = Absent] = [st EXCEPT ![p] = s]
      BY <1>3 DEF IInv, TypeOK
    <3> QED BY <1>1, <1>10, <3>1 DEF SweepTake, Set, shared
  <2>2. st[p].due \subseteq st[p].stale \cap (st[p].todo \cup {Absent})
    BY <1>1, <1>2, <1>10, Before DEF Sane
  <2>3. Sane(s, dir, at, old, tmp)
    BY <1>2, <1>4, <2>2, Before DEF Sane, Brought, RunOnly
  <2> QED BY <1>5, <2>1, <2>3, LocalStep
<1> QED BY <1>8, <1>9, <1>10

\* A process goes to the state s and settles the file it has in hand, which no
\* other has.
LEMMA SettleStep ==
  ASSUME IInv, NEW p \in Procs, NEW s \in Process, NEW f,
         st' = Forgetting(f, [st EXCEPT ![p] = s]),
         f = st[p].held, f # Absent, old' = old \ {f}, tmp' \in {tmp, tmp \ {f}},
         UNCHANGED <<dir, at, wal, dirty, served>>,
         s.pc = st[p].pc, s.config = st[p].config, s.held \in {Absent, st[p].held},
         Sane(s, dir, at, old, tmp),
         s.held # Absent => tmp' = tmp
  PROVE  IInv'
<1>1. PICK u \in [Procs -> Process] : u = [st EXCEPT ![p] = s]
  BY DEF IInv, TypeOK
<1>2. u[p] = s /\ \A q \in Procs \ {p} : u[q] = st[q]
  BY <1>1 DEF IInv, TypeOK
<1>3. st' = [q \in Procs |-> Less(u[q], f)]
  BY <1>1 DEF Forgetting, Less
<1>4. \A q \in Procs : Less(u[q], f) \in Process
  BY LessFields
<1>5. st' \in [Procs -> Process] /\ st'[p] = Less(s, f)
  BY <1>2, <1>3, <1>4
<1>6. ASSUME NEW q \in Procs \ {p}
      PROVE  st'[q] = Less(st[q], f) /\ Sane(st'[q], dir, at, old \ {f}, tmp')
  <2>1. st'[q] = Less(st[q], f)
    BY <1>2, <1>3
  <2>2. st[q].held # Absent => st[q].held # f
    BY DEF IInv, NamesUnique
  <2>3. st[q].held # Absent => (st[q].held \in tmp' <=> st[q].held \in tmp)
    BY <2>2
  <2> QED BY <2>1, <2>3, Before, LessSane
<1>7. Sane(Less(s, f), dir, at, old \ {f}, tmp')
  BY LessSane
<1>8. st[p].pc \in {"serving", "draining"}
  BY Before DEF Sane
<1>9. PICK v \in Process : v = Less(s, f) /\ v.pc = s.pc /\ v.config = s.config
                           /\ v.held = s.held
  BY LessFields
<1>10. Well(v) /\ v.pc # "down" /\ HasDb(v)
  BY <1>8, <1>9, Before DEF Well, HasDb
<1>11. \A q \in Procs \ {p} : st'[q] \in {Less(st[q], f), Less(Robbed(st[q], f), f)}
  BY <1>6
<1> QED BY <1>5, <1>6, <1>7, <1>9, <1>10, <1>11, ForgetStep

LEMMA WriteStep ==
  ASSUME IInv, NEW p \in Procs, Write(p)
  PROVE  IInv'
<1>1. PICK f : f = st[p].held
  OBVIOUS
<1>2. PICK s : s = st[p]
  OBVIOUS
<1>3. /\ f # Absent /\ old' = old \ {f} /\ tmp' = tmp
      /\ UNCHANGED <<dir, at, wal, dirty, served>> /\ st' = Forgetting(f, st)
  BY <1>1, Before, ConstantsAssumption DEF Write
<1>4. [st EXCEPT ![p] = s] = st
  BY <1>2 DEF IInv, TypeOK
<1> QED BY <1>1, <1>2, <1>3, <1>4, Before, SettleStep

LEMMA ReleaseStep ==
  ASSUME IInv, NEW p \in Procs, Release(p)
  PROVE  IInv'
<1>1. PICK f : f = st[p].held
  OBVIOUS
<1>2. f # Absent /\ st[p].asks = "none" /\ st[p].pc \in {"serving", "draining"}
  BY <1>1, Before DEF Release, Sane
<1>3. PICK s : s = [st[p] EXCEPT !.held = Absent]
  OBVIOUS
<1>4. /\ s.pc = st[p].pc /\ s.run = st[p].run /\ s.release = st[p].release
      /\ s.config = st[p].config /\ s.done = st[p].done
      /\ s.held = Absent /\ s.handler = st[p].handler /\ s.due = st[p].due
      /\ s.ready = st[p].ready
      /\ s.asks = st[p].asks /\ s.late = st[p].late /\ s.lost = st[p].lost
  BY <1>3, Before DEF Process
<1>5. s \in Process
  BY <1>3, Before DEF Process
<1>6. [st EXCEPT ![p].held = Absent] = [st EXCEPT ![p] = s]
  BY <1>3 DEF IInv, TypeOK
<1>7. /\ st' = Forgetting(f, [st EXCEPT ![p] = s])
      /\ old' = old \ {f} /\ tmp' = tmp \ {f}
      /\ UNCHANGED <<dir, at, wal, dirty, served>>
  BY <1>1, <1>6 DEF Release, Remove
<1>8. Sane(s, dir, at, old, tmp)
  BY <1>2, <1>4, Before DEF Sane, Brought, RunOnly
<1> QED BY <1>1, <1>2, <1>4, <1>5, <1>7, <1>8, SettleStep

LEMMA Unprobed ==
  ASSUME NEW t \in Process, NEW b \in BOOLEAN
  PROVE  [t EXCEPT !.held = Absent, !.asks = "answering", !.ready = b] \in Process
BY DEF Process

LEMMA UnprobeStep ==
  ASSUME IInv, NEW p \in Procs, Unprobe(p)
  PROVE  IInv'
<1>1. PICK f : f = st[p].held
  OBVIOUS
<1>2. st[p].asks = "probing"
  BY DEF Unprobe
<1>3. /\ f # Absent /\ st[p].pc \in {"serving", "draining"}
      /\ st[p].lost <=> f \notin tmp
      /\ IF st[p].ready THEN ~st[p].late ELSE st[p].release < at \/ st[p].lost
  BY <1>1, <1>2, Before DEF Sane
<1>4. PICK b \in BOOLEAN : b = (st[p].ready /\ f \in tmp)
  OBVIOUS
<1>5. PICK s : s = [st[p] EXCEPT !.held = Absent, !.asks = "answering", !.ready = b]
  OBVIOUS
<1>6. /\ s.pc = st[p].pc /\ s.run = st[p].run /\ s.release = st[p].release
      /\ s.config = st[p].config /\ s.done = st[p].done
      /\ s.held = Absent /\ s.handler = st[p].handler /\ s.due = st[p].due
      /\ s.ready = b /\ s.asks = "answering" /\ s.late = st[p].late /\ s.lost = st[p].lost
  BY <1>5, Before DEF Process
<1>7. s \in Process
  BY <1>5, Before, Unprobed
<1>8. [st EXCEPT ![p].held = Absent, ![p].asks = "answering",
                 ![p].ready = @ /\ f \in tmp] = [st EXCEPT ![p] = s]
  BY <1>4, <1>5 DEF IInv, TypeOK
<1>9. /\ st' = Forgetting(f, [st EXCEPT ![p] = s])
      /\ old' = old \ {f} /\ tmp' = tmp \ {f}
      /\ UNCHANGED <<dir, at, wal, dirty, served>>
  BY <1>1, <1>8 DEF Unprobe, Remove
<1>10. /\ IF b THEN ~st[p].late ELSE st[p].release < at \/ st[p].lost
       /\ b => ~st[p].lost
  BY <1>3, <1>4
<1>11. Sane(s, dir, at, old, tmp)
  BY <1>3, <1>6, <1>10, Before DEF Sane, Brought, RunOnly
<1> QED BY <1>1, <1>3, <1>6, <1>7, <1>9, <1>11, SettleStep

LEMMA AgeStep ==
  ASSUME IInv, NEW f \in Files, Age(f)
  PROVE  IInv'
<1>1. /\ UNCHANGED st /\ UNCHANGED dir /\ UNCHANGED at /\ UNCHANGED wal /\ UNCHANGED tmp
      /\ UNCHANGED dirty /\ UNCHANGED served /\ old' = old \cup {f} /\ f \in tmp
  BY DEF Age
<1>2. \A p \in Procs : Sane(st[p], dir', at', old', tmp')
  BY <1>1, Before DEF Sane
<1>3. TypeOK'
  BY <1>1 DEF IInv, TypeOK, At
<1> QED BY <1>1, <1>2, <1>3 DEF IInv, WalIsExplained, NamesUnique

LEMMA StepIInv ==
  ASSUME IInv, [Next]_vars
  PROVE  IInv'
<1>1. CASE UNCHANGED vars
  BY <1>1 DEF vars, IInv, TypeOK, At, WalIsExplained, NamesUnique
<1>2. ASSUME NEW p \in Procs, NEW run \in BOOLEAN, NEW r \in Releases, NEW c \in Configs,
             Launch(p, run, r, c)
      PROVE  IInv'
  BY <1>2, LaunchStep
<1>3. ASSUME NEW p \in Procs, NEW sig \in {"term", "int", "none"}, Stop(p, sig)
      PROVE  IInv'
  BY <1>3, StopStep
<1>4. ASSUME NEW p \in Procs, NEW f \in Files,
             SweepLook(p, f) \/ Upload(p, f) \/ Probe(p, f)
      PROVE  IInv'
  BY <1>4, SweepLookStep, UploadStep, ProbeStep
<1>5. ASSUME NEW f \in Files, Age(f)
      PROVE  IInv'
  BY <1>5, AgeStep
<1>6. ASSUME NEW p \in Procs,
             \/ Guards(p) \/ MakeDir(p) \/ Open(p) \/ Migrate(p) \/ Migrated(p)
             \/ LayOut(p) \/ SweepTake(p) \/ Prepared(p) \/ StartFails(p) \/ Report(p)
             \/ Serve(p) \/ Drained(p) \/ Close(p) \/ Kill(p)
             \/ Write(p) \/ Release(p)
             \/ Readyz(p) \/ ProbeFails(p) \/ Unprobe(p) \/ Answer(p)
      PROVE  IInv'
  BY <1>6, GuardsStep, MakeDirStep, OpenStep, MigrateStep, MigratedStep, LayOutStep,
     SweepTakeStep, PreparedStep, StartFailsStep, ReportStep, ServeStep, DrainedStep,
     CloseStep, KillStep, WriteStep, ReleaseStep, ReadyzStep, ProbeFailsStep,
     UnprobeStep, AnswerStep
<1> QED BY <1>1, <1>2, <1>3, <1>4, <1>5, <1>6 DEF Next

\* Through every start, service, signal and crash, what each process counts on
\* holds (run_control, run_migrate).
THEOREM Inductive == Spec => []IInv
<1>1. IInv /\ [Next]_vars => IInv'
  BY StepIInv
<1> QED BY <1>1, InitIInv, PTL DEF Spec

-----------------------------------------------------------------------------
(* What follows from it.                                                   *)

\* A process that is down has kept nothing (run_control's and run_migrate's
\* locals), and what is old in tmp/ is there.
THEOREM TypeCorrect == Spec => []TypeOK
<1>1. IInv => TypeOK
  BY DEF IInv
<1> QED BY <1>1, Inductive, PTL

\* However a control plane is stopped and wherever its start fails, the WAL is
\* gone with the last connection (Database.close in the `finally' of
\* run_control and prepare), but for a process that was killed.
THEOREM WalAlwaysExplained == Spec => []WalIsExplained
<1>1. IInv => WalIsExplained
  BY DEF IInv
<1> QED BY <1>1, Inductive, PTL

\* Whoever serves answers exactly those its configuration entitles (_check,
\* assert_bind_allowed).
THEOREM AnswersAlwaysEntitled == Spec => []AnswersAreEntitled
<1>1. IInv => AnswersAreEntitled
  <2> SUFFICES ASSUME IInv, NEW p \in Procs, At(p, "serving"),
                      NEW route \in Routes, NEW token \in Presented
               PROVE  Admits(st[p].config, route, token) <=> Entitled(st[p].config, route, token)
    BY DEF AnswersAreEntitled
  <2>1. PICK c \in Configs : c = st[p].config
    BY DEF At, IInv, TypeOK
  <2>2. BindAllowed(c)
    BY <2>1, Before DEF At, Sane, RunOnly, MayRun
  <2>3. CASE route = "infra"
    BY <2>3 DEF Admits, Entitled
  <2>4. CASE route = "client"
    <3>1. Admits(c, route, token) <=> Check(c, c.client, token)
      BY <2>4 DEF Admits
    <3>2. Entitled(c, route, token) <=>
             \/ c.client = Absent /\ c.worker = Absent
             \/ token = c.client /\ token # Absent
      BY <2>2, <2>4 DEF Entitled, Audience, BindAllowed, AuthEnabled
    <3> QED BY <2>1, <3>1, <3>2 DEF Check, AuthEnabled
  <2>5. CASE route = "blobs"
    <3>1. Admits(c, route, token) <=> Check(c, c.client, token) \/ Check(c, c.worker, token)
      BY <2>5 DEF Admits
    <3>2. Entitled(c, route, token) <=>
             \/ c.client = Absent /\ c.worker = Absent
             \/ (token = c.client \/ token = c.worker) /\ token # Absent
      BY <2>2, <2>5 DEF Entitled, Audience, BindAllowed, AuthEnabled
    <3> QED BY <2>1, <3>1, <3>2 DEF Check, AuthEnabled
  <2> QED BY <2>3, <2>4, <2>5 DEF Routes
<1> QED BY <1>1, Inductive, PTL

\* What /readyz answers has its reason, whatever other processes do between its
\* SELECT, its probe and its answer: ok is said only by a release that none newer
\* had overtaken when the request came and whose probe was there to the end, and
\* a 503 means newer versions or a lost probe (readyz, _migrated, _writable).
THEOREM ReadyzAlwaysExplained == Spec => []ReadyzIsExplained
<1>1. IInv => ReadyzIsExplained
  <2> SUFFICES ASSUME IInv, NEW p \in Procs, st[p].asks = "answering"
               PROVE  IF st[p].ready THEN ~st[p].late /\ ~st[p].lost
                      ELSE at > st[p].release \/ st[p].lost
    BY DEF ReadyzIsExplained
  <2>1. /\ IF st[p].ready THEN ~st[p].late ELSE st[p].release < at \/ st[p].lost
        /\ st[p].ready => ~st[p].lost
        /\ st[p].release \in Nat /\ at \in Nat
    BY Before DEF Sane, Process
  <2> QED BY <2>1
<1> QED BY <1>1, Inductive, PTL

-----------------------------------------------------------------------------
(* ControlPlane implements BringUp.                                        *)

ReleaseOf(s) == IF Running(s) THEN s.release ELSE 0
MayOf(s) == Running(s) /\ Sound(s)
DueOf(s) == IF Running(s) THEN s.due ELSE {}

\* What BringUp sees of the processes, before and after a step of one of them.
LEMMA ViewStep ==
  ASSUME IInv, NEW p \in Procs, NEW s, Set(p, s)
  PROVE  /\ [q \in Procs |-> Phase(st'[q])]
              = [[q \in Procs |-> Phase(st[q])] EXCEPT ![p] = Phase(s)]
         /\ [q \in Procs |-> ReleaseOf(st'[q])]
              = [[q \in Procs |-> ReleaseOf(st[q])] EXCEPT ![p] = ReleaseOf(s)]
         /\ [q \in Procs |-> MayOf(st'[q])]
              = [[q \in Procs |-> MayOf(st[q])] EXCEPT ![p] = MayOf(s)]
         /\ [q \in Procs |-> DueOf(st'[q])]
              = [[q \in Procs |-> DueOf(st[q])] EXCEPT ![p] = DueOf(s)]
<1>1. \A q \in Procs : st'[q] = IF q = p THEN s ELSE st[q]
  BY DEF Set, IInv, TypeOK
<1> QED BY <1>1

LEMMA ViewIs ==
  /\ Abstract!vars = <<dir, at, old, [q \in Procs |-> Phase(st[q])],
                       [q \in Procs |-> ReleaseOf(st[q])], [q \in Procs |-> MayOf(st[q])],
                       [q \in Procs |-> DueOf(st[q])]>>
BY DEF Abstract!vars, ReleaseOf, MayOf, DueOf

\* A step that BringUp does not see.
LEMMA StutterView ==
  ASSUME IInv, NEW p \in Procs, NEW s, Set(p, s), UNCHANGED <<dir, at, old>>,
         Phase(s) = Phase(st[p]),
         Running(s) => /\ s.release = st[p].release /\ s.run = st[p].run
                       /\ s.config = st[p].config /\ s.due = st[p].due
  PROVE  UNCHANGED Abstract!vars
<1>1. /\ ReleaseOf(s) = ReleaseOf(st[p]) /\ MayOf(s) = MayOf(st[p])
      /\ DueOf(s) = DueOf(st[p])
  BY DEF ReleaseOf, MayOf, DueOf, Running, Sound
<1>2. /\ [q \in Procs |-> Phase(st'[q])] = [q \in Procs |-> Phase(st[q])]
      /\ [q \in Procs |-> ReleaseOf(st'[q])] = [q \in Procs |-> ReleaseOf(st[q])]
      /\ [q \in Procs |-> MayOf(st'[q])] = [q \in Procs |-> MayOf(st[q])]
      /\ [q \in Procs |-> DueOf(st'[q])] = [q \in Procs |-> DueOf(st[q])]
  <2>1. \A q \in Procs : st'[q] = IF q = p THEN s ELSE st[q]
    BY DEF Set, IInv, TypeOK
  <2>2. \A q \in Procs : /\ Phase(st'[q]) = Phase(st[q])
                          /\ ReleaseOf(st'[q]) = ReleaseOf(st[q])
                          /\ MayOf(st'[q]) = MayOf(st[q])
                          /\ DueOf(st'[q]) = DueOf(st[q])
    BY <2>1, <1>1
  <2> QED BY <2>2
<1>3. Abstract!vars' = <<dir', at', old', [q \in Procs |-> Phase(st'[q])],
                       [q \in Procs |-> ReleaseOf(st'[q])], [q \in Procs |-> MayOf(st'[q])],
                       [q \in Procs |-> DueOf(st'[q])]>>
  BY DEF Abstract!vars, ReleaseOf, MayOf, DueOf
<1> QED BY <1>2, <1>3, ViewIs

\* A process goes.
LEMMA GoDownView ==
  ASSUME IInv, NEW p \in Procs, NEW s, Set(p, s), UNCHANGED <<dir, at, old>>,
         Running(st[p]), Phase(s) = "down"
  PROVE  Abstract!GoDown(p)
<1>1. ReleaseOf(s) = 0 /\ MayOf(s) = FALSE /\ DueOf(s) = {}
  BY DEF ReleaseOf, MayOf, DueOf, Running
<1>2. /\ [q \in Procs |-> Phase(st'[q])] = [[q \in Procs |-> Phase(st[q])] EXCEPT ![p] = "down"]
      /\ [q \in Procs |-> ReleaseOf(st'[q])] = [[q \in Procs |-> ReleaseOf(st[q])] EXCEPT ![p] = 0]
      /\ [q \in Procs |-> MayOf(st'[q])] = [[q \in Procs |-> MayOf(st[q])] EXCEPT ![p] = FALSE]
      /\ [q \in Procs |-> DueOf(st'[q])] = [[q \in Procs |-> DueOf(st[q])] EXCEPT ![p] = {}]
  <2>0. \A q \in Procs : st'[q] = IF q = p THEN s ELSE st[q]
    BY DEF Set, IInv, TypeOK
  <2>1. [q \in Procs |-> Phase(st'[q])] = [[q \in Procs |-> Phase(st[q])] EXCEPT ![p] = "down"]
    BY <2>0
  <2>2. [q \in Procs |-> ReleaseOf(st'[q])] = [[q \in Procs |-> ReleaseOf(st[q])] EXCEPT ![p] = 0]
    BY <2>0, <1>1
  <2>3. [q \in Procs |-> MayOf(st'[q])] = [[q \in Procs |-> MayOf(st[q])] EXCEPT ![p] = FALSE]
    BY <2>0, <1>1
  <2>4. [q \in Procs |-> DueOf(st'[q])] = [[q \in Procs |-> DueOf(st[q])] EXCEPT ![p] = {}]
    BY <2>0, <1>1
  <2> QED BY <2>1, <2>2, <2>3, <2>4
<1>3. [q \in Procs |-> Phase(st[q])][p] # "down"
  BY DEF Running
<1> QED BY <1>2, <1>3 DEF Abstract!GoDown, ReleaseOf, MayOf, DueOf

LEMMA PhaseIs ==
  ASSUME NEW s
  PROVE  /\ s.pc \in {"down", "closing"} => Phase(s) = "down" /\ ~Running(s)
         /\ s.pc \in {"serving", "draining"} => Phase(s) = "up" /\ Running(s)
         /\ s.pc \notin {"down", "closing", "serving", "draining"} =>
               Phase(s) = "starting" /\ Running(s)
BY DEF Phase, Running

\* Only a process whose configuration may run passes the guards.
LEMMA MaySound ==
  ASSUME NEW s, NEW d, NEW a, NEW o, NEW t, Sane(s, d, a, o, t),
         s.pc \notin {"down", "guards", "closing"}
  PROVE  MayOf(s) = TRUE
<1>1. MayRun(s.run, s.config)
  BY DEF Sane
<1>2. Sound(s)
  BY <1>1 DEF MayRun, Sound, BindAllowed, AuthEnabled
<1> QED BY <1>2, PhaseIs DEF MayOf

LEMMA LaunchMaps ==
  ASSUME IInv, NEW p \in Procs, NEW run \in BOOLEAN, NEW r \in Releases, NEW c \in Configs,
         Launch(p, run, r, c)
  PROVE  \E m \in BOOLEAN : Abstract!Launch(p, r, m)
<1>1. PICK s : s = [Down EXCEPT !.pc = "guards", !.run = run, !.release = r,
                                !.config = c, !.due = old]
  OBVIOUS
<1>2. s.pc = "guards" /\ s.release = r /\ s.due = old
  BY <1>1 DEF Down
<1>3. Set(p, s) /\ UNCHANGED <<dir, at, old>> /\ st[p].pc = "down"
  BY <1>1 DEF Launch, shared, At
<1>4. Phase(s) = "starting" /\ ReleaseOf(s) = r /\ DueOf(s) = old /\ Phase(st[p]) = "down"
  BY <1>2, <1>3, PhaseIs DEF ReleaseOf, DueOf
<1>5. PICK m \in BOOLEAN : MayOf(s) = m
  BY DEF MayOf
<1>6. \A q \in Procs : st'[q] = IF q = p THEN s ELSE st[q]
  BY <1>3 DEF Set, IInv, TypeOK
<1>7. [q \in Procs |-> Phase(st'[q])] = [[q \in Procs |-> Phase(st[q])] EXCEPT ![p] = "starting"]
  BY <1>4, <1>6
<1>8. [q \in Procs |-> ReleaseOf(st'[q])] = [[q \in Procs |-> ReleaseOf(st[q])] EXCEPT ![p] = r]
  BY <1>4, <1>6
<1>9. [q \in Procs |-> MayOf(st'[q])] = [[q \in Procs |-> MayOf(st[q])] EXCEPT ![p] = m]
  BY <1>5, <1>6
<1>10. [q \in Procs |-> DueOf(st'[q])] = [[q \in Procs |-> DueOf(st[q])] EXCEPT ![p] = old]
  BY <1>4, <1>6
<1>11. [q \in Procs |-> Phase(st[q])][p] = "down"
  BY <1>4
<1> QED BY <1>3, <1>7, <1>8, <1>9, <1>10, <1>11
        DEF Abstract!Launch, ReleaseOf, MayOf, DueOf

\* What BringUp sees of a process that is on its way up, or up.
LEMMA StartingView ==
  ASSUME IInv, NEW p \in Procs, st[p].pc \notin {"down", "guards", "closing"}
  PROVE  /\ st[p].pc \notin {"serving", "draining"} => Abstract!Starting(p)
         /\ [q \in Procs |-> MayOf(st[q])][p]
         /\ [q \in Procs |-> ReleaseOf(st[q])][p] = st[p].release
         /\ [q \in Procs |-> DueOf(st[q])][p] = st[p].due
<1>1. MayOf(st[p]) = TRUE
  BY Before, MaySound
<1>2. ReleaseOf(st[p]) = st[p].release /\ DueOf(st[p]) = st[p].due
  BY PhaseIs DEF ReleaseOf, DueOf
<1>3. ASSUME st[p].pc \notin {"serving", "draining"} PROVE Abstract!Starting(p)
  BY <1>1, <1>3, PhaseIs DEF Abstract!Starting, MayOf
<1> QED BY <1>1, <1>2, <1>3

LEMMA MakeDirMaps ==
  ASSUME IInv, NEW p \in Procs, MakeDir(p)
  PROVE  Abstract!MakeDir(p)
<1>1. PICK s : s = [st[p] EXCEPT !.pc = "opening"]
  OBVIOUS
<1>2. /\ s.pc = "opening" /\ s.release = st[p].release /\ s.run = st[p].run
      /\ s.config = st[p].config /\ s.due = st[p].due
  BY <1>1, Before DEF Process
<1>3. Set(p, s) /\ dir' = TRUE /\ UNCHANGED <<at, old>> /\ st[p].pc = "mkdir"
  BY <1>1 DEF MakeDir, Goto, At
<1>4. Abstract!Starting(p)
  BY <1>3, StartingView
<1>5. /\ Phase(s) = Phase(st[p]) /\ ReleaseOf(s) = ReleaseOf(st[p])
      /\ MayOf(s) = MayOf(st[p]) /\ DueOf(s) = DueOf(st[p])
  BY <1>2, <1>3, PhaseIs DEF ReleaseOf, MayOf, DueOf, Sound
<1>6. \A q \in Procs : /\ Phase(st'[q]) = Phase(st[q])
                       /\ ReleaseOf(st'[q]) = ReleaseOf(st[q])
                       /\ MayOf(st'[q]) = MayOf(st[q])
                       /\ DueOf(st'[q]) = DueOf(st[q])
  BY <1>3, <1>5 DEF Set, IInv, TypeOK
<1>7. /\ [q \in Procs |-> Phase(st'[q])] = [q \in Procs |-> Phase(st[q])]
      /\ [q \in Procs |-> ReleaseOf(st'[q])] = [q \in Procs |-> ReleaseOf(st[q])]
      /\ [q \in Procs |-> MayOf(st'[q])] = [q \in Procs |-> MayOf(st[q])]
      /\ [q \in Procs |-> DueOf(st'[q])] = [q \in Procs |-> DueOf(st[q])]
  BY <1>6
<1> QED BY <1>3, <1>4, <1>7 DEF Abstract!MakeDir, ReleaseOf, MayOf, DueOf

LEMMA MigrateMaps ==
  ASSUME IInv, NEW p \in Procs, Migrate(p)
  PROVE  Abstract!Raise(p) \/ Abstract!GoDown(p)
<1>0. st[p].pc = "migrating" /\ st[p].done < st[p].release
  BY DEF Migrate, At
<1>1. CASE at = st[p].done
  <2>1. PICK s : s = [st[p] EXCEPT !.done = @ + 1]
    OBVIOUS
  <2>2. /\ s.pc = st[p].pc /\ s.release = st[p].release /\ s.run = st[p].run
        /\ s.config = st[p].config /\ s.due = st[p].due
    BY <2>1, Before DEF Process
  <2>3. Set(p, s) /\ at' = at + 1 /\ UNCHANGED <<dir, old>>
    BY <1>1, <2>1 DEF Migrate
  <2>4. /\ Abstract!Starting(p) /\ dir
        /\ at < [q \in Procs |-> ReleaseOf(st[q])][p]
    BY <1>0, <1>1, StartingView, Before DEF Sane
  <2>5. /\ Phase(s) = Phase(st[p]) /\ ReleaseOf(s) = ReleaseOf(st[p])
        /\ MayOf(s) = MayOf(st[p]) /\ DueOf(s) = DueOf(st[p])
    BY <1>0, <2>2, PhaseIs DEF ReleaseOf, MayOf, DueOf, Sound
  <2>6. \A q \in Procs : /\ Phase(st'[q]) = Phase(st[q])
                         /\ ReleaseOf(st'[q]) = ReleaseOf(st[q])
                         /\ MayOf(st'[q]) = MayOf(st[q])
                         /\ DueOf(st'[q]) = DueOf(st[q])
    BY <2>3, <2>5 DEF Set, IInv, TypeOK
  <2>7. /\ [q \in Procs |-> Phase(st'[q])] = [q \in Procs |-> Phase(st[q])]
        /\ [q \in Procs |-> ReleaseOf(st'[q])] = [q \in Procs |-> ReleaseOf(st[q])]
        /\ [q \in Procs |-> MayOf(st'[q])] = [q \in Procs |-> MayOf(st[q])]
        /\ [q \in Procs |-> DueOf(st'[q])] = [q \in Procs |-> DueOf(st[q])]
    BY <2>6
  <2> QED BY <2>3, <2>4, <2>7 DEF Abstract!Raise, ReleaseOf, MayOf, DueOf
<1>2. CASE at # st[p].done
  <2>1. PICK s : s = [st[p] EXCEPT !.pc = "closing"]
    OBVIOUS
  <2>2. s.pc = "closing"
    BY <2>1, Before DEF Process
  <2>3. Set(p, s) /\ UNCHANGED <<dir, at, old>>
    BY <1>2, <2>1 DEF Migrate, Goto
  <2> QED BY <1>0, <2>2, <2>3, PhaseIs, GoDownView
<1> QED BY <1>1, <1>2

LEMMA ServeMaps ==
  ASSUME IInv, NEW p \in Procs, Serve(p)
  PROVE  Abstract!ComeUp(p)
<1>1. PICK s : s = [st[p] EXCEPT !.pc = "serving", !.handler = TRUE]
  OBVIOUS
<1>2. /\ s.pc = "serving" /\ s.release = st[p].release /\ s.run = st[p].run
      /\ s.config = st[p].config /\ s.due = st[p].due
  BY <1>1, Before DEF Process
<1>3. Set(p, s) /\ UNCHANGED <<dir, at, old>> /\ st[p].pc = "prepared"
  BY <1>1 DEF Serve, At
<1>4. /\ Abstract!Starting(p)
      /\ at >= [q \in Procs |-> ReleaseOf(st[q])][p]
      /\ [q \in Procs |-> DueOf(st[q])][p] = {}
  <2>1. st[p].release \in Nat /\ st[p].release <= at /\ at \in Nat /\ st[p].due = {}
    BY <1>3, Before DEF Sane, Brought, Process
  <2> QED BY <2>1, <1>3, StartingView
<1>5. /\ Phase(s) = "up" /\ ReleaseOf(s) = ReleaseOf(st[p])
      /\ MayOf(s) = MayOf(st[p]) /\ DueOf(s) = DueOf(st[p])
  BY <1>2, <1>3, PhaseIs DEF ReleaseOf, MayOf, DueOf, Sound
<1>6. /\ \A q \in Procs : st'[q] = IF q = p THEN s ELSE st[q]
      /\ \A q \in Procs : /\ ReleaseOf(st'[q]) = ReleaseOf(st[q])
                          /\ MayOf(st'[q]) = MayOf(st[q])
                          /\ DueOf(st'[q]) = DueOf(st[q])
  BY <1>3, <1>5 DEF Set, IInv, TypeOK
<1>7. [q \in Procs |-> Phase(st'[q])] = [[q \in Procs |-> Phase(st[q])] EXCEPT ![p] = "up"]
  BY <1>5, <1>6
<1>8. /\ [q \in Procs |-> ReleaseOf(st'[q])] = [q \in Procs |-> ReleaseOf(st[q])]
      /\ [q \in Procs |-> MayOf(st'[q])] = [q \in Procs |-> MayOf(st[q])]
      /\ [q \in Procs |-> DueOf(st'[q])] = [q \in Procs |-> DueOf(st[q])]
  BY <1>6
<1> QED BY <1>3, <1>4, <1>7, <1>8 DEF Abstract!ComeUp, ReleaseOf, MayOf, DueOf

\* Nobody awaits f any more, and each process stays where it is.
Stayed(f) ==
    \A q \in Procs : /\ st'[q].pc = st[q].pc /\ st'[q].release = st[q].release
                     /\ st'[q].run = st[q].run /\ st'[q].config = st[q].config
                     /\ st'[q].due = st[q].due \ {f}

\* A file is settled.
LEMMA SettleMaps ==
  ASSUME IInv, NEW p \in Procs, NEW f,
         Stayed(f), old' = old \ {f}, UNCHANGED <<dir, at>>,
         st[p].pc \notin {"down", "guards", "mkdir", "closing"}
  PROVE  Abstract!Settle(p, f)
<1>1. \A q \in Procs : /\ Phase(st'[q]) = Phase(st[q])
                       /\ ReleaseOf(st'[q]) = ReleaseOf(st[q])
                       /\ MayOf(st'[q]) = MayOf(st[q])
                       /\ DueOf(st'[q]) = DueOf(st[q]) \ {f}
  <2> TAKE q \in Procs
  <2>1. /\ st'[q].pc = st[q].pc /\ st'[q].release = st[q].release
        /\ st'[q].run = st[q].run /\ st'[q].config = st[q].config
        /\ st'[q].due = st[q].due \ {f}
    BY DEF Stayed
  <2>2. Phase(st'[q]) = Phase(st[q]) /\ (Running(st'[q]) <=> Running(st[q]))
    BY <2>1 DEF Phase, Running
  <2> QED BY <2>1, <2>2 DEF ReleaseOf, MayOf, DueOf, Sound
<1>2. /\ [q \in Procs |-> Phase(st'[q])] = [q \in Procs |-> Phase(st[q])]
      /\ [q \in Procs |-> ReleaseOf(st'[q])] = [q \in Procs |-> ReleaseOf(st[q])]
      /\ [q \in Procs |-> MayOf(st'[q])] = [q \in Procs |-> MayOf(st[q])]
      /\ [q \in Procs |-> DueOf(st'[q])]
           = [q \in Procs |-> [r \in Procs |-> DueOf(st[r])][q] \ {f}]
  BY <1>1
<1>3. dir /\ (Abstract!Starting(p) \/ [q \in Procs |-> Phase(st[q])][p] = "up")
  BY StartingView, PhaseIs, Before DEF Sane
<1> QED BY <1>2, <1>3 DEF Abstract!Settle, ReleaseOf, MayOf, DueOf

\* What forgetting a file leaves of a process.
LEMMA ForgetView ==
  ASSUME IInv, NEW p \in Procs, NEW s \in Process, NEW f,
         \/ st' = Forgetting(f, [st EXCEPT ![p] = s])
         \/ st' = Forgetting(f, Robbing(f, [st EXCEPT ![p] = s])),
         s.pc = st[p].pc, s.release = st[p].release, s.run = st[p].run,
         s.config = st[p].config, s.due = st[p].due
  PROVE  Stayed(f)
<1>1. PICK u \in [Procs -> Process] : u = [st EXCEPT ![p] = s]
  BY DEF IInv, TypeOK
<1>2. \A q \in Procs : /\ u[q] \in Process
                       /\ u[q].pc = st[q].pc /\ u[q].release = st[q].release
                       /\ u[q].run = st[q].run /\ u[q].config = st[q].config
                       /\ u[q].due = st[q].due
  BY <1>1 DEF IInv, TypeOK
<1>3. \/ st' = [q \in Procs |-> Less(u[q], f)]
      \/ st' = [q \in Procs |-> Less(Robbed(u[q], f), f)]
  <2>1. CASE st' = Forgetting(f, [st EXCEPT ![p] = s])
    BY <1>1, <2>1 DEF Forgetting, Less
  <2>2. CASE st' = Forgetting(f, Robbing(f, [st EXCEPT ![p] = s]))
    <3>1. st' = Forgetting(f, Robbing(f, u))
      BY <1>1, <2>2
    <3>2. st' = [q \in Procs |-> Less(Robbed(u[q], f), f)]
      BY <3>1, Zenon DEF Forgetting, Robbing, Less, Robbed
    <3> QED BY <3>2
  <2> QED BY <2>1, <2>2
<1> SUFFICES ASSUME NEW q \in Procs
             PROVE  /\ st'[q].pc = st[q].pc /\ st'[q].release = st[q].release
                    /\ st'[q].run = st[q].run /\ st'[q].config = st[q].config
                    /\ st'[q].due = st[q].due \ {f}
  BY DEF Stayed
<1>4. PICK v \in Process : /\ v \in {u[q], Robbed(u[q], f)} /\ st'[q] = Less(v, f)
  BY <1>2, <1>3, RobbedFields
<1>5. /\ v.pc = u[q].pc /\ v.release = u[q].release /\ v.run = u[q].run
      /\ v.config = u[q].config /\ v.due = u[q].due
  BY <1>2, <1>4, RobbedFields
<1> QED BY <1>2, <1>4, <1>5, LessFields

LEMMA SweepTakeMaps ==
  ASSUME IInv, NEW p \in Procs, SweepTake(p)
  PROVE  \/ \E f \in Files : Abstract!Settle(p, f)
         \/ Abstract!GoDown(p)
         \/ UNCHANGED Abstract!vars
<1>1. PICK f : f = st[p].look
  OBVIOUS
<1>2. st[p].pc = "sweeping" /\ f \in Files
  BY <1>1, Before DEF SweepTake, At, Process
<1>3. PICK s : s = [st[p] EXCEPT !.look = Absent]
  OBVIOUS
<1>4. /\ s.pc = st[p].pc /\ s.release = st[p].release /\ s.run = st[p].run
      /\ s.config = st[p].config /\ s.due = st[p].due
  BY <1>3, Before DEF Process
<1>5. s \in Process
  BY <1>3, Before DEF Process
<1>6. [st EXCEPT ![p].look = Absent] = [st EXCEPT ![p] = s]
  BY <1>3 DEF IInv, TypeOK
<1>7. CASE f \notin tmp
  <2>1. PICK u : u = [st[p] EXCEPT !.pc = "closing"]
    OBVIOUS
  <2>2. Set(p, u) /\ UNCHANGED <<dir, at, old>>
    BY <1>1, <1>7, <2>1 DEF SweepTake, Goto
  <2>3. u.pc = "closing"
    BY <2>1, Before DEF Process
  <2> QED BY <1>2, <2>2, <2>3, PhaseIs, GoDownView
<1>8. CASE f \in tmp /\ f \in st[p].stale
  <2>1. /\ st' = Forgetting(f, Robbing(f, [st EXCEPT ![p] = s]))
        /\ old' = old \ {f} /\ UNCHANGED <<dir, at>>
    BY <1>1, <1>6, <1>8 DEF SweepTake, Remove
  <2>2. Stayed(f)
    BY <1>4, <1>5, <2>1, ForgetView
  <2>3. Abstract!Settle(p, f)
    BY <1>2, <2>1, <2>2, SettleMaps
  <2> QED BY <1>2, <2>3
<1>9. CASE f \in tmp /\ f \notin st[p].stale
  <2>1. Set(p, s) /\ UNCHANGED <<dir, at, old>>
    BY <1>1, <1>6, <1>9 DEF SweepTake, Set
  <2>2. Phase(s) = Phase(st[p])
    BY <1>2, <1>4, PhaseIs
  <2> QED BY <1>4, <2>1, <2>2, StutterView
<1> QED BY <1>7, <1>8, <1>9

\* The holder of a file settles it: it goes on with it, or is done with it.
LEMMA HolderMaps ==
  ASSUME IInv, NEW p \in Procs, Write(p) \/ Release(p) \/ Unprobe(p)
  PROVE  \E f \in Files : Abstract!Settle(p, f)
<1>1. PICK f : f = st[p].held
  OBVIOUS
<1>2. f # Absent
  BY <1>1, Before, ConstantsAssumption DEF Write, Release, Unprobe, Sane
<1>3. f \in Files /\ st[p].pc \in {"serving", "draining"}
  BY <1>1, <1>2, Before DEF Sane, Process
<1>4. PICK b \in BOOLEAN : b = (st[p].ready /\ f \in tmp)
  OBVIOUS
<1>5. PICK s1 : s1 = st[p]
  OBVIOUS
<1>6. PICK s2 : s2 = [st[p] EXCEPT !.held = Absent]
  OBVIOUS
<1>7. PICK s3 : s3 = [st[p] EXCEPT !.held = Absent, !.asks = "answering", !.ready = b]
  OBVIOUS
<1>8. /\ old' = old \ {f} /\ UNCHANGED <<dir, at>>
      /\ \E s \in {s1, s2, s3} : st' = Forgetting(f, [st EXCEPT ![p] = s])
  <2>1. CASE Write(p)
    <3>1. [st EXCEPT ![p] = s1] = st
      BY <1>5 DEF IInv, TypeOK
    <3> QED BY <1>1, <2>1, <3>1 DEF Write
  <2>2. CASE Release(p)
    <3>1. [st EXCEPT ![p].held = Absent] = [st EXCEPT ![p] = s2]
      BY <1>6 DEF IInv, TypeOK
    <3> QED BY <1>1, <2>2, <3>1 DEF Release, Remove
  <2>3. CASE Unprobe(p)
    <3>1. [st EXCEPT ![p].held = Absent, ![p].asks = "answering",
                     ![p].ready = @ /\ f \in tmp] = [st EXCEPT ![p] = s3]
      BY <1>4, <1>7 DEF IInv, TypeOK
    <3> QED BY <1>1, <2>3, <3>1 DEF Unprobe, Remove
  <2> QED BY <2>1, <2>2, <2>3
<1>9. PICK s \in {s1, s2, s3} : st' = Forgetting(f, [st EXCEPT ![p] = s])
  BY <1>8
<1>10. /\ s.pc = st[p].pc /\ s.release = st[p].release /\ s.run = st[p].run
       /\ s.config = st[p].config /\ s.due = st[p].due
  BY <1>5, <1>6, <1>7, <1>9, Before DEF Process
<1>11. s \in Process
  <2>1. s1 \in Process
    BY <1>5, Before
  <2>2. s2 \in Process
    BY <1>6, Before DEF Process
  <2>3. s3 \in Process
    BY <1>7, Before, Unprobed
  <2> QED BY <1>9, <2>1, <2>2, <2>3
<1>12. Stayed(f)
  BY <1>9, <1>10, <1>11, ForgetView
<1>13. Abstract!Settle(p, f)
  BY <1>3, <1>8, <1>12, SettleMaps
<1> QED BY <1>3, <1>13

LEMMA AgeMaps ==
  ASSUME NEW f \in Files, Age(f)
  PROVE  Abstract!GrowStale(f)
BY DEF Age, Abstract!GrowStale

LEMMA GuardsMaps ==
  ASSUME IInv, NEW p \in Procs, Guards(p)
  PROVE  Abstract!GoDown(p) \/ UNCHANGED Abstract!vars
<1>1. st[p].pc = "guards" /\ UNCHANGED <<dir, at, old>>
  BY DEF Guards, At, shared
<1>2. CASE MayRun(st[p].run, st[p].config)
  <2>1. PICK s : s = [st[p] EXCEPT !.pc = "mkdir"]
    OBVIOUS
  <2>2. /\ s.pc = "mkdir" /\ s.release = st[p].release /\ s.run = st[p].run
        /\ s.config = st[p].config /\ s.due = st[p].due
    BY <2>1, Before DEF Process
  <2>3. Set(p, s)
    BY <1>2, <2>1 DEF Guards, Goto
  <2>4. Phase(s) = Phase(st[p])
    BY <1>1, <2>2, PhaseIs
  <2> QED BY <1>1, <2>2, <2>3, <2>4, StutterView
<1>3. CASE ~MayRun(st[p].run, st[p].config)
  <2>1. Set(p, Down)
    BY <1>3 DEF Guards
  <2> QED BY <1>1, <2>1, DownIsProcess, PhaseIs, GoDownView
<1> QED BY <1>2, <1>3

\* The steps that end a start, a report or a server.
LEMMA EndMaps ==
  ASSUME IInv, NEW p \in Procs,
         StartFails(p) \/ Report(p) \/ Drained(p) \/ Close(p) \/ Kill(p)
  PROVE  Abstract!GoDown(p) \/ UNCHANGED Abstract!vars
<1>1. PICK c : c = [st[p] EXCEPT !.pc = "closing"]
  OBVIOUS
<1>2. PICK d : d = [st[p] EXCEPT !.pc = "closing", !.handler = FALSE]
  OBVIOUS
<1>3. c.pc = "closing" /\ d.pc = "closing" /\ Down.pc = "down"
  BY <1>1, <1>2, Before, DownIsProcess DEF Process
<1>4. /\ Set(p, c) \/ Set(p, d) \/ Set(p, Down)
      /\ UNCHANGED <<dir, at, old>>
  <2>1. CASE StartFails(p) \/ Report(p)
    BY <1>1, <2>1 DEF StartFails, Report, Goto, shared
  <2>2. CASE Drained(p)
    BY <1>2, <2>2 DEF Drained, shared
  <2>3. CASE Close(p) \/ Kill(p)
    BY <2>3 DEF Close, Kill
  <2> QED BY <2>1, <2>2, <2>3
<1>5. PICK s : s \in {c, d, Down} /\ Set(p, s)
  BY <1>4
<1>6. Phase(s) = "down" /\ ~Running(s)
  BY <1>3, <1>5, PhaseIs
<1>7. CASE Running(st[p])
  BY <1>4, <1>5, <1>6, <1>7, GoDownView
<1>8. CASE ~Running(st[p])
  <2>1. Phase(st[p]) = "down"
    BY <1>8 DEF Running
  <2> QED BY <1>4, <1>5, <1>6, <2>1, StutterView
<1> QED BY <1>7, <1>8

-----------------------------------------------------------------------------
(* The steps that BringUp does not see.                                    *)

LEMMA OpenMaps ==
  ASSUME IInv, NEW p \in Procs, Open(p)
  PROVE  UNCHANGED Abstract!vars
<1>1. PICK s : s = [st[p] EXCEPT !.pc = "migrating", !.done = at]
  OBVIOUS
<1>2. Set(p, s) /\ UNCHANGED <<dir, at, old>> /\ st[p].pc = "opening"
  BY <1>1 DEF Open, Goto, At, shared
<1>3. /\ s.pc = "migrating" /\ s.release = st[p].release /\ s.run = st[p].run
      /\ s.config = st[p].config /\ s.due = st[p].due
  BY <1>1, <1>2, Before DEF Process
<1>4. Phase(s) = Phase(st[p])
  BY <1>2, <1>3, PhaseIs
<1> QED BY <1>2, <1>3, <1>4, StutterView

LEMMA MigratedMaps ==
  ASSUME IInv, NEW p \in Procs, Migrated(p)
  PROVE  UNCHANGED Abstract!vars
<1>1. PICK s : s = [st[p] EXCEPT !.pc = IF st[p].run THEN "laying" ELSE "reporting"]
  OBVIOUS
<1>2. Set(p, s) /\ UNCHANGED <<dir, at, old>> /\ st[p].pc = "migrating"
  BY <1>1 DEF Migrated, Goto, At, shared
<1>3. /\ s.pc \in {"laying", "reporting"} /\ s.release = st[p].release /\ s.run = st[p].run
      /\ s.config = st[p].config /\ s.due = st[p].due
  BY <1>1, <1>2, Before DEF Process
<1>4. Phase(s) = Phase(st[p])
  BY <1>2, <1>3, PhaseIs
<1> QED BY <1>2, <1>3, <1>4, StutterView

LEMMA LayOutMaps ==
  ASSUME IInv, NEW p \in Procs, LayOut(p)
  PROVE  UNCHANGED Abstract!vars
<1>1. PICK s : s = [st[p] EXCEPT !.pc = "sweeping", !.todo = tmp, !.stale = old]
  OBVIOUS
<1>2. Set(p, s) /\ UNCHANGED <<dir, at, old>> /\ st[p].pc = "laying"
  BY <1>1 DEF LayOut, Goto, At, shared
<1>3. /\ s.pc = "sweeping" /\ s.release = st[p].release /\ s.run = st[p].run
      /\ s.config = st[p].config /\ s.due = st[p].due
  BY <1>1, <1>2, Before DEF Process
<1>4. Phase(s) = Phase(st[p])
  BY <1>2, <1>3, PhaseIs
<1> QED BY <1>2, <1>3, <1>4, StutterView

LEMMA SweepLookMaps ==
  ASSUME IInv, NEW p \in Procs, NEW f \in Files, SweepLook(p, f)
  PROVE  UNCHANGED Abstract!vars
<1>1. PICK s : s = [st[p] EXCEPT !.todo = @ \ {f}, !.look = IF f \in tmp THEN f ELSE Absent]
  OBVIOUS
<1>2. Set(p, s) /\ UNCHANGED <<dir, at, old>> /\ st[p].pc = "sweeping"
  BY <1>1 DEF SweepLook, Goto, At, shared
<1>3. /\ s.pc = "sweeping" /\ s.release = st[p].release /\ s.run = st[p].run
      /\ s.config = st[p].config /\ s.due = st[p].due
  BY <1>1, <1>2, Before DEF Process
<1>4. Phase(s) = Phase(st[p])
  BY <1>2, <1>3, PhaseIs
<1> QED BY <1>2, <1>3, <1>4, StutterView

LEMMA PreparedMaps ==
  ASSUME IInv, NEW p \in Procs, Prepared(p)
  PROVE  UNCHANGED Abstract!vars
<1>1. PICK s : s = [st[p] EXCEPT !.pc = "prepared"]
  OBVIOUS
<1>2. Set(p, s) /\ UNCHANGED <<dir, at, old>> /\ st[p].pc = "sweeping"
  BY <1>1 DEF Prepared, Goto, At, shared
<1>3. /\ s.pc = "prepared" /\ s.release = st[p].release /\ s.run = st[p].run
      /\ s.config = st[p].config /\ s.due = st[p].due
  BY <1>1, <1>2, Before DEF Process
<1>4. Phase(s) = Phase(st[p])
  BY <1>2, <1>3, PhaseIs
<1> QED BY <1>2, <1>3, <1>4, StutterView

LEMMA StopMaps ==
  ASSUME IInv, NEW p \in Procs, NEW sig \in {"term", "int", "none"}, Stop(p, sig)
  PROVE  UNCHANGED Abstract!vars
<1>1. PICK s : s = [st[p] EXCEPT !.pc = "draining", !.sig = sig]
  OBVIOUS
<1>2. Set(p, s) /\ UNCHANGED <<dir, at, old>> /\ st[p].pc = "serving"
  BY <1>1 DEF Stop, Goto, At, shared
<1>3. /\ s.pc = "draining" /\ s.release = st[p].release /\ s.run = st[p].run
      /\ s.config = st[p].config /\ s.due = st[p].due
  BY <1>1, <1>2, Before DEF Process
<1>4. Phase(s) = Phase(st[p])
  BY <1>2, <1>3, PhaseIs
<1> QED BY <1>2, <1>3, <1>4, StutterView

LEMMA UploadMaps ==
  ASSUME IInv, NEW p \in Procs, NEW f \in Files, Upload(p, f)
  PROVE  UNCHANGED Abstract!vars
<1>1. PICK s : s = [st[p] EXCEPT !.held = f]
  OBVIOUS
<1>2. Set(p, s) /\ UNCHANGED <<dir, at, old>>
  BY <1>1 DEF Upload, Create
<1>3. /\ s.pc = st[p].pc /\ s.release = st[p].release /\ s.run = st[p].run
      /\ s.config = st[p].config /\ s.due = st[p].due
  BY <1>1, Before DEF Process
<1>4. Phase(s) = Phase(st[p])
  BY <1>3 DEF Phase
<1> QED BY <1>2, <1>3, <1>4, StutterView

\* A request for /readyz, but for the end of its probe.
LEMMA ReadyzMaps ==
  ASSUME IInv, NEW p \in Procs,
         Readyz(p) \/ ProbeFails(p) \/ Answer(p) \/ \E f \in Files : Probe(p, f)
  PROVE  UNCHANGED Abstract!vars
<1>1. PICK s1 : s1 = [st[p] EXCEPT !.asks = "migrated", !.ready = MigratedExactly(p),
                                   !.late = st[p].release < served]
  OBVIOUS
<1>2. PICK s2 : s2 = [st[p] EXCEPT !.held = Absent, !.asks = "answering",
                                   !.ready = FALSE, !.lost = TRUE]
  OBVIOUS
<1>3. PICK s3 : s3 = [st[p] EXCEPT !.asks = "none", !.ready = FALSE, !.late = FALSE,
                                   !.lost = FALSE]
  OBVIOUS
<1>4. /\ UNCHANGED <<dir, at, old>>
      /\ \/ \E s \in {s1, s2, s3} : Set(p, s)
         \/ \E f \in Files : Set(p, [st[p] EXCEPT !.held = f, !.asks = "probing"])
  <2>1. CASE Readyz(p)
    BY <1>1, <2>1 DEF Readyz, shared
  <2>2. CASE ProbeFails(p)
    BY <1>2, <2>2 DEF ProbeFails, shared
  <2>3. CASE Answer(p)
    BY <1>3, <2>3 DEF Answer, shared
  <2>4. CASE \E f \in Files : Probe(p, f)
    BY <2>4 DEF Probe, Create
  <2> QED BY <2>1, <2>2, <2>3, <2>4
<1>5. PICK s : /\ Set(p, s)
               /\ s.pc = st[p].pc /\ s.release = st[p].release /\ s.run = st[p].run
               /\ s.config = st[p].config /\ s.due = st[p].due
  <2>1. CASE \E s \in {s1, s2, s3} : Set(p, s)
    <3>1. PICK s \in {s1, s2, s3} : Set(p, s)
      BY <2>1
    <3>2. /\ s.pc = st[p].pc /\ s.release = st[p].release /\ s.run = st[p].run
          /\ s.config = st[p].config /\ s.due = st[p].due
      BY <1>1, <1>2, <1>3, <3>1, Before DEF Process
    <3> QED BY <3>1, <3>2
  <2>2. CASE \E f \in Files : Set(p, [st[p] EXCEPT !.held = f, !.asks = "probing"])
    <3>1. PICK f \in Files : Set(p, [st[p] EXCEPT !.held = f, !.asks = "probing"])
      BY <2>2
    <3>2. PICK s : s = [st[p] EXCEPT !.held = f, !.asks = "probing"]
      OBVIOUS
    <3>3. /\ s.pc = st[p].pc /\ s.release = st[p].release /\ s.run = st[p].run
          /\ s.config = st[p].config /\ s.due = st[p].due
      BY <3>2, Before DEF Process
    <3> QED BY <3>1, <3>2, <3>3
  <2> QED BY <1>4, <2>1, <2>2
<1>6. Phase(s) = Phase(st[p])
  BY <1>5 DEF Phase
<1> QED BY <1>4, <1>5, <1>6, StutterView

LEMMA StepMaps ==
  ASSUME IInv, [Next]_vars
  PROVE  [Abstract!Next]_(Abstract!vars)
<1>1. CASE UNCHANGED vars
  <2>1. /\ UNCHANGED <<dir, at, old>>
        /\ [q \in Procs |-> Phase(st'[q])] = [q \in Procs |-> Phase(st[q])]
        /\ [q \in Procs |-> ReleaseOf(st'[q])] = [q \in Procs |-> ReleaseOf(st[q])]
        /\ [q \in Procs |-> MayOf(st'[q])] = [q \in Procs |-> MayOf(st[q])]
        /\ [q \in Procs |-> DueOf(st'[q])] = [q \in Procs |-> DueOf(st[q])]
    BY <1>1 DEF vars
  <2> QED BY <2>1 DEF Abstract!vars, ReleaseOf, MayOf, DueOf
<1>2. ASSUME NEW p \in Procs, NEW run \in BOOLEAN, NEW r \in Releases, NEW c \in Configs,
             Launch(p, run, r, c)
      PROVE  Abstract!Next
  BY <1>2, LaunchMaps DEF Abstract!Next
<1>3. ASSUME NEW p \in Procs, NEW sig \in {"term", "int", "none"}, Stop(p, sig)
      PROVE  UNCHANGED Abstract!vars
  BY <1>3, StopMaps
<1>4. ASSUME NEW p \in Procs, NEW f \in Files,
             SweepLook(p, f) \/ Upload(p, f) \/ Probe(p, f)
      PROVE  UNCHANGED Abstract!vars
  BY <1>4, SweepLookMaps, UploadMaps, ReadyzMaps
<1>5. ASSUME NEW f \in Files, Age(f)
      PROVE  Abstract!Next
  BY <1>5, AgeMaps DEF Abstract!Next
<1>6. ASSUME NEW p \in Procs,
             \/ Open(p) \/ Migrated(p) \/ LayOut(p) \/ Prepared(p)
             \/ Readyz(p) \/ ProbeFails(p) \/ Answer(p)
      PROVE  UNCHANGED Abstract!vars
  BY <1>6, OpenMaps, MigratedMaps, LayOutMaps, PreparedMaps, ReadyzMaps
<1>7. ASSUME NEW p \in Procs,
             \/ MakeDir(p) \/ Migrate(p) \/ Serve(p)
             \/ Write(p) \/ Release(p) \/ Unprobe(p)
      PROVE  Abstract!Next
  BY <1>7, MakeDirMaps, MigrateMaps, ServeMaps, HolderMaps DEF Abstract!Next
<1>8. ASSUME NEW p \in Procs,
             \/ Guards(p) \/ SweepTake(p) \/ StartFails(p) \/ Report(p)
             \/ Drained(p) \/ Close(p) \/ Kill(p)
      PROVE  Abstract!Next \/ UNCHANGED Abstract!vars
  <2>1. \/ Abstract!GoDown(p) \/ UNCHANGED Abstract!vars
        \/ \E f \in Files : Abstract!Settle(p, f)
    BY <1>8, GuardsMaps, SweepTakeMaps, EndMaps
  <2> QED BY <2>1 DEF Abstract!Next
<1> QED BY <1>1, <1>2, <1>3, <1>4, <1>5, <1>6, <1>7, <1>8 DEF Next

\* The processes that share a data directory keep what BringUp promises: only
\* a process past its guards touches the disk, and whoever is up has its schema
\* and has seen each file that was stale when it was launched go, or be written to
\* again (prepare, sweep_tmp, run_control).
THEOREM Refinement == Spec => KeepsBringUp
<1>1. Init => Abstract!Init
  <2> SUFFICES ASSUME Init PROVE Abstract!Init
    OBVIOUS
  <2>1. \A p \in Procs : st[p] = Down
    BY DEF Init
  <2>2. Phase(Down) = "down" /\ ~Running(Down)
    BY DownIsProcess, PhaseIs
  <2>3. \A p \in Procs : /\ Phase(st[p]) = "down" /\ ReleaseOf(st[p]) = 0
                         /\ MayOf(st[p]) = FALSE /\ DueOf(st[p]) = {}
    BY <2>1, <2>2 DEF ReleaseOf, MayOf, DueOf
  <2>4. /\ [p \in Procs |-> Phase(st[p])] = [p \in Procs |-> "down"]
        /\ [p \in Procs |-> ReleaseOf(st[p])] = [p \in Procs |-> 0]
        /\ [p \in Procs |-> MayOf(st[p])] = [p \in Procs |-> FALSE]
        /\ [p \in Procs |-> DueOf(st[p])] = [p \in Procs |-> {}]
    BY <2>3
  <2> QED BY <2>4 DEF Init, Abstract!Init, ReleaseOf, MayOf, DueOf
<1>2. IInv /\ [Next]_vars => [Abstract!Next]_(Abstract!vars)
  BY StepMaps
<1> QED BY <1>1, <1>2, Inductive, PTL DEF Spec, KeepsBringUp, Abstract!Spec
=============================================================================
