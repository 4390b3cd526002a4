------------------------ MODULE ConfigurationProofs ------------------------
(***************************************************************************)
(* Proofs about Configuration, for files, environments and pins of any     *)
(* number and length.                                                      *)
(***************************************************************************)
EXTENDS Configuration, WellFoundedInduction, TLAPS

-----------------------------------------------------------------------------
(* The first and the last of several places.                               *)

Below == {ss \in Nat \X Nat : ss[1] < ss[2]}

LEMMA Smallest ==
  ASSUME NEW S \in SUBSET Nat, S # {}
  PROVE  \E x \in S : \A y \in S : x <= y
<1>1. IsWellFoundedOn(Below, Nat)
  BY NatLessThanWellFounded, Zenon DEF OpToRel, Below
<1>2. PICK x \in S : \A y \in S : <<y, x>> \notin Below
  BY <1>1, WFMin, Zenon
<1>3. \A y \in S : <<y, x>> \in Below <=> y < x
  BY DEF Below
<1>4. ASSUME NEW y \in S PROVE x <= y
  <2>1. ~(y < x)
    BY <1>2, <1>3
  <2> QED BY <2>1
<1> QED BY <1>4

LEMMA MinIsFirst ==
  ASSUME NEW S \in SUBSET Nat, S # {}
  PROVE  Min(S) \in S /\ \A i \in S : Min(S) <= i
BY Smallest DEF Min

LEMMA MaxIsLast ==
  ASSUME NEW n \in Nat, NEW S \in SUBSET (1..n), S # {}
  PROVE  Max(S) \in S /\ \A i \in S : Max(S) >= i
<1> DEFINE U == {u \in Nat : \A i \in S : i <= u}
<1>1. n \in U /\ U \in SUBSET Nat
  OBVIOUS
<1>2. PICK m \in U : \A u \in U : m <= u
  BY <1>1, Smallest
<1>3. m \in S
  <2> SUFFICES ASSUME m \notin S PROVE FALSE
    OBVIOUS
  <2>1. PICK i \in S : TRUE
    OBVIOUS
  <2>2. m - 1 \in U
    BY <1>2, <2>1
  <2> QED BY <1>2, <2>2
<1> QED BY <1>2, <1>3 DEF Max

-----------------------------------------------------------------------------
(* What a dict makes of a list of pairs.                                   *)

\* The places of a name.
Places(pairs, n) == {i \in 1..Len(pairs) : pairs[i].name = n}

LEMMA FirstPlace ==
  ASSUME NEW V, NEW pairs \in Seq(V), NEW n \in Named(pairs)
  PROVE  /\ PlaceOf(pairs, n) \in Places(pairs, n)
         /\ \A i \in Places(pairs, n) : PlaceOf(pairs, n) <= i
<1>1. Places(pairs, n) # {} /\ Places(pairs, n) \in SUBSET Nat
  BY DEF Named, Places
<1>2. PlaceOf(pairs, n) = Min(Places(pairs, n))
  BY <1>1, Zenon DEF PlaceOf, SelectInSeq, Places
<1> QED BY <1>1, <1>2, MinIsFirst

\* The text of a name is that of its last pair.
LEMMA LastPlace ==
  ASSUME NEW V, NEW pairs \in Seq(V), NEW n \in Named(pairs)
  PROVE  \E i \in Places(pairs, n) : /\ \A j \in Places(pairs, n) : j <= i
                                     /\ TextOf(pairs, n) = pairs[i].text
<1>1. Places(pairs, n) # {} /\ Places(pairs, n) \in SUBSET (1..Len(pairs)) /\ Len(pairs) \in Nat
  BY DEF Named, Places
<1>2. TextOf(pairs, n) = pairs[Max(Places(pairs, n))].text
  BY <1>1, Zenon DEF TextOf, SelectLastInSeq, Places
<1>3. /\ Max(Places(pairs, n)) \in Places(pairs, n)
      /\ \A i \in Places(pairs, n) : Max(Places(pairs, n)) >= i
  BY <1>1, MaxIsLast
<1>4. \A i \in Places(pairs, n) : i <= Max(Places(pairs, n))
  BY <1>1, <1>3
<1> QED BY <1>2, <1>3, <1>4

LEMMA TextOfLast ==
  ASSUME NEW V, NEW pairs \in Seq(V), NEW n,
         NEW i \in Places(pairs, n), \A j \in Places(pairs, n) : j <= i
  PROVE  TextOf(pairs, n) = pairs[i].text
<1>1. n \in Named(pairs)
  BY DEF Named, Places
<1>2. PICK l \in Places(pairs, n) : /\ \A j \in Places(pairs, n) : j <= l
                                    /\ TextOf(pairs, n) = pairs[l].text
  BY <1>1, LastPlace
<1>3. i = l
  BY <1>2 DEF Places
<1> QED BY <1>2, <1>3

LEMMA Joined ==
  ASSUME NEW V, NEW W, NEW a \in Seq(V), NEW b \in Seq(W)
  PROVE  /\ a \o b \in Seq(V \cup W)
         /\ Len(a) \in Nat /\ Len(b) \in Nat /\ Len(a \o b) = Len(a) + Len(b)
         /\ \A i \in 1..Len(a) : (a \o b)[i] = a[i]
         /\ \A i \in 1..Len(b) : (a \o b)[Len(a) + i] = b[i]
<1>1. a \in Seq(V \cup W) /\ b \in Seq(V \cup W)
  OBVIOUS
<1> QED BY <1>1

\* Of two lists one after the other, the later one has the last word on a name.
LEMMA LaterText ==
  ASSUME NEW V, NEW W, NEW a \in Seq(V), NEW b \in Seq(W), NEW n
  PROVE  /\ Named(a \o b) = Named(a) \cup Named(b)
         /\ n \in Named(b) => TextOf(a \o b, n) = TextOf(b, n)
         /\ n \in Named(a) \ Named(b) => TextOf(a \o b, n) = TextOf(a, n)
<1> DEFINE c == a \o b
<1>1. /\ c \in Seq(V \cup W)
      /\ Len(a) \in Nat /\ Len(b) \in Nat /\ Len(c) = Len(a) + Len(b)
      /\ \A i \in 1..Len(a) : c[i] = a[i]
      /\ \A i \in 1..Len(b) : c[Len(a) + i] = b[i]
  BY Joined
<1>2. ASSUME NEW i \in 1..Len(c)
      PROVE  i \in 1..Len(a) \/ (i - Len(a) \in 1..Len(b) /\ c[i] = b[i - Len(a)])
  <2>1. CASE i <= Len(a)
    BY <1>1, <2>1
  <2>2. CASE ~(i <= Len(a))
    <3>1. i - Len(a) \in 1..Len(b) /\ Len(a) + (i - Len(a)) = i
      BY <1>1, <2>2
    <3> QED BY <1>1, <3>1
  <2> QED BY <2>1, <2>2
<1>3. DOMAIN a = 1..Len(a) /\ DOMAIN b = 1..Len(b) /\ DOMAIN c = 1..Len(c)
  BY <1>1
<1>4. Named(c) = Named(a) \cup Named(b)
  <2>1. ASSUME NEW m \in Named(c) PROVE m \in Named(a) \cup Named(b)
    <3>1. PICK i \in 1..Len(c) : m = c[i].name
      BY <1>3, <2>1 DEF Named
    <3> QED BY <1>1, <1>2, <1>3, <3>1 DEF Named
  <2>2. ASSUME NEW m \in Named(a) PROVE m \in Named(c)
    <3>1. PICK i \in 1..Len(a) : m = a[i].name
      BY <1>3, <2>2 DEF Named
    <3>2. i \in 1..Len(c) /\ c[i] = a[i]
      BY <1>1
    <3> QED BY <1>3, <3>1, <3>2 DEF Named
  <2>3. ASSUME NEW m \in Named(b) PROVE m \in Named(c)
    <3>1. PICK i \in 1..Len(b) : m = b[i].name
      BY <1>3, <2>3 DEF Named
    <3>2. Len(a) + i \in 1..Len(c) /\ c[Len(a) + i] = b[i]
      BY <1>1
    <3> QED BY <1>3, <3>1, <3>2 DEF Named
  <2> QED BY <2>1, <2>2, <2>3
<1>5. ASSUME n \in Named(b) PROVE TextOf(c, n) = TextOf(b, n)
  <2>1. PICK i \in Places(b, n) : /\ \A j \in Places(b, n) : j <= i
                                  /\ TextOf(b, n) = b[i].text
    BY <1>5, LastPlace
  <2>2. i \in 1..Len(b) /\ b[i].name = n
    BY <2>1 DEF Places
  <2>3. Len(a) + i \in Places(c, n) /\ c[Len(a) + i] = b[i]
    BY <1>1, <2>2 DEF Places
  <2>4. ASSUME NEW j \in Places(c, n) PROVE j <= Len(a) + i
    <3>1. j \in 1..Len(c) /\ c[j].name = n
      BY DEF Places
    <3>2. CASE j \in 1..Len(a)
      BY <1>1, <2>2, <3>2
    <3>3. CASE j - Len(a) \in 1..Len(b) /\ c[j] = b[j - Len(a)]
      <4>1. j - Len(a) \in Places(b, n)
        BY <3>1, <3>3 DEF Places
      <4>2. j - Len(a) <= i
        BY <2>1, <4>1
      <4> QED BY <1>1, <2>2, <3>1, <4>2
    <3> QED BY <1>2, <3>1, <3>2, <3>3
  <2>5. TextOf(c, n) = c[Len(a) + i].text
    BY <1>1, <2>3, <2>4, TextOfLast, Zenon
  <2> QED BY <2>1, <2>3, <2>5
<1>6. ASSUME n \in Named(a) \ Named(b) PROVE TextOf(c, n) = TextOf(a, n)
  <2>1. PICK i \in Places(a, n) : /\ \A j \in Places(a, n) : j <= i
                                  /\ TextOf(a, n) = a[i].text
    BY <1>6, LastPlace
  <2>2. i \in 1..Len(a) /\ a[i].name = n
    BY <2>1 DEF Places
  <2>3. i \in Places(c, n) /\ c[i] = a[i]
    BY <1>1, <2>2 DEF Places
  <2>4. ASSUME NEW j \in Places(c, n) PROVE j <= i
    <3>1. j \in 1..Len(c) /\ c[j].name = n
      BY DEF Places
    <3>2. j \in 1..Len(a)
      BY <1>2, <1>3, <1>6, <3>1 DEF Named
    <3>3. j \in Places(a, n)
      BY <1>1, <3>1, <3>2 DEF Places
    <3> QED BY <2>1, <3>3
  <2>5. TextOf(c, n) = c[i].text
    BY <1>1, <2>3, <2>4, TextOfLast, Zenon
  <2> QED BY <2>1, <2>3, <2>5
<1> QED BY <1>4, <1>5, <1>6

\* Some name of a key governs it.
LEMMA SomeoneGoverns ==
  ASSUME NEW V, NEW pairs \in Seq(V), NEW k, \E n \in Configures(pairs) : KeyOf[n] = k
  PROVE  Governs(pairs, k) \in Configures(pairs) /\ KeyOf[Governs(pairs, k)] = k
<1> DEFINE N == {n \in Configures(pairs) : KeyOf[n] = k}
           S == {PlaceOf(pairs, n) : n \in N}
<1>1. \A n \in N : PlaceOf(pairs, n) \in 1..Len(pairs)
  BY FirstPlace DEF Configures, Places
<1>2. Len(pairs) \in Nat /\ S \in SUBSET (1..Len(pairs)) /\ S # {}
  BY <1>1
<1>3. Max(S) \in S /\ \A i \in S : Max(S) >= i
  BY <1>2, MaxIsLast
<1>4. PICK n \in N : PlaceOf(pairs, n) = Max(S)
  BY <1>3
<1>5. \A m \in Configures(pairs) : KeyOf[m] = k => PlaceOf(pairs, m) <= PlaceOf(pairs, n)
  BY <1>1, <1>3, <1>4
<1> QED BY <1>4, <1>5 DEF Governs

-----------------------------------------------------------------------------
(* The pinner's lines.                                                     *)

LEMMA PinLineIsLine == \A d \in Digests : PinLine(d) \in Line
BY ConstantsAssumption DEF PinLine, Line

LEMMA WithPinIsThere ==
  ASSUME NEW lines \in Seq(Line), NEW d \in Digests
  PROVE  WithPin(lines, d) \in Seq(Line) /\ PinLine(d) \in Range(WithPin(lines, d))
<1> DEFINE I == {i \in 1..Len(lines) : IsPin(lines[i])}
           i == SelectInSeq(lines, IsPin)
<1>1. PinLine(d) \in Line
  BY PinLineIsLine
<1>2. i = 0 \/ i \in 1..Len(lines)
  <2>1. i = IF I # {} THEN Min(I) ELSE 0
    BY Zenon DEF SelectInSeq
  <2>2. I \in SUBSET (1..Len(lines)) /\ I \in SUBSET Nat
    OBVIOUS
  <2>3. I # {} => Min(I) \in I
    BY <2>2, MinIsFirst
  <2> QED BY <2>1, <2>2, <2>3
<1>3. CASE i = 0
  <2>1. WithPin(lines, d) = Append(lines, PinLine(d))
    BY <1>3, Zenon DEF WithPin
  <2>2. /\ Append(lines, PinLine(d)) \in Seq(Line)
        /\ Len(lines) + 1 \in DOMAIN Append(lines, PinLine(d))
        /\ Append(lines, PinLine(d))[Len(lines) + 1] = PinLine(d)
    BY <1>1
  <2> QED BY <2>1, <2>2 DEF Range
<1>4. CASE i \in 1..Len(lines)
  <2>1. WithPin(lines, d) = [lines EXCEPT ![i] = PinLine(d)]
    <3>1. i # 0
      BY <1>4
    <3> QED BY <3>1, Zenon DEF WithPin
  <2> HIDE DEF i
  <2>2. /\ [lines EXCEPT ![i] = PinLine(d)] \in Seq(Line)
        /\ i \in DOMAIN [lines EXCEPT ![i] = PinLine(d)]
        /\ [lines EXCEPT ![i] = PinLine(d)][i] = PinLine(d)
    BY <1>1, <1>4
  <2> QED BY <2>1, <2>2 DEF Range
<1> QED BY <1>2, <1>3, <1>4

-----------------------------------------------------------------------------
(* What is merged.                                                         *)

LEMMA Built ==
  ASSUME NEW f, NEW g
  PROVE  /\ DOMAIN Build(Update(f, g)) = Keys
         /\ \A k \in Keys : Build(Update(f, g))[k] = IF k \in DOMAIN g THEN g[k]
                                                     ELSE IF k \in DOMAIN f THEN f[k]
                                                     ELSE Default[k]
<1>1. /\ DOMAIN Update(f, g) = DOMAIN f \cup DOMAIN g
      /\ \A k \in DOMAIN f \cup DOMAIN g :
             Update(f, g)[k] = IF k \in DOMAIN g THEN g[k] ELSE f[k]
  BY DEF Update
<1> DEFINE h == Update(f, g)
<1> HIDE DEF h
<1>2. /\ DOMAIN Build(h) = Keys
      /\ \A k \in Keys : Build(h)[k] = IF k \in DOMAIN h THEN h[k] ELSE Default[k]
  BY DEF Build
<1> QED BY <1>1, <1>2 DEF h

\* What the layers of `load' have for a key.
Raw == IF load.useToml THEN toml ELSE <<>>
Pairs == load.lines \o load.environ

\* The configuration that fits is the one its layers say.
LEMMA MergedIs ==
  ASSUME Merge, load.lines \in Seq(Line), load.environ \in Seq(Variable), load'.pc = "loaded"
  PROVE  /\ load.useToml => Readable(toml)
         /\ TomlFits(Raw) /\ EnvFits(Pairs)
         /\ load' = [Idle EXCEPT !.pc = "loaded",
                        !.config = Build(Update(FromToml(Raw), FromEnv(Pairs)))]
         /\ DOMAIN load'.config = Keys
         /\ \A k \in Keys :
               load'.config[k] =
                 IF \E n \in Configures(Pairs) : KeyOf[n] = k
                 THEN ValueOf(Pairs, Governs(Pairs, k))
                 ELSE IF k \in DOMAIN Raw THEN Coerce(k, Raw[k]) ELSE Default[k]
<1> DEFINE fits == /\ load.useToml => Readable(toml)
                   /\ TomlFits(Raw)
                   /\ EnvFits(Pairs)
           c == Build(Update(FromToml(Raw), FromEnv(Pairs)))
<1>1. load' = IF fits THEN [Idle EXCEPT !.pc = "loaded", !.config = c]
                      ELSE [Idle EXCEPT !.pc = "failed"]
  BY Zenon DEF Merge, Raw, Pairs
<1> HIDE DEF c
<1>2. fits /\ load' = [Idle EXCEPT !.pc = "loaded", !.config = c] /\ load'.config = c
  BY <1>1 DEF Idle
<1>3. /\ DOMAIN FromToml(Raw) = DOMAIN Raw
      /\ \A k \in DOMAIN Raw : FromToml(Raw)[k] = Coerce(k, Raw[k])
  BY DEF FromToml
<1>4. /\ DOMAIN FromEnv(Pairs) = {KeyOf[n] : n \in Configures(Pairs)}
      /\ \A k \in DOMAIN FromEnv(Pairs) :
             FromEnv(Pairs)[k] = ValueOf(Pairs, Governs(Pairs, k))
  BY Zenon DEF FromEnv
<1>5. \A k : k \in DOMAIN FromEnv(Pairs) <=> \E n \in Configures(Pairs) : KeyOf[n] = k
  BY <1>4
<1>6. /\ DOMAIN c = Keys
      /\ \A k \in Keys : c[k] = IF k \in DOMAIN FromEnv(Pairs) THEN FromEnv(Pairs)[k]
                                ELSE IF k \in DOMAIN FromToml(Raw) THEN FromToml(Raw)[k]
                                ELSE Default[k]
  BY Built DEF c
<1>7. ASSUME NEW k \in Keys
      PROVE  c[k] = IF \E n \in Configures(Pairs) : KeyOf[n] = k
                    THEN ValueOf(Pairs, Governs(Pairs, k))
                    ELSE IF k \in DOMAIN Raw THEN Coerce(k, Raw[k]) ELSE Default[k]
  BY <1>3, <1>4, <1>5, <1>6, Zenon
<1> QED BY <1>2, <1>6, <1>7 DEF c

-----------------------------------------------------------------------------
(* The invariant                                                           *)

\* A command keeps what it has read and nothing else.
Bare == load = [pc |-> load.pc, useToml |-> load.useToml, mustEnv |-> load.mustEnv,
                environ |-> load.environ, lines |-> load.lines, fresh |-> load.fresh,
                config |-> load.config]

\* A pin in force is a line of the file, and of what a command read while it was;
\* a file that is emptied for a pin has none.
Pinned ==
    /\ pin.pc = "emptied" => pinned = Absent
    /\ pinned # Absent => dotenv \in Seq(Line) /\ PinLine(pinned) \in Range(dotenv)
    /\ load.pc = "merging" /\ load.fresh # Absent =>
           PinLine(load.fresh) \in Range(load.lines)

IInv == TypeOK /\ Bare /\ Pinned

LEMMA EmptyIsSeq == <<>> \in Seq(Line) /\ <<>> \in Seq(Variable)
OBVIOUS

LEMMA Initially == Init => IInv
<1> SUFFICES ASSUME Init PROVE IInv
  OBVIOUS
<1>1. dotenv \in Seq(Line) \cup {Absent, Unreadable}
  BY ConstantsAssumption DEF Init
<1>2. TypeOK
  BY <1>1, EmptyIsSeq DEF Init, TypeOK, Idle, IdlePin
<1> QED BY <1>2 DEF IInv, Bare, Pinned, Init, Idle, IdlePin

LEMMA BeginKeeps ==
  ASSUME IInv, NEW e \in Environs, NEW mustToml \in BOOLEAN, NEW mustEnv \in BOOLEAN,
         Begin(e, mustToml, mustEnv)
  PROVE  IInv'
<1>1. load' = [pc |-> "looked", useToml |-> mustToml \/ toml # Absent, mustEnv |-> mustEnv,
               environ |-> e, lines |-> <<>>, fresh |-> Absent, config |-> Absent]
  BY DEF Begin, Idle
<1>2. toml' = toml /\ dotenv' = dotenv /\ pin' = pin /\ pinned' = pinned
  BY DEF Begin
<1>3. e \in Seq(Variable)
  BY ConstantsAssumption
<1> QED BY <1>1, <1>2, <1>3, EmptyIsSeq DEF IInv, TypeOK, Bare, Pinned

LEMMA ReadEnvKeeps == ASSUME IInv, ReadEnv PROVE IInv'
<1>1. toml' = toml /\ dotenv' = dotenv /\ pin' = pin /\ pinned' = pinned
  BY DEF ReadEnv
<1>2. CASE load' = [Idle EXCEPT !.pc = "failed"]
  BY <1>1, <1>2, EmptyIsSeq DEF IInv, TypeOK, Bare, Pinned, Idle
<1>3. CASE /\ dotenv # Unreadable
           /\ load' = [load EXCEPT !.pc = "merging", !.mustEnv = FALSE, !.fresh = pinned,
                                   !.lines = IF dotenv = Absent THEN <<>> ELSE dotenv]
  <2> DEFINE lines == IF dotenv = Absent THEN <<>> ELSE dotenv
  <2>1. lines \in Seq(Line) /\ (pinned # Absent => PinLine(pinned) \in Range(lines))
    BY <1>3, ConstantsAssumption, EmptyIsSeq DEF IInv, TypeOK, Pinned
  <2> HIDE DEF lines
  <2>2. load' = [pc |-> "merging", useToml |-> load.useToml, mustEnv |-> FALSE,
                 environ |-> load.environ, lines |-> lines, fresh |-> pinned,
                 config |-> load.config]
    BY <1>3 DEF IInv, Bare, lines
  <2> QED BY <1>1, <2>1, <2>2 DEF IInv, TypeOK, Bare, Pinned
<1> QED BY <1>2, <1>3 DEF ReadEnv

LEMMA MergeKeeps == ASSUME IInv, Merge PROVE IInv'
<1>1. toml' = toml /\ dotenv' = dotenv /\ pin' = pin /\ pinned' = pinned
  BY DEF Merge
<1>2. CASE load' = [Idle EXCEPT !.pc = "failed"]
  BY <1>1, <1>2, EmptyIsSeq DEF IInv, TypeOK, Bare, Pinned, Idle
<1>3. CASE load'.pc = "loaded"
  <2> DEFINE c == Build(Update(FromToml(Raw), FromEnv(Pairs)))
  <2>1. /\ load.lines \in Seq(Line) /\ load.environ \in Seq(Variable)
        /\ Pairs \in Seq(Line \cup Variable)
    BY Joined DEF IInv, TypeOK, Pairs
  <2>2. /\ TomlFits(Raw) /\ EnvFits(Pairs)
        /\ load' = [Idle EXCEPT !.pc = "loaded", !.config = c]
        /\ DOMAIN load'.config = Keys
        /\ \A k \in Keys :
              load'.config[k] =
                 IF \E n \in Configures(Pairs) : KeyOf[n] = k
                 THEN ValueOf(Pairs, Governs(Pairs, k))
                 ELSE IF k \in DOMAIN Raw THEN Coerce(k, Raw[k]) ELSE Default[k]
    BY <1>3, <2>1, MergedIs
  <2> HIDE DEF c
  <2>3. load' = [pc |-> "loaded", useToml |-> FALSE, mustEnv |-> FALSE, environ |-> <<>>,
                 lines |-> <<>>, fresh |-> Absent, config |-> c]
    BY <2>2 DEF Idle
  <2>4. ASSUME NEW k \in Keys PROVE load'.config[k] # Bad
    <3>1. CASE \E n \in Configures(Pairs) : KeyOf[n] = k
      <4>1. Governs(Pairs, k) \in Configures(Pairs)
        BY <2>1, <3>1, SomeoneGoverns
      <4> QED BY <2>2, <3>1, <4>1 DEF EnvFits
    <3>2. CASE ~ \E n \in Configures(Pairs) : KeyOf[n] = k
      BY <2>2, <3>2, DefaultsAssumption DEF TomlFits
    <3> QED BY <3>1, <3>2
  <2>5. DOMAIN c = Keys /\ \A k \in Keys : c[k] # Bad
    BY <2>2, <2>3, <2>4
  <2> QED BY <1>1, <2>3, <2>5, EmptyIsSeq DEF IInv, TypeOK, Bare, Pinned
<1> QED BY <1>2, <1>3 DEF Merge, Idle

LEMMA CheckKeeps == ASSUME IInv, NEW cmd, Check(cmd) PROVE IInv'
<1>1. toml' = toml /\ dotenv' = dotenv /\ pin' = pin /\ pinned' = pinned
  BY DEF Check
<1>2. CASE load' = [Idle EXCEPT !.pc = "failed"]
  BY <1>1, <1>2, EmptyIsSeq DEF IInv, TypeOK, Bare, Pinned, Idle
<1>3. CASE load' = [load EXCEPT !.pc = "accepted"]
  <2>1. load' = [pc |-> "accepted", useToml |-> load.useToml, mustEnv |-> load.mustEnv,
                 environ |-> load.environ, lines |-> load.lines, fresh |-> load.fresh,
                 config |-> load.config]
    BY <1>3 DEF IInv, Bare
  <2> QED BY <1>1, <2>1 DEF IInv, TypeOK, Bare, Pinned, Check
<1> QED BY <1>2, <1>3 DEF Check

LEMMA EndKeeps == ASSUME IInv, End PROVE IInv'
BY EmptyIsSeq DEF End, IInv, TypeOK, Bare, Pinned, Idle

LEMMA PinReadKeeps == ASSUME IInv, NEW d \in Digests, PinRead(d) PROVE IInv'
<1> DEFINE lines == IF dotenv = Absent THEN <<>> ELSE dotenv
<1>1. lines \in Seq(Line)
  BY ConstantsAssumption, EmptyIsSeq DEF IInv, TypeOK, PinRead
<1> HIDE DEF lines
<1>2. pin' = [pc |-> "read", digest |-> d, lines |-> WithPin(lines, d)]
  BY DEF PinRead, lines
<1>3. WithPin(lines, d) \in Seq(Line) /\ PinLine(d) \in Range(WithPin(lines, d))
  BY <1>1, WithPinIsThere
<1>4. toml' = toml /\ dotenv' = dotenv /\ load' = load /\ pinned' = pinned
  BY DEF PinRead
<1> QED BY <1>2, <1>3, <1>4 DEF IInv, TypeOK, Bare, Pinned

LEMMA PinEmptyKeeps == ASSUME IInv, PinEmpty PROVE IInv'
<1>1. toml' = toml /\ dotenv' = <<>> /\ load' = load /\ pinned' = Absent
  BY DEF PinEmpty
<1>2. pin' = [pc |-> "emptied", digest |-> pin.digest, lines |-> pin.lines] /\ pin.pc = "read"
  BY DEF PinEmpty, IInv, TypeOK
<1> QED BY <1>1, <1>2, EmptyIsSeq DEF IInv, TypeOK, Bare, Pinned

LEMMA PinWriteKeeps == ASSUME IInv, PinWrite PROVE IInv'
<1>1. /\ toml' = toml /\ dotenv' = pin.lines /\ load' = load /\ pinned' = pin.digest
      /\ pin' = IdlePin /\ pin.pc = "emptied"
  BY DEF PinWrite
<1> QED BY <1>1, EmptyIsSeq DEF IInv, TypeOK, Bare, Pinned, IdlePin

LEMMA PinDiesKeeps == ASSUME IInv, PinDies PROVE IInv'
<1>1. toml' = toml /\ load' = load /\ pinned' = pinned /\ pin' = IdlePin
  BY DEF PinDies
<1>2. CASE pin.pc = "read" /\ UNCHANGED dotenv
  BY <1>1, <1>2, EmptyIsSeq DEF IInv, TypeOK, Bare, Pinned, IdlePin
<1>3. ASSUME pin.pc = "emptied", NEW n \in 0..Len(pin.lines) - 1,
             dotenv' = SubSeq(pin.lines, 1, n)
      PROVE  IInv'
  <2>1. pin.lines \in Seq(Line)
    BY DEF IInv, TypeOK
  <2>2. dotenv' \in Seq(Line)
    BY <1>3, <2>1
  <2>3. pinned = Absent
    BY <1>3 DEF IInv, Pinned
  <2> QED BY <1>1, <2>2, <2>3, EmptyIsSeq DEF IInv, TypeOK, Bare, Pinned, IdlePin
<1> QED BY <1>2, <1>3 DEF PinDies

LEMMA EditTomlKeeps == ASSUME IInv, NEW file \in Tomls, EditToml(file) PROVE IInv'
BY DEF EditToml, IInv, TypeOK, Bare, Pinned

LEMMA EditEnvKeeps == ASSUME IInv, NEW file \in Envs, EditEnv(file) PROVE IInv'
BY ConstantsAssumption DEF EditEnv, IInv, TypeOK, Bare, Pinned

LEMMA Stutters == ASSUME IInv, UNCHANGED vars PROVE IInv'
BY DEF vars, IInv, TypeOK, Bare, Pinned

LEMMA Invariance == Spec => []IInv
<1>1. IInv /\ [Next]_vars => IInv'
  BY BeginKeeps, ReadEnvKeeps, MergeKeeps, CheckKeeps, EndKeeps, PinReadKeeps, PinEmptyKeeps,
     PinWriteKeeps, PinDiesKeeps, EditTomlKeeps, EditEnvKeeps, Stutters DEF Next
<1> QED BY <1>1, Initially, PTL DEF Spec

\* Files are lines whole or cut off, a loaded configuration has a fitting value
\* for every field, and what a pinner is about to write has its digest
\* (load_config, pin_env), whoever edits the files meanwhile.
THEOREM TypeCorrect == Spec => []TypeOK
<1>1. IInv => TypeOK
  BY DEF IInv
<1> QED BY <1>1, Invariance, PTL

-----------------------------------------------------------------------------
(* Nothing is ignored                                                      *)

LEMMA OnlyMerge ==
  ASSUME [Next]_vars, load.pc = "merging", load' # load
  PROVE  Merge
BY DEF Next, vars, Begin, ReadEnv, Check, End, PinRead, PinEmpty, PinWrite, PinDies,
       EditToml, EditEnv

\* Variables fit when those of the environment do, and those of the file that
\* the environment does not name.
LEMMA BothFit ==
  ASSUME NEW V, NEW W, NEW a \in Seq(V), NEW b \in Seq(W)
  PROVE  EnvFits(a \o b) <=> /\ \A n \in Named(b) : FitsField(b, n)
                             /\ \A n \in Named(a) \ Named(b) : FitsField(a, n)
<1>1. EnvFits(a \o b) <=> \A n \in Named(a \o b) : FitsField(a \o b, n)
  BY DEF EnvFits, Configures, ValueOf, FitsField
<1>2. Named(a \o b) = Named(a) \cup Named(b)
  BY LaterText
<1>3. ASSUME NEW n \in Named(b) PROVE FitsField(a \o b, n) <=> FitsField(b, n)
  <2>1. TextOf(a \o b, n) = TextOf(b, n)
    BY <1>3, LaterText
  <2> QED BY <2>1 DEF FitsField
<1>4. ASSUME NEW n \in Named(a) \ Named(b) PROVE FitsField(a \o b, n) <=> FitsField(a, n)
  <2>1. TextOf(a \o b, n) = TextOf(a, n)
    BY <1>4, LaterText
  <2> QED BY <2>1 DEF FitsField
<1> QED BY <1>1, <1>2, <1>3, <1>4

\* "A typo cannot silently leave a default in force" (config.py): what is read
\* is taken exactly when every entry of the file and every variable of this
\* program that is not overridden by its very name fits a field.
THEOREM NothingEverIgnored == Spec => NothingIgnored
<1> DEFINE Fits == /\ load.useToml => /\ Readable(toml)
                                      /\ \A k \in DOMAIN toml : Coerce(k, toml[k]) # Bad
                   /\ \A n \in Named(load.environ) : FitsField(load.environ, n)
                   /\ \A n \in Named(load.lines) \ Named(load.environ) :
                          FitsField(load.lines, n)
<1>1. ASSUME IInv, [Next]_vars, load.pc = "merging", load' # load
      PROVE  Merged = Fits
  <2>1. Merge
    BY <1>1, OnlyMerge
  <2>2. load.lines \in Seq(Line) /\ load.environ \in Seq(Variable)
    BY <1>1 DEF IInv, TypeOK
  <2>3. EnvFits(Pairs) <=> /\ \A n \in Named(load.environ) : FitsField(load.environ, n)
                           /\ \A n \in Named(load.lines) \ Named(load.environ) :
                                  FitsField(load.lines, n)
    BY <2>2, BothFit, Zenon DEF Pairs
  <2>4. TomlFits(Raw) <=> (load.useToml => \A k \in DOMAIN toml : Coerce(k, toml[k]) # Bad)
    BY <1>1 DEF TomlFits, Raw, IInv, TypeOK
  <2> DEFINE fits == /\ load.useToml => Readable(toml)
                     /\ TomlFits(Raw)
                     /\ EnvFits(Pairs)
             c == Build(Update(FromToml(Raw), FromEnv(Pairs)))
  <2>5. load' = IF fits THEN [Idle EXCEPT !.pc = "loaded", !.config = c]
                        ELSE [Idle EXCEPT !.pc = "failed"]
    BY <2>1, Zenon DEF Merge, Raw, Pairs
  <2> HIDE DEF c
  <2>6. fits <=> Fits
    BY <2>3, <2>4
  <2>7. (load'.pc = "loaded") <=> fits
    <3> HIDE DEF fits
    <3> QED BY <2>5 DEF Idle
  <2>8. Merged <=> Fits
    BY <1>1, <2>6, <2>7 DEF Merged
  <2> HIDE DEF Fits
  <2>9. Merged \in BOOLEAN /\ Fits \in BOOLEAN
    BY Zenon DEF Merged, Fits
  <2> QED BY <2>8, <2>9
<1>2. ASSUME IInv, [Next]_vars
      PROVE  [load.pc = "merging" /\ load' # load => Merged = Fits]_vars
  BY <1>1, <1>2, Zenon
<1> QED BY <1>2, Invariance, PTL DEF Spec, NothingIgnored

-----------------------------------------------------------------------------
(* Who has the last word                                                   *)

\* When a key has one name, its last pair is the last of that name.
LEMMA OneSpeaks ==
  ASSUME NEW V, NEW pairs \in Seq(V), NEW k, NEW n \in Spelled(pairs, k),
         \A m \in Spelled(pairs, k) : m = n
  PROVE  pairs[LastLine(pairs, k)].text = TextOf(pairs, n)
<1> DEFINE IsLast(i) == /\ KeyOf[pairs[i].name] = k
                        /\ \A j \in DOMAIN pairs : j > i => KeyOf[pairs[j].name] # k
<1>1. n \in Named(pairs) /\ KeyOf[n] = k /\ DOMAIN pairs = 1..Len(pairs) /\ Len(pairs) \in Nat
  BY DEF Spelled
<1>2. \A i \in DOMAIN pairs : KeyOf[pairs[i].name] = k <=> i \in Places(pairs, n)
  <2> SUFFICES ASSUME NEW i \in DOMAIN pairs
               PROVE  KeyOf[pairs[i].name] = k <=> i \in Places(pairs, n)
    OBVIOUS
  <2>1. pairs[i].name \in Named(pairs)
    BY DEF Named
  <2>2. ASSUME KeyOf[pairs[i].name] = k PROVE pairs[i].name = n
    BY <2>1, <2>2 DEF Spelled
  <2> QED BY <1>1, <2>2 DEF Places
<1>3. PICK i \in Places(pairs, n) : /\ \A j \in Places(pairs, n) : j <= i
                                    /\ TextOf(pairs, n) = pairs[i].text
  BY <1>1, LastPlace
<1>4. i \in DOMAIN pairs /\ IsLast(i)
  BY <1>1, <1>2, <1>3 DEF Places
<1>5. LastLine(pairs, k) = CHOOSE l \in DOMAIN pairs : IsLast(l)
  BY Zenon DEF LastLine
<1>6. ASSUME NEW l \in DOMAIN pairs, IsLast(l) PROVE l = i
  BY <1>1, <1>4, <1>6
<1> HIDE DEF IsLast
<1>7. LastLine(pairs, k) \in DOMAIN pairs /\ IsLast(LastLine(pairs, k))
  BY <1>4, <1>5
<1>8. LastLine(pairs, k) = i
  BY <1>6, <1>7
<1> QED BY <1>3, <1>8

LEMMA LoneGoverns ==
  ASSUME NEW V, NEW pairs \in Seq(V), NEW k, k # Absent, NEW n \in Spelled(pairs, k),
         \A m \in Spelled(pairs, k) : m = n
  PROVE  (\E m \in Configures(pairs) : KeyOf[m] = k) /\ Governs(pairs, k) = n
<1>1. n \in Configures(pairs) /\ KeyOf[n] = k
  BY DEF Spelled, Configures
<1>2. Governs(pairs, k) \in Configures(pairs) /\ KeyOf[Governs(pairs, k)] = k
  BY <1>1, SomeoneGoverns
<1>3. Governs(pairs, k) \in Spelled(pairs, k)
  BY <1>2 DEF Spelled, Configures
<1> QED BY <1>1, <1>3

\* The configuration that is loaded, for one key.
LEMMA KeyIsLayered ==
  ASSUME IInv, Merge, load'.pc = "loaded", NEW k \in Keys
  PROVE  Layered(k)
<1> DEFINE lines == load.lines
           environ == load.environ
<1>1. lines \in Seq(Line) /\ environ \in Seq(Variable) /\ k # Absent /\ load.useToml \in BOOLEAN
  BY DefaultsAssumption DEF IInv, TypeOK
<1>2. load'.config[k] = IF \E n \in Configures(Pairs) : KeyOf[n] = k
                        THEN ValueOf(Pairs, Governs(Pairs, k))
                        ELSE IF k \in DOMAIN Raw THEN Coerce(k, Raw[k]) ELSE Default[k]
  BY <1>1, MergedIs
<1>3. Pairs = lines \o environ /\ Pairs \in Seq(Line \cup Variable)
  BY <1>1, Joined DEF Pairs
<1>4. Named(Pairs) = Named(lines) \cup Named(environ)
  BY <1>1, <1>3, LaterText
<1>5. Spelled(Pairs, k) = Spelled(lines, k) \cup Spelled(environ, k)
  BY <1>4 DEF Spelled
<1> HIDE DEF lines, environ
\* One name in both lists: its last text counts.
<1>6. ASSUME OneSpelling(k), NEW n \in Spelled(Pairs, k)
      PROVE  load'.config[k] = ParseText(k, TextOf(Pairs, n))
  <2>1. \A m \in Spelled(Pairs, k) : m = n
    BY <1>5, <1>6 DEF OneSpelling, lines, environ
  <2>2. (\E m \in Configures(Pairs) : KeyOf[m] = k) /\ Governs(Pairs, k) = n
    BY <1>1, <1>3, <2>1, LoneGoverns
  <2>3. KeyOf[n] = k
    BY DEF Spelled
  <2> QED BY <1>2, <2>2, <2>3 DEF ValueOf
<1>7. CASE Spelled(environ, k) # {}
  <2>1. ASSUME OneSpelling(k) PROVE Says(environ, k)
    <3>1. PICK n \in Spelled(environ, k) : TRUE
      BY <1>7
    <3>2. n \in Named(environ) /\ \A m \in Spelled(environ, k) : m = n
      BY <2>1, <3>1 DEF OneSpelling, Spelled, environ
    <3>3. TextOf(Pairs, n) = TextOf(environ, n)
      BY <1>1, <1>3, <3>2, LaterText
    <3>4. environ[LastLine(environ, k)].text = TextOf(environ, n)
      BY <1>1, <3>1, <3>2, OneSpeaks
    <3> QED BY <1>5, <1>6, <2>1, <3>1, <3>3, <3>4 DEF Says
  <2> QED BY <1>7, <2>1 DEF Layered, environ
<1>8. CASE Spelled(environ, k) = {} /\ Spelled(lines, k) # {}
  <2>1. ASSUME OneSpelling(k) PROVE Says(lines, k)
    <3>1. PICK n \in Spelled(lines, k) : TRUE
      BY <1>8
    <3>2. n \in Named(lines) /\ \A m \in Spelled(lines, k) : m = n
      BY <2>1, <3>1 DEF OneSpelling, Spelled, lines
    <3>3. n \notin Named(environ)
      BY <1>8, <3>1 DEF Spelled
    <3>4. TextOf(Pairs, n) = TextOf(lines, n)
      BY <1>1, <1>3, <3>2, <3>3, LaterText
    <3>5. lines[LastLine(lines, k)].text = TextOf(lines, n)
      BY <1>1, <3>1, <3>2, OneSpeaks
    <3> QED BY <1>5, <1>6, <2>1, <3>1, <3>4, <3>5 DEF Says
  <2> QED BY <1>8, <2>1 DEF Layered, environ, lines
<1>9. CASE Spelled(environ, k) = {} /\ Spelled(lines, k) = {}
  <2>1. ~ \E n \in Configures(Pairs) : KeyOf[n] = k
    BY <1>5, <1>9 DEF Spelled, Configures
  <2>2. load'.config[k] = IF load.useToml /\ k \in DOMAIN toml THEN Coerce(k, toml[k])
                          ELSE Default[k]
    BY <1>1, <1>2, <2>1 DEF Raw
  <2> QED BY <1>9, <2>2 DEF Layered, environ, lines
<1> QED BY <1>7, <1>8, <1>9

\* "The process environment wins over the dotenv file, which wins over the
\* file, which wins over the defaults" (load_from_args), for each key that is
\* spelled one way, whatever lines and variables there are.
THEOREM LaterLayersAlwaysWin == Spec => LaterLayersWin
<1>1. ASSUME IInv, [Next]_vars, Merged PROVE \A k \in Keys : Layered(k)
  <2>1. Merge /\ load'.pc = "loaded"
    BY <1>1, OnlyMerge DEF Merged
  <2> QED BY <1>1, <2>1, KeyIsLayered
<1>2. IInv /\ [Next]_vars => [Merged => \A k \in Keys : Layered(k)]_vars
  BY <1>1, Zenon
<1> QED BY <1>2, Invariance, PTL DEF Spec, LaterLayersWin

LEMMA PinKey == "digest" \in Keys /\ KindOf["digest"] = "optional_str"
<1>1. /\ DOMAIN TimingDefault = {"tick_s", "heartbeat_s", "lease_ttl_s", "backstop_grace_s",
                                 "worker_dead_after_s", "kill_grace_s", "claim_wait_s",
                                 "client_read_timeout_s", "requeue_backoff_s",
                                 "full_sweep_every", "readyz_tick_factor", "upload_timeout_s"}
      /\ DOMAIN BlobsDefault = {"log_bytes", "input_file_bytes", "input_job_bytes",
                                "diagnostics_bytes", "deps_bytes", "compiled_bytes",
                                "result_bytes", "waveform_bytes", "coverage_bytes"}
      /\ "digest" \in DOMAIN OtherDefault
  BY DEF TimingDefault, BlobsDefault, OtherDefault
<1>2. "digest" \in Keys
  BY <1>1 DEF Keys, Default, Update
<1>3. /\ "digest" \notin Periods
      /\ "digest" \notin Counters \cup DOMAIN BlobsDefault
  BY <1>1 DEF Periods, Counters
<1> QED BY <1>2, <1>3 DEF KindOf

LEMMA PinParses == \A d \in Digests : ParseText("digest", d) = d
<1>1. \A d \in Digests : d # ""
  BY ConstantsAssumption
<1> QED BY <1>1, PinKey DEF ParseText

\* "Write the toolchain digest into .env so jobs are pinned to it" (cli/dev.py):
\* the pin that was in force when a command read the dotenv file is the digest
\* it takes, unless the environment names the key or the file has a second line
\* for it.
THEOREM PinAlwaysTakes == Spec => PinTakes
<1> DEFINE Alone == \A i, j \in DOMAIN load.lines :
                       KeyOf[load.lines[i].name] = "digest" /\ KeyOf[load.lines[j].name] = "digest"
                       => i = j
           Takes == /\ Merged /\ load.fresh # Absent
                    /\ Spelled(load.environ, "digest") = {}
                    /\ Alone
                    => load'.config.digest = load.fresh
<1>1. ASSUME IInv, [Next]_vars, Merged, load.fresh # Absent,
             Spelled(load.environ, "digest") = {}, Alone
      PROVE  load'.config.digest = load.fresh
  <2>1. Merge /\ load'.pc = "loaded" /\ load.pc = "merging"
    BY <1>1, OnlyMerge DEF Merged
  <2>2. Layered("digest")
    BY <1>1, <2>1, PinKey, KeyIsLayered
  <2>3. load.fresh \in Digests /\ PinLine(load.fresh) \in Range(load.lines)
    BY <1>1, <2>1 DEF IInv, TypeOK, Pinned
  <2>4. PICK i \in DOMAIN load.lines : load.lines[i] = PinLine(load.fresh)
    BY <2>3 DEF Range
  <2>5. KeyOf[load.lines[i].name] = "digest" /\ load.lines[i].text = load.fresh
    <3>1. load.lines[i].name = PinName /\ load.lines[i].text = load.fresh
      BY <2>4 DEF PinLine
    <3>2. KeyOf[PinName] = "digest"
      BY ConstantsAssumption
    <3> QED BY <3>1, <3>2, Zenon
  <2>6. \A j \in DOMAIN load.lines : KeyOf[load.lines[j].name] = "digest" => j = i
    BY <1>1, <2>5
  <2>7. \A n \in Spelled(load.lines, "digest") : n = load.lines[i].name
    BY <2>6 DEF Spelled, Named
  <2>8. load.lines[i].name \in Spelled(load.lines, "digest")
    BY <2>5 DEF Spelled, Named
  <2>9. OneSpelling("digest")
    BY <1>1, <2>7 DEF OneSpelling
  <2>10. Says(load.lines, "digest")
    BY <1>1, <2>2, <2>8, <2>9 DEF Layered
  <2>11. load.lines \in Seq(Line)
    BY <1>1 DEF IInv, TypeOK
  <2>12. LastLine(load.lines, "digest") = i
    <3>1. i \in DOMAIN load.lines
          /\ \A j \in DOMAIN load.lines : j > i => KeyOf[load.lines[j].name] # "digest"
      BY <2>6, <2>11
    <3> QED BY <2>5, <2>6, <3>1 DEF LastLine
  <2> QED BY <2>3, <2>5, <2>10, <2>12, PinParses DEF Says
<1> HIDE DEF Alone
<1>2. IInv /\ [Next]_vars => [Takes]_vars
  BY <1>1, Zenon
<1> QED BY <1>2, Invariance, PTL DEF Spec, PinTakes, Alone
=============================================================================
