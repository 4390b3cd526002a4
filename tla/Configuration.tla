--------------------------- MODULE Configuration ---------------------------
(* How a command comes to its configuration, and how a pin gets into the   *)
(* file it is read from: load_from_args (cli/control.py) and load_config   *)
(* (config.py) read rtlfarm.toml, a dotenv file and the process            *)
(* environment; pin_env (tools/manifest.py) rewrites the dotenv file while *)
(* others read or edit it.                                                 *)
(*                                                                         *)
(* A variable is a name and a text. A line of the dotenv file is plain     *)
(* when it begins with "NAME=", and not when `export' or a space is there; *)
(* comments, and quotes that close, are layout. A key is the last part of  *)
(* the code's dotted key, which is unique. Numbers are integers of         *)
(* seconds or bytes, and NaN for what is not finite or not a number.       *)
EXTENDS Integers, Sequences, SequencesExt

CONSTANTS
    KeyOf,       \* of a name: its key, or Absent if it has no RTLFARM_ prefix
                 \* or is one of NON_CONFIG_ENV
    Texts,
    PinName,     \* RTLFARM_TOOLCHAIN__DIGEST
    Typed,       \* of a text that is a number or JSON list: <<type, value>>
    Unclosed,    \* a text that opens a quote and does not close it
    NaN,
    Absent,      \* None; no file
    Unreadable,  \* a file that cannot be read, decoded or parsed
    Bad,         \* no value: what is given does not fit the field
    Digests,     \* what a pin may be set to
    Tomls,       \* what the configuration file may be: keys to <<type, value>>
    Envs,        \* what the dotenv file may be edited to: sequences of lines
    Environs     \* what environment a command may be started in

Names == DOMAIN KeyOf
Variable == [name : Names, text : Texts]
Line == [name : Names, text : Texts, plain : BOOLEAN]

ASSUME ConstantsAssumption ==
    /\ PinName \in Names /\ KeyOf[PinName] = "digest"
    /\ Digests \subseteq Texts
    /\ {Absent, Unclosed, Unreadable, Bad, ""} \cap Digests = {}
    /\ Environs \subseteq Seq(Variable)
    /\ Envs \subseteq Seq(Line) \cup {Absent, Unreadable}
    /\ {Absent, Unreadable} \cap Seq(Line) = {}

VARIABLES
    toml,     \* the configuration file
    dotenv,   \* the dotenv file
    load,     \* a command on its way to its configuration
    pin,      \* `rtlfarm dev pin-toolchain'
    pinned    \* the digest last pinned if nobody has edited the file since

vars == <<toml, dotenv, load, pin, pinned>>

-----------------------------------------------------------------------------
(* Fields and kinds.                                                       *)

MiB == 1024 * 1024

TimingDefault ==
    [tick_s |-> 1, heartbeat_s |-> 5, lease_ttl_s |-> 30, backstop_grace_s |-> 15,
     worker_dead_after_s |-> 90, kill_grace_s |-> 5, claim_wait_s |-> 20,
     client_read_timeout_s |-> 30, requeue_backoff_s |-> <<0, 5, 30>>,
     full_sweep_every |-> 30, readyz_tick_factor |-> 3, upload_timeout_s |-> 300]
BlobsDefault ==
    [log_bytes |-> 16 * MiB, input_file_bytes |-> 64 * MiB,
     input_job_bytes |-> 512 * MiB, diagnostics_bytes |-> 4 * MiB,
     deps_bytes |-> 4 * MiB, compiled_bytes |-> 256 * MiB, result_bytes |-> MiB,
     waveform_bytes |-> 512 * MiB, coverage_bytes |-> 64 * MiB]
OtherDefault ==
    [digest |-> Absent, client_token |-> Absent, worker_token |-> Absent,
     insecure_bind |-> FALSE, control_url |-> "http://127.0.0.1:8080",
     data_dir |-> "data"]

\* g over f: dict.update.
Update(f, g) ==
    [k \in DOMAIN f \cup DOMAIN g |-> IF k \in DOMAIN g THEN g[k] ELSE f[k]]

Default == Update(Update(TimingDefault, BlobsDefault), OtherDefault)
Keys == DOMAIN Default

\* No key is called Absent, and no default is refused.
ASSUME DefaultsAssumption == Absent \notin Keys /\ \A k \in Keys : Default[k] # Bad

Counters == {"full_sweep_every", "readyz_tick_factor"}
Periods == DOMAIN TimingDefault \ (Counters \cup {"requeue_backoff_s"})

KindOf ==
    [k \in Keys |->
        CASE k \in Periods -> "float"
          [] k = "requeue_backoff_s" -> "float_tuple"
          [] k \in Counters \cup DOMAIN BlobsDefault -> "int"
          [] k \in {"digest", "client_token", "worker_token"} -> "optional_str"
          [] k = "insecure_bind" -> "bool"
          [] OTHER -> "str"]

\* The types a typed value may have for a field of each kind.
Accepts == [bool |-> {"bool"}, int |-> {"int"}, float |-> {"int", "float"},
            str |-> {"str"}, optional_str |-> {"str"}, float_tuple |-> {"list"}]

Finite(type, v) == /\ type = "float" => v # NaN
                   /\ type = "list" => \A i \in DOMAIN v : v[i] # NaN

\* _coerce
Coerce(k, typed) ==
    IF /\ k \in Keys
       /\ typed[1] \in Accepts[KindOf[k]]
       /\ Finite(typed[1], typed[2])
    THEN typed[2] ELSE Bad

Yes == {"1", "true", "yes", "on"}
No == {"0", "false", "no", "off", ""}

ParseText(k, text) ==
    CASE k \notin Keys -> Bad
      [] KindOf[k] = "bool" /\ text \in Yes \cup No -> text \in Yes
      [] KindOf[k] = "optional_str" -> IF text = "" THEN Absent ELSE text
      [] KindOf[k] = "str" -> text
      [] KindOf[k] \in {"int", "float", "float_tuple"} /\ text \in DOMAIN Typed ->
            Coerce(k, Typed[text])
      [] OTHER -> Bad

-----------------------------------------------------------------------------
(* Layers. A dict made of pairs has the text of the last pair of a name at *)
(* the place of its first.                                                 *)

Named(pairs) == {pairs[i].name : i \in DOMAIN pairs}
\* Mutant: the first of several lines counts.
FirstTextOf(pairs, n) == pairs[SelectInSeq(pairs, LAMBDA e : e.name = n)].text
TextOf(pairs, n) == pairs[SelectLastInSeq(pairs, LAMBDA e : e.name = n)].text
PlaceOf(pairs, n) == SelectInSeq(pairs, LAMBDA e : e.name = n)

Configures(pairs) == {n \in Named(pairs) : KeyOf[n] # Absent}
ValueOf(pairs, n) == ParseText(KeyOf[n], TextOf(pairs, n))

\* Of the names of one key, the last in the dict has the last word.
Governs(pairs, k) ==
    CHOOSE n \in Configures(pairs) :
        /\ KeyOf[n] = k
        /\ \A m \in Configures(pairs) :
               KeyOf[m] = k => PlaceOf(pairs, m) <= PlaceOf(pairs, n)

FromEnv(pairs) == [k \in {KeyOf[n] : n \in Configures(pairs)} |->
                      ValueOf(pairs, Governs(pairs, k))]
FromToml(raw) == [k \in DOMAIN raw |-> Coerce(k, raw[k])]

\* Mutant: variables that name no field are passed over.
EnvFitsKnown(pairs) ==
    \A n \in Configures(pairs) : KeyOf[n] \in Keys => ValueOf(pairs, n) # Bad
EnvFits(pairs) == \A n \in Configures(pairs) : ValueOf(pairs, n) # Bad
TomlFits(raw) == \A k \in DOMAIN raw : Coerce(k, raw[k]) # Bad

Build(flat) == [k \in Keys |-> IF k \in DOMAIN flat THEN flat[k] ELSE Default[k]]

\* validate_timing, for the timeouts of a pipeline's stages if there is one.
ValidTiming(t, timeouts) ==
    /\ \A p \in Periods : t[p] > 0
    /\ \A c \in Counters : t[c] >= 1
    /\ t.requeue_backoff_s # <<>>
    /\ \A i \in DOMAIN t.requeue_backoff_s : t.requeue_backoff_s[i] >= 0
    /\ 3 * t.heartbeat_s < t.lease_ttl_s
    /\ t.heartbeat_s + t.kill_grace_s < t.lease_ttl_s
    /\ t.backstop_grace_s > t.kill_grace_s + t.heartbeat_s
    /\ t.worker_dead_after_s > t.lease_ttl_s
    /\ t.claim_wait_s + 5 <= t.client_read_timeout_s
    /\ t.tick_s <= t.heartbeat_s
    /\ \A x \in timeouts : x > 0 /\ t.kill_grace_s < x

-----------------------------------------------------------------------------
(* A command loads its configuration. `mustEnv' says that its command line *)
(* names the dotenv file, `lines' is what it has read of that, `fresh' the *)
(* pin that was in force then.                                             *)

Idle == [pc |-> "idle", useToml |-> FALSE, mustEnv |-> FALSE, environ |-> <<>>,
         lines |-> <<>>, fresh |-> Absent, config |-> Absent]

Readable(file) == file # Absent /\ file # Unreadable

\* Files that the command line names must exist; the default configuration
\* file is looked for before anything is read.
Begin(environ, mustToml, mustEnv) ==
    /\ load.pc = "idle"
    /\ load' = [Idle EXCEPT !.pc = "looked", !.environ = environ, !.mustEnv = mustEnv,
                            !.useToml = mustToml \/ toml # Absent]
    /\ UNCHANGED <<toml, dotenv, pin, pinned>>

\* A default dotenv file that is absent is empty.
ReadEnv ==
    LET missing == dotenv = Absent /\ load.mustEnv
        unclosed == Readable(dotenv) /\ \E i \in DOMAIN dotenv : dotenv[i].text = Unclosed
    IN
    /\ load.pc = "looked"
    /\ load' = IF missing \/ unclosed \/ dotenv = Unreadable
               THEN [Idle EXCEPT !.pc = "failed"]
               ELSE [load EXCEPT !.pc = "merging", !.mustEnv = FALSE, !.fresh = pinned,
                                 !.lines = IF dotenv = Absent THEN <<>> ELSE dotenv]
    /\ UNCHANGED <<toml, dotenv, pin, pinned>>

\* The environment comes after the dotenv file, and both over the
\* configuration file; the defaults are under all of them.
\* Mutant: the configuration file comes last.
MergeFileLast ==
    LET raw == IF load.useToml THEN toml ELSE <<>>
        pairs == load.lines \o load.environ
        fits == /\ load.useToml => Readable(toml)
                /\ TomlFits(raw)
                /\ EnvFits(pairs)
    IN
    /\ load.pc = "merging"
    /\ load' = IF fits
               THEN [Idle EXCEPT !.pc = "loaded",
                        !.config = Build(Update(FromEnv(pairs), FromToml(raw)))]
               ELSE [Idle EXCEPT !.pc = "failed"]
    /\ UNCHANGED <<toml, dotenv, pin, pinned>>
Merge ==
    LET raw == IF load.useToml THEN toml ELSE <<>>
        pairs == load.lines \o load.environ
        fits == /\ load.useToml => Readable(toml)
                /\ TomlFits(raw)
                /\ EnvFits(pairs)
    IN
    /\ load.pc = "merging"
    /\ load' = IF fits
               THEN [Idle EXCEPT !.pc = "loaded",
                        !.config = Build(Update(FromToml(raw), FromEnv(pairs)))]
               ELSE [Idle EXCEPT !.pc = "failed"]
    /\ UNCHANGED <<toml, dotenv, pin, pinned>>

\* `control run' goes on only with valid timing; `admin migrate' does not look.
Check(cmd) ==
    /\ load.pc = "loaded"
    /\ load' = IF cmd = "run" => ValidTiming(load.config, {})
               THEN [load EXCEPT !.pc = "accepted"] ELSE [Idle EXCEPT !.pc = "failed"]
    /\ UNCHANGED <<toml, dotenv, pin, pinned>>

End ==
    /\ load.pc \in {"accepted", "failed"}
    /\ load' = Idle
    /\ UNCHANGED <<toml, dotenv, pin, pinned>>

-----------------------------------------------------------------------------
(* pin_env: the file is read, emptied and written again.                   *)

IdlePin == [pc |-> "idle", digest |-> Absent, lines |-> <<>>]

PinLine(d) == [name |-> PinName, text |-> d, plain |-> TRUE]
IsPin(line) == line.name = PinName /\ line.plain

\* Mutant: a line that is there already is left as it is.
WithPinOnce(lines, d) ==
    IF SelectInSeq(lines, IsPin) = 0 THEN Append(lines, PinLine(d)) ELSE lines

\* The first plain line of the name is replaced, or a line added at the end.
WithPin(lines, d) ==
    LET i == SelectInSeq(lines, IsPin)
    IN  IF i = 0 THEN Append(lines, PinLine(d)) ELSE [lines EXCEPT ![i] = PinLine(d)]

PinRead(d) ==
    LET lines == IF dotenv = Absent THEN <<>> ELSE dotenv IN
    /\ pin.pc = "idle" /\ dotenv # Unreadable
    /\ pin' = [pc |-> "read", digest |-> d, lines |-> WithPin(lines, d)]
    /\ UNCHANGED <<toml, dotenv, load, pinned>>

PinEmpty ==
    /\ pin.pc = "read"
    /\ pin' = [pin EXCEPT !.pc = "emptied"]
    /\ dotenv' = <<>>
    /\ pinned' = Absent
    /\ UNCHANGED <<toml, load>>

PinWrite ==
    /\ pin.pc = "emptied"
    /\ dotenv' = pin.lines
    /\ pinned' = pin.digest
    /\ pin' = IdlePin
    /\ UNCHANGED <<toml, load>>

\* Killed, or no space: what was written of the lines stays.
PinDies ==
    /\ pin.pc \in {"read", "emptied"}
    /\ \/ pin.pc = "read" /\ UNCHANGED dotenv
       \/ /\ pin.pc = "emptied"
          /\ \E n \in 0..Len(pin.lines) - 1 : dotenv' = SubSeq(pin.lines, 1, n)
    /\ pin' = IdlePin
    /\ UNCHANGED <<toml, load, pinned>>

\* An operator saves either file.
EditToml(file) ==
    /\ toml' = file
    /\ UNCHANGED <<dotenv, load, pin, pinned>>

EditEnv(file) ==
    /\ dotenv' = file
    /\ pinned' = Absent
    /\ UNCHANGED <<toml, load, pin>>

-----------------------------------------------------------------------------

Init ==
    /\ toml \in Tomls
    /\ dotenv \in Envs
    /\ load = Idle
    /\ pin = IdlePin
    /\ pinned = Absent

Next ==
    \/ \E e \in Environs, mustToml, mustEnv \in BOOLEAN : Begin(e, mustToml, mustEnv)
    \/ ReadEnv \/ Merge \/ End
    \/ \E cmd \in {"run", "migrate"} : Check(cmd)
    \/ \E d \in Digests : PinRead(d)
    \/ PinEmpty \/ PinWrite \/ PinDies
    \/ \E file \in Tomls : EditToml(file)
    \/ \E file \in Envs : EditEnv(file)

Spec == Init /\ [][Next]_vars

-----------------------------------------------------------------------------
(* Properties.                                                             *)

\* Files are read whole or as they were cut off, but always lines. A loaded
\* configuration has a value for each field, none of them Bad; the pinner's
\* lines have its digest.
TypeOK ==
    /\ toml \in Tomls /\ dotenv \in Seq(Line) \cup {Absent, Unreadable}
    /\ load.pc \in {"idle", "looked", "merging", "loaded", "accepted", "failed"}
    /\ load.useToml \in BOOLEAN /\ load.mustEnv \in BOOLEAN
    /\ load.environ \in Seq(Variable) /\ load.lines \in Seq(Line)
    /\ load.fresh \in Digests \cup {Absent}
    /\ load.pc \in {"loaded", "accepted"} =>
           DOMAIN load.config = Keys /\ \A k \in Keys : load.config[k] # Bad
    /\ pin \in [pc : {"idle", "read", "emptied"}, digest : Digests \cup {Absent},
               lines : Seq(Line)]
    /\ pin.pc # "idle" => PinLine(pin.digest) \in Range(pin.lines)
    /\ pinned \in Digests \cup {Absent}

\* All variables of the key are spelled alike, so that layers can be told apart.
Spelled(pairs, k) == {n \in Named(pairs) : KeyOf[n] = k}
OneSpelling(k) == \A n, m \in Spelled(load.lines, k) \cup Spelled(load.environ, k) : n = m

\* "The process environment wins over the dotenv file, which wins over the
\* file, which wins over the defaults" (load_from_args), key by key, for the
\* dotenv file as it was read and the configuration file as it is read now; in
\* the dotenv file the last line of a name counts.
LastLine(pairs, k) ==
    CHOOSE i \in DOMAIN pairs :
        /\ KeyOf[pairs[i].name] = k
        /\ \A j \in DOMAIN pairs : j > i => KeyOf[pairs[j].name] # k
Says(pairs, k) == load'.config[k] = ParseText(k, pairs[LastLine(pairs, k)].text)
Layered(k) ==
    CASE Spelled(load.environ, k) # {} -> OneSpelling(k) => Says(load.environ, k)
      [] Spelled(load.environ, k) = {} /\ Spelled(load.lines, k) # {} ->
            OneSpelling(k) => Says(load.lines, k)
      [] OTHER -> load'.config[k] =
            IF load.useToml /\ k \in DOMAIN toml THEN Coerce(k, toml[k]) ELSE Default[k]
Merged == load.pc = "merging" /\ load'.pc = "loaded"
LaterLayersWin ==
    [][Merged => \A k \in Keys : Layered(k)]_vars

\* "A typo cannot silently leave a default in force" (config.py): what is read
\* is taken exactly when every variable of this program and every entry of the
\* file names a field and fits it, though another layer may override it. Only a
\* line of the dotenv file whose very name is in the environment is not looked
\* at.
FitsField(pairs, n) ==
    KeyOf[n] # Absent => ParseText(KeyOf[n], TextOf(pairs, n)) # Bad
NothingIgnored ==
    [][load.pc = "merging" /\ load' # load => (Merged =
          /\ load.useToml => /\ Readable(toml)
                             /\ \A k \in DOMAIN toml : Coerce(k, toml[k]) # Bad
          /\ \A n \in Named(load.environ) : FitsField(load.environ, n)
          /\ \A n \in Named(load.lines) \ Named(load.environ) :
                 FitsField(load.lines, n))]_vars

\* "Write the toolchain digest into .env so jobs are pinned to it" (cli/dev.py):
\* once a pin is written, whoever loads next takes it, whatever the file held
\* and whoever edited it while the pin was under way, unless the environment
\* names the key or the file has a second line for it.
PinTakes ==
    [][ /\ Merged /\ load.fresh # Absent
        /\ Spelled(load.environ, "digest") = {}
        /\ \A i, j \in DOMAIN load.lines :
               KeyOf[load.lines[i].name] = "digest" /\ KeyOf[load.lines[j].name] = "digest"
               => i = j
        => load'.config.digest = load.fresh]_vars
=============================================================================
