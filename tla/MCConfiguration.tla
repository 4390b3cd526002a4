-------------------------- MODULE MCConfiguration --------------------------
(* Small instances of Configuration for TLC.                               *)
EXTENDS Configuration, TLC

PIN == "RTLFARM_TOOLCHAIN__DIGEST"
TOKEN == "RTLFARM_CLIENT_TOKEN"
BEAT == "RTLFARM_TIMING__HEARTBEAT_S"

\* Two spellings of one key, a misspelled key, a process switch, and another
\* program's variable.
MCKeyOf ==
    (PIN :> "digest") @@ ("RTLFARM_TOOLCHAIN__digest" :> "digest")
    @@ (TOKEN :> "client_token") @@ (BEAT :> "heartbeat_s")
    @@ ("RTLFARM_INSECURE_BIND" :> "insecure_bind")
    @@ ("RTLFARM_TIMING__REQUEUE_BACKOFF_S" :> "requeue_backoff_s")
    @@ ("RTLFARM_HARTBEAT_S" :> "hartbeat_s")
    @@ ("RTLFARM_TEST_HOOKS" :> Absent) @@ ("PATH" :> Absent)

MCTyped == ("8" :> <<"int", 8>>) @@ ("nan" :> <<"float", NaN>>)
           @@ ("[0, 5]" :> <<"list", <<0, 5>>>>) @@ ("[nan]" :> <<"list", <<NaN>>>>)

Var(name, text) == [name |-> name, text |-> text]
Plain(name, text) == [name |-> name, text |-> text, plain |-> TRUE]
Exported(name, text) == [name |-> name, text |-> text, plain |-> FALSE]

MCEnvirons ==
    {<<Var("PATH", "x")>>,
     <<Var(TOKEN, ""), Var(PIN, "d0")>>,
     <<Var(BEAT, "8"), Var("RTLFARM_TEST_HOOKS", "1")>>,
     <<Var("RTLFARM_TOOLCHAIN__digest", "d0"), Var("RTLFARM_INSECURE_BIND", "on"),
       Var("RTLFARM_TIMING__REQUEUE_BACKOFF_S", "[0, 5]")>>,
     <<Var("RTLFARM_HARTBEAT_S", "8")>>,
     <<Var("RTLFARM_INSECURE_BIND", "maybe")>>}

MCEnvs ==
    {Absent, Unreadable,
     <<Plain(TOKEN, "t1"), Plain(PIN, "d0"), Plain(TOKEN, "t2")>>,
     <<Exported(PIN, "d0"), Plain(TOKEN, "t1")>>,
     <<Plain("RTLFARM_TOOLCHAIN__digest", "d9"), Plain(BEAT, "nan")>>,
     <<Plain("PATH", Unclosed)>>,
     <<Plain("RTLFARM_TIMING__REQUEUE_BACKOFF_S", "[nan]")>>}

\* All the texts there are in the files and environments below, and the pin.
MCTexts == {"", "1", "8", "x", "t1", "t2", "d0", "d1", "d9", "on", "maybe", "nan",
            "[0, 5]", "[nan]", Unclosed}

Entry(k, type, v) == k :> <<type, v>>
MCTomls ==
    {Absent, Unreadable,
     Entry("heartbeat_s", "int", 12) @@ Entry("digest", "str", "d8"),
     Entry("heartbeat_s", "float", NaN),
     Entry("client_token", "str", "") @@ Entry("requeue_backoff_s", "list", <<>>),
     Entry("insecure_bind", "int", 1) @@ Entry("tick", "int", 1)}
=============================================================================
