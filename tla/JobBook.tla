------------------------------ MODULE JobBook ------------------------------
(***************************************************************************)
(* What POST /v1/jobs promises its clients: a job, once entered, stays; an *)
(* Idempotency-Key names one job at most; a repeated submission of the     *)
(* same work under its key is answered with that job, other work under the *)
(* key is a conflict, and a conflict is answered for no other reason.      *)
(* Submission implements this specification.                               *)
(***************************************************************************)
CONSTANTS Requests, Jobs, Keys, Works,
          Absent      \* no key, no job

VARIABLES book,       \* per job: the key and the work it was entered with
          asked,      \* per request: the key and work being submitted
          decided,    \* per request: the verdict committed but not yet sent
          answer      \* per request: what its client last saw

vars == <<book, asked, decided, answer>>

Nothing == [code |-> "none", job |-> Absent]
Verdict(code, j) == [code |-> code, job |-> j]
Refusals == {"409 missing", "413", "422", "500", "lost"}

Entered(k) == {j \in Jobs : book[j] # Absent /\ k # Absent /\ book[j].key = k}

Init == /\ book = [j \in Jobs |-> Absent]
        /\ asked = [r \in Requests |-> Absent]
        /\ decided = [r \in Requests |-> Nothing]
        /\ answer = [r \in Requests |-> Nothing]

Ask(r) ==
    /\ decided[r] = Nothing
    /\ \E k \in Keys \cup {Absent}, w \in Works :
          asked' = [asked EXCEPT ![r] = [key |-> k, work |-> w]]
    /\ answer' = [answer EXCEPT ![r] = Nothing]
    /\ UNCHANGED <<book, decided>>

Open(r) == asked[r] # Absent /\ decided[r] = Nothing /\ answer[r] = Nothing

Enter(r, j) ==
    /\ Open(r) /\ book[j] = Absent /\ Entered(asked[r].key) = {}
    /\ book' = [book EXCEPT ![j] = asked[r]]
    /\ decided' = [decided EXCEPT ![r] = Verdict("201", j)]
    /\ UNCHANGED <<asked, answer>>

Repeat(r, j) ==
    /\ Open(r) /\ j \in Entered(asked[r].key) /\ book[j] = asked[r]
    /\ decided' = [decided EXCEPT ![r] = Verdict("200", j)]
    /\ UNCHANGED <<book, asked, answer>>

Conflict(r, j) ==
    /\ Open(r) /\ j \in Entered(asked[r].key) /\ book[j] # asked[r]
    /\ answer' = [answer EXCEPT ![r] = Verdict("409 conflict", Absent)]
    /\ UNCHANGED <<book, asked, decided>>

Refuse(r) ==
    /\ decided[r] = Nothing
    /\ \E code \in Refusals : answer' = [answer EXCEPT ![r] = Verdict(code, Absent)]
    /\ UNCHANGED <<book, asked, decided>>

Tell(r) == /\ decided[r] # Nothing
           /\ answer' = [answer EXCEPT ![r] = decided[r]]
           /\ decided' = [decided EXCEPT ![r] = Nothing]
           /\ UNCHANGED <<book, asked>>

Lose(R) ==
    /\ answer' = [r \in Requests |-> IF r \in R THEN Verdict("lost", Absent) ELSE answer[r]]
    /\ decided' = [r \in Requests |-> IF r \in R THEN Nothing ELSE decided[r]]
    /\ UNCHANGED <<book, asked>>

Next == \/ \E r \in Requests : Ask(r) \/ Refuse(r) \/ Tell(r)
        \/ \E r \in Requests, j \in Jobs : Enter(r, j) \/ Repeat(r, j) \/ Conflict(r, j)
        \/ \E R \in SUBSET Requests : Lose(R)

Spec == Init /\ [][Next]_vars

-----------------------------------------------------------------------------
\* A key names one job at most.
OneJobPerKey == \A k \in Keys, i, j \in Jobs :
                    i \in Entered(k) /\ j \in Entered(k) => i = j
=============================================================================
