---------------------------- MODULE BlobPromise ----------------------------
(***************************************************************************)
(* What POST /v1/blobs promises its clients, without files, processes or   *)
(* transactions: a digest becomes known once and stays known; exactly the  *)
(* request that made it known may answer 201, every later one answers 200; *)
(* a refused or lost request never makes a digest unknown again.           *)
(* BlobUpload implements this specification.                               *)
(***************************************************************************)
CONSTANTS Requests,   \* the uploads clients may have in flight
          Digests     \* the digests clients claim

VARIABLES known,      \* the digests the control plane has recorded
          decided,    \* per request: the verdict committed but not yet sent
          answer      \* per request: what its client last saw

vars == <<known, decided, answer>>

Refusals == {"400", "413", "422", "500", "lost"}

Init == /\ known = {}
        /\ decided = [r \in Requests |-> "none"]
        /\ answer = [r \in Requests |-> "none"]

Ask(r) == /\ decided[r] = "none"
          /\ answer' = [answer EXCEPT ![r] = "none"]
          /\ UNCHANGED <<known, decided>>

Record(r, d) ==
    /\ decided[r] = "none"
    /\ answer[r] = "none"
    /\ decided' = [decided EXCEPT ![r] = IF d \in known THEN "existing"
                                                         ELSE "created"]
    /\ known' = known \cup {d}
    /\ UNCHANGED answer

Tell(r) == /\ decided[r] # "none"
           /\ answer' = [answer EXCEPT ![r] = IF decided[r] = "created"
                                              THEN "201" ELSE "200"]
           /\ decided' = [decided EXCEPT ![r] = "none"]
           /\ UNCHANGED known

Refuse(r) == /\ decided[r] = "none"
             /\ \E code \in Refusals : answer' = [answer EXCEPT ![r] = code]
             /\ UNCHANGED <<known, decided>>

Lose(R) == /\ answer' = [r \in Requests |-> IF r \in R THEN "lost" ELSE answer[r]]
           /\ decided' = [r \in Requests |-> IF r \in R THEN "none" ELSE decided[r]]
           /\ UNCHANGED known

Next == \/ \E r \in Requests : Ask(r) \/ Tell(r) \/ Refuse(r)
        \/ \E r \in Requests, d \in Digests : Record(r, d)
        \/ \E R \in SUBSET Requests : Lose(R)

Spec == Init /\ [][Next]_vars
=============================================================================
