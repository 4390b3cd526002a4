-------------------------- MODULE BlobUploadProofs --------------------------
(***************************************************************************)
(* Proofs about BlobUpload for any number of requests, processes, names    *)
(* and blobs.                                                              *)
(***************************************************************************)
EXTENDS BlobUpload, TLAPS

\* A request in its handler has everything the handler works on, its process
\* serves, and its client has no answer yet.
Owned == \A r \in Requests :
    /\ pc[r] = "idle" => proc[r] = Absent /\ held[r] = Absent
    /\ pc[r] # "idle" => /\ proc[r] \in Procs /\ mode[proc[r]] = "up"
                         /\ claim[r] \in Digests
                         /\ kind[r] \in Kinds
                         /\ held[r] \in TmpNames
                         /\ answer[r] = "none"

\* A name in tmp/ belongs to one request at most.
NamesUnique == \A r, s \in Requests :
    held[r] = held[s] /\ held[r] # Absent => r = s

\* While its name stands, the temporary file has the bytes that were hashed;
\* once the request is past the store, the file is gone.
TmpMatches == \A r \in Requests :
    /\ pc[r] # "idle" /\ tmp[held[r]] # Absent => tmp[held[r]].bytes = got[r]
    /\ pc[r] \in {"row", "created", "existing"} => tmp[held[r]] = Absent

\* Past the digest check the body is the claimed one; past the store the file
\* is in place; past the transaction the row is there.
Progress == \A r \in Requests :
    /\ pc[r] \in Active \ {"stream"} => Sha256(got[r]) = claim[r]
    /\ pc[r] \in {"dedupe", "row", "created", "existing"} => final[claim[r]] # Absent
    /\ pc[r] \in {"created", "existing"} => rows[claim[r]] # Absent

RowsMatch == \A d \in Digests :
    rows[d] # Absent => final[d] # Absent /\ rows[d] = Len(final[d])

Answered == \A r \in Requests : answer[r] \in {"200", "201"} =>
    claim[r] \in Digests /\ rows[claim[r]] # Absent

\* An active request has lost its file before its time, and to a sweep of
\* another process, or nothing has befallen it.
Befallen == \A r \in Requests :
    /\ pc[r] \in {"stream", "exists", "dedupe", "place"} =>
          befell[r] = IF tmp[held[r]] = Absent THEN "foreign" ELSE "nothing"
    /\ pc[r] \in {"row", "created", "existing"} => befell[r] = "nothing"

IInv == /\ TypeOK /\ Owned /\ NamesUnique /\ TmpMatches /\ Progress
        /\ FilesAreWhole /\ RowsMatch /\ Answered /\ NoDebris
        /\ Befallen /\ AnswersAreExplained
-----------------------------------------------------------------------------
(* Proof that IInv is inductive: one lemma per action. *)

LEMMA InitIInv == Init => IInv
<1>1. Init => TypeOK
  BY ConstantsAssumption DEF Init, TypeOK, NoSweep, SweepState, Fates
<1>2. Init => Owned /\ NamesUnique /\ TmpMatches /\ Progress /\ Answered /\ NoDebris
  BY DEF Init, Owned, NamesUnique, TmpMatches, Progress, Answered, NoDebris, Active
<1>3. Init => FilesAreWhole /\ RowsMatch
  BY DEF Init, FilesAreWhole, RowsMatch
<1>4. Init => Befallen /\ AnswersAreExplained
  BY DEF Init, Befallen, AnswersAreExplained
<1> QED BY <1>1, <1>2, <1>3, <1>4 DEF IInv

\* An exception out of ingest is the same step whoever raises it.
LEMMA RaiseStep ==
  ASSUME IInv, NEW r \in Requests, pc[r] \in {"stream", "exists", "dedupe", "place"},
         NEW code \in {"400", "413", "500", "lost"}, NEW fate \in {"failure", befell[r]},
         Raise(r, code, fate), code = "500" => fate # "nothing"
  PROVE  IInv'
<1> USE ConstantsAssumption DEF IInv, Raise, End, Cleaned
<1>0. fate \in Fates
  BY DEF TypeOK, Fates
<1>1. TypeOK'
  BY <1>0 DEF TypeOK, Owned, Active, Codes
<1>2. (Owned /\ NamesUnique)'
  BY DEF TypeOK, Owned, NamesUnique, Active
<1>3. (TmpMatches /\ Progress)'
  BY DEF TypeOK, Owned, NamesUnique, TmpMatches, Progress, TmpFile, Active
<1>4. (FilesAreWhole /\ RowsMatch)'
  BY DEF TypeOK, Owned, TmpMatches, Progress, FilesAreWhole, RowsMatch, Active
<1>5. (Answered /\ NoDebris)'
  BY DEF TypeOK, Owned, NamesUnique, TmpMatches, Progress, Answered, NoDebris, Active
<1>10. (Befallen /\ AnswersAreExplained)'
  BY DEF TypeOK, TmpFile, Owned, NamesUnique, TmpMatches, Befallen, AnswersAreExplained, Active
<1> QED BY <1>1, <1>2, <1>3, <1>4, <1>5, <1>10

LEMMA RejectStep ==
  ASSUME IInv, NEW r \in Requests, NEW p \in Procs, Reject(r, p)
  PROVE  IInv'
<1> USE ConstantsAssumption DEF IInv, Reject, disk, process
<1>1. TypeOK'
  BY DEF TypeOK, Fates, Codes
<1>2. (Owned /\ NamesUnique)'
  BY DEF TypeOK, Owned, NamesUnique, Active
<1>3. (TmpMatches /\ Progress)'
  BY DEF TypeOK, Owned, NamesUnique, TmpMatches, Progress, TmpFile, Active
<1>4. (FilesAreWhole /\ RowsMatch)'
  BY DEF TypeOK, Owned, TmpMatches, Progress, FilesAreWhole, RowsMatch, Active
<1>5. (Answered /\ NoDebris)'
  BY DEF TypeOK, Owned, NamesUnique, TmpMatches, Progress, Answered, NoDebris, Active
<1>10. (Befallen /\ AnswersAreExplained)'
  BY DEF TypeOK, TmpFile, Owned, NamesUnique, TmpMatches, Befallen, AnswersAreExplained, Active
<1> QED BY <1>1, <1>2, <1>3, <1>4, <1>5, <1>10

LEMMA BeginStep ==
  ASSUME IInv, NEW r \in Requests, NEW p \in Procs, NEW d \in Digests, NEW k \in Kinds,
         NEW n \in TmpNames, Begin(r, p, d, k, n)
  PROVE  IInv'
<1> USE ConstantsAssumption DEF IInv, Begin, Fresh, process
<1>1. TypeOK'
  BY DEF TypeOK, Fates, TmpFile, Active
<1>2. (Owned /\ NamesUnique)'
  BY DEF TypeOK, Owned, NamesUnique, Active
<1>3. (TmpMatches /\ Progress)'
  BY DEF TypeOK, Owned, NamesUnique, TmpMatches, Progress, TmpFile, Active
<1>4. (FilesAreWhole /\ RowsMatch)'
  BY DEF TypeOK, Owned, TmpMatches, Progress, FilesAreWhole, RowsMatch, Active
<1>5. (Answered /\ NoDebris)'
  BY DEF TypeOK, Owned, NamesUnique, TmpMatches, Progress, Answered, NoDebris, Active
<1>10. (Befallen /\ AnswersAreExplained)'
  <2>1. tmp'[n] # Absent /\ \A m \in TmpNames : m # n => tmp'[m] = tmp[m]
    <3>1. [bytes |-> <<>>, old |-> FALSE] \in TmpFile
      BY DEF TmpFile
    <3> QED BY <3>1 DEF TypeOK
  <2>2. \A s \in Requests \ {r} : held'[s] = held[s] /\ held[s] # n
    BY DEF TypeOK
  <2> QED BY <2>1, <2>2 DEF TypeOK, Owned, Befallen, AnswersAreExplained, Active
<1> QED BY <1>1, <1>2, <1>3, <1>4, <1>5, <1>10

LEMMA ChunkStep ==
  ASSUME IInv, NEW r \in Requests, NEW c \in Chunks, Chunk(r, c)
  PROVE  IInv'
<1>1. CASE Len(Append(got[r], c)) > Cap[kind[r]]
  BY <1>1, RaiseStep DEF Chunk, Resumable
<1>2. CASE ~(Len(Append(got[r], c)) > Cap[kind[r]])
  <2>1. PICK flushed \in BOOLEAN : tmp' = Written(held[r], c, flushed)
    BY <1>2 DEF Chunk
  <2>2. /\ pc[r] = "stream" /\ got' = [got EXCEPT ![r] = Append(@, c)]
        /\ UNCHANGED <<pc, proc, claim, kind, held, answer, befell>>
        /\ UNCHANGED <<final, rows, died, process>>
    BY <1>2 DEF Chunk, Resumable
  <2> USE ConstantsAssumption, <2>1, <2>2 DEF IInv, Written, process
  <2>3. TypeOK'
    BY DEF TypeOK, Fates, Owned, TmpFile, Active
  <2>4. (Owned /\ NamesUnique)'
    BY DEF TypeOK, Owned, NamesUnique, Active
  <2>5. (TmpMatches /\ Progress)'
    BY DEF TypeOK, Owned, NamesUnique, TmpMatches, Progress, TmpFile, Active
  <2>6. (FilesAreWhole /\ RowsMatch)'
    BY DEF TypeOK, Owned, TmpMatches, Progress, FilesAreWhole, RowsMatch, Active
  <2>7. (Answered /\ NoDebris)'
    BY DEF TypeOK, Owned, NamesUnique, TmpMatches, Progress, Answered, NoDebris, Active
  <2>10. (Befallen /\ AnswersAreExplained)'
    <3>0. held[r] \in TmpNames
      BY DEF Owned
    <3>1. tmp'[held[r]] # Absent <=> tmp[held[r]] # Absent
      <4>1. CASE tmp[held[r]] = Absent
        BY <4>1
      <4>2. CASE tmp[held[r]] # Absent
        <5>1. tmp'[held[r]] = [bytes |-> Append(tmp[held[r]].bytes, c),
                               old |-> tmp[held[r]].old /\ ~flushed]
          BY <3>0, <4>2 DEF TypeOK
        <5>2. Append(tmp[held[r]].bytes, c) \in Seq(Chunks) /\ tmp[held[r]].old \in BOOLEAN
          BY <3>0, <4>2 DEF TypeOK, TmpFile
        <5>3. tmp'[held[r]] \in TmpFile
          BY <5>1, <5>2 DEF TmpFile
        <5> QED BY <4>2, <5>3
      <4> QED BY <4>1, <4>2
    <3>2. \A s \in Requests \ {r} : held[s] # held[r]
      BY DEF Owned, NamesUnique, TypeOK, Active
    <3>3. \A n \in TmpNames : n # held[r] => tmp'[n] = tmp[n]
      BY DEF TypeOK
    <3> QED BY <3>1, <3>2, <3>3 DEF TypeOK, Owned, Befallen, AnswersAreExplained, Active
  <2> QED BY <2>3, <2>4, <2>5, <2>6, <2>7, <2>10
<1> QED BY <1>1, <1>2

LEMMA EndOfStreamStep ==
  ASSUME IInv, NEW r \in Requests, EndOfStream(r)
  PROVE  IInv'
<1>1. CASE ~Matches(r)
  BY <1>1, RaiseStep DEF EndOfStream, Resumable
<1>2. CASE ~(~Matches(r))
  <2>1. PICK flushed \in BOOLEAN : tmp' = Closed(held[r], flushed)
    BY <1>2 DEF EndOfStream
  <2>2. /\ Step(r, "stream", "exists")
        /\ current' = [current EXCEPT ![proc[r]] = r]
        /\ UNCHANGED <<final, rows, died, mode, sweep>>
    BY <1>2 DEF EndOfStream
  <2> USE ConstantsAssumption, <1>2, <2>1, <2>2 DEF IInv, Closed, Step, Matches
  <2>3. ASSUME NEW f \in TmpFile, NEW b \in BOOLEAN
        PROVE  [f EXCEPT !.old = b] \in TmpFile
    BY ONLY <2>3 DEF TmpFile
  <2>4. tmp' \in [TmpNames -> TmpFile \cup {Absent}]
    <3>1. CASE tmp[held[r]] = Absent
      BY <3>1 DEF TypeOK
    <3>2. CASE tmp[held[r]] # Absent
      <4>1. tmp[held[r]] \in TmpFile
        BY <3>2 DEF TypeOK, Owned
      <4>2. [tmp[held[r]] EXCEPT !.old = @ /\ ~flushed] \in TmpFile
        BY <4>1, <2>3 DEF TmpFile
      <4> QED BY <3>2, <4>2 DEF TypeOK
    <3> QED BY <3>1, <3>2
  <2>5. TypeOK'
    BY <2>4 DEF TypeOK, Fates, Owned, Active
  <2>6. (Owned /\ NamesUnique)'
    BY DEF TypeOK, Owned, NamesUnique, Active
  <2>7. (TmpMatches /\ Progress)'
    BY DEF TypeOK, Owned, NamesUnique, TmpMatches, Progress, TmpFile, Active
  <2>8. (FilesAreWhole /\ RowsMatch)'
    BY DEF TypeOK, Owned, TmpMatches, Progress, FilesAreWhole, RowsMatch, Active
  <2>9. (Answered /\ NoDebris)'
    BY DEF TypeOK, Owned, NamesUnique, TmpMatches, Progress, Answered, NoDebris, Active
  <2>10. (Befallen /\ AnswersAreExplained)'
    <3>0. held[r] \in TmpNames
      BY DEF Owned
    <3>1. tmp'[held[r]] # Absent <=> tmp[held[r]] # Absent
      <4>1. CASE tmp[held[r]] = Absent
        BY <4>1
      <4>2. CASE tmp[held[r]] # Absent
        <5>1. PICK b \in BOOLEAN : tmp'[held[r]] = [tmp[held[r]] EXCEPT !.old = b]
          BY <3>0, <4>2 DEF TypeOK, TmpFile
        <5>2. tmp[held[r]] \in TmpFile
          BY <3>0, <4>2 DEF TypeOK
        <5> QED BY <2>3, <4>2, <5>1, <5>2
      <4> QED BY <4>1, <4>2
    <3>2. \A s \in Requests \ {r} : held[s] # held[r]
      BY DEF Owned, NamesUnique, TypeOK, Active
    <3>3. \A n \in TmpNames : n # held[r] => tmp'[n] = tmp[n]
      BY DEF TypeOK
    <3> QED BY <3>1, <3>2, <3>3 DEF TypeOK, Owned, Befallen, AnswersAreExplained, Active
  <2> QED BY <2>5, <2>6, <2>7, <2>8, <2>9, <2>10
<1> QED BY <1>1, <1>2

LEMMA AbortStep ==
  ASSUME IInv, NEW r \in Requests, Abort(r)
  PROVE  IInv'
BY RaiseStep DEF Abort, Resumable

LEMMA RenameFailsStep ==
  ASSUME IInv, NEW r \in Requests, RenameFails(r)
  PROVE  IInv'
BY RaiseStep DEF RenameFails

LEMMA FindFinalStep ==
  ASSUME IInv, NEW r \in Requests, FindFinal(r)
  PROVE  IInv'
<1> USE ConstantsAssumption DEF IInv, FindFinal, Found, Step, disk, process
<1>1. TypeOK'
  BY DEF TypeOK, Fates, Active
<1>2. (Owned /\ NamesUnique)'
  BY DEF TypeOK, Owned, NamesUnique, Active
<1>3. (TmpMatches /\ Progress)'
  BY DEF TypeOK, Owned, NamesUnique, TmpMatches, Progress, TmpFile, Active
<1>4. (FilesAreWhole /\ RowsMatch)'
  BY DEF TypeOK, Owned, TmpMatches, Progress, FilesAreWhole, RowsMatch, Active
<1>5. (Answered /\ NoDebris)'
  BY DEF TypeOK, Owned, NamesUnique, TmpMatches, Progress, Answered, NoDebris, Active
<1>10. (Befallen /\ AnswersAreExplained)'
  BY DEF TypeOK, TmpFile, Owned, NamesUnique, TmpMatches, Befallen, AnswersAreExplained, Active
<1> QED BY <1>1, <1>2, <1>3, <1>4, <1>5, <1>10

LEMMA DropTmpStep ==
  ASSUME IInv, NEW r \in Requests, DropTmp(r)
  PROVE  IInv'
<1>1. CASE tmp[held[r]] = Absent
  BY <1>1, RaiseStep DEF DropTmp, IInv, Befallen
<1>2. CASE ~(tmp[held[r]] = Absent)
  <2>1. /\ Step(r, "dedupe", "row")
        /\ tmp' = [tmp EXCEPT ![held[r]] = Absent]
        /\ UNCHANGED <<final, rows, died, process>>
    BY <1>2 DEF DropTmp
  <2> USE ConstantsAssumption, <2>1 DEF IInv, Step, process
  <2>3. TypeOK'
    BY DEF TypeOK, Fates, Active
  <2>4. (Owned /\ NamesUnique)'
    BY DEF TypeOK, Owned, NamesUnique, Active
  <2>5. (TmpMatches /\ Progress)'
    BY DEF TypeOK, Owned, NamesUnique, TmpMatches, Progress, TmpFile, Active
  <2>6. (FilesAreWhole /\ RowsMatch)'
    BY DEF TypeOK, Owned, TmpMatches, Progress, FilesAreWhole, RowsMatch, Active
  <2>7. (Answered /\ NoDebris)'
    BY DEF TypeOK, Owned, NamesUnique, TmpMatches, Progress, Answered, NoDebris, Active
  <2>10. (Befallen /\ AnswersAreExplained)'
    <3>1. \A s \in Requests \ {r} : held[s] # held[r] /\ pc'[s] = pc[s]
      BY DEF Owned, NamesUnique, TypeOK, Active
    <3>2. \A n \in TmpNames : n # held[r] => tmp'[n] = tmp[n]
      BY DEF TypeOK
    <3>3. pc'[r] = "row" /\ befell[r] = "nothing"
      BY <1>2 DEF TypeOK, Befallen
    <3> QED BY <3>1, <3>2, <3>3 DEF TypeOK, Owned, Befallen, AnswersAreExplained, Active
  <2> QED BY <2>3, <2>4, <2>5, <2>6, <2>7, <2>10
<1> QED BY <1>1, <1>2

LEMMA RenameStep ==
  ASSUME IInv, NEW r \in Requests, Rename(r)
  PROVE  IInv'
<1>1. CASE tmp[held[r]] = Absent
  BY <1>1, RaiseStep DEF Rename, IInv, Befallen
<1>2. CASE ~(tmp[held[r]] = Absent)
  <2>1. /\ Step(r, "place", "row")
        /\ final' = [final EXCEPT ![claim[r]] = tmp[held[r]].bytes]
        /\ tmp' = [tmp EXCEPT ![held[r]] = Absent]
        /\ UNCHANGED <<rows, died, process>>
    BY <1>2 DEF Rename
  <2>2. claim[r] \in Digests /\ held[r] \in TmpNames
        /\ tmp[held[r]].bytes = got[r] /\ Sha256(got[r]) = claim[r]
    BY <1>2, <2>1 DEF IInv, Owned, TmpMatches, Progress, Step, Active
  <2> USE ConstantsAssumption, <2>1, <2>2 DEF IInv, Step, process
  <2>3. TypeOK'
    BY DEF TypeOK, Fates, Active
  <2>4. (Owned /\ NamesUnique)'
    BY DEF TypeOK, Owned, NamesUnique, Active
  <2>5. (TmpMatches /\ Progress)'
    BY DEF TypeOK, Owned, NamesUnique, TmpMatches, Progress, TmpFile, Active
  <2>6. (FilesAreWhole /\ RowsMatch)'
    BY DEF TypeOK, FilesAreWhole, RowsMatch, Sha256
  <2>7. (Answered /\ NoDebris)'
    BY DEF TypeOK, Owned, NamesUnique, TmpMatches, Progress, Answered, NoDebris, Active
  <2>10. (Befallen /\ AnswersAreExplained)'
    <3>1. \A s \in Requests \ {r} : held[s] # held[r] /\ pc'[s] = pc[s]
      BY DEF Owned, NamesUnique, TypeOK, Active
    <3>2. \A n \in TmpNames : n # held[r] => tmp'[n] = tmp[n]
      BY DEF TypeOK
    <3>3. pc'[r] = "row" /\ befell[r] = "nothing"
      BY <1>2 DEF TypeOK, Befallen
    <3> QED BY <3>1, <3>2, <3>3 DEF TypeOK, Owned, Befallen, AnswersAreExplained, Active
  <2> QED BY <2>3, <2>4, <2>5, <2>6, <2>7, <2>10
<1> QED BY <1>1, <1>2

LEMMA WriteRowStep ==
  ASSUME IInv, NEW r \in Requests, WriteRow(r)
  PROVE  IInv'
<1> USE ConstantsAssumption DEF IInv, WriteRow, Verdict, IngestSize, Step
<1>1. Sha256(final[claim[r]]) = Sha256(got[r]) /\ final[claim[r]] # Absent /\ claim[r] \in Digests
  BY DEF Progress, FilesAreWhole, Owned, Active
<1>2. final[claim[r]] = got[r]
  BY <1>1 DEF Sha256
<1>3. TypeOK'
  BY DEF TypeOK, Fates, Owned, Active
<1>4. (Owned /\ NamesUnique)'
  BY DEF TypeOK, Owned, NamesUnique, Active
<1>5. (TmpMatches /\ Progress)'
  BY DEF TypeOK, Owned, NamesUnique, TmpMatches, Progress, TmpFile, Active
<1>6. (FilesAreWhole /\ RowsMatch)'
  BY <1>1, <1>2 DEF TypeOK, Owned, FilesAreWhole, RowsMatch, Active
<1>7. (Answered /\ NoDebris)'
  BY DEF TypeOK, Owned, NamesUnique, TmpMatches, Progress, Answered, NoDebris, Active
<1>10. (Befallen /\ AnswersAreExplained)'
  BY DEF TypeOK, TmpFile, Owned, NamesUnique, TmpMatches, Befallen, AnswersAreExplained, Active
<1> QED BY <1>3, <1>4, <1>5, <1>6, <1>7, <1>10

LEMMA WriteRowFailsStep ==
  ASSUME IInv, NEW r \in Requests, WriteRowFails(r)
  PROVE  IInv'
<1> USE ConstantsAssumption DEF IInv, WriteRowFails, End, disk
<1>1. TypeOK'
  BY DEF TypeOK, Fates, Owned, Codes, Active
<1>2. (Owned /\ NamesUnique)'
  BY DEF TypeOK, Owned, NamesUnique, Active
<1>3. (TmpMatches /\ Progress)'
  BY DEF TypeOK, Owned, NamesUnique, TmpMatches, Progress, TmpFile, Active
<1>4. (FilesAreWhole /\ RowsMatch)'
  BY DEF TypeOK, Owned, TmpMatches, Progress, FilesAreWhole, RowsMatch, Active
<1>5. (Answered /\ NoDebris)'
  BY DEF TypeOK, Owned, NamesUnique, TmpMatches, Progress, Answered, NoDebris, Active
<1>10. (Befallen /\ AnswersAreExplained)'
  BY DEF TypeOK, TmpFile, Owned, NamesUnique, TmpMatches, Befallen, AnswersAreExplained, Active
<1> QED BY <1>1, <1>2, <1>3, <1>4, <1>5, <1>10

LEMMA RespondStep ==
  ASSUME IInv, NEW r \in Requests, Respond(r)
  PROVE  IInv'
<1>1. PICK code \in {"200", "201"} : End(r, code, befell[r])
  BY DEF Respond
<1>2. pc[r] \in {"created", "existing"} /\ UNCHANGED <<disk, process>>
  BY DEF Respond
<1> USE ConstantsAssumption, <1>1, <1>2 DEF IInv, End, disk, process
<1>3. TypeOK'
  BY DEF TypeOK, Fates, Codes, Active
<1>4. (Owned /\ NamesUnique)'
  BY DEF TypeOK, Owned, NamesUnique, Active
<1>5. (TmpMatches /\ Progress)'
  BY DEF TypeOK, Owned, NamesUnique, TmpMatches, Progress, TmpFile, Active
<1>6. (FilesAreWhole /\ RowsMatch)'
  BY DEF TypeOK, Owned, TmpMatches, Progress, FilesAreWhole, RowsMatch, Active
<1>7. (Answered /\ NoDebris)'
  BY DEF TypeOK, Owned, NamesUnique, TmpMatches, Progress, Answered, NoDebris, Active
<1>10. (Befallen /\ AnswersAreExplained)'
  BY DEF TypeOK, TmpFile, Owned, NamesUnique, TmpMatches, Befallen, AnswersAreExplained, Active
<1> QED BY <1>3, <1>4, <1>5, <1>6, <1>7, <1>10

LEMMA RespondFailsStep ==
  ASSUME IInv, NEW r \in Requests, RespondFails(r)
  PROVE  IInv'
<1>1. PICK code \in {"lost"} : End(r, code, "failure")
  BY DEF RespondFails
<1>2. pc[r] \in {"created", "existing"} /\ UNCHANGED <<disk, process>>
  BY DEF RespondFails
<1> USE ConstantsAssumption, <1>1, <1>2 DEF IInv, End, disk, process
<1>3. TypeOK'
  BY DEF TypeOK, Fates, Codes, Active
<1>4. (Owned /\ NamesUnique)'
  BY DEF TypeOK, Owned, NamesUnique, Active
<1>5. (TmpMatches /\ Progress)'
  BY DEF TypeOK, Owned, NamesUnique, TmpMatches, Progress, TmpFile, Active
<1>6. (FilesAreWhole /\ RowsMatch)'
  BY DEF TypeOK, Owned, TmpMatches, Progress, FilesAreWhole, RowsMatch, Active
<1>7. (Answered /\ NoDebris)'
  BY DEF TypeOK, Owned, NamesUnique, TmpMatches, Progress, Answered, NoDebris, Active
<1>10. (Befallen /\ AnswersAreExplained)'
  BY DEF TypeOK, TmpFile, Owned, NamesUnique, TmpMatches, Befallen, AnswersAreExplained, Active
<1> QED BY <1>3, <1>4, <1>5, <1>6, <1>7, <1>10

LEMMA StartStep ==
  ASSUME IInv, NEW p \in Procs, Start(p)
  PROVE  IInv'
<1> USE ConstantsAssumption DEF IInv, Start, request, disk
<1>1. sweep[p] \in SweepState
  BY DEF TypeOK
<1>2. ASSUME NEW listed \in SUBSET TmpNames
      PROVE  [sweep[p] EXCEPT !.todo = listed] \in SweepState
  BY ONLY <1>1, <1>2 DEF SweepState
<1>3. TypeOK'
  BY <1>2 DEF TypeOK, Fates
<1>4. (Owned /\ NamesUnique)'
  BY DEF TypeOK, Owned, NamesUnique, Active
<1>5. (TmpMatches /\ Progress)'
  BY DEF TypeOK, Owned, NamesUnique, TmpMatches, Progress, TmpFile, Active
<1>6. (FilesAreWhole /\ RowsMatch)'
  BY DEF TypeOK, Owned, TmpMatches, Progress, FilesAreWhole, RowsMatch, Active
<1>7. (Answered /\ NoDebris)'
  BY DEF TypeOK, Owned, NamesUnique, TmpMatches, Progress, Answered, NoDebris, Active
<1>10. (Befallen /\ AnswersAreExplained)'
  BY DEF TypeOK, TmpFile, Owned, NamesUnique, TmpMatches, Befallen, AnswersAreExplained, Active
<1> QED BY <1>3, <1>4, <1>5, <1>6, <1>7, <1>10

LEMMA StartupFailsStep ==
  ASSUME IInv, NEW p \in Procs, mode[p] = "sweep", StartupFails(p)
  PROVE  IInv'
<1> USE ConstantsAssumption DEF IInv, StartupFails, request, disk
<1>1. TypeOK'
  BY DEF TypeOK, Fates, NoSweep, SweepState
<1>2. (Owned /\ NamesUnique)'
  BY DEF TypeOK, Owned, NamesUnique, Active
<1>3. (TmpMatches /\ Progress)'
  BY DEF TypeOK, Owned, NamesUnique, TmpMatches, Progress, TmpFile, Active
<1>4. (FilesAreWhole /\ RowsMatch)'
  BY DEF TypeOK, Owned, TmpMatches, Progress, FilesAreWhole, RowsMatch, Active
<1>5. (Answered /\ NoDebris)'
  BY DEF TypeOK, Owned, NamesUnique, TmpMatches, Progress, Answered, NoDebris, Active
<1>10. (Befallen /\ AnswersAreExplained)'
  BY DEF TypeOK, TmpFile, Owned, NamesUnique, TmpMatches, Befallen, AnswersAreExplained, Active
<1> QED BY <1>1, <1>2, <1>3, <1>4, <1>5, <1>10

LEMMA SweepVisitStep ==
  ASSUME IInv, NEW p \in Procs, NEW n \in TmpNames, SweepVisit(p, n)
  PROVE  IInv'
<1> USE ConstantsAssumption DEF IInv, SweepVisit, request, disk
<1>1. TypeOK'
  BY DEF TypeOK, Fates, SweepState
<1>2. (Owned /\ NamesUnique)'
  BY DEF TypeOK, Owned, NamesUnique, Active
<1>3. (TmpMatches /\ Progress)'
  BY DEF TypeOK, Owned, NamesUnique, TmpMatches, Progress, TmpFile, Active
<1>4. (FilesAreWhole /\ RowsMatch)'
  BY DEF TypeOK, Owned, TmpMatches, Progress, FilesAreWhole, RowsMatch, Active
<1>5. (Answered /\ NoDebris)'
  BY DEF TypeOK, Owned, NamesUnique, TmpMatches, Progress, Answered, NoDebris, Active
<1>10. (Befallen /\ AnswersAreExplained)'
  BY DEF TypeOK, TmpFile, Owned, NamesUnique, TmpMatches, Befallen, AnswersAreExplained, Active
<1> QED BY <1>1, <1>2, <1>3, <1>4, <1>5, <1>10

LEMMA SweepStatStep ==
  ASSUME IInv, NEW p \in Procs, SweepStat(p)
  PROVE  IInv'
<1>1. CASE tmp[sweep[p].at] = Absent
  BY <1>1, StartupFailsStep DEF SweepStat
<1>2. CASE tmp[sweep[p].at] # Absent
  <2>1. /\ [sweep[p] EXCEPT !.stale = TRUE] \in SweepState
        /\ [sweep[p] EXCEPT !.at = Absent] \in SweepState
    BY DEF IInv, TypeOK, SweepState
  <2>2. sweep' \in [Procs -> SweepState] /\ UNCHANGED <<request, disk, mode, current>>
    BY <1>2, <2>1 DEF SweepStat, IInv, TypeOK
  <2> USE <2>2 DEF IInv, request, disk
  <2>3. TypeOK'
    BY DEF TypeOK, Fates
  <2>4. (Owned /\ NamesUnique)'
    BY DEF TypeOK, Owned, NamesUnique, Active
  <2>5. (TmpMatches /\ Progress)'
    BY DEF TypeOK, Owned, NamesUnique, TmpMatches, Progress, TmpFile, Active
  <2>6. (FilesAreWhole /\ RowsMatch)'
    BY DEF TypeOK, Owned, TmpMatches, Progress, FilesAreWhole, RowsMatch, Active
  <2>7. (Answered /\ NoDebris)'
    BY DEF TypeOK, Owned, NamesUnique, TmpMatches, Progress, Answered, NoDebris, Active
  <2>10. (Befallen /\ AnswersAreExplained)'
    BY DEF TypeOK, TmpFile, Owned, NamesUnique, TmpMatches, Befallen, AnswersAreExplained, Active
  <2> QED BY <2>3, <2>4, <2>5, <2>6, <2>7, <2>10
<1> QED BY <1>1, <1>2

LEMMA SweepUnlinkStep ==
  ASSUME IInv, NEW p \in Procs, SweepUnlink(p)
  PROVE  IInv'
<1>1. CASE tmp[sweep[p].at] = Absent
  BY <1>1, StartupFailsStep DEF SweepUnlink
<1>2. CASE tmp[sweep[p].at] # Absent
  <2>1. /\ tmp' = [tmp EXCEPT ![sweep[p].at] = Absent]
        /\ died' = died \ {sweep[p].at}
        /\ befell' = SweptBy(p)
        /\ UNCHANGED <<pc, proc, claim, kind, got, held, answer, final, rows, mode, current>>
        /\ mode[p] = "sweep" /\ sweep[p].at # Absent
    BY <1>2 DEF SweepUnlink
  <2>2. sweep' \in [Procs -> SweepState]
    <3>1. [[sweep[p] EXCEPT !.at = Absent] EXCEPT !.stale = FALSE] \in SweepState
      BY DEF IInv, TypeOK, SweepState
    <3> QED BY <1>2, <3>1 DEF SweepUnlink, IInv, TypeOK
  <2> USE <2>1, <2>2, <1>2 DEF IInv, SweptBy
  <2>3. TypeOK'
    BY DEF TypeOK, Fates
  <2>4. (Owned /\ NamesUnique)'
    BY DEF TypeOK, Owned, NamesUnique, Active
  <2>5. (TmpMatches /\ Progress)'
    BY DEF TypeOK, Owned, NamesUnique, TmpMatches, Progress, TmpFile, Active
  <2>6. (FilesAreWhole /\ RowsMatch)'
    BY DEF TypeOK, Owned, TmpMatches, Progress, FilesAreWhole, RowsMatch, Active
  <2>7. (Answered /\ NoDebris)'
    BY DEF TypeOK, Owned, NamesUnique, TmpMatches, Progress, Answered, NoDebris, Active
  <2>10. (Befallen /\ AnswersAreExplained)'
    BY DEF TypeOK, TmpFile, Owned, NamesUnique, TmpMatches, Befallen, AnswersAreExplained, Active
  <2> QED BY <2>3, <2>4, <2>5, <2>6, <2>7, <2>10
<1> QED BY <1>1, <1>2

LEMMA ServeStep ==
  ASSUME IInv, NEW p \in Procs, Serve(p)
  PROVE  IInv'
<1> USE ConstantsAssumption DEF IInv, Serve, request, disk
<1>1. TypeOK'
  BY DEF TypeOK, Fates
<1>2. (Owned /\ NamesUnique)'
  BY DEF TypeOK, Owned, NamesUnique, Active
<1>3. (TmpMatches /\ Progress)'
  BY DEF TypeOK, Owned, NamesUnique, TmpMatches, Progress, TmpFile, Active
<1>4. (FilesAreWhole /\ RowsMatch)'
  BY DEF TypeOK, Owned, TmpMatches, Progress, FilesAreWhole, RowsMatch, Active
<1>5. (Answered /\ NoDebris)'
  BY DEF TypeOK, Owned, NamesUnique, TmpMatches, Progress, Answered, NoDebris, Active
<1>10. (Befallen /\ AnswersAreExplained)'
  BY DEF TypeOK, TmpFile, Owned, NamesUnique, TmpMatches, Befallen, AnswersAreExplained, Active
<1> QED BY <1>1, <1>2, <1>3, <1>4, <1>5, <1>10

LEMMA StopStep ==
  ASSUME IInv, NEW p \in Procs, Stop(p)
  PROVE  IInv'
<1> USE ConstantsAssumption DEF IInv, Stop, request, disk
<1>1. TypeOK'
  BY DEF TypeOK, Fates
<1>2. (Owned /\ NamesUnique)'
  BY DEF TypeOK, Owned, NamesUnique, Active
<1>3. (TmpMatches /\ Progress)'
  BY DEF TypeOK, Owned, NamesUnique, TmpMatches, Progress, TmpFile, Active
<1>4. (FilesAreWhole /\ RowsMatch)'
  BY DEF TypeOK, Owned, TmpMatches, Progress, FilesAreWhole, RowsMatch, Active
<1>5. (Answered /\ NoDebris)'
  BY DEF TypeOK, Owned, NamesUnique, TmpMatches, Progress, Answered, NoDebris, Active
<1>10. (Befallen /\ AnswersAreExplained)'
  BY DEF TypeOK, TmpFile, Owned, NamesUnique, TmpMatches, Befallen, AnswersAreExplained, Active
<1> QED BY <1>1, <1>2, <1>3, <1>4, <1>5, <1>10

LEMMA CrashStep ==
  ASSUME IInv, NEW p \in Procs, Crash(p)
  PROVE  IInv'
<1> USE ConstantsAssumption DEF IInv, Crash
<1>1. TypeOK'
  BY DEF TypeOK, Fates, NoSweep, SweepState, Active, Codes
<1>2. (Owned /\ NamesUnique)'
  BY DEF TypeOK, Owned, NamesUnique, Active
<1>3. (TmpMatches /\ Progress)'
  BY DEF TypeOK, Owned, NamesUnique, TmpMatches, Progress, TmpFile, Active
<1>4. (FilesAreWhole /\ RowsMatch)'
  BY DEF TypeOK, Owned, TmpMatches, Progress, FilesAreWhole, RowsMatch, Active
<1>5. (Answered /\ NoDebris)'
  BY DEF TypeOK, Owned, NamesUnique, TmpMatches, Progress, Answered, NoDebris, Active
<1>10. (Befallen /\ AnswersAreExplained)'
  BY DEF TypeOK, TmpFile, Owned, NamesUnique, TmpMatches, Befallen, AnswersAreExplained, Active
<1> QED BY <1>1, <1>2, <1>3, <1>4, <1>5, <1>10

LEMMA AgeStep ==
  ASSUME IInv, NEW n \in TmpNames, Age(n)
  PROVE  IInv'
<1> USE ConstantsAssumption DEF IInv, Age, request, process
<1>1. tmp[n] \in TmpFile
  BY DEF TypeOK
<1>2. [tmp[n] EXCEPT !.old = TRUE] \in TmpFile
  BY ONLY <1>1 DEF TmpFile
<1>3. TypeOK'
  BY <1>2 DEF TypeOK, Fates
<1>4. (Owned /\ NamesUnique)'
  BY DEF TypeOK, Owned, NamesUnique, Active
<1>5. (TmpMatches /\ Progress)'
  BY DEF TypeOK, Owned, NamesUnique, TmpMatches, Progress, TmpFile, Active
<1>6. (FilesAreWhole /\ RowsMatch)'
  BY DEF TypeOK, Owned, TmpMatches, Progress, FilesAreWhole, RowsMatch, Active
<1>7. (Answered /\ NoDebris)'
  BY DEF TypeOK, Owned, NamesUnique, TmpMatches, Progress, Answered, NoDebris, Active
<1>8. tmp'[n] # Absent
  BY <1>2 DEF TypeOK
<1>10. (Befallen /\ AnswersAreExplained)'
  BY <1>8 DEF TypeOK, Befallen, AnswersAreExplained
<1> QED BY <1>3, <1>4, <1>5, <1>6, <1>7, <1>10

LEMMA NextIInv == IInv /\ [Next]_vars => IInv'
<1>1. ASSUME IInv, Next PROVE IInv'
  BY <1>1, RejectStep, BeginStep, ChunkStep, EndOfStreamStep, AbortStep, FindFinalStep,
     DropTmpStep, RenameStep, RenameFailsStep, WriteRowStep, WriteRowFailsStep,
     RespondStep, RespondFailsStep, StartStep, SweepVisitStep, SweepStatStep,
     SweepUnlinkStep, ServeStep, StopStep, CrashStep, AgeStep
     DEF Next, Ask, Stream, Handler, HandlerFails, Sweep
<1>2. ASSUME IInv, UNCHANGED vars PROVE IInv'
  BY <1>2 DEF vars, request, disk, process, IInv, TypeOK, Owned, NamesUnique, TmpMatches,
     Progress, FilesAreWhole, RowsMatch, Answered, NoDebris, Befallen, AnswersAreExplained
<1> QED BY <1>1, <1>2

-----------------------------------------------------------------------------
(* Theorems *)

\* The inductive invariant holds of every behaviour of the store.
THEOREM Invariance == Spec => []IInv
BY InitIInv, NextIInv, PTL DEF Spec

\* Every variable keeps its type.
THEOREM TypeCorrect == Spec => []TypeOK
BY Invariance, PTL DEF IInv

\* No partial or foreign file ever stands under a digest.
THEOREM FilesAlwaysWhole == Spec => []FilesAreWhole
BY Invariance, PTL DEF IInv

\* A download answers 404 or the exact bytes, with their length.
THEOREM DownloadsAlwaysExact == Spec => []DownloadsAreExact
<1>1. IInv => DownloadsAreExact
  BY ConstantsAssumption DEF IInv, DownloadsAreExact, Download, RowsMatch, FilesAreWhole
<1> QED BY <1>1, Invariance, PTL

\* What was answered 201 or 200 stays downloadable.
THEOREM AnswersAlwaysDurable == Spec => []AnswersAreDurable
<1>1. IInv => AnswersAreDurable
  BY DEF IInv, AnswersAreDurable, Answered, Download, RowsMatch
<1> QED BY <1>1, Invariance, PTL

\* No request leaves a file in tmp/, except by dying with its process.
THEOREM NeverDebris == Spec => []NoDebris
BY Invariance, PTL DEF IInv

\* Files and rows never change or vanish. Only Rename and WriteRow touch them,
\* and a Rename over an existing file (two processes) replaces it by its equal.
THEOREM AlwaysImmutable == Spec => Immutable
<1> DEFINE Kept == \A d \in Digests : /\ (final[d] # Absent => final'[d] = final[d])
                                      /\ (rows[d] # Absent => rows'[d] = rows[d])
<1>1. ASSUME IInv, IInv', NEW r \in Requests, Rename(r) PROVE Kept
  <2>1. CASE tmp[held[r]] = Absent
    BY <1>1, <2>1 DEF Rename, Raise
  <2>2. CASE tmp[held[r]] # Absent
    <3>1. /\ UNCHANGED rows
          /\ \A d \in Digests : d # claim[r] => final'[d] = final[d]
      BY <1>1, <2>2 DEF Rename, IInv, TypeOK
    <3>2. \A d \in Digests : final[d] # Absent =>
             Sha256(final[d]) = Sha256(final'[d]) \/ final'[d] = Absent
      BY <1>1 DEF IInv, FilesAreWhole
    <3>3. \A d \in Digests : final'[d] = Absent => final[d] = Absent
      <4>1. tmp[held[r]] \in TmpFile /\ claim[r] \in Digests
        BY <1>1, <2>2 DEF Rename, IInv, TypeOK, Owned, Step, Active
      <4>2. tmp[held[r]].bytes # Absent
        BY <4>1, ConstantsAssumption DEF TmpFile
      <4> QED BY <1>1, <2>2, <4>1, <4>2 DEF Rename, IInv, TypeOK
    <3> QED BY <3>1, <3>2, <3>3 DEF Sha256
  <2> QED BY <2>1, <2>2
<1>2. ASSUME IInv, NEW r \in Requests, WriteRow(r) PROVE Kept
  BY <1>2 DEF WriteRow, IngestSize, IInv, TypeOK
<1>3. ASSUME IInv, IInv', Next, ~\E r \in Requests : Rename(r) \/ WriteRow(r) PROVE Kept
  <2>1. UNCHANGED <<final, rows>>
    <3>1. ASSUME NEW r \in Requests, Ask(r) \/ Stream(r) \/ HandlerFails(r)
          PROVE  UNCHANGED <<final, rows>>
      BY <3>1 DEF Ask, Reject, Begin, Stream, Chunk, EndOfStream, HandlerFails, Abort,
         RenameFails, WriteRowFails, RespondFails, Raise, disk
    <3>2. ASSUME NEW r \in Requests, Handler(r)
          PROVE  UNCHANGED <<final, rows>>
      BY <1>3, <3>2 DEF Handler, FindFinal, DropTmp, Respond, Raise, disk
    <3>3. ASSUME NEW p \in Procs, Start(p) \/ Sweep(p) \/ Stop(p) \/ Crash(p)
          PROVE  UNCHANGED <<final, rows>>
      BY <3>3 DEF Start, Sweep, SweepVisit, SweepStat, SweepUnlink, StartupFails, Serve,
         Stop, Crash, disk
    <3>4. ASSUME NEW n \in TmpNames, Age(n)
          PROVE  UNCHANGED <<final, rows>>
      BY <3>4 DEF Age
    <3> QED BY <1>3, <3>1, <3>2, <3>3, <3>4 DEF Next
  <2> QED BY <2>1
<1>4. IInv /\ IInv' /\ [Next]_vars =>
        [\A d \in Digests : /\ (final[d] # Absent => final'[d] = final[d])
                            /\ (rows[d] # Absent => rows'[d] = rows[d])]_vars
  BY <1>1, <1>2, <1>3
<1> QED BY <1>4, Invariance, PTL DEF Spec, Immutable

\* A 500 has a failure behind it, or the sweep of a process other than the one
\* that served: names are unique, a handler needs its file once, and a process
\* that serves sweeps no more, so nobody else can have taken the file. And who
\* is answered 200 or 201 lost nothing (ingest, sweep_tmp).
THEOREM AnswersAlwaysExplained == Spec => []AnswersAreExplained
BY Invariance, PTL DEF IInv

\* While the only process sweeps, no handler runs, so what is in tmp/ is debris.
\* With a second process the sweep has no such right, and the theorem no proof.
THEOREM DeadAloneAreSwept ==
  ASSUME \A p, q \in Procs : p = q
  PROVE  Spec => SweepsOnlyTheDead
<1>1. ASSUME IInv, NEW p \in Procs, NEW n \in TmpNames, SweepUnlink(p), tmp[n] # Absent
      PROVE  n \in died
  <2>1. n \in died \/ \E r \in Requests : held[r] = n
    BY <1>1 DEF IInv, NoDebris
  <2>2. ASSUME NEW r \in Requests, held[r] = n PROVE FALSE
    <3>1. pc[r] # "idle"
      BY <1>1, <2>2, ConstantsAssumption DEF IInv, Owned
    <3>2. mode[p] = "up"
      BY <1>1, <3>1 DEF IInv, Owned
    <3> QED BY <1>1, <3>2 DEF SweepUnlink
  <2> QED BY <2>1, <2>2
<1>2. IInv /\ [Next]_vars =>
        [\A p \in Procs, n \in TmpNames :
            SweepUnlink(p) /\ tmp[n] # Absent /\ tmp'[n] = Absent => n \in died]_vars
  BY <1>1
<1> QED BY <1>2, Invariance, PTL DEF Spec, SweepsOnlyTheDead

\* The promise of BlobPromise holds: one 201 per digest, and only refusals,
\* losses and 200s besides.
THEOREM Refinement == Spec => KeepsPromise
<1> DEFINE Known == {d \in Digests : rows[d] # Absent}
           Decided == [r \in Requests |-> IF pc[r] \in {"created", "existing"}
                                          THEN pc[r] ELSE "none"]
<1>1. Init => Promise!Init
  BY DEF Init, Promise!Init
<1>2. ASSUME IInv, NEW r \in Requests, NEW code \in {"400", "413", "422", "500", "lost"},
             pc[r] \notin {"created", "existing"}, pc' = [pc EXCEPT ![r] = "idle"],
             answer' = [answer EXCEPT ![r] = code], UNCHANGED rows
      PROVE  Promise!Next
  <2>1. Promise!Refuse(r)
    BY <1>2 DEF IInv, TypeOK, Promise!Refuse, Promise!Refusals
  <2> QED BY <2>1 DEF Promise!Next
<1>3. ASSUME IInv, NEW r \in Requests, NEW code \in {"400", "413", "500", "lost"}, NEW fate,
             pc[r] \in {"stream", "exists", "dedupe", "place"}, Raise(r, code, fate)
      PROVE  Promise!Next
  BY <1>2, <1>3 DEF Raise, End
<1>4. ASSUME UNCHANGED <<answer, rows>>, Decided' = Decided
      PROVE  UNCHANGED Promise!vars
  BY <1>4 DEF Promise!vars
<1>5. ASSUME IInv, NEW r \in Requests, Ask(r) PROVE Promise!Next
  <2>1. CASE \E p \in Procs : Reject(r, p)
    <3>1. pc' = [pc EXCEPT ![r] = "idle"]
      BY <1>5, <2>1 DEF Reject, IInv, TypeOK
    <3> QED BY <1>2, <1>5, <2>1, <3>1 DEF Reject, disk
  <2>2. CASE \E p \in Procs, d \in Digests, k \in Kinds, n \in TmpNames : Begin(r, p, d, k, n)
    <3>1. Promise!Ask(r)
      BY <1>5, <2>2 DEF Begin, IInv, TypeOK, Promise!Ask
    <3> QED BY <3>1 DEF Promise!Next
  <2> QED BY <1>5, <2>1, <2>2 DEF Ask
<1>6. ASSUME IInv, NEW r \in Requests, Stream(r) \/ Abort(r) \/ DropTmp(r)
                                       \/ Rename(r) \/ RenameFails(r) \/ FindFinal(r)
      PROVE  Promise!Next \/ UNCHANGED Promise!vars
  <2>1. CASE \E code \in {"400", "413", "500", "lost"}, fate \in {"failure", befell[r]} :
             Raise(r, code, fate)
    <3>1. pc[r] \in {"stream", "exists", "dedupe", "place"}
      BY <1>6, <2>1 DEF Stream, Chunk, EndOfStream, Abort, Resumable, DropTmp, Rename,
         RenameFails, FindFinal
    <3> QED BY <1>3, <1>6, <2>1, <3>1
  <2>2. CASE ~\E code \in {"400", "413", "500", "lost"}, fate \in {"failure", befell[r]} :
             Raise(r, code, fate)
    <3>1. /\ UNCHANGED <<answer, rows>>
          /\ \/ UNCHANGED pc
             \/ /\ pc[r] \notin {"created", "existing"}
                /\ \E to \in {"exists", "dedupe", "place", "row"} : pc' = [pc EXCEPT ![r] = to]
      BY <1>6, <2>2 DEF Stream, Chunk, EndOfStream, Abort, Resumable, DropTmp, Rename,
         RenameFails, FindFinal, Step, disk
    <3>2. Decided' = Decided
      BY <1>6, <3>1 DEF IInv, TypeOK
    <3> QED BY <1>4, <3>1, <3>2
  <2> QED BY <2>1, <2>2
<1>7. ASSUME IInv, NEW r \in Requests, WriteRow(r) PROVE Promise!Next
  <2>0. claim[r] \in Digests /\ answer[r] = "none"
    BY <1>7 DEF WriteRow, IInv, Owned
  <2>1. PICK d \in Digests : d = claim[r]
    BY <2>0
  <2>2. Known' = Known \cup {d}
    BY <1>7, <2>1, ConstantsAssumption DEF WriteRow, IngestSize, IInv, TypeOK
  <2>3. Decided' = [Decided EXCEPT ![r] = IF d \in Known THEN "existing" ELSE "created"]
    BY <1>7, <2>1 DEF WriteRow, Verdict, Step, IInv, TypeOK
  <2>4. Decided[r] = "none" /\ UNCHANGED answer
    BY <1>7 DEF WriteRow, Step
  <2>5. Promise!Record(r, d)
    BY ONLY <2>0, <2>2, <2>3, <2>4 DEF Promise!Record
  <2> QED BY <2>5 DEF Promise!Next
<1>8. ASSUME IInv, NEW r \in Requests, WriteRowFails(r) PROVE Promise!Next
  BY <1>2, <1>8 DEF WriteRowFails, End, disk
<1>9. ASSUME IInv, NEW r \in Requests, Respond(r) PROVE Promise!Next
  <2>1. Promise!Tell(r)
    BY <1>9 DEF Respond, End, disk, IInv, TypeOK, Promise!Tell
  <2> QED BY <2>1 DEF Promise!Next
<1>10. ASSUME IInv, NEW r \in Requests, RespondFails(r) PROVE Promise!Next
  <2>1. Promise!Lose({r})
    BY <1>10 DEF RespondFails, End, disk, IInv, TypeOK, Promise!Lose
  <2> QED BY <2>1 DEF Promise!Next
<1>11. ASSUME IInv, NEW p \in Procs, Crash(p) PROVE Promise!Next
  <2>0. PICK R \in SUBSET Requests : R = {r \in Requests : proc[r] = p}
    OBVIOUS
  <2>1. /\ pc' = [r \in Requests |-> IF r \in R THEN "idle" ELSE pc[r]]
        /\ answer' = [r \in Requests |-> IF r \in R THEN "lost" ELSE answer[r]]
        /\ UNCHANGED rows
    BY <1>11, <2>0 DEF Crash
  <2>2. Decided' = [r \in Requests |-> IF r \in R THEN "none" ELSE Decided[r]]
    BY <2>1
  <2>3. Promise!Lose(R)
    BY ONLY <2>1, <2>2 DEF Promise!Lose
  <2> QED BY <2>3 DEF Promise!Next
<1>12. ASSUME NEW p \in Procs, Start(p) \/ Sweep(p) \/ Stop(p) PROVE UNCHANGED Promise!vars
  BY <1>12 DEF Start, Sweep, SweepVisit, SweepStat, SweepUnlink, StartupFails, Serve, Stop,
     request, disk, Promise!vars
<1>13. ASSUME NEW n \in TmpNames, Age(n) PROVE UNCHANGED Promise!vars
  BY <1>13 DEF Age, request, Promise!vars
<1>14. ASSUME UNCHANGED vars PROVE UNCHANGED Promise!vars
  BY <1>14 DEF vars, request, disk, Promise!vars
<1>15. IInv /\ [Next]_vars => [Promise!Next]_(Promise!vars)
  BY <1>5, <1>6, <1>7, <1>8, <1>9, <1>10, <1>11, <1>12, <1>13, <1>14
     DEF Next, Handler, HandlerFails
<1> QED BY <1>1, <1>15, Invariance, PTL DEF Spec, KeepsPromise, Promise!Spec
=============================================================================
