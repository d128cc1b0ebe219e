---------------------------- MODULE ResumeProofs ----------------------------
(***************************************************************************)
(* Proofs about Resume, for any number of requests, resumes, failures and  *)
(* restarts: IndInv is inductive, hence its conjuncts are invariants, and  *)
(* no step takes the active resume away but the deletion of it.            *)
(***************************************************************************)
EXTENDS Resume, TLAPS

USE DEF GoTo, Arrive, Step

-----------------------------------------------------------------------------
LEMMA InitIndInv == Init => IndInv
<1> SUFFICES ASSUME Init PROVE IndInv
  OBVIOUS
<1>1. Exist = Uploaded /\ Live = Uploaded
  BY ConstantsAssumption DEF Init, Exist, Live
<1>2. TypeOK
  BY <1>1, ConstantsAssumption DEF Init, TypeOK
<1>3. TargetsExist /\ ActivationHoldsRows
  BY <1>1 DEF Init, TargetsExist, ActivationHoldsRows
<1>4. OneActiveOfUploaded /\ DeletedIsInactive /\ LiveHasFile
  BY <1>1 DEF Init, OneActiveOfUploaded, DeletedIsInactive, LiveHasFile
<1> QED  BY <1>2, <1>3, <1>4 DEF IndInv

\* A request that moves leaves the others where they are.
LEMMA Moved ==
    ASSUME TypeOK, NEW r \in Request, NEW place, pc' = [pc EXCEPT ![r] = place],
           target' = target \/ \E x \in ResumeId : target' = [target EXCEPT ![r] = x]
    PROVE  /\ pc'[r] = place
           /\ \A q \in Request \ {r} : pc'[q] = pc[q] /\ target'[q] = target[q]
<1> QED  BY DEF TypeOK

-----------------------------------------------------------------------------
(* An activation.                                                          *)

\* It begins, gets one lock after the other, finds its resume.
LEMMA ActivationKeeps ==
    ASSUME IndInv, NEW r \in Request,
           SetActiveBegin(r) \/ ClearRow(r) \/ SetActiveActivate(r)
    PROVE  IndInv'
<1> USE DEF IndInv
<1>1. UNCHANGED <<status, active, files, halfDone, failures, crashes>>
  BY DEF SetActiveBegin, ClearRow, SetActiveActivate, rows, faults
<1>2. Live' = Live /\ Exist' = Exist
  BY <1>1 DEF Live, Exist
<1>3. PICK place \in {"clear", "commit"} :
          /\ pc' = [pc EXCEPT ![r] = place]
          /\ pc[r] \in {"idle", "clear", "activate"}
          /\ target' = target \/ \E x \in Exist : target' = [target EXCEPT ![r] = x]
  <2>1. CASE ClearRow(r)
    BY <2>1 DEF ClearRow, requests, TypeOK
  <2>2. CASE SetActiveBegin(r) \/ SetActiveActivate(r)
    BY <2>2 DEF SetActiveBegin, SetActiveActivate
  <2> QED  BY <2>1, <2>2
<1>4. /\ pc'[r] = place
      /\ \A q \in Request \ {r} : pc'[q] = pc[q] /\ target'[q] = target[q]
  BY <1>3, Moved DEF Exist
<1>5. target'[r] \in Exist
  <2>1. CASE SetActiveBegin(r)
    BY <2>1 DEF SetActiveBegin, TypeOK
  <2>2. CASE ClearRow(r) \/ SetActiveActivate(r)
    BY <2>2 DEF ClearRow, SetActiveActivate, requests, TargetsExist
  <2> QED  BY <2>1, <2>2
<1>6. /\ lock' \in [ResumeId -> Request \cup {None}]
      /\ toClear' \in [Request -> SUBSET ResumeId]
      /\ cleared' \in [Request -> SUBSET ResumeId]
  BY DEF SetActiveBegin, ClearRow, SetActiveActivate, TypeOK, Clears, Live
<1>7. TypeOK'
  <2>1. target' \in [Request -> ResumeId \cup {None}]
    BY <1>3 DEF TypeOK, Exist
  <2> QED  BY <1>1, <1>2, <1>3, <1>6, <2>1 DEF TypeOK
<1>8. TargetsExist'
  BY <1>1, <1>2, <1>3, <1>4, <1>5 DEF TargetsExist, Exist
<1>9. ActivationHoldsRows'
  <2>1. CASE SetActiveBegin(r)
    BY <2>1, <1>2, <1>4
    DEF SetActiveBegin, ActivationHoldsRows, TypeOK, Clears
  <2>2. CASE ClearRow(r)
    BY <2>2, <1>2, <1>4, ConstantsAssumption
    DEF ClearRow, ActivationHoldsRows, TypeOK, requests
  <2>3. CASE SetActiveActivate(r)
    BY <2>3, <1>2, <1>4, ConstantsAssumption
    DEF SetActiveActivate, ActivationHoldsRows, TypeOK
  <2> QED  BY <2>1, <2>2, <2>3
<1>10. OneActiveOfUploaded' /\ DeletedIsInactive'
  BY <1>1, <1>2 DEF OneActiveOfUploaded, DeletedIsInactive
<1>11. LiveHasFile'
  BY <1>1, <1>2, <1>3, <1>4 DEF LiveHasFile
<1> QED  BY <1>7, <1>8, <1>9, <1>10, <1>11

\* It finds its resume, or ends in one of the ways in which it can.
LEMMA ActivationEnds ==
    ASSUME IndInv, NEW r \in Request,
           \/ SetActiveFind(r) \/ SetActiveCommit(r) \/ SetActiveFails(r)
           \/ SetActiveAborted(r)
    PROVE  IndInv'
<1> USE DEF IndInv
<1>1. /\ UNCHANGED <<status, files, halfDone, crashes, target>>
      /\ failures' \in 0..MaxFailures
  BY ConstantsAssumption
  DEF SetActiveFind, SetActiveCommit, SetActiveFails, SetActiveAborted, rows,
      faults, Fail, TypeOK
<1>2. Live' = Live /\ Exist' = Exist
  BY <1>1 DEF Live, Exist
<1>3. PICK place \in {"activate", "done"} :
          /\ pc' = [pc EXCEPT ![r] = place]
          /\ pc[r] \in {"clear", "activate", "commit"}
          /\ place = "activate" =>
                 /\ pc[r] = "clear" /\ toClear[r] = {} /\ target[r] \in Live
                 /\ UNCHANGED <<lock, toClear, cleared, active>>
          /\ place = "done" => EndTx(r)
          /\ active' = active \/ (active' = Activated(r) /\ pc[r] = "commit")
  BY DEF SetActiveFind, SetActiveCommit, SetActiveFails, SetActiveAborted,
         rows, tx
<1>4. /\ pc'[r] = place
      /\ \A q \in Request \ {r} : pc'[q] = pc[q] /\ target'[q] = target[q]
  BY <1>1, <1>3, Moved
<1>5. OneActiveOfUploaded' /\ DeletedIsInactive' /\ active' \subseteq Exist
  <2>1. CASE active' = active
    BY <1>2, <2>1 DEF OneActiveOfUploaded, DeletedIsInactive, TypeOK
  <2>2. CASE active' = Activated(r) /\ pc[r] = "commit"
    BY <1>2, <2>2
    DEF OneActiveOfUploaded, DeletedIsInactive, Activated, TypeOK,
        ActivationHoldsRows, TargetsExist
  <2> QED  BY <1>3, <2>1, <2>2
<1>6. TypeOK'
  <2>1. CASE place = "activate"
    BY <1>1, <1>2, <1>3, <2>1 DEF TypeOK
  <2>2. CASE place = "done"
    BY <1>1, <1>2, <1>3, <1>5, <2>2 DEF TypeOK, EndTx
  <2> QED  BY <2>1, <2>2
<1>7. TargetsExist'
  BY <1>1, <1>2, <1>3, <1>4 DEF TargetsExist
<1>8. ActivationHoldsRows'
  <2>1. CASE place = "activate"
    BY <1>1, <1>2, <1>3, <1>4, <2>1 DEF ActivationHoldsRows
  <2>2. CASE place = "done"
    <3>1. /\ cleared'[r] = {}
          /\ \A q \in Request \ {r} : /\ cleared'[q] = cleared[q]
                                     /\ toClear'[q] = toClear[q]
          /\ \A x \in ResumeId : lock[x] # r => lock'[x] = lock[x]
      BY <1>3, <2>2 DEF EndTx, TypeOK
    <3> QED  BY <1>1, <1>2, <1>4, <2>2, <3>1 DEF ActivationHoldsRows, TypeOK, Live
  <2> QED  BY <2>1, <2>2
<1>9. LiveHasFile'
  BY <1>1, <1>2, <1>3, <1>4 DEF LiveHasFile
<1> QED  BY <1>5, <1>6, <1>7, <1>8, <1>9

-----------------------------------------------------------------------------
(* An upload and a deletion: the locks stay as they are.                   *)

\* What an activation holds is unaffected where no row it may be about is
\* removed and only rows nobody asks for are added.
LEMMA HeldRowsStay ==
    ASSUME IndInv, NEW r \in Request,
           UNCHANGED tx,
           \A q \in Request \ {r} : pc'[q] = pc[q] /\ target'[q] = target[q],
           pc'[r] \notin {"clear", "activate", "commit"},
           Live' \cap Uploaded \subseteq Live,
           \A q \in Request \ {r} :
               target[q] \in Live' => target[q] \in Live,
           \A x \in Live : lock[x] # None => x \in Live'
    PROVE  ActivationHoldsRows'
<1> USE DEF IndInv
<1>1. ASSUME NEW q \in Request, pc'[q] \in {"clear", "activate", "commit"}
      PROVE  q # r /\ pc[q] = pc'[q] /\ target'[q] = target[q]
  BY <1>1
<1>2. \A q \in Request : q # None
  BY ConstantsAssumption
<1> QED  BY <1>1, <1>2 DEF ActivationHoldsRows, tx

LEMMA UploadKeeps ==
    ASSUME IndInv, NEW r \in Request,
           UploadFile(r) \/ UploadFileFails(r) \/ UploadResume(r)
    PROVE  IndInv'
<1> USE DEF IndInv
<1>1. /\ UNCHANGED <<active, tx, crashes>>
      /\ failures' \in 0..MaxFailures
  BY ConstantsAssumption
  DEF UploadFile, UploadFileFails, UploadResume, UploadInsert,
      UploadInsertFails, UploadRemoveFile, rows, faults, Fail, TypeOK
<1>2. CASE UploadFile(r) \/ UploadFileFails(r)
  <2>1. PICK x \in Fresh, place \in {"insert", "done"} :
            /\ pc[r] = "idle"
            /\ pc' = [pc EXCEPT ![r] = place]
            /\ target' = [target EXCEPT ![r] = x]
            /\ files' \in {files, files \cup {x}}
            /\ place = "insert" => x \in files'
    BY <1>2 DEF UploadFile, UploadFileFails
  <2>2. /\ x \in ResumeId /\ x \notin Exist
        /\ \A q \in Request : target[q] # x
    BY DEF Fresh, Exist
  <2>3. /\ pc'[r] = place /\ target'[r] = x
        /\ \A q \in Request \ {r} : pc'[q] = pc[q] /\ target'[q] = target[q]
    BY <2>1, <2>2 DEF TypeOK
  <2>4. /\ status' = status /\ Live' = Live /\ Exist' = Exist
        /\ halfDone' = halfDone
    BY <1>2 DEF UploadFile, UploadFileFails, rows, faults, Live, Exist
  <2>5. TypeOK'
    BY <1>1, <2>1, <2>2, <2>4 DEF TypeOK, tx
  <2>6. TargetsExist'
    BY <2>1, <2>2, <2>3, <2>4 DEF TargetsExist
  <2>7. ActivationHoldsRows'
    BY <1>1, <2>1, <2>3, <2>4, HeldRowsStay
  <2>8. OneActiveOfUploaded' /\ DeletedIsInactive'
    BY <1>1, <2>4 DEF OneActiveOfUploaded, DeletedIsInactive
  <2>9. LiveHasFile'
    BY <1>1, <2>1, <2>3, <2>4 DEF LiveHasFile
  <2> QED  BY <2>5, <2>6, <2>7, <2>8, <2>9
<1>3. CASE UploadInsert(r) \/ UploadInsertFails(r)
  <2> DEFINE x == target[r]
  <2>1. PICK place \in {"removeFile", "done"} :
            /\ pc[r] = "insert" /\ target' = target /\ files' = files
            /\ pc' = [pc EXCEPT ![r] = place]
            /\ halfDone' \in {halfDone, halfDone \cup {x}}
            /\ \/ status' = status /\ halfDone' = halfDone
               \/ /\ status' = [status EXCEPT ![x] = "live"]
                  /\ place = "removeFile" => x \in halfDone'
    BY <1>3 DEF UploadInsert, UploadInsertFails, faults
  <2>2. /\ x \in (files \cap ResumeId) \ Exist
        /\ \A q \in Request \ {r} : target[q] # x
        /\ x \notin Uploaded
    BY <2>1 DEF TargetsExist
  <2>3. /\ pc'[r] = place
        /\ \A q \in Request \ {r} : pc'[q] = pc[q] /\ target'[q] = target[q]
    BY <2>1, Moved
  <2>4. \/ /\ Live' = Live /\ Exist' = Exist /\ status' = status
           /\ halfDone' = halfDone
        \/ /\ Live' = Live \cup {x} /\ Exist' = Exist \cup {x}
           /\ place = "removeFile" => x \in halfDone'
    BY <2>1, <2>2 DEF Live, Exist, TypeOK
  <2>5. TypeOK'
    BY <1>1, <2>1, <2>2, <2>4 DEF TypeOK, tx
  <2>6. TargetsExist'
    BY <2>1, <2>2, <2>3, <2>4 DEF TargetsExist
  <2>7. ActivationHoldsRows'
    BY <1>1, <2>1, <2>2, <2>3, <2>4, HeldRowsStay
  <2>8. OneActiveOfUploaded' /\ DeletedIsInactive'
    BY <1>1, <2>2, <2>4 DEF OneActiveOfUploaded, DeletedIsInactive
  <2>9. LiveHasFile'
    BY <2>1, <2>2, <2>3, <2>4 DEF LiveHasFile
  <2> QED  BY <2>5, <2>6, <2>7, <2>8, <2>9
<1>4. CASE UploadRemoveFile(r)
  <2> DEFINE x == target[r]
  <2>1. /\ pc[r] = "removeFile" /\ pc' = [pc EXCEPT ![r] = "done"]
        /\ UNCHANGED <<status, target, halfDone>>
        /\ files' \in {files, files \ {x}}
    BY <1>4 DEF UploadRemoveFile, rows, faults
  <2>2. x \in halfDone \/ /\ x \notin Exist
                          /\ \A q \in Request \ {r} : target[q] # x
    BY <2>1 DEF TargetsExist
  <2>3. /\ pc'[r] = "done"
        /\ \A q \in Request \ {r} : pc'[q] = pc[q] /\ target'[q] = target[q]
    BY <2>1, Moved
  <2>4. Live' = Live /\ Exist' = Exist /\ Live \subseteq Exist
    BY <2>1 DEF Live, Exist
  <2>5. TypeOK'
    BY <1>1, <2>1, <2>4 DEF TypeOK, tx
  <2>6. TargetsExist'
    <3>1. \A q \in Request \ {r} : pc[q] = "insert" => target[q] # x
      BY <2>1 DEF TargetsExist
    <3> QED  BY <2>1, <2>3, <2>4, <3>1 DEF TargetsExist
  <2>7. ActivationHoldsRows'
    BY <1>1, <2>3, <2>4, HeldRowsStay
  <2>8. OneActiveOfUploaded' /\ DeletedIsInactive'
    BY <1>1, <2>4 DEF OneActiveOfUploaded, DeletedIsInactive
  <2>9. LiveHasFile'
    BY <2>1, <2>2, <2>3, <2>4 DEF LiveHasFile
  <2> QED  BY <2>5, <2>6, <2>7, <2>8, <2>9
<1> QED  BY <1>2, <1>3, <1>4 DEF UploadResume

LEMMA DeletionKeeps ==
    ASSUME IndInv, NEW r \in Request, DeleteRead(r) \/ DeleteResume(r)
    PROVE  IndInv'
<1> USE DEF IndInv
<1>1. UNCHANGED <<tx, crashes>> /\ failures' \in 0..MaxFailures
  BY ConstantsAssumption
  DEF DeleteRead, DeleteResume, DeleteFile, DeleteFileFails, DeleteRow,
      DeleteRowFails, rows, faults, Fail, TypeOK
<1>2. CASE DeleteRead(r)
  <2>1. PICK x \in Live : /\ pc' = [pc EXCEPT ![r] = "deleteFile"]
                         /\ pc[r] = "idle"
                         /\ target' = [target EXCEPT ![r] = x]
    BY <1>2 DEF DeleteRead
  <2>2. UNCHANGED <<status, active, files, halfDone>>
    BY <1>2 DEF DeleteRead, rows, faults
  <2>3. x \in Exist /\ x \in ResumeId
    BY DEF Live, Exist
  <2>4. /\ pc'[r] = "deleteFile" /\ target'[r] = x
        /\ \A q \in Request \ {r} : pc'[q] = pc[q] /\ target'[q] = target[q]
    BY <2>1, <2>3 DEF TypeOK
  <2>5. Live' = Live /\ Exist' = Exist
    BY <2>2 DEF Live, Exist
  <2>6. TypeOK'
    BY <1>1, <2>1, <2>2, <2>3, <2>5 DEF TypeOK, tx
  <2>7. TargetsExist'
    BY <2>2, <2>3, <2>4, <2>5 DEF TargetsExist
  <2>8. ActivationHoldsRows'
    BY <1>1, <2>4, <2>5, HeldRowsStay
  <2>9. OneActiveOfUploaded' /\ DeletedIsInactive' /\ LiveHasFile'
    BY <2>1, <2>2, <2>4, <2>5
    DEF OneActiveOfUploaded, DeletedIsInactive, LiveHasFile
  <2> QED  BY <2>6, <2>7, <2>8, <2>9
<1>3. CASE DeleteResume(r)
  <2> DEFINE x == target[r]
  <2>1. PICK place \in {"deleteRow", "done"} :
          /\ pc' = [pc EXCEPT ![r] = place]
          /\ pc[r] \in {"deleteFile", "deleteRow"} /\ target' = target
          /\ files' \in {files, files \ {x}}
          /\ halfDone' \in {halfDone, halfDone \cup {x}}
          /\ \/ place = "deleteRow" /\ UNCHANGED <<status, active>>
             \/ /\ place = "done" /\ UNCHANGED <<status, active>>
                /\ x \in halfDone' \/ (files' = files /\ pc[r] = "deleteFile")
             \/ /\ place = "done" /\ lock[x] = None
                /\ status' = [status EXCEPT ![x] = "deleted"]
                /\ active' = active \ {x}
    BY <1>3
    DEF DeleteResume, DeleteFile, DeleteFileFails, DeleteRow, DeleteRowFails,
        SoftDelete, rows, faults
  <2>2. x \in ResumeId
    BY <2>1 DEF TargetsExist
  <2>3. /\ pc'[r] = place
        /\ \A q \in Request \ {r} : pc'[q] = pc[q] /\ target'[q] = target[q]
    BY <2>1, Moved
  <2>4. \/ Live' = Live /\ Exist' = Exist /\ UNCHANGED <<status, active>>
        \/ /\ Live' = Live \ {x} /\ Exist \subseteq Exist' /\ lock[x] = None
           /\ Exist' = Exist \cup {x}
           /\ active' = active \ {x}
    BY <2>1, <2>2 DEF Live, Exist, TypeOK
  <2>5. TypeOK'
    <3>1. status' \in [ResumeId -> {"none", "live", "deleted"}]
      BY <2>1, <2>2 DEF TypeOK
    <3>2. active' \subseteq Exist'
      BY <2>4 DEF TypeOK
    <3> QED  BY <1>1, <2>1, <2>2, <3>1, <3>2 DEF TypeOK, tx
  <2>6. TargetsExist'
    <3>1. \A q \in Request \ {r} : pc[q] = "insert" => target[q] # x
      BY DEF TargetsExist
    <3> QED  BY <2>1, <2>2, <2>3, <2>4, <3>1 DEF TargetsExist
  <2>7. ActivationHoldsRows'
    BY <1>1, <2>1, <2>3, <2>4, HeldRowsStay
  <2>8. OneActiveOfUploaded' /\ DeletedIsInactive'
    BY <2>4 DEF OneActiveOfUploaded, DeletedIsInactive
  <2>9. LiveHasFile'
    <3> SUFFICES ASSUME NEW y \in Live', y \notin files', y \notin halfDone'
                 PROVE  \E q \in Request : pc'[q] = "deleteRow" /\ target'[q] = y
      BY DEF LiveHasFile
    <3>1. y \in Live /\ y \notin halfDone
      BY <2>1, <2>4
    <3>2. CASE y = x
      BY <2>1, <2>2, <2>3, <2>4, <3>1, <3>2 DEF LiveHasFile, Live, TypeOK
    <3>3. CASE y # x
      <4>1. PICK q \in Request : pc[q] = "deleteRow" /\ target[q] = y
        BY <2>1, <3>1, <3>3 DEF LiveHasFile
      <4> QED  BY <2>3, <3>3, <4>1
    <3> QED  BY <3>2, <3>3
  <2> QED  BY <2>5, <2>6, <2>7, <2>8, <2>9
<1> QED  BY <1>2, <1>3

-----------------------------------------------------------------------------
\* A restart rolls the transactions back and remembers the deletions.
LEMMA CrashKeeps ==
    ASSUME IndInv, Crash
    PROVE  IndInv'
<1> USE DEF IndInv
<1>1. /\ UNCHANGED <<status, active, files, target, failures>>
      /\ crashes' \in 0..MaxCrashes
      /\ halfDone' = halfDone \cup
             {target[r] : r \in {q \in Request : pc[q] = "deleteRow"}}
      /\ \A r \in Request : pc'[r] \in {"idle", "done"}
      /\ \A r \in Request : pc'[r] = "idle" <=> pc[r] = "idle"
      /\ \A r \in Request : cleared'[r] = {}
  BY ConstantsAssumption DEF Crash, rows, TypeOK
<1>2. Live' = Live /\ Exist' = Exist
  BY <1>1 DEF Live, Exist
<1>3. TypeOK'
  <2>1. halfDone' \subseteq ResumeId
    BY <1>1 DEF TypeOK, TargetsExist
  <2> QED  BY <1>1, <1>2, <2>1 DEF TypeOK, Crash
<1>4. TargetsExist' /\ ActivationHoldsRows'
  BY <1>1, <1>2 DEF TargetsExist, ActivationHoldsRows
<1>5. OneActiveOfUploaded' /\ DeletedIsInactive' /\ LiveHasFile'
  BY <1>1, <1>2 DEF OneActiveOfUploaded, DeletedIsInactive, LiveHasFile
<1> QED  BY <1>3, <1>4, <1>5

LEMMA StepIndInv == IndInv /\ [Next]_vars => IndInv'
<1> SUFFICES ASSUME IndInv, [Next]_vars PROVE IndInv'
  OBVIOUS
<1>1. CASE UNCHANGED vars
  BY <1>1
  DEF vars, rows, tx, requests, faults, IndInv, TypeOK, TargetsExist,
      ActivationHoldsRows, OneActiveOfUploaded, DeletedIsInactive,
      LiveHasFile, Live, Exist
<1>2. ASSUME NEW r \in Request, Begin(r) \/ Proceed(r)
      PROVE  IndInv'
  BY <1>2, ActivationKeeps, ActivationEnds, UploadKeeps, DeletionKeeps
  DEF Begin, Proceed, SetResumeAsActive
<1> QED  BY <1>1, <1>2, CrashKeeps DEF Next

-----------------------------------------------------------------------------
\* The strengthened invariant holds of every behaviour.
\* (SetResumeAsActive, UploadResume, DeleteResume and restarts.)
THEOREM Invariance == Spec => []IndInv
<1> QED  BY InitIndInv, StepIndInv, PTL DEF Spec

\* Type correctness: rows, locks and places are what they may be.
\* (The table resume and the three handlers.)
THEOREM TypeCorrect == Spec => []TypeOK
<1>1. IndInv => TypeOK
  BY DEF IndInv
<1> QED  BY <1>1, Invariance, PTL

\* Of the resumes that were there from the start at most one is active.
\* (SetResumeAsActive: both updates and the commit.)
THEOREM OneActive == Spec => []OneActiveOfUploaded
<1>1. IndInv => OneActiveOfUploaded
  BY DEF IndInv
<1> QED  BY <1>1, Invariance, PTL

\* Only live resumes are active.
\* (SetResumeAsActive locks the row it found; DeleteResume clears is_active.)
THEOREM ActiveIsLive == Spec => []DeletedIsInactive
<1>1. IndInv => DeletedIsInactive
  BY DEF IndInv
<1> QED  BY <1>1, Invariance, PTL

\* A live resume has its file unless a deletion of it is or was half-way, or its
\* upload reported an error although the row is there.
\* (UploadResume and DeleteResume: file first.)
THEOREM FileOfLive == Spec => []LiveHasFile
<1>1. IndInv => LiveHasFile
  BY DEF IndInv
<1> QED  BY <1>1, Invariance, PTL

\* No step leaves the user without an active resume but the deletion of it.
\* (SetResumeAsActive: every early return rolls back.)
THEOREM ActiveIsKept == Spec => KeepsAnActiveResume
<1>1. IndInv /\ [Next]_vars =>
          [active # {} /\ active' = {} =>
              \E r \in Request : pc[r] = "deleteRow" /\ pc'[r] = "done"]_vars
  <2> SUFFICES ASSUME IndInv, Next, active # {}, active' = {}
               PROVE  \E r \in Request : pc[r] = "deleteRow" /\ pc'[r] = "done"
    OBVIOUS
  <2>1. PICK r \in Request : DeleteRow(r) \/ DeleteRowFails(r)
    BY DEF Next, Begin, Proceed, SetResumeAsActive, UploadResume, DeleteResume,
           SetActiveBegin, DeleteRead, UploadFile, UploadFileFails, ClearRow,
           SetActiveFind, SetActiveActivate, SetActiveCommit, SetActiveFails,
           SetActiveAborted, UploadInsert, UploadInsertFails, UploadRemoveFile,
           DeleteFile, DeleteFileFails, Crash, Activated, rows
  <2>2. pc[r] = "deleteRow" /\ pc'[r] = "done"
    BY <2>1 DEF DeleteRow, DeleteRowFails, IndInv, TypeOK
  <2> QED  BY <2>2
<1> QED  BY <1>1, Invariance, PTL DEF Spec, KeepsAnActiveResume
=============================================================================
