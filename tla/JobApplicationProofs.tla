------------------------ MODULE JobApplicationProofs ------------------------
(***************************************************************************)
(* Proofs about JobApplication, for every number of requests, failures and *)
(* restarts: IndInv is inductive, hence its conjuncts are invariants, two  *)
(* properties of steps follow from it, and so does, with LifeInv, that the *)
(* handlers implement ApplicationLife.                                     *)
(***************************************************************************)
EXTENDS JobApplication, TLAPS

\* What the steps of all handlers, the worker and a restart expand to.
USE DEF At, GoTo, Answer, EndTx

-----------------------------------------------------------------------------
LEMMA InitIndInv == Init => IndInv
<1> SUFFICES ASSUME Init PROVE IndInv
  OBVIOUS
<1>1. TypeOK
  <2>1. app \in Row
    BY DEF Init, Row
  <2>2. /\ failures \in 0..MaxFailures /\ crashes \in 0..MaxCrashes
        /\ 0 \in 0..CancelAttempts
    BY ConstantsAssumption DEF Init
  <2> QED  BY <2>1, <2>2 DEF Init, TypeOK
<1>2. RetryHoldsTheRow /\ SignalledBeforeCommit /\ CreatedWithWorkflow
  BY DEF Init, RetryHoldsTheRow, SignalledBeforeCommit, CreatedWithWorkflow
<1>3. RequeuedRowWasSignalled
  BY ConstantsAssumption DEF Init, RequeuedRowWasSignalled
<1>4. CancelReachesPool /\ CancelProgress
  BY DEF Init, CancelReachesPool, CancelProgress
<1> QED  BY <1>1, <1>2, <1>3, <1>4 DEF IndInv

\* Steps of the creation and of the worker: no request moves.
LEMMA CreationKeeps ==
    ASSUME IndInv, Creation
    PROVE  IndInv'
<1> USE DEF IndInv
<1>1. /\ UNCHANGED <<lock, openTx, op, pc, seenWf, reply, attempts, work,
                     cancelSignal, crashes>>
      /\ failures' \in 0..MaxFailures
  BY ConstantsAssumption
  DEF Creation, ApplyForJob, InitiateApplication, Create, InitiateSucceeds,
      InitiateFails, SoftDeleteApplication, Fail, TypeOK, tx, handlers, pool,
      faults
<1>2. CASE ApplyForJob \/ InitiateApplication
  <2>1. PICK wf \in {Initial, None}, by \in {"apply", "extension"},
             status \in Status :
            /\ app' = [status |-> status, deleted |-> FALSE, wf |-> wf]
            /\ creation' = [by |-> by, at |-> "executing"]
            /\ by = "apply" => wf = Initial
            /\ app.status = "none"
    BY <1>2 DEF ApplyForJob, InitiateApplication, Create, Status
  <2>2. TypeOK'
    BY <1>1, <2>1 DEF TypeOK, Row, WorkflowId
  <2>3. \A r \in Request : pc[r] = "idle"
    BY <2>1 DEF CreatedWithWorkflow
  <2>4. RetryHoldsTheRow' /\ SignalledBeforeCommit'
    BY <1>1, <2>3 DEF RetryHoldsTheRow, SignalledBeforeCommit
  <2>5. RequeuedRowWasSignalled'
    BY <1>1, <2>1, ConstantsAssumption DEF RequeuedRowWasSignalled
  <2>6. CancelReachesPool' /\ CancelProgress'
    BY <1>1, <2>3 DEF CancelReachesPool, CancelProgress
  <2>7. CreatedWithWorkflow'
    BY <1>1, <2>1, ConstantsAssumption DEF CreatedWithWorkflow, Status
  <2> QED  BY <2>2, <2>4, <2>5, <2>6, <2>7
<1>3. CASE InitiateSucceeds \/ InitiateFails \/ SoftDeleteApplication
  <2>1. /\ app' \in Row /\ app'.status = app.status /\ app'.wf = app.wf
        /\ creation' \in [by: {"none", "apply", "extension"},
                          at: {"none", "executing", "failed", "done"}]
        /\ creation'.by = creation.by
    BY <1>3 DEF InitiateSucceeds, InitiateFails, SoftDeleteApplication, TypeOK,
                Row
  <2>2. TypeOK'
    BY <1>1, <2>1 DEF TypeOK
  <2>3. RetryHoldsTheRow' /\ SignalledBeforeCommit' /\ CreatedWithWorkflow'
    BY <1>1, <2>1
    DEF RetryHoldsTheRow, SignalledBeforeCommit, CreatedWithWorkflow
  <2>4. RequeuedRowWasSignalled' /\ CancelReachesPool' /\ CancelProgress'
    BY <1>1, <2>1
    DEF RequeuedRowWasSignalled, CancelReachesPool, CancelProgress
  <2> QED  BY <2>2, <2>3, <2>4
<1> QED  BY <1>2, <1>3 DEF Creation

\* Where the worker writes the row, no transaction holds it.
LEMMA WorkerKeeps ==
    ASSUME IndInv, Worker
    PROVE  IndInv'
<1> USE DEF IndInv
<1>1. UNCHANGED <<lock, openTx, creation, op, pc, seenWf, reply, attempts,
                  failures, crashes>>
  BY DEF Worker, WorkerQueues, WorkerStarts, WorkerReports, WorkerCancels, row,
         tx, handlers, faults
<1>2. /\ app' \in Row /\ app'.wf = app.wf
      /\ app'.status = "none" => app.status = "none"
      /\ app'.status = app.status \/ lock = None
  <2>1. ASSUME NEW st \in Status, app' = [app EXCEPT !.status = st]
        PROVE  app' \in Row /\ app'.wf = app.wf /\ app'.status # "none"
    BY <2>1 DEF TypeOK, Row, Status
  <2>2. CASE WorkerQueues
    BY <2>1, <2>2 DEF WorkerQueues, Status
  <2>3. CASE \E w \in WorkflowId, s \in WorkerStatus : WorkerReports(w, s)
    BY <2>1, <2>3 DEF WorkerReports, WorkerStatus, Status
  <2>4. CASE \/ \E w \in WorkflowId : WorkerStarts(w)
             \/ \E r \in Request : WorkerCancels(r)
    BY <2>4 DEF WorkerStarts, WorkerCancels, row, TypeOK
  <2> QED  BY <2>2, <2>3, <2>4 DEF Worker
<1>3. /\ work' \in [WorkflowId -> {"none", "queued", "running", "ended"}]
      /\ \A w \in WorkflowId : work[w] # "none" => work'[w] # "none"
  BY DEF Worker, WorkerQueues, WorkerStarts, WorkerReports, WorkerCancels,
         TypeOK, WorkflowId
<1>4. /\ cancelSignal' \in [Request -> {"none", "sent", "handled"}]
      /\ \A r \in Request : cancelSignal[r] # "none" => cancelSignal'[r] # "none"
  BY DEF Worker, WorkerQueues, WorkerStarts, WorkerReports, WorkerCancels,
         TypeOK
<1>5. TypeOK'
  BY <1>1, <1>2, <1>3, <1>4 DEF TypeOK
<1>6. RetryHoldsTheRow' /\ CreatedWithWorkflow'
  BY <1>1, <1>2, ConstantsAssumption DEF RetryHoldsTheRow, CreatedWithWorkflow
<1>7. RequeuedRowWasSignalled' /\ SignalledBeforeCommit'
  BY <1>1, <1>2, <1>3
  DEF RequeuedRowWasSignalled, SignalledBeforeCommit, WorkflowId
<1>8. CancelReachesPool' /\ CancelProgress'
  BY <1>1, <1>4 DEF CancelReachesPool, CancelProgress
<1> QED  BY <1>5, <1>6, <1>7, <1>8

\* A restart ends every request and frees the row.
LEMMA CrashKeeps ==
    ASSUME IndInv, Crash
    PROVE  IndInv'
<1> USE DEF IndInv
<1>1. /\ UNCHANGED <<app, op, seenWf, attempts, work, cancelSignal, failures>>
      /\ crashes' = crashes + 1 /\ crashes' \in 0..MaxCrashes
      /\ creation'.by = creation.by
      /\ creation' \in [by: {"none", "apply", "extension"},
                        at: {"none", "executing", "failed", "done"}]
  BY ConstantsAssumption DEF Crash, TypeOK, pool
<1>2. /\ lock' = None /\ openTx' = {}
      /\ pc' = [r \in Request |-> IF pc[r] = "idle" THEN "idle" ELSE "done"]
      /\ reply' = [r \in Request |-> IF pc[r] # "idle" /\ reply[r] = "none"
                                     THEN "lost" ELSE reply[r]]
  BY DEF Crash
<1>3. TypeOK'
  BY <1>1, <1>2 DEF TypeOK
<1>4. /\ RetryHoldsTheRow' /\ SignalledBeforeCommit'
      /\ RequeuedRowWasSignalled' /\ CreatedWithWorkflow'
  BY <1>1, <1>2 DEF RetryHoldsTheRow, SignalledBeforeCommit,
                    RequeuedRowWasSignalled, CreatedWithWorkflow
<1>5. crashes' # 0
  BY <1>1 DEF TypeOK
<1>6. CancelReachesPool'
  BY <1>5 DEF CancelReachesPool
<1>7. CancelProgress'
  BY <1>1, <1>2 DEF CancelProgress
<1> QED  BY <1>3, <1>4, <1>6, <1>7

-----------------------------------------------------------------------------
(* The requests.                                                           *)

\* A request arrives.
LEMMA ArriveKeeps ==
    ASSUME IndInv, NEW r \in Request, Arrive(r)
    PROVE  IndInv'
<1> USE DEF IndInv
<1>1. /\ UNCHANGED <<app, creation, lock, openTx, attempts, work,
                     cancelSignal, failures, crashes>>
      /\ pc[r] = "idle" /\ app.status # "none"
  BY DEF Arrive, RetryRead, CancelRead, DeleteRead, MarkAsAppliedRead, ReadRow,
         row, tx, pool, faults
<1>2. PICK operation \in Operations, place \in {"update", "describe", "done"},
           answer \in {"none", "rejected", "ok"}, wf \in {seenWf[r], app.wf} :
          /\ op' = [op EXCEPT ![r] = operation]
          /\ pc' = [pc EXCEPT ![r] = place]
          /\ reply' = [reply EXCEPT ![r] = answer]
          /\ seenWf' = [seenWf EXCEPT ![r] = wf]
          /\ operation = "cancel" =>
                 /\ place # "describe" /\ answer # "ok"
                 /\ place = "update" => wf = app.wf
  <2>1. /\ reply' = reply => reply' = [reply EXCEPT ![r] = "none"]
        /\ seenWf' = seenWf => seenWf' = [seenWf EXCEPT ![r] = seenWf[r]]
    BY <1>1 DEF TypeOK, CancelProgress
  <2>2. CASE RetryRead(r) \/ CancelRead(r) \/ DeleteRead(r)
    BY <2>1, <2>2 DEF RetryRead, CancelRead, DeleteRead, ReadRow
  <2>3. CASE MarkAsAppliedRead(r)
    BY <2>1, <2>3 DEF MarkAsAppliedRead, ReadRow
  <2> QED  BY <2>2, <2>3 DEF Arrive
<1>3. seenWf[r] \in WorkflowId \cup {None} /\ app.wf \in WorkflowId \cup {None}
  BY DEF TypeOK, Row
<1>4. TypeOK'
  BY <1>1, <1>2, <1>3 DEF TypeOK
<1>5. /\ RetryHoldsTheRow' /\ SignalledBeforeCommit'
      /\ RequeuedRowWasSignalled' /\ CreatedWithWorkflow'
  BY <1>1, <1>2 DEF RetryHoldsTheRow, SignalledBeforeCommit, TypeOK,
                    RequeuedRowWasSignalled, CreatedWithWorkflow
<1>6. \A q \in Request \ {r} : /\ op'[q] = op[q] /\ pc'[q] = pc[q]
                               /\ reply'[q] = reply[q]
                               /\ seenWf'[q] = seenWf[q]
  BY <1>2 DEF TypeOK
<1>7. /\ op'[r] = operation /\ pc'[r] = place /\ reply'[r] = answer
      /\ seenWf'[r] = wf /\ attempts[r] = 0 /\ 0 < CancelAttempts
  BY <1>1, <1>2, ConstantsAssumption DEF TypeOK, CancelProgress
<1>8. CancelReachesPool'
  BY <1>1, <1>2, <1>6, <1>7 DEF CancelReachesPool
<1>9. CancelProgress'
  BY <1>1, <1>2, <1>6, <1>7 DEF CancelProgress, CreatedWithWorkflow
<1> QED  BY <1>4, <1>5, <1>8, <1>9

\* A step of a request that is not a cancellation: everyone else's place and
\* all that concerns cancellations stay as they are.
LEMMA OthersUntouched ==
    ASSUME IndInv, NEW r \in Request, op[r] # "cancel", pc[r] # "idle",
           NEW place \in {"update", "waiting", "signal", "commit", "done"},
           pc' = [pc EXCEPT ![r] = place],
           \A q \in Request \ {r} : reply'[q] = reply[q],
           place = "update" => pc[r] = "describe" /\ attempts[r] = 0,
           UNCHANGED <<op, seenWf, attempts, cancelSignal, crashes, creation>>,
           app'.wf # None \/ app'.wf = app.wf,
           app'.status # "none" \/ app'.status = app.status
    PROVE  /\ \A q \in Request \ {r} : pc'[q] = pc[q]
           /\ pc'[r] = place
           /\ CancelReachesPool' /\ CancelProgress' /\ CreatedWithWorkflow'
<1> USE DEF IndInv
<1>1. pc'[r] = place /\ \A q \in Request \ {r} : pc'[q] = pc[q]
  BY DEF TypeOK
<1>2. CancelReachesPool'
  BY <1>1 DEF CancelReachesPool
<1>3. CancelProgress'
  BY <1>1 DEF CancelProgress
<1>4. CreatedWithWorkflow'
  BY <1>1 DEF CreatedWithWorkflow
<1> QED  BY <1>1, <1>2, <1>3, <1>4

\* The conditional update of a retry, and the wait for the lock.
LEMMA RetryUpdateKeeps ==
    ASSUME IndInv, NEW r \in Request,
           RetryUpdate(r) \/ RetryRecheck(r) \/ RetryUpdateFails(r)
    PROVE  IndInv'
<1> USE DEF IndInv
<1>1. /\ UNCHANGED <<app, creation, op, seenWf, attempts, work, cancelSignal,
                     crashes>>
      /\ op[r] = "retry" /\ pc[r] \in {"update", "waiting"}
      /\ openTx' \subseteq Request /\ failures' \in 0..MaxFailures
  BY ConstantsAssumption
  DEF RetryUpdate, RetryRecheck, RetryUpdateFails, Fail, TypeOK, row, pool,
      faults
<1>2. PICK place \in {"waiting", "signal", "done"},
           answer \in {reply[r], "conflict", "error"} :
          /\ pc' = [pc EXCEPT ![r] = place]
          /\ reply' = [reply EXCEPT ![r] = answer]
          /\ place = "signal" => lock' = r /\ IsSettled(app.status)
          /\ lock' = lock \/ (lock = None /\ lock' = r)
  <2>1. reply' = reply => reply' = [reply EXCEPT ![r] = reply[r]]
    BY DEF TypeOK
  <2>2. RetryMatches(app.status) => IsSettled(app.status)
    BY DEF RetryMatches, IsSettled
  <2> QED  BY <2>1, <2>2 DEF RetryUpdate, RetryRecheck, RetryUpdateFails
<1>3. TypeOK'
  BY <1>1, <1>2 DEF TypeOK
<1>4. /\ \A q \in Request \ {r} : pc'[q] = pc[q]
      /\ pc'[r] = place
      /\ CancelReachesPool' /\ CancelProgress' /\ CreatedWithWorkflow'
  <2>1. \A q \in Request \ {r} : reply'[q] = reply[q]
    BY <1>2 DEF TypeOK
  <2> QED  BY <1>1, <1>2, <2>1, OthersUntouched
<1>5. RetryHoldsTheRow'
  BY <1>1, <1>2, <1>4, ConstantsAssumption DEF RetryHoldsTheRow
<1>6. RequeuedRowWasSignalled' /\ SignalledBeforeCommit'
  BY <1>1, <1>2, <1>4 DEF RequeuedRowWasSignalled, SignalledBeforeCommit
<1> QED  BY <1>3, <1>4, <1>5, <1>6

\* The signal of a retry, received by the pool or not.
LEMMA RetrySignalKeeps ==
    ASSUME IndInv, NEW r \in Request, RetrySignal(r) \/ RetrySignalFails(r)
    PROVE  IndInv'
<1> USE DEF IndInv
<1>1. /\ UNCHANGED <<app, creation, op, seenWf, attempts, cancelSignal,
                     crashes>>
      /\ op[r] = "retry" /\ pc[r] = "signal"
      /\ openTx' \subseteq Request /\ failures' \in 0..MaxFailures
  BY ConstantsAssumption
  DEF RetrySignal, RetrySignalFails, Fail, TypeOK, row, tx, faults
<1>2. /\ work' \in [WorkflowId -> {"none", "queued", "running", "ended"}]
      /\ \A w \in WorkflowId : work[w] # "none" => work'[w] # "none"
  BY DEF RetrySignal, RetrySignalFails, TypeOK, WorkflowId
<1>3. PICK place \in {"commit", "done"}, answer \in {reply[r], "error"} :
          /\ pc' = [pc EXCEPT ![r] = place]
          /\ reply' = [reply EXCEPT ![r] = answer]
          /\ place = "commit" => lock' = lock /\ work'[r] # "none"
          /\ place = "done" => lock' = None
  <2>1. reply' = reply => reply' = [reply EXCEPT ![r] = reply[r]]
    BY DEF TypeOK
  <2> QED  BY <2>1 DEF RetrySignal, RetrySignalFails, tx, TypeOK, WorkflowId
<1>4. TypeOK'
  BY <1>1, <1>2, <1>3 DEF TypeOK
<1>5. /\ \A q \in Request \ {r} : pc'[q] = pc[q]
      /\ pc'[r] = place
      /\ CancelReachesPool' /\ CancelProgress' /\ CreatedWithWorkflow'
  <2>1. \A q \in Request \ {r} : reply'[q] = reply[q]
    BY <1>3 DEF TypeOK
  <2> QED  BY <1>1, <1>3, <2>1, OthersUntouched
<1>6. RetryHoldsTheRow'
  BY <1>1, <1>3, <1>5 DEF RetryHoldsTheRow
<1>7. RequeuedRowWasSignalled' /\ SignalledBeforeCommit'
  BY <1>1, <1>2, <1>3, <1>5
  DEF RequeuedRowWasSignalled, SignalledBeforeCommit, WorkflowId
<1> QED  BY <1>4, <1>5, <1>6, <1>7

\* The commit of a retry, in doubt or not.
LEMMA RetryCommitKeeps ==
    ASSUME IndInv, NEW r \in Request, RetryCommit(r) \/ RetryCommitFails(r)
    PROVE  IndInv'
<1> USE DEF IndInv
<1>1. /\ UNCHANGED <<creation, op, seenWf, attempts, work, cancelSignal,
                     crashes>>
      /\ op[r] = "retry" /\ pc[r] = "commit" /\ lock' = None
      /\ openTx' \subseteq Request /\ failures' \in 0..MaxFailures
      /\ pc' = [pc EXCEPT ![r] = "done"]
      /\ app' = app \/ app' = Requeued(r)
  BY ConstantsAssumption
  DEF RetryCommit, RetryCommitFails, Fail, TypeOK, pool, faults
<1>2. PICK answer \in {"ok", "error"} : reply' = [reply EXCEPT ![r] = answer]
  BY DEF RetryCommit, RetryCommitFails
<1>3. /\ app'.status # "none" \/ app'.status = app.status
      /\ app'.wf = app.wf \/ app'.wf = r
  BY <1>1 DEF TypeOK, Row, Status, WorkflowId, Requeued
<1>4. app' \in Row
  BY <1>1 DEF TypeOK, Row, Status, WorkflowId, Requeued
<1>5. TypeOK'
  BY <1>1, <1>2, <1>4 DEF TypeOK
<1>6. /\ \A q \in Request \ {r} : pc'[q] = pc[q]
      /\ pc'[r] = "done"
      /\ CancelReachesPool' /\ CancelProgress' /\ CreatedWithWorkflow'
  <2>1. \A q \in Request \ {r} : reply'[q] = reply[q]
    BY <1>2 DEF TypeOK
  <2> QED  BY <1>1, <1>3, <2>1, OthersUntouched, ConstantsAssumption
<1>7. RetryHoldsTheRow'
  BY <1>1, <1>6 DEF RetryHoldsTheRow
<1>8. RequeuedRowWasSignalled' /\ SignalledBeforeCommit'
  BY <1>1, <1>3, <1>6 DEF RequeuedRowWasSignalled, SignalledBeforeCommit
<1> QED  BY <1>5, <1>6, <1>7, <1>8

\* Deletion and marking, and a statement that fails: one row written while
\* nobody holds it, or nothing.
LEMMA PlainKeeps ==
    ASSUME IndInv, NEW r \in Request,
           Delete(r) \/ MarkAsApplied(r)
    PROVE  IndInv'
<1> USE DEF IndInv
<1>1. /\ UNCHANGED <<creation, lock, openTx, op, seenWf, attempts, work,
                     cancelSignal, crashes>>
      /\ op[r] \in {"delete", "markApplied"} /\ pc[r] \in {"describe", "update"}
      /\ failures' \in 0..MaxFailures
  BY ConstantsAssumption
  DEF Delete, DeleteUpdate, StatementFails, MarkAsApplied,
      JobApplicationWorkflowIsRunning, MarkAsAppliedUpdate, Fail, TypeOK, row,
      tx, pool, faults
<1>2. PICK place \in {"update", "done"},
           answer \in {reply[r], "ok", "error", "conflict"} :
          /\ pc' = [pc EXCEPT ![r] = place]
          /\ reply' = [reply EXCEPT ![r] = answer]
          /\ place = "update" => pc[r] = "describe"
  <2>1. reply' = reply => reply' = [reply EXCEPT ![r] = reply[r]]
    BY DEF TypeOK
  <2>2. CASE JobApplicationWorkflowIsRunning(r)
    <3>1. \/ /\ pc' = [pc EXCEPT ![r] = "done"]
             /\ reply' = [reply EXCEPT ![r] = "conflict"]
          \/ /\ pc' = [pc EXCEPT ![r] = "update"] /\ pc[r] = "describe"
             /\ reply' = [reply EXCEPT ![r] = reply[r]]
      BY <2>1, <2>2 DEF JobApplicationWorkflowIsRunning
    <3> QED  BY <3>1
  <2>3. CASE DeleteUpdate(r) \/ MarkAsAppliedUpdate(r)
    BY <2>3 DEF DeleteUpdate, MarkAsAppliedUpdate
  <2>4. CASE \/ StatementFails(r, "delete", "update")
             \/ StatementFails(r, "markApplied", "describe")
             \/ StatementFails(r, "markApplied", "update")
    BY <2>4 DEF StatementFails
  <2> QED  BY <2>2, <2>3, <2>4 DEF Delete, MarkAsApplied
<1>3. /\ app' \in Row /\ app'.wf = app.wf
      /\ app'.status # "none" \/ app'.status = app.status
      /\ app'.status = app.status \/ lock = None
  <2>1. CASE app' = app
    BY <2>1 DEF TypeOK
  <2>2. CASE lock = None /\ app' = [app EXCEPT !.deleted = TRUE]
    BY <2>2 DEF TypeOK, Row
  <2>3. CASE lock = None /\ app' = [app EXCEPT !.status = "applied"]
    BY <2>3 DEF TypeOK, Row, Status
  <2> QED  BY <2>1, <2>2, <2>3
           DEF Delete, DeleteUpdate, StatementFails, MarkAsApplied,
               JobApplicationWorkflowIsRunning, MarkAsAppliedUpdate, row
<1>4. TypeOK'
  BY <1>1, <1>2, <1>3 DEF TypeOK
<1>5. /\ \A q \in Request \ {r} : pc'[q] = pc[q]
      /\ pc'[r] = place
      /\ CancelReachesPool' /\ CancelProgress' /\ CreatedWithWorkflow'
  <2>1. \A q \in Request \ {r} : reply'[q] = reply[q]
    BY <1>2 DEF TypeOK
  <2>2. op[r] # "cancel" /\ pc[r] # "idle" /\ place \in {"update", "done"}
    BY <1>1
  <2>3. pc[r] = "describe" => attempts[r] = 0
    BY DEF CancelProgress
  <2> QED  BY <1>1, <1>2, <1>3, <2>1, <2>2, <2>3, OthersUntouched
<1>6. RetryHoldsTheRow'
  BY <1>1, <1>2, <1>3, <1>5, ConstantsAssumption DEF RetryHoldsTheRow
<1>7. RequeuedRowWasSignalled' /\ SignalledBeforeCommit'
  BY <1>1, <1>2, <1>3, <1>5 DEF RequeuedRowWasSignalled, SignalledBeforeCommit
<1> QED  BY <1>4, <1>5, <1>6, <1>7

\* What every step of a cancellation and its goroutine has in common.
LEMMA CancelStepKeeps ==
    ASSUME IndInv, NEW r \in Request, op[r] = "cancel",
           pc' \in [Request -> {"idle", "describe", "update", "waiting",
                                "signal", "commit", "signalling", "done"}],
           reply' \in [Request -> {"none", "ok", "rejected", "conflict",
                                   "error", "lost"}],
           attempts' \in [Request -> 0..CancelAttempts],
           cancelSignal' \in [Request -> {"none", "sent", "handled"}],
           \A q \in Request \ {r} : /\ pc'[q] = pc[q] /\ reply'[q] = reply[q]
                                    /\ attempts'[q] = attempts[q]
                                    /\ cancelSignal'[q] = cancelSignal[q],
           pc'[r] \in {"signalling", "done"},
           pc'[r] = "signalling" => attempts'[r] < CancelAttempts,
           /\ creation.by = "apply" \/ seenWf[r] # None
           /\ crashes = 0 /\ reply'[r] = "ok"
           =>
               \/ pc'[r] = "signalling"
               \/ cancelSignal'[r] # "none"
               \/ attempts'[r] = CancelAttempts,
           \/ app' = app
           \/ lock = None /\ app' = [app EXCEPT !.status = "cancelled"],
           UNCHANGED <<creation, lock, openTx, op, seenWf, work, crashes>>,
           failures' \in 0..MaxFailures
    PROVE  IndInv'
<1> USE DEF IndInv
<1>1. /\ app' \in Row /\ app'.wf = app.wf
      /\ app'.status # "none" \/ app'.status = app.status
      /\ app'.status = app.status \/ lock = None
  BY DEF TypeOK, Row, Status
<1>2. TypeOK'
  BY <1>1 DEF TypeOK
<1>3. RetryHoldsTheRow'
  BY <1>1, ConstantsAssumption DEF RetryHoldsTheRow
<1>4. RequeuedRowWasSignalled' /\ SignalledBeforeCommit'
  BY <1>1 DEF RequeuedRowWasSignalled, SignalledBeforeCommit
<1>5. CreatedWithWorkflow'
  <2>1. pc[r] # "idle"
    BY DEF CancelProgress
  <2> QED  BY <1>1, <2>1 DEF CreatedWithWorkflow
<1>6. CancelReachesPool'
  BY DEF CancelReachesPool
<1>7. CancelProgress'
  BY DEF CancelProgress
<1> QED  BY <1>2, <1>3, <1>4, <1>5, <1>6, <1>7

LEMMA CancelKeeps ==
    ASSUME IndInv, NEW r \in Request, Cancel(r)
    PROVE  IndInv'
<1> USE DEF IndInv
<1>1. /\ UNCHANGED <<creation, lock, openTx, op, seenWf, work, crashes>>
      /\ op[r] = "cancel" /\ pc[r] \in {"update", "signalling"}
      /\ failures' \in 0..MaxFailures
  BY ConstantsAssumption
  DEF Cancel, CancelUpdate, CancelSignal, CancelSignalFails, StatementFails,
      Fail, TypeOK, row, tx, pool, faults
<1>2. /\ attempts[r] \in 0..CancelAttempts /\ CancelAttempts \in Nat
      /\ pc[r] = "signalling" => attempts[r] < CancelAttempts
      /\ pc[r] = "update" => /\ attempts[r] = 0 /\ reply[r] # "ok"
                             /\ 0 < CancelAttempts
                             /\ creation.by = "apply" => seenWf[r] # None
  BY <1>1, ConstantsAssumption DEF TypeOK, CancelProgress
<1>3. CASE CancelUpdate(r)
  <2>1. /\ attempts' = attempts /\ cancelSignal' = cancelSignal
        /\ pc[r] = "update"
    BY <1>3 DEF CancelUpdate, pool
  <2>2. CASE Answer(r, "conflict") /\ app' = app
    BY <1>1, <1>2, <2>1, <2>2, CancelStepKeeps DEF TypeOK
  <2>3. CASE /\ lock = None
             /\ app' = [app EXCEPT !.status = "cancelled"]
             /\ reply' = [reply EXCEPT ![r] = "ok"]
             /\ GoTo(r, IF seenWf[r] = None THEN "done" ELSE "signalling")
    <3>1. CASE seenWf[r] = None
      BY <1>1, <1>2, <2>1, <2>3, <3>1, CancelStepKeeps DEF TypeOK
    <3>2. CASE seenWf[r] # None
      BY <1>1, <1>2, <2>1, <2>3, <3>2, CancelStepKeeps DEF TypeOK
    <3> QED  BY <3>1, <3>2
  <2> QED  BY <1>3, <2>2, <2>3 DEF CancelUpdate
<1>4. CASE CancelSignal(r)
  <2>1. /\ pc' = [pc EXCEPT ![r] = "done"]
        /\ cancelSignal' = [cancelSignal EXCEPT ![r] = "sent"]
        /\ UNCHANGED <<app, reply, attempts>>
    BY <1>4 DEF CancelSignal, row
  <2> QED  BY <1>1, <1>2, <2>1, CancelStepKeeps DEF TypeOK
<1>5. CASE CancelSignalFails(r)
  <2>1. /\ pc[r] = "signalling"
        /\ attempts' = [attempts EXCEPT ![r] = attempts[r] + 1]
        /\ UNCHANGED <<app, reply, cancelSignal>>
    BY <1>5 DEF CancelSignalFails, row, pool
  <2>2. CASE attempts[r] + 1 < CancelAttempts
    <3>1. pc' = [pc EXCEPT ![r] = "signalling"]
      BY <1>5, <2>2 DEF CancelSignalFails
    <3> QED  BY <1>1, <1>2, <2>1, <2>2, <3>1, CancelStepKeeps DEF TypeOK
  <2>3. CASE ~(attempts[r] + 1 < CancelAttempts)
    <3>1. pc' = [pc EXCEPT ![r] = "done"]
      BY <1>5, <2>3 DEF CancelSignalFails
    <3>2. attempts[r] + 1 = CancelAttempts
      BY <1>2, <2>1, <2>3
    <3> QED  BY <1>1, <1>2, <2>1, <3>1, <3>2, CancelStepKeeps DEF TypeOK
  <2> QED  BY <2>2, <2>3
<1>6. CASE StatementFails(r, "cancel", "update")
  <2>1. /\ pc' = [pc EXCEPT ![r] = "done"]
        /\ reply' = [reply EXCEPT ![r] = "error"]
        /\ UNCHANGED <<app, attempts, cancelSignal>>
    BY <1>6 DEF StatementFails, row, pool
  <2> QED  BY <1>1, <1>2, <2>1, CancelStepKeeps DEF TypeOK
<1> QED  BY <1>3, <1>4, <1>5, <1>6 DEF Cancel

-----------------------------------------------------------------------------
(* The theorems.                                                           *)

LEMMA StepIndInv == IndInv /\ [Next]_vars => IndInv'
<1> SUFFICES ASSUME IndInv, [Next]_vars PROVE IndInv'
  OBVIOUS
<1>1. CASE Next
  <2>1. ASSUME NEW r \in Request, Retry(r)  PROVE IndInv'
    BY <2>1, RetryUpdateKeeps, RetrySignalKeeps, RetryCommitKeeps DEF Retry
  <2> QED  BY <1>1, <2>1, CreationKeeps, ArriveKeeps, CancelKeeps, PlainKeeps,
              WorkerKeeps, CrashKeeps DEF Next, Proceed
<1>2. CASE UNCHANGED vars
  BY <1>2 DEF vars, row, tx, handlers, pool, faults, IndInv, TypeOK,
              RetryHoldsTheRow, RequeuedRowWasSignalled, CancelReachesPool,
              SignalledBeforeCommit, CreatedWithWorkflow, CancelProgress
<1> QED  BY <1>1, <1>2

\* The inductive invariant holds of every reachable state.
THEOREM Invariance == Spec => []IndInv
  BY InitIndInv, StepIndInv, PTL DEF Spec

\* The row, the lock, every request and everything the pool was told are
\* always well-typed.
THEOREM TypeCorrect == Spec => []TypeOK
<1>1. IndInv => TypeOK
  BY DEF IndInv
<1> QED  BY <1>1, Invariance, PTL

\* A retry between its update and the end of its transaction holds the row,
\* and the row stays settled.
THEOREM RetryHolds == Spec => []RetryHoldsTheRow
<1>1. IndInv => RetryHoldsTheRow
  BY DEF IndInv
<1> QED  BY <1>1, Invariance, PTL

\* No row is left queued under a workflow id the pool never heard of.
THEOREM RequeuedSignalled == Spec => []RequeuedRowWasSignalled
<1>1. IndInv => RequeuedRowWasSignalled
  BY DEF IndInv
<1> QED  BY <1>1, Invariance, PTL

\* Without restarts, a cancellation reaches the pool or was tried the full
\* number of times.
THEOREM CancelReaches == Spec => []CancelReachesPool
<1>1. IndInv => CancelReachesPool
  BY DEF IndInv
<1> QED  BY <1>1, Invariance, PTL

\* One retry per settlement: only a settled row gets a new workflow id.
THEOREM OneRetryPerSettlement == Spec => RequeuesOnlySettled
<1>1. IndInv /\ [Next]_vars =>
          [app.status # "none" /\ app'.wf # app.wf => IsSettled(app.status)]_vars
  <2> SUFFICES ASSUME IndInv, Next, app.status # "none"
               PROVE  app'.wf # app.wf => IsSettled(app.status)
    OBVIOUS
  <2>1. CASE \E r \in Request : Retry(r)
    <3>1. PICK r \in Request : Retry(r)
      BY <2>1
    <3>2. CASE RetryCommit(r) \/ RetryCommitFails(r)
      <4>1. pc[r] = "commit"
        BY <3>2 DEF RetryCommit, RetryCommitFails
      <4> QED  BY <4>1 DEF IndInv, RetryHoldsTheRow
    <3> QED  BY <3>1, <3>2
             DEF Retry, RetryUpdate, RetryRecheck, RetryUpdateFails,
                 RetrySignal, RetrySignalFails, row
  <2>2. app.wf = app'.wf \/ \E r \in Request : Retry(r)
    <3>1. ASSUME \E st \in Status : app' = [app EXCEPT !.status = st]
          PROVE  app'.wf = app.wf
      BY <3>1 DEF IndInv, TypeOK, Row
    <3>2. ASSUME app' = [app EXCEPT !.deleted = TRUE]
          PROVE  app'.wf = app.wf
      BY <3>2 DEF IndInv, TypeOK, Row
    <3>3. CASE Creation
      BY <3>2, <3>3
      DEF Creation, ApplyForJob, InitiateApplication, Create,
          InitiateSucceeds, InitiateFails, SoftDeleteApplication
    <3>4. CASE Worker
      BY <3>1, <3>4
      DEF Worker, WorkerQueues, WorkerStarts, WorkerReports, WorkerCancels,
          WorkerStatus, Status, row
    <3>5. CASE Crash
      BY <3>5 DEF Crash
    <3>6. CASE \E r \in Request : Arrive(r)
      BY <3>6 DEF Arrive, RetryRead, CancelRead, DeleteRead,
                  MarkAsAppliedRead, ReadRow, row
    <3>7. CASE \E r \in Request : Cancel(r) \/ Delete(r) \/ MarkAsApplied(r)
      BY <3>1, <3>2, <3>7
      DEF Cancel, CancelUpdate, CancelSignal, CancelSignalFails, Delete,
          DeleteUpdate, MarkAsApplied, JobApplicationWorkflowIsRunning,
          MarkAsAppliedUpdate, StatementFails, Status, row
    <3> QED  BY <3>3, <3>4, <3>5, <3>6, <3>7 DEF Next, Proceed
  <2> QED  BY <2>1, <2>2
<1> QED  BY <1>1, Invariance, PTL DEF Spec, RequeuesOnlySettled

\* No handler takes an application out of "applied".
THEOREM AppliedSurvives == Spec => AppliedSurvivesHandlers
<1>1. IndInv /\ [Next]_vars =>
          [app.status = "applied" /\ pc' # pc => app'.status = "applied"]_vars
  <2> SUFFICES ASSUME IndInv, Next, app.status = "applied", pc' # pc
               PROVE  app'.status = "applied"
    OBVIOUS
  <2>1. ~(Creation \/ Worker)
    BY DEF Creation, ApplyForJob, InitiateApplication, Create,
           InitiateSucceeds, InitiateFails, SoftDeleteApplication, Worker,
           WorkerQueues, WorkerStarts, WorkerReports, WorkerCancels, handlers
  <2>2. CASE Crash \/ \E r \in Request : Arrive(r)
    BY <2>2 DEF Crash, Arrive, RetryRead, CancelRead, DeleteRead,
                MarkAsAppliedRead, ReadRow, row
  <2>3. ASSUME NEW r \in Request, Retry(r)
        PROVE  app'.status = "applied"
    <3>1. pc[r] # "commit"
      BY DEF IndInv, RetryHoldsTheRow, IsSettled, Settled
    <3> QED  BY <2>3, <3>1
             DEF Retry, RetryUpdate, RetryRecheck, RetryUpdateFails,
                 RetrySignal, RetrySignalFails, RetryCommit,
                 RetryCommitFails, row
  <2>4. ASSUME NEW r \in Request, Cancel(r)
        PROVE  app'.status = "applied"
    BY <2>4 DEF Cancel, CancelUpdate, CancelSignal, CancelSignalFails,
                StatementFails, CancelMatches, Cancellable, row
  <2>5. ASSUME NEW r \in Request, Delete(r) \/ MarkAsApplied(r)
        PROVE  app'.status = "applied"
    <3>1. ASSUME \/ app' = [app EXCEPT !.deleted = TRUE]
                 \/ app' = [app EXCEPT !.status = "applied"]
          PROVE  app'.status = "applied"
      BY <3>1 DEF IndInv, TypeOK, Row
    <3> QED  BY <2>5, <3>1
             DEF Delete, DeleteUpdate, MarkAsApplied,
                 JobApplicationWorkflowIsRunning, MarkAsAppliedUpdate,
                 StatementFails, row
  <2> QED  BY <2>1, <2>2, <2>3, <2>4, <2>5 DEF Next, Proceed
<1> QED  BY <1>1, Invariance, PTL DEF Spec, AppliedSurvivesHandlers
-----------------------------------------------------------------------------
(* JobApplication implements ApplicationLife.                              *)

Places == {"idle", "describe", "update", "waiting", "signal", "commit", "signalling",
           "done"}

LEMMA FreeRow == lock = None => Pending = None
  BY DEF Pending

\* Steps of a request that holds no signalled row change nothing of who does.
LEMMA SamePending ==
    ASSUME IndInv, NEW r \in Request, NEW place,
           pc' = [pc EXCEPT ![r] = place], lock' = lock,
           pc[r] # "commit", place # "commit"
    PROVE  Pending' = Pending
<1>1. lock \in Request \cup {None} /\ pc \in [Request -> Places]
  BY DEF IndInv, TypeOK, Places
<1>2. lock # None => (pc'[lock] = "commit" <=> pc[lock] = "commit")
  BY <1>1
<1> QED  BY <1>2 DEF Pending

\* A request acts on a row that is there.
LEMMA RowIsThere ==
    ASSUME IndInv, NEW r \in Request, pc[r] # "idle"
    PROVE  app.status # "none"
  BY DEF IndInv, CreatedWithWorkflow

LEMMA InitLife == Init => LifeInv /\ AL!Init
<1> SUFFICES ASSUME Init PROVE LifeInv /\ AL!Init
  OBVIOUS
<1>1. Told = {} /\ Pending = None
  BY DEF Init, Told, Pending
<1>2. FreshIds
  BY DEF Init, FreshIds, WorkflowId
<1> QED  BY <1>1, <1>2 DEF Init, LifeInv, NothingBeforeTheRow, AL!Init

\* No step unmakes the row, and a step before there is one creates it or is
\* a restart.
LEMMA RowStays ==
    ASSUME IndInv, LifeInv, Next
    PROVE  \/ app'.status # "none"
           \/ UNCHANGED <<app, creation, work>>
<1> USE DEF IndInv, LifeInv
<1>1. app \in Row /\ creation.at # "none" => app.status # "none"
  BY DEF NothingBeforeTheRow, TypeOK
<1>2. \A st \in Status : [app EXCEPT !.status = st].status # "none"
  BY DEF TypeOK, Row, Status
<1>3. [app EXCEPT !.deleted = TRUE].status = app.status
  BY DEF TypeOK, Row
<1>4. CASE Creation
  <2>1. CASE ApplyForJob \/ InitiateApplication
    BY <2>1 DEF ApplyForJob, InitiateApplication, Create
  <2>2. CASE InitiateSucceeds \/ InitiateFails \/ SoftDeleteApplication
    <3>1. creation.at # "none" /\ app.status # "none"
      BY <2>2 DEF InitiateSucceeds, InitiateFails, SoftDeleteApplication,
                  NothingBeforeTheRow
    <3> QED  BY <1>3, <2>2, <3>1 DEF InitiateSucceeds, InitiateFails, SoftDeleteApplication
  <2> QED  BY <1>4, <2>1, <2>2 DEF Creation
<1>5. CASE Worker
  <2>1. CASE WorkerQueues
    BY <1>2, <2>1 DEF WorkerQueues, Status
  <2>2. ASSUME NEW w \in WorkflowId, WorkerStarts(w) PROVE app'.status # "none"
    <3>1. w \in Told /\ app' = app
      BY <2>2 DEF WorkerStarts, Told, row
    <3> QED  BY <3>1 DEF NothingBeforeTheRow
  <2>3. ASSUME NEW w \in WorkflowId, NEW s \in WorkerStatus, WorkerReports(w, s)
        PROVE  app'.status # "none"
    BY <1>2, <2>3 DEF WorkerReports, WorkerStatus, Status
  <2>4. ASSUME NEW r \in Request, WorkerCancels(r), app.status = "none"
        PROVE  UNCHANGED <<app, creation, work>>
    <3>1. work \in [WorkflowId -> {"none", "queued", "running", "ended"}]
      BY DEF TypeOK
    <3>2. \A w \in WorkflowId : work[w] = "none"
      BY <2>4 DEF NothingBeforeTheRow, Told
    <3> QED  BY <2>4, <3>1, <3>2 DEF WorkerCancels, row
  <2>5. ASSUME NEW r \in Request, WorkerCancels(r) PROVE app' = app
    BY <2>5 DEF WorkerCancels, row
  <2> QED  BY <1>5, <2>1, <2>2, <2>3, <2>4, <2>5 DEF Worker
<1>6. CASE Crash
  BY <1>6 DEF Crash, NothingBeforeTheRow, pool
<1>7. ASSUME NEW r \in Request, Arrive(r) PROVE app'.status # "none"
  <2>1. app' = app /\ app.status # "none"
    BY <1>7 DEF Arrive, RetryRead, CancelRead, DeleteRead, MarkAsAppliedRead,
                ReadRow, row
  <2> QED  BY <2>1
<1>8. ASSUME NEW r \in Request, Proceed(r) PROVE app'.status # "none"
  <2>1. app.status # "none"
    <3>1. pc[r] # "idle"
      BY <1>8
      DEF Proceed, Retry, RetryUpdate, RetryRecheck, RetryUpdateFails, RetrySignal,
          RetrySignalFails, RetryCommit, RetryCommitFails, Cancel, CancelUpdate,
          CancelSignal, CancelSignalFails, Delete, DeleteUpdate, MarkAsApplied,
          JobApplicationWorkflowIsRunning, MarkAsAppliedUpdate, StatementFails
    <3> QED  BY <3>1, RowIsThere
  <2>2. \/ app' = app
        \/ app' = Requeued(r)
        \/ app' = [app EXCEPT !.deleted = TRUE]
        \/ \E st \in Status : app' = [app EXCEPT !.status = st]
    BY <1>8
    DEF Proceed, Retry, RetryUpdate, RetryRecheck, RetryUpdateFails, RetrySignal,
        RetrySignalFails, RetryCommit, RetryCommitFails, Cancel, CancelUpdate,
        CancelSignal, CancelSignalFails, Delete, DeleteUpdate, MarkAsApplied,
        JobApplicationWorkflowIsRunning, MarkAsAppliedUpdate, StatementFails, row, Status
  <2>3. Requeued(r).status # "none"
    BY DEF Requeued, TypeOK, Row
  <2> QED  BY <1>2, <1>3, <2>1, <2>2, <2>3
<1> QED  BY <1>4, <1>5, <1>6, <1>7, <1>8 DEF Next

\* What a step of a retry, and of any other handler, does to ids.
LEMMA FreshKeeps == IndInv /\ LifeInv /\ Next => FreshIds'
<1> SUFFICES ASSUME IndInv, LifeInv, Next PROVE FreshIds'
  OBVIOUS
<1> DEFINE Old == {"commit", "signalling", "done"}
<1>1. /\ work \in [WorkflowId -> {"none", "queued", "running", "ended"}]
      /\ pc \in [Request -> Places] /\ Request \subseteq WorkflowId /\ Initial \notin Request
      /\ \A r \in Request : pc[r] \notin Old => work[r] = "none"
  <2>1. Request \subseteq WorkflowId /\ Initial \notin Request
    BY ConstantsAssumption DEF WorkflowId
  <2> QED  BY <2>1 DEF IndInv, TypeOK, LifeInv, FreshIds, Places
<1>2. SUFFICES /\ \A r \in Request : pc'[r] \notin Old => pc[r] \notin Old
               /\ \A r \in Request : pc'[r] \notin Old /\ work[r] = "none" => work'[r] = "none"
  BY <1>1 DEF FreshIds
<1>3. CASE Creation
  BY <1>3 DEF Creation, ApplyForJob, InitiateApplication, Create, InitiateSucceeds,
              InitiateFails, SoftDeleteApplication, handlers, pool
<1>4. CASE Worker
  <2>1. pc' = pc
    BY <1>4 DEF Worker, WorkerQueues, WorkerStarts, WorkerReports, WorkerCancels, handlers
  <2>2. \A r \in Request : work[r] = "none" => work'[r] = "none"
    BY <1>1, <1>4 DEF Worker, WorkerQueues, WorkerStarts, WorkerReports, WorkerCancels
  <2> QED  BY <2>1, <2>2
<1>5. CASE Crash
  BY <1>1, <1>5 DEF Crash, pool
<1>6. ASSUME NEW r \in Request, Arrive(r)
      PROVE  /\ work' = work /\ pc[r] = "idle"
             /\ \E c \in Places : pc' = [pc EXCEPT ![r] = c]
  <2> USE DEF ReadRow, pool, Places
  <2>1. CASE RetryRead(r)
    BY <2>1 DEF RetryRead
  <2>2. CASE CancelRead(r)
    BY <2>2 DEF CancelRead
  <2>3. CASE DeleteRead(r)
    BY <2>3 DEF DeleteRead
  <2>4. CASE MarkAsAppliedRead(r)
    BY <2>4 DEF MarkAsAppliedRead
  <2> QED  BY <1>6, <2>1, <2>2, <2>3, <2>4 DEF Arrive
<1>7. ASSUME NEW r \in Request, Proceed(r)
      PROVE  \E c \in Places :
                /\ pc' = [pc EXCEPT ![r] = c]
                /\ c \notin Old => pc[r] \notin Old
                /\ \/ work' = work
                   \/ c \in Old /\ work' = [work EXCEPT ![r] = "queued"]
  <2>1. CASE Retry(r)
    <3> USE DEF pool, Places
    <3>1. CASE RetryUpdate(r)
      BY <3>1 DEF RetryUpdate
    <3>2. CASE RetryRecheck(r)
      BY <3>2 DEF RetryRecheck
    <3>3. CASE RetryUpdateFails(r)
      BY <3>3 DEF RetryUpdateFails
    <3>4. CASE RetrySignal(r) \/ RetrySignalFails(r)
      BY <3>4 DEF RetrySignal, RetrySignalFails
    <3>5. CASE RetryCommit(r) \/ RetryCommitFails(r)
      BY <3>5 DEF RetryCommit, RetryCommitFails
    <3> QED  BY <2>1, <3>1, <3>2, <3>3, <3>4, <3>5 DEF Retry
  <2>2. CASE Cancel(r)
    <3> USE DEF pool, Places
    <3>1. CASE CancelUpdate(r)
      BY <3>1 DEF CancelUpdate
    <3>2. CASE CancelSignal(r) \/ CancelSignalFails(r)
      BY <3>2 DEF CancelSignal, CancelSignalFails
    <3>3. CASE StatementFails(r, "cancel", "update")
      BY <3>3 DEF StatementFails
    <3> QED  BY <2>2, <3>1, <3>2, <3>3 DEF Cancel
  <2>3. CASE Delete(r) \/ MarkAsApplied(r)
    <3> USE DEF pool, Places
    <3>1. CASE DeleteUpdate(r) \/ MarkAsAppliedUpdate(r)
      BY <3>1 DEF DeleteUpdate, MarkAsAppliedUpdate
    <3>2. CASE JobApplicationWorkflowIsRunning(r)
      BY <3>2 DEF JobApplicationWorkflowIsRunning
    <3>3. CASE \/ StatementFails(r, "delete", "update")
               \/ StatementFails(r, "markApplied", "describe")
               \/ StatementFails(r, "markApplied", "update")
      BY <3>3 DEF StatementFails
    <3> QED  BY <2>3, <3>1, <3>2, <3>3 DEF Delete, MarkAsApplied
  <2> QED  BY <1>7, <2>1, <2>2, <2>3 DEF Proceed
<1>8. ASSUME NEW r \in Request, Arrive(r) \/ Proceed(r)
      PROVE  /\ \A q \in Request : pc'[q] \notin Old => pc[q] \notin Old
             /\ \A q \in Request : pc'[q] \notin Old /\ work[q] = "none" => work'[q] = "none"
  BY <1>1, <1>6, <1>7, <1>8
<1> QED  BY <1>3, <1>4, <1>5, <1>8 DEF Next

LEMMA LifeKeeps == IndInv /\ LifeInv /\ [Next]_vars => LifeInv'
<1> SUFFICES ASSUME IndInv, LifeInv, [Next]_vars PROVE LifeInv'
  OBVIOUS
<1>1. CASE Next
  <2>1. NothingBeforeTheRow'
    BY <1>1, RowStays DEF NothingBeforeTheRow, Told, LifeInv
  <2> QED  BY <1>1, <2>1, FreshKeeps DEF LifeInv
<1>2. CASE UNCHANGED vars
  BY <1>2 DEF vars, row, handlers, pool, LifeInv, FreshIds, NothingBeforeTheRow, Told
<1> QED  BY <1>1, <1>2

\* An id that gets work is one the pool has been told of.
LEMMA Tells ==
    ASSUME IndInv, NEW w \in WorkflowId, NEW st \in {"queued", "running", "ended"},
           work' = [work EXCEPT ![w] = st]
    PROVE  Told' = Told \cup {w}
  BY DEF IndInv, TypeOK, Told

LEMMA CreationRefines ==
    ASSUME IndInv, LifeInv, Creation
    PROVE  AL!Next \/ UNCHANGED AL!vars
<1>1. Told' = Told /\ Pending' = Pending
  BY DEF Creation, ApplyForJob, InitiateApplication, Create, InitiateSucceeds,
         InitiateFails, SoftDeleteApplication, Told, Pending, tx, handlers, pool
<1>2. CASE ApplyForJob \/ InitiateApplication
  <2>1. AL!Create
    BY <1>1, <1>2 DEF ApplyForJob, InitiateApplication, Create, AL!Create
  <2> QED  BY <2>1 DEF AL!Next
<1>3. CASE InitiateSucceeds \/ InitiateFails
  BY <1>1, <1>3 DEF InitiateSucceeds, InitiateFails, AL!vars
<1>4. CASE SoftDeleteApplication
  <2>1. CASE app' = app
    BY <1>1, <2>1 DEF AL!vars
  <2>2. CASE lock = None /\ app' = [app EXCEPT !.deleted = TRUE]
    <3>1. app.status # "none"
      BY <1>4 DEF SoftDeleteApplication, LifeInv, NothingBeforeTheRow
    <3>2. AL!Delete
      BY <1>1, <2>2, <3>1, FreeRow DEF AL!Delete, AL!Moves
    <3> QED  BY <3>2 DEF AL!Next
  <2> QED  BY <1>4, <2>1, <2>2 DEF SoftDeleteApplication
<1> QED  BY <1>2, <1>3, <1>4 DEF Creation

LEMMA WorkerRefines ==
    ASSUME IndInv, LifeInv, Worker
    PROVE  AL!Next \/ UNCHANGED AL!vars
<1>1. /\ Pending' = Pending /\ lock' = lock
      /\ work \in [WorkflowId -> {"none", "queued", "running", "ended"}]
      /\ Initial \in WorkflowId
  BY DEF Worker, WorkerQueues, WorkerStarts, WorkerReports, WorkerCancels,
         Pending, tx, handlers, IndInv, TypeOK, WorkflowId
<1>2. \A w \in Told : app.status # "none"
  BY DEF LifeInv, NothingBeforeTheRow
<1>3. CASE WorkerQueues
  <2>1. app.status # "none" /\ app.wf # None
    BY <1>3 DEF WorkerQueues, LifeInv, NothingBeforeTheRow, IndInv, CreatedWithWorkflow
  <2>2. Initial \notin Told /\ Told' = Told \cup {Initial}
    BY <1>1, <1>3, Tells DEF WorkerQueues, Told
  <2>3. AL!Begin
    BY <1>1, <1>3, <2>1, <2>2, FreeRow DEF WorkerQueues, AL!Begin, AL!Moves
  <2> QED  BY <2>3 DEF AL!Next
<1>4. ASSUME NEW w \in WorkflowId, WorkerStarts(w)  PROVE UNCHANGED AL!vars
  <2>1. w \in Told /\ Told' = Told \cup {w}
    BY <1>4, Tells DEF WorkerStarts, Told
  <2> QED  BY <1>1, <1>4, <2>1 DEF WorkerStarts, row, AL!vars
<1>5. ASSUME NEW w \in WorkflowId, NEW s \in WorkerStatus, WorkerReports(w, s)
      PROVE  AL!Next
  <2>1. w \in Told /\ Told' = Told
    <3>1. w \in Told
      BY <1>5 DEF WorkerReports, Told
    <3>2. CASE work' = work
      BY <3>1, <3>2 DEF Told
    <3>3. CASE work' = [work EXCEPT ![w] = "ended"]
      BY <3>1, <3>3, Tells
    <3> QED  BY <1>5, <3>1, <3>2, <3>3 DEF WorkerReports
  <2>2. AL!Report
    BY <1>1, <1>2, <1>5, <2>1, FreeRow DEF WorkerReports, AL!Report, AL!Moves
  <2> QED  BY <2>2 DEF AL!Next
<1>6. ASSUME NEW r \in Request, WorkerCancels(r)  PROVE UNCHANGED AL!vars
  <2>1. Told' = Told
    BY <1>6 DEF WorkerCancels, Told
  <2> QED  BY <1>1, <1>6, <2>1 DEF WorkerCancels, row, AL!vars
<1> QED  BY <1>3, <1>4, <1>5, <1>6 DEF Worker

\* A restart gives up the retry that was pending.
LEMMA CrashRefines ==
    ASSUME Crash
    PROVE  AL!Next \/ UNCHANGED AL!vars
<1>1. app' = app /\ Told' = Told /\ Pending' = None
  BY DEF Crash, Told, Pending, pool
<1>2. CASE Pending = None
  BY <1>1, <1>2 DEF AL!vars
<1>3. CASE Pending # None
  BY <1>1, <1>3 DEF AL!Next, AL!Abandon
<1> QED  BY <1>2, <1>3

\* A request that arrives only reads.
LEMMA ArriveRefines ==
    ASSUME IndInv, NEW r \in Request, Arrive(r)
    PROVE  UNCHANGED AL!vars
<1>1. /\ app' = app /\ lock' = lock /\ Told' = Told /\ pc[r] = "idle"
      /\ \E place \in Places \ {"commit"} : pc' = [pc EXCEPT ![r] = place]
  <2> USE DEF ReadRow, row, tx, pool, Told, Places
  <2>1. CASE RetryRead(r)
    BY <2>1 DEF RetryRead
  <2>2. CASE CancelRead(r)
    BY <2>2 DEF CancelRead
  <2>3. CASE DeleteRead(r)
    BY <2>3 DEF DeleteRead
  <2>4. CASE MarkAsAppliedRead(r)
    BY <2>4 DEF MarkAsAppliedRead
  <2> QED  BY <2>1, <2>2, <2>3, <2>4 DEF Arrive
<1>2. Pending' = Pending
  BY <1>1, SamePending
<1> QED  BY <1>1, <1>2 DEF AL!vars

\* A retry takes the row, tells the pool, and decides.
LEMMA RetryRefines ==
    ASSUME IndInv, LifeInv, NEW r \in Request, Retry(r)
    PROVE  AL!Next \/ UNCHANGED AL!vars
<1>1. /\ r # None /\ r \in WorkflowId
      /\ pc \in [Request -> Places]
      /\ work \in [WorkflowId -> {"none", "queued", "running", "ended"}]
  BY ConstantsAssumption DEF IndInv, TypeOK, Places, WorkflowId
<1>2. pc[r] \in {"signal", "commit"} => lock = r /\ app.status \in Settled
  BY DEF IndInv, RetryHoldsTheRow, IsSettled
<1>3. CASE RetryUpdate(r) \/ RetryUpdateFails(r)
  <2>1. app' = app /\ Told' = Told
    BY <1>3 DEF RetryUpdate, RetryUpdateFails, row, pool, Told
  <2>2. CASE lock' = lock
    <3>1. /\ pc[r] = "update"
          /\ \E place \in Places \ {"commit"} : pc' = [pc EXCEPT ![r] = place]
      BY <1>1, <1>3, <2>2 DEF RetryUpdate, RetryUpdateFails, Places
    <3> QED  BY <2>1, <2>2, <3>1, SamePending DEF AL!vars
  <2>3. CASE lock = None /\ lock' = r /\ pc' = [pc EXCEPT ![r] = "signal"]
    <3>1. Pending = None /\ Pending' = None
      BY <1>1, <2>3 DEF Pending
    <3> QED  BY <2>1, <3>1 DEF AL!vars
  <2> QED  BY <1>3, <2>2, <2>3 DEF RetryUpdate, RetryUpdateFails
<1>4. CASE RetryRecheck(r)
  <2>1. /\ app' = app /\ Told' = Told /\ lock = None /\ lock' = r
        /\ pc'[r] \in {"signal", "done"}
    BY <1>1, <1>4 DEF RetryRecheck, row, pool, Told
  <2>2. Pending = None /\ Pending' = None
    BY <2>1 DEF Pending
  <2> QED  BY <2>1, <2>2 DEF AL!vars
<1>5. CASE RetrySignal(r) \/ RetrySignalFails(r)
  <2>1. /\ app' = app /\ pc[r] = "signal" /\ lock = r /\ app.status \in Settled
        /\ r \notin Told
    BY <1>2, <1>5 DEF RetrySignal, RetrySignalFails, row, LifeInv, FreshIds, Told
  <2>2. Pending = None /\ Pending' \in {r, None}
    BY <1>1, <1>5, <2>1 DEF RetrySignal, RetrySignalFails, Pending, tx
  <2>3. CASE work' = [work EXCEPT ![r] = "queued"]
    <3>1. Told' = Told \cup {r}
      BY <1>1, <2>3, Tells
    <3>2. AL!Announce(r)
      BY <2>1, <2>2, <3>1 DEF AL!Announce
    <3> QED  BY <3>2 DEF AL!Next
  <2>4. CASE RetrySignalFails(r) /\ work' = work
    <3>1. Told' = Told /\ Pending' = None
      BY <2>4 DEF RetrySignalFails, Told, Pending
    <3> QED  BY <2>1, <2>2, <3>1 DEF AL!vars
  <2> QED  BY <1>5, <2>3, <2>4 DEF RetrySignal, RetrySignalFails
<1>6. CASE RetryCommit(r) \/ RetryCommitFails(r)
  <2>1. Pending = r /\ Pending' = None /\ Told' = Told
    BY <1>1, <1>2, <1>6 DEF RetryCommit, RetryCommitFails, Pending, Told, pool
  <2>2. CASE app' = Requeued(r)
    BY <1>1, <2>1, <2>2 DEF Requeued, AL!Requeue, AL!Next
  <2>3. CASE app' = app
    BY <1>1, <2>1, <2>3 DEF AL!Abandon, AL!Next
  <2> QED  BY <1>6, <2>2, <2>3 DEF RetryCommit, RetryCommitFails
<1> QED  BY <1>3, <1>4, <1>5, <1>6 DEF Retry

\* The other handlers write the row in one statement, while nobody holds it.
LEMMA OtherRefines ==
    ASSUME IndInv, NEW r \in Request, Cancel(r) \/ Delete(r) \/ MarkAsApplied(r)
    PROVE  AL!Next \/ UNCHANGED AL!vars
<1>1. /\ lock' = lock /\ Told' = Told /\ app.status # "none" /\ pc[r] # "commit"
      /\ \E place \in Places \ {"commit"} : pc' = [pc EXCEPT ![r] = place]
  <2> USE DEF tx, pool, Told, Places, CreatedWithWorkflow, IndInv
  <2>1. CASE CancelUpdate(r) \/ CancelSignal(r) \/ CancelSignalFails(r)
    BY <2>1 DEF CancelUpdate, CancelSignal, CancelSignalFails
  <2>2. CASE DeleteUpdate(r) \/ MarkAsAppliedUpdate(r)
    BY <2>2 DEF DeleteUpdate, MarkAsAppliedUpdate
  <2>3. CASE JobApplicationWorkflowIsRunning(r)
    BY <2>3 DEF JobApplicationWorkflowIsRunning
  <2>4. CASE \/ StatementFails(r, "cancel", "update")
             \/ StatementFails(r, "delete", "update")
             \/ StatementFails(r, "markApplied", "describe")
             \/ StatementFails(r, "markApplied", "update")
    BY <2>4 DEF StatementFails
  <2> QED  BY <2>1, <2>2, <2>3, <2>4 DEF Cancel, Delete, MarkAsApplied
<1>2. Pending' = Pending
  BY <1>1, SamePending
<1>3. CASE app' = app
  BY <1>1, <1>2, <1>3 DEF AL!vars
<1>4. CASE CancelUpdate(r) /\ app' # app
  <2>1. /\ lock = None /\ app.status \in Cancellable
        /\ app' = [app EXCEPT !.status = "cancelled"]
    BY <1>4 DEF CancelUpdate, CancelMatches
  <2> QED  BY <1>1, <1>2, <2>1, FreeRow DEF AL!Cancel, AL!Moves, AL!Next
<1>5. CASE DeleteUpdate(r)
  BY <1>1, <1>2, <1>5, FreeRow DEF DeleteUpdate, AL!Delete, AL!Moves, AL!Next
<1>6. CASE MarkAsAppliedUpdate(r)
  BY <1>1, <1>2, <1>6, FreeRow
  DEF MarkAsAppliedUpdate, AL!MarkAsApplied, AL!Moves, AL!Next
<1>7. CASE \/ CancelSignal(r) \/ CancelSignalFails(r)
           \/ JobApplicationWorkflowIsRunning(r)
           \/ StatementFails(r, "cancel", "update")
           \/ StatementFails(r, "delete", "update")
           \/ StatementFails(r, "markApplied", "describe")
           \/ StatementFails(r, "markApplied", "update")
  BY <1>3, <1>7 DEF CancelSignal, CancelSignalFails,
                    JobApplicationWorkflowIsRunning, StatementFails, row
<1> QED  BY <1>3, <1>4, <1>5, <1>6, <1>7 DEF Cancel, Delete, MarkAsApplied

\* Every step is a step of ApplicationLife or changes nothing it sees.
LEMMA StepRefines == IndInv /\ LifeInv /\ [Next]_vars => [AL!Next]_AL!vars
<1> SUFFICES ASSUME IndInv, LifeInv, [Next]_vars PROVE [AL!Next]_AL!vars
  OBVIOUS
<1>1. CASE UNCHANGED vars
  BY <1>1 DEF vars, row, tx, handlers, pool, Told, Pending, AL!vars
<1>2. CASE Creation
  BY <1>2, CreationRefines
<1>3. CASE Worker
  BY <1>3, WorkerRefines
<1>4. CASE Crash
  BY <1>4, CrashRefines
<1>5. ASSUME NEW r \in Request, Arrive(r) \/ Proceed(r)
      PROVE  AL!Next \/ UNCHANGED AL!vars
  BY <1>5, ArriveRefines, RetryRefines, OtherRefines DEF Proceed
<1> QED  BY <1>1, <1>2, <1>3, <1>4, <1>5 DEF Next

\* No id reaches the pool before its retry signals, and nothing happens
\* before there is a row.
THEOREM LifeInvariance == Spec => []LifeInv
<1>1. Init => LifeInv
  BY InitLife
<1> QED  BY <1>1, LifeKeeps, Invariance, PTL DEF Spec

\* The concurrent handlers, with their locks, conflicts, failures and
\* restarts, implement ApplicationLife, whose steps see the row they change.
THEOREM Refinement == Spec => ImplementsApplicationLife
<1>1. Init => AL!Init
  BY InitLife
<1> QED  BY <1>1, StepRefines, Invariance, LifeInvariance, PTL
         DEF Spec, ImplementsApplicationLife, AL!Spec
=============================================================================
