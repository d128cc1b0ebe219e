--------------------------- MODULE JobApplication ---------------------------
(***************************************************************************)
(* The life of one row of job_application under the concurrent HTTP        *)
(* handlers of endpoints/jobapplication: ApplyForJob and the extension's   *)
(* InitiateApplication create it, then RetryApplication, CancelApplication,*)
(* DeleteApplication and MarkAsApplied act on it while the browser pool    *)
(* and the worker (another program) report progress into the same row.     *)
(*                                                                         *)
(* Every handler addresses one row by its key, so one row is enough.  A    *)
(* handler is a request that reads the row, decides, and later writes: the *)
(* steps between two calls of the database or of Temporal are one action   *)
(* each, so that other requests may come in between.                       *)
(*                                                                         *)
(* The database is Postgres at READ COMMITTED.  A plain read sees the last *)
(* committed row.  An update whose WHERE does not match that row answers   *)
(* "0 rows" at once; one that matches waits for the row's lock, and when   *)
(* it gets the lock it re-reads the row and tests its WHERE again.  A      *)
(* transaction keeps the lock it took until it commits or rolls back, even *)
(* when that second test fails and nothing is updated.                     *)
(***************************************************************************)
EXTENDS Naturals, FiniteSets

CONSTANTS
    Request,         \* the HTTP requests that may arrive, one operation each
    Initial,         \* the workflow id ApplyForJob stores in the new row
    None,            \* NULL: no workflow id, no holder of the lock
    Operations,      \* the operations the requests of a run may perform
    CancelAttempts,  \* how often the cancel goroutine tries to signal (5)
    MaxFailures,     \* bound on failed calls of Temporal and the database
    MaxCrashes       \* bound on restarts of the API process

ASSUME ConstantsAssumption ==
    /\ Initial \notin Request
    /\ None \notin Request
    /\ None # Initial
    /\ Operations \subseteq {"retry", "cancel", "delete", "markApplied"}
    /\ CancelAttempts \in Nat \ {0}
    /\ MaxFailures \in Nat
    /\ MaxCrashes \in Nat

VARIABLES
    app,        \* the committed row; status "none" until it is created
    creation,   \* where the handler that created the row stands
    lock,       \* the request whose transaction holds the row's lock
    openTx,     \* the requests whose transaction began and has not ended
    op,         \* what each request does
    pc,         \* where each request stands
    seenWf,     \* the workflow_id each request read
    reply,      \* what each request answered
    attempts,   \* failed attempts of each cancel goroutine
    work,       \* what the pool has of each workflow id
    cancelSignal, \* each cancel request's cancel_application on its way
    failures,   \* failed calls so far
    crashes     \* restarts so far

row      == <<app, creation>>
tx       == <<lock, openTx>>
handlers == <<op, pc, seenWf, reply, attempts>>
pool     == <<work, cancelSignal>>
faults   == <<failures, crashes>>
vars     == <<row, tx, handlers, pool, faults>>

WorkflowId == Request \cup {Initial}

Status == {"processing", "pending", "started", "queued", "applied",
           "failed", "blocked", "cancelled", "halted"}

\* Retry and Delete accept these, in the check on the row that was read ...
Settled == {"failed", "cancelled", "halted"}
IsSettled(status) == status \in Settled
\* ... and Retry again in the WHERE of its update.
RetryMatchesAnything(status) == TRUE
RetryMatches(status) == status \in Settled

\* Cancel accepts these, in the check on the row that was read ...
Cancellable == {"processing", "started", "pending", "queued"}
IsCancellable(status) == status \in Cancellable
\* ... and again in the WHERE of its update.
CancelMatchesAnything(status) == TRUE
CancelMatches(status) == status \in Cancellable

Row == [status: Status \cup {"none"}, deleted: BOOLEAN,
        wf: WorkflowId \cup {None}]

TypeOK ==
    /\ app \in Row
    /\ creation \in [by: {"none", "apply", "extension"},
                     at: {"none", "executing", "failed", "done"}]
    /\ lock \in Request \cup {None}
    /\ openTx \subseteq Request
    /\ op \in [Request -> Operations \cup {"none"}]
    /\ pc \in [Request -> {"idle", "describe", "update", "waiting", "signal",
                           "commit", "signalling", "done"}]
    /\ seenWf \in [Request -> WorkflowId \cup {None}]
    /\ reply \in [Request -> {"none", "ok", "rejected", "conflict", "error",
                              "lost"}]
    /\ attempts \in [Request -> 0..CancelAttempts]
    /\ work \in [WorkflowId -> {"none", "queued", "running", "ended"}]
    /\ cancelSignal \in [Request -> {"none", "sent", "handled"}]
    /\ failures \in 0..MaxFailures
    /\ crashes \in 0..MaxCrashes

Init ==
    /\ app = [status |-> "none", deleted |-> FALSE, wf |-> None]
    /\ creation = [by |-> "none", at |-> "none"]
    /\ lock = None
    /\ openTx = {}
    /\ op = [r \in Request |-> "none"]
    /\ pc = [r \in Request |-> "idle"]
    /\ seenWf = [r \in Request |-> None]
    /\ reply = [r \in Request |-> "none"]
    /\ attempts = [r \in Request |-> 0]
    /\ work = [w \in WorkflowId |-> "none"]
    /\ cancelSignal = [r \in Request |-> "none"]
    /\ failures = 0
    /\ crashes = 0

-----------------------------------------------------------------------------
(* What the handlers have in common.                                       *)

Fail == failures < MaxFailures /\ failures' = failures + 1

At(r, operation, place) == op[r] = operation /\ pc[r] = place

GoTo(r, place) == pc' = [pc EXCEPT ![r] = place]

\* The request answers and ends.
Answer(r, outcome) ==
    /\ pc' = [pc EXCEPT ![r] = "done"]
    /\ reply' = [reply EXCEPT ![r] = outcome]

\* A request arrives and reads the row: a row it may act on sends it to
\* "place" with the workflow id it saw; otherwise it is turned away.
ReadRow(r, operation, accepted, place) ==
    /\ operation \in Operations
    /\ pc[r] = "idle"
    /\ app.status # "none"
    /\ op' = [op EXCEPT ![r] = operation]
    /\ IF accepted
       THEN /\ GoTo(r, place)
            /\ seenWf' = [seenWf EXCEPT ![r] = app.wf]
            /\ UNCHANGED reply
       ELSE /\ Answer(r, "rejected")
            /\ UNCHANGED seenWf
    /\ UNCHANGED <<row, tx, attempts, pool, faults>>

\* The statement a request is about to run fails and changes nothing.
StatementFails(r, operation, place) ==
    /\ At(r, operation, place)
    /\ Fail
    /\ Answer(r, "error")
    /\ UNCHANGED <<row, tx, op, seenWf, attempts, pool, crashes>>

-----------------------------------------------------------------------------
(* Creation: ApplyForJob and the extension's InitiateApplication.          *)

\* The row is created and InitiateApplicationWorkflow is started, by a
\* goroutine (apply) or by the handler itself (extension).
Create(by, status, wf) ==
    /\ app.status = "none"
    /\ app' = [status |-> status, deleted |-> FALSE, wf |-> wf]
    /\ creation' = [by |-> by, at |-> "executing"]
    /\ UNCHANGED <<tx, handlers, pool, faults>>

ApplyForJob         == Create("apply", "pending", Initial)
InitiateApplication == Create("extension", "started", None)

\* run.Get returns the workflow's result.
InitiateSucceeds ==
    /\ creation.at = "executing"
    /\ creation' = [creation EXCEPT !.at = "done"]
    /\ UNCHANGED <<app, tx, handlers, pool, faults>>

\* ExecuteWorkflow or run.Get fails: an unreachable server, a failed or
\* timed-out workflow, a client that went away (extension).
InitiateFails ==
    /\ creation.at = "executing"
    /\ Fail
    /\ creation' = [creation EXCEPT !.at = "failed"]
    /\ UNCHANGED <<app, tx, handlers, pool, crashes>>

SoftDeletePendingOnly ==
    /\ creation.at = "failed"
    /\ creation' = [creation EXCEPT !.at = "done"]
    /\ lock = None
    /\ app' = [app EXCEPT !.deleted = (app.status \in {"pending", "started"})]
    /\ UNCHANGED <<tx, handlers, pool, faults>>

\* The row is hidden whatever has become of it meanwhile; an error is logged.
SoftDeleteApplication ==
    /\ creation.at = "failed"
    /\ creation' = [creation EXCEPT !.at = "done"]
    /\ \/ /\ lock = None
          /\ app' = [app EXCEPT !.deleted = TRUE]
          /\ UNCHANGED failures
       \/ Fail /\ UNCHANGED app
    /\ UNCHANGED <<tx, handlers, pool, crashes>>

-----------------------------------------------------------------------------
(* RetryApplication.  The request r stands for the fresh workflow id it    *)
(* generates.                                                              *)

RetryRead(r) == ReadRow(r, "retry", IsSettled(app.status), "update")

\* Begin and the conditional update.  With no row updated the handler
\* returns without ending its transaction.
RetryUpdate(r) ==
    /\ At(r, "retry", "update")
    /\ openTx' = openTx \cup {r}
    /\ \/ /\ ~RetryMatches(app.status)
          /\ Answer(r, "conflict")
          /\ UNCHANGED lock
       \/ /\ RetryMatches(app.status)
          /\ lock = None
          /\ lock' = r
          /\ GoTo(r, "signal")
          /\ UNCHANGED reply
       \/ /\ RetryMatches(app.status)
          /\ lock # None
          /\ GoTo(r, "waiting")
          /\ UNCHANGED <<lock, reply>>
    /\ UNCHANGED <<row, op, seenWf, attempts, pool, faults>>

RetryRecheckNothing(r) ==
    /\ At(r, "retry", "waiting")
    /\ lock = None
    /\ lock' = r
    /\ GoTo(r, "signal")
    /\ UNCHANGED <<row, openTx, op, seenWf, reply, attempts, pool, faults>>

\* The lock is free at last: the row is locked, then tested again.
RetryRecheck(r) ==
    /\ At(r, "retry", "waiting")
    /\ lock = None
    /\ lock' = r
    /\ IF RetryMatches(app.status)
       THEN GoTo(r, "signal") /\ UNCHANGED reply
       ELSE Answer(r, "conflict")
    /\ UNCHANGED <<row, openTx, op, seenWf, attempts, pool, faults>>

\* The update itself fails: the handler returns, the transaction stays.
RetryUpdateFails(r) ==
    /\ At(r, "retry", "update")
    /\ Fail
    /\ openTx' = openTx \cup {r}
    /\ Answer(r, "error")
    /\ UNCHANGED <<row, lock, op, seenWf, attempts, pool, crashes>>

EndTx(r) == lock' = None /\ openTx' = openTx \ {r}

\* queue_application is signalled with the row locked and not yet committed.
RetrySignal(r) ==
    /\ At(r, "retry", "signal")
    /\ work' = [work EXCEPT ![r] = "queued"]
    /\ GoTo(r, "commit")
    /\ UNCHANGED <<row, tx, op, seenWf, reply, attempts, cancelSignal, faults>>

RetryCommitsUnsignalled(r) ==
    /\ At(r, "retry", "signal")
    /\ Fail
    /\ GoTo(r, "commit")
    /\ UNCHANGED <<row, tx, op, seenWf, reply, attempts, pool, crashes>>

RetrySignalsAgain(r) ==
    /\ At(r, "retry", "signal")
    /\ Fail
    /\ work' \in {work, [work EXCEPT ![r] = "queued"]}
    /\ UNCHANGED <<row, tx, op, pc, seenWf, reply, attempts, cancelSignal, crashes>>

RetryNoRollback(r) ==
    /\ At(r, "retry", "signal")
    /\ Fail
    /\ Answer(r, "error")
    /\ UNCHANGED <<row, tx, op, seenWf, attempts, pool, crashes>>

\* The signal fails, whether or not the server received it: rollback.
RetrySignalFails(r) ==
    /\ At(r, "retry", "signal")
    /\ Fail
    /\ work' \in {work, [work EXCEPT ![r] = "queued"]}
    /\ EndTx(r)
    /\ Answer(r, "error")
    /\ UNCHANGED <<row, op, seenWf, attempts, cancelSignal, crashes>>

Requeued(r) == [app EXCEPT !.status = "queued", !.wf = r]

RetryCommit(r) ==
    /\ At(r, "retry", "commit")
    /\ app' = Requeued(r)
    /\ EndTx(r)
    /\ Answer(r, "ok")
    /\ UNCHANGED <<creation, op, seenWf, attempts, pool, faults>>

\* The commit reports an error; the database may have committed or not.
RetryCommitFails(r) ==
    /\ At(r, "retry", "commit")
    /\ Fail
    /\ app' \in {app, Requeued(r)}
    /\ EndTx(r)
    /\ Answer(r, "error")
    /\ UNCHANGED <<creation, op, seenWf, attempts, pool, crashes>>

-----------------------------------------------------------------------------
(* CancelApplication.                                                      *)

CancelRead(r) == ReadRow(r, "cancel", IsCancellable(app.status), "update")

\* The conditional update.  The pool is to be told only if the row read at
\* the start had a workflow id.
CancelUpdate(r) ==
    /\ At(r, "cancel", "update")
    /\ \/ /\ ~CancelMatches(app.status)
          /\ Answer(r, "conflict")
          /\ UNCHANGED app
       \/ /\ CancelMatches(app.status)
          /\ lock = None
          /\ app' = [app EXCEPT !.status = "cancelled"]
          /\ reply' = [reply EXCEPT ![r] = "ok"]
          /\ GoTo(r, IF seenWf[r] = None THEN "done" ELSE "signalling")
    /\ UNCHANGED <<creation, tx, op, seenWf, attempts, pool, faults>>

\* One attempt of the goroutine; it names the application, not the workflow.
CancelSignal(r) ==
    /\ At(r, "cancel", "signalling")
    /\ cancelSignal' = [cancelSignal EXCEPT ![r] = "sent"]
    /\ GoTo(r, "done")
    /\ UNCHANGED <<row, tx, op, seenWf, reply, attempts, work, faults>>

CancelSignalsOnce(r) ==
    /\ At(r, "cancel", "signalling")
    /\ attempts' = [attempts EXCEPT ![r] = @ + 1]
    /\ GoTo(r, "done")
    /\ UNCHANGED <<row, tx, op, seenWf, reply, pool, faults>>

\* An attempt fails; after the last one the goroutine ends.
CancelSignalFails(r) ==
    /\ At(r, "cancel", "signalling")
    /\ attempts' = [attempts EXCEPT ![r] = @ + 1]
    /\ GoTo(r, IF attempts[r] + 1 < CancelAttempts THEN "signalling" ELSE "done")
    /\ UNCHANGED <<row, tx, op, seenWf, reply, pool, faults>>

-----------------------------------------------------------------------------
(* DeleteApplication: the check is on the row as read, the update is by    *)
(* key alone.                                                              *)

DeleteRead(r) ==
    ReadRow(r, "delete", ~app.deleted /\ IsSettled(app.status), "update")

DeleteUpdate(r) ==
    /\ At(r, "delete", "update")
    /\ lock = None
    /\ app' = [app EXCEPT !.deleted = TRUE]
    /\ Answer(r, "ok")
    /\ UNCHANGED <<creation, tx, op, seenWf, attempts, pool, faults>>

-----------------------------------------------------------------------------
(* MarkAsApplied: an applied row is answered at once, a row with a         *)
(* workflow id is described in Temporal first, the update is by key alone. *)

MarkAsAppliedRead(r) ==
    IF app.status = "applied"
    THEN /\ "markApplied" \in Operations
         /\ pc[r] = "idle"
         /\ op' = [op EXCEPT ![r] = "markApplied"]
         /\ Answer(r, "ok")
         /\ UNCHANGED <<row, tx, seenWf, attempts, pool, faults>>
    ELSE ReadRow(r, "markApplied", TRUE,
                 IF app.wf = None THEN "update" ELSE "describe")

JobApplicationWorkflowIsRunning(r) ==
    /\ At(r, "markApplied", "describe")
    /\ IF work[seenWf[r]] = "running"
       THEN Answer(r, "conflict")
       ELSE GoTo(r, "update") /\ UNCHANGED reply
    /\ UNCHANGED <<row, tx, op, seenWf, attempts, pool, faults>>

MarkAsAppliedUpdate(r) ==
    /\ At(r, "markApplied", "update")
    /\ lock = None
    /\ app' = [app EXCEPT !.status = "applied"]
    /\ Answer(r, "ok")
    /\ UNCHANGED <<creation, tx, op, seenWf, attempts, pool, faults>>

-----------------------------------------------------------------------------
(* The pool and the worker, a program that is not in this repository: what *)
(* the handlers must expect of it.  It writes the row while it has work    *)
(* for it, whatever the row says, and like everyone else it waits for the  *)
(* row's lock.                                                             *)

WorkerStatus == {"processing", "blocked", "applied", "failed", "halted"}

\* InitiateApplicationWorkflow, run autonomously, queues the application.
WorkerQueues ==
    /\ creation = [by |-> "apply", at |-> "executing"]
    /\ work[Initial] = "none"
    /\ lock = None
    /\ app' = [app EXCEPT !.status = "queued"]
    /\ work' = [work EXCEPT ![Initial] = "queued"]
    /\ UNCHANGED <<creation, tx, handlers, cancelSignal, faults>>

\* A queued item is started as a JobApplicationWorkflow of that id; the row
\* may not carry the id yet, for Retry signals before it commits.
WorkerStarts(w) ==
    /\ work[w] = "queued"
    /\ work' = [work EXCEPT ![w] = "running"]
    /\ UNCHANGED <<row, tx, handlers, cancelSignal, faults>>

\* A workflow records its progress, and ends with its result.
WorkerReports(w, status) ==
    /\ work[w] = "running"
    /\ lock = None
    /\ app' = [app EXCEPT !.status = status]
    /\ work' = IF status \in {"processing", "blocked"}
               THEN work ELSE [work EXCEPT ![w] = "ended"]
    /\ UNCHANGED <<creation, tx, handlers, cancelSignal, faults>>

\* cancel_application stops all the pool has for the application.
WorkerCancels(r) ==
    /\ cancelSignal[r] = "sent"
    /\ cancelSignal' = [cancelSignal EXCEPT ![r] = "handled"]
    /\ work' = [w \in WorkflowId |->
                  IF work[w] = "none" THEN "none" ELSE "ended"]
    /\ UNCHANGED <<row, tx, handlers, faults>>

-----------------------------------------------------------------------------
\* The API process restarts: requests and goroutines are gone, transactions
\* are rolled back.
Crash ==
    /\ crashes < MaxCrashes
    /\ crashes' = crashes + 1
    /\ creation' = IF creation.at \in {"executing", "failed"}
                   THEN [creation EXCEPT !.at = "done"] ELSE creation
    /\ lock' = None
    /\ openTx' = {}
    /\ pc' = [r \in Request |-> IF pc[r] = "idle" THEN "idle" ELSE "done"]
    /\ reply' = [r \in Request |-> IF pc[r] # "idle" /\ reply[r] = "none"
                                   THEN "lost" ELSE reply[r]]
    /\ UNCHANGED <<app, op, seenWf, attempts, pool, failures>>

Creation == \/ ApplyForJob \/ InitiateApplication
            \/ InitiateSucceeds \/ InitiateFails \/ SoftDeleteApplication

Arrive(r) == \/ RetryRead(r) \/ CancelRead(r)
             \/ DeleteRead(r) \/ MarkAsAppliedRead(r)

Retry(r) == \/ RetryUpdate(r) \/ RetryRecheck(r) \/ RetryUpdateFails(r)
            \/ RetrySignal(r) \/ RetrySignalFails(r)
            \/ RetryCommit(r) \/ RetryCommitFails(r)

Cancel(r) == \/ CancelUpdate(r) \/ CancelSignal(r) \/ CancelSignalFails(r)
             \/ StatementFails(r, "cancel", "update")

Delete(r) == DeleteUpdate(r) \/ StatementFails(r, "delete", "update")

MarkAsApplied(r) ==
    \/ JobApplicationWorkflowIsRunning(r) \/ MarkAsAppliedUpdate(r)
    \/ StatementFails(r, "markApplied", "describe")
    \/ StatementFails(r, "markApplied", "update")

Proceed(r) == Retry(r) \/ Cancel(r) \/ Delete(r) \/ MarkAsApplied(r)

Worker ==
    \/ WorkerQueues
    \/ \E w \in WorkflowId : WorkerStarts(w)
    \/ \E w \in WorkflowId, s \in WorkerStatus : WorkerReports(w, s)
    \/ \E r \in Request : WorkerCancels(r)

Next ==
    \/ Creation
    \/ \E r \in Request : Arrive(r) \/ Proceed(r)
    \/ Worker
    \/ Crash

Spec == Init /\ [][Next]_vars

\* A handler that has begun keeps running, and so does the goroutine that
\* hides a row whose creation failed; a failure never has to come to the
\* rescue of one that waits; clients and the worker owe nothing.
Fairness ==
    /\ \A r \in Request : WF_vars(Proceed(r) /\ UNCHANGED failures)
    /\ WF_vars(SoftDeleteApplication /\ UNCHANGED failures)

FairSpec == Spec /\ Fairness

-----------------------------------------------------------------------------
(* Safety.                                                                 *)

\* Between the update and the end of its transaction a retry holds the row,
\* which stays settled: two retries never signal the pool side by side, and
\* neither a deletion, a mark nor the worker gets in between.
\* (RetryApplication: conditional update, then signal, then commit.)
RetryHoldsTheRow ==
    \A r \in Request :
        pc[r] \in {"signal", "commit"} => lock = r /\ IsSettled(app.status)

\* A row that names the workflow of a retry has been announced to the pool
\* under that name: a failed signal never leaves a row queued that nobody
\* will pick up.  (RetryApplication: rollback when the signal fails.)
RequeuedRowWasSignalled ==
    \A r \in Request : app.wf = r => work[r] # "none"

\* A cancellation of an application that ApplyForJob created, or that had a
\* workflow id when the cancellation read it, is told to the pool, is still
\* being told, or was tried the full number of times, whatever retries,
\* deletions and marks came between: only a restart loses it.
\* (CancelApplication: the goroutine after the update.)
CancelReachesPool ==
    crashes = 0 =>
        \A r \in Request :
            /\ op[r] = "cancel" /\ reply[r] = "ok"
            /\ creation.by = "apply" \/ seenWf[r] # None
            => \/ pc[r] = "signalling"
               \/ cancelSignal[r] # "none"
               \/ attempts[r] = CancelAttempts

\* A retry about to commit has signalled.
SignalledBeforeCommit == \A r \in Request : pc[r] = "commit" => work[r] # "none"

\* Nobody acts on a row before it exists, and a row that ApplyForJob created
\* names a workflow for as long as it lives.
CreatedWithWorkflow ==
    /\ app.status = "none" => \A r \in Request : pc[r] = "idle"
    /\ creation.by = "apply" => app.wf # None

\* What a cancel request knows at each of its places.
CancelProgress ==
    \A r \in Request :
        /\ pc[r] = "idle" => op[r] = "none" /\ reply[r] = "none"
        /\ pc[r] \in {"idle", "describe", "update"} => attempts[r] = 0
        /\ op[r] = "cancel" => pc[r] \in {"update", "signalling", "done"}
        /\ op[r] = "cancel" /\ pc[r] = "update" =>
               /\ reply[r] # "ok"
               /\ creation.by = "apply" => seenWf[r] # None
        /\ pc[r] = "signalling" => attempts[r] < CancelAttempts

\* The inductive invariant behind the three properties above.
IndInv == /\ TypeOK
          /\ RetryHoldsTheRow
          /\ RequeuedRowWasSignalled
          /\ CancelReachesPool
          /\ SignalledBeforeCommit
          /\ CreatedWithWorkflow
          /\ CancelProgress

-----------------------------------------------------------------------------
(* Steps.                                                                  *)

\* The row gets another workflow id only while it is settled: of any number
\* of simultaneous retries one succeeds per failure, cancellation or halt.
\* (RetryApplication: the WHERE of the update and its lock.)
RequeuesOnlySettled ==
    [][app.status # "none" /\ app'.wf # app.wf => IsSettled(app.status)]_vars

\* No handler takes an application out of "applied", even one that read the
\* row before it was applied: a late cancel or retry answers 409.
\* (CancelApplication and RetryApplication: the WHERE of their updates.)
AppliedSurvivesHandlers ==
    [][app.status = "applied" /\ pc' # pc => app'.status = "applied"]_vars

\* DeleteApplication's rule as its answer states it: only a failed, cancelled
\* or halted application is deleted.
DeletesOnlySettled ==
    [][\A r \in Request :
        At(r, "delete", "update") /\ app'.deleted /\ ~app.deleted
            => IsSettled(app.status)]_vars

-----------------------------------------------------------------------------
(* Refinement.                                                             *)

Told == {w \in WorkflowId : work[w] # "none"}

\* The retry that has signalled and holds the row.
Pending == IF lock # None /\ pc[lock] = "commit" THEN lock ELSE None

AL == INSTANCE ApplicationLife WITH
          RetryId <- Request, InitialId <- Initial, NoId <- None,
          told <- Told, pending <- Pending

\* Transactions and conditional updates make the handlers what they would be
\* one at a time: a retry tests, signals and commits on one row that nobody
\* changes meanwhile, a cancellation tests and writes at once, and no id is
\* announced twice, whatever overlaps, fails or restarts.
\* (RetryApplication, CancelApplication, DeleteApplication, MarkAsApplied,
\* softDeleteApplication)
ImplementsApplicationLife == AL!Spec

\* A workflow id is new to the pool until its retry signals.
FreshIds ==
    \A r \in Request : pc[r] \notin {"commit", "signalling", "done"} => work[r] = "none"

\* Nothing is created, and the pool has heard of nothing, before the row is.
NothingBeforeTheRow ==
    app.status = "none" => creation = [by |-> "none", at |-> "none"] /\ Told = {}

\* What the refinement needs beside IndInv.
LifeInv == FreshIds /\ NothingBeforeTheRow

-----------------------------------------------------------------------------
(* Liveness, under FairSpec.                                               *)

\* Every request that was let in is answered, and its goroutine ends.
RequestsConclude == \A r \in Request : pc[r] # "idle" ~> pc[r] = "done"

\* A retry that answered 409 has left its transaction open.
RetryConflict ==
    \E r \in Request : op[r] = "retry" /\ reply[r] = "conflict"

\* The same as long as no retry meets a conflict: the rollback after a
\* failed signal and every commit give the lock back.
RequestsConcludeWithoutConflict ==
    [](~RetryConflict) => RequestsConclude

\* An application whose creation failed is hidden, unless the API process
\* restarts; stated for runs with one failure, the creation's own, for an
\* error of the update itself is only logged.  (softDeleteApplication)
FailedCreationIsHidden ==
    [](~RetryConflict /\ crashes = 0) =>
        (creation.at = "failed" ~> app.deleted)

=============================================================================
