-------------------------- MODULE ApplicationLife --------------------------
(***************************************************************************)
(* What the handlers of an application promise, with no transactions,      *)
(* locks, conflicts or failures in sight.  The row moves in single steps,  *)
(* each of which sees the row it changes.  A retry is two of them with     *)
(* nothing in between: the pool is told of a fresh workflow id while the   *)
(* application is settled, then the row is queued under it, or is not.     *)
(***************************************************************************)
CONSTANTS
    RetryId,      \* the workflow ids of retries
    InitialId,    \* the workflow id of a new application
    NoId,
    Settled,      \* statuses a retry starts from
    Cancellable,  \* statuses a cancellation starts from
    WorkerStatus  \* statuses the worker reports

VARIABLES
    app,          \* status, deleted, wf; the status is "none" at first
    told,         \* the ids the pool has heard of
    pending       \* the retry that has told the pool and not decided

vars == <<app, told, pending>>

Init ==
    /\ app = [status |-> "none", deleted |-> FALSE, wf |-> NoId]
    /\ told = {}
    /\ pending = NoId

Create ==
    /\ app.status = "none"
    /\ app' \in {[status |-> "pending", deleted |-> FALSE, wf |-> InitialId],
                 [status |-> "started", deleted |-> FALSE, wf |-> NoId]}
    /\ UNCHANGED <<told, pending>>

\* While a retry is pending nothing else happens to the row.
Moves == app.status # "none" /\ pending = NoId /\ UNCHANGED pending

\* No id is announced twice, and none unless the application is settled.
Announce(id) ==
    /\ app.status \in Settled
    /\ pending = NoId
    /\ id \notin told
    /\ told' = told \cup {id}
    /\ pending' \in {id, NoId}
    /\ UNCHANGED app

\* The retry takes effect ...
Requeue ==
    /\ pending # NoId
    /\ app' = [app EXCEPT !.status = "queued", !.wf = pending]
    /\ pending' = NoId
    /\ UNCHANGED told

\* ... or has told the pool in vain.
Abandon == pending # NoId /\ pending' = NoId /\ UNCHANGED <<app, told>>

Cancel ==
    /\ Moves
    /\ app.status \in Cancellable
    /\ app' = [app EXCEPT !.status = "cancelled"]
    /\ UNCHANGED told

MarkAsApplied ==
    /\ Moves
    /\ app' = [app EXCEPT !.status = "applied"]
    /\ UNCHANGED told

\* A deleted application stays deleted.
Delete ==
    /\ Moves
    /\ app' = [app EXCEPT !.deleted = TRUE]
    /\ UNCHANGED told

\* The worker takes up a new application that has an id, once.
Begin ==
    /\ Moves
    /\ app.wf # NoId
    /\ InitialId \notin told
    /\ told' = told \cup {InitialId}
    /\ app' = [app EXCEPT !.status = "queued"]

\* It reports on nothing it has not been told of.
Report ==
    /\ Moves
    /\ told # {}
    /\ \E s \in WorkerStatus : app' = [app EXCEPT !.status = s]
    /\ UNCHANGED told

Next ==
    \/ Create
    \/ \E id \in RetryId : Announce(id)
    \/ Requeue \/ Abandon
    \/ Cancel \/ MarkAsApplied \/ Delete
    \/ Begin \/ Report

Spec == Init /\ [][Next]_vars
=============================================================================
