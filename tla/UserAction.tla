----------------------------- MODULE UserAction -----------------------------
(***************************************************************************)
(* A blocked application and the questions it puts to its user: the        *)
(* handlers SubmitUserAction and GetUserAction of endpoints/jobapplication *)
(* on the rows of user_action that belong to one row of job_application.   *)
(*                                                                         *)
(* A durable question is answered in one transaction, which locks the row  *)
(* of user_action first, so it is one action here.  What comes after the   *)
(* commit is not part of it: the signal that puts the application back     *)
(* into the pool's queue, and the mark resume_enqueued_at.  Either may     *)
(* fail, the process may stop in between, and the user's client is then    *)
(* expected to submit again.                                               *)
(***************************************************************************)
EXTENDS Naturals, FiniteSets

CONSTANTS
    Submitter,     \* requests to SubmitUserAction, each used over and over
    Answer,        \* submissions validateUserActionValues accepts
    Invalid,       \* a submission it rejects
    Resume,        \* the user's resumes
    ResumeKey,     \* values of resume_workflow_id: fresh UUIDs
    NumActions,    \* bound on the questions the worker asks
    MaxFailures,   \* bound on failing calls and restarts
    MaxMoves,      \* bound on the moves of the other handlers
    None           \* NULL

ASSUME ConstantsAssumption ==
    /\ Invalid \notin Answer
    /\ None \notin Answer \cup {Invalid} \cup ResumeKey
    /\ Resume # {}
    /\ NumActions \in Nat
    /\ MaxFailures \in Nat
    /\ MaxMoves \in Nat

VARIABLES
    app,         \* the row of job_application: status, id_resume, deleted_at
    created,     \* questions asked so far; they are numbered by created_at
    durable,     \* durable_pause of each question
    pending,     \* is_pending
    answers,     \* result_ciphertext, None until submitted_at is set
    key,         \* resume_workflow_id
    enqueued,    \* resume_enqueued_at IS NOT NULL
    pc,          \* where each submitter stands
    target,      \* the question it answers
    values,      \* the answers it brings
    seenResume,  \* the id_resume of the application as it read it
    heldKey,     \* the resume_workflow_id it holds in memory
    queueItems,  \* every queue_application item that reached the pool
    legacySent,  \* every USER_ACTION_RESULT that reached a workflow
    failures,
    moves

questions == <<created, durable, pending, answers, key, enqueued>>
requests  == <<pc, target, values, seenResume, heldKey>>
sent      == <<queueItems, legacySent>>
bounds    == <<failures, moves>>
vars      == <<app, questions, requests, sent, bounds>>

Action == 1..NumActions

Status == {"processing", "queued", "blocked", "applied", "failed", "cancelled"}

QueueItem == [action: Action, key: ResumeKey, resume: Resume]

TypeOK ==
    /\ app \in [status: Status, resume: Resume, deleted: BOOLEAN]
    /\ created \in 0..NumActions
    /\ durable \in [Action -> BOOLEAN]
    /\ pending \in [Action -> BOOLEAN]
    /\ answers \in [Action -> Answer \cup {None}]
    /\ key \in [Action -> ResumeKey \cup {None}]
    /\ enqueued \in [Action -> BOOLEAN]
    /\ pc \in [Submitter -> {"idle", "legacy", "submit", "signal", "mark"}]
    /\ target \in [Submitter -> Action \cup {None}]
    /\ values \in [Submitter -> Answer \cup {Invalid, None}]
    /\ seenResume \in [Submitter -> Resume \cup {None}]
    /\ heldKey \in [Submitter -> ResumeKey \cup {None}]
    /\ queueItems \subseteq QueueItem
    /\ legacySent \subseteq (Action \X Answer)
    /\ failures \in 0..MaxFailures
    /\ moves \in 0..MaxMoves

Submitted(a) == answers[a] # None

Init ==
    /\ app \in [status: {"processing"}, resume: Resume, deleted: {FALSE}]
    /\ created = 0
    /\ durable \in [Action -> BOOLEAN]
    /\ pending = [a \in Action |-> FALSE]
    /\ answers = [a \in Action |-> None]
    /\ key = [a \in Action |-> None]
    /\ enqueued = [a \in Action |-> FALSE]
    /\ pc = [s \in Submitter |-> "idle"]
    /\ target = [s \in Submitter |-> None]
    /\ values = [s \in Submitter |-> None]
    /\ seenResume = [s \in Submitter |-> None]
    /\ heldKey = [s \in Submitter |-> None]
    /\ queueItems = {}
    /\ legacySent = {}
    /\ failures = 0
    /\ moves = 0

-----------------------------------------------------------------------------
(* GetUserAction: the oldest question that is pending, or durable and      *)
(* answered but not yet enqueued.                                          *)

IsShowablePending(a) == a <= created /\ pending[a]

IsShowable(a) ==
    /\ a <= created
    /\ pending[a] \/ (durable[a] /\ Submitted(a) /\ ~enqueued[a])

GetUserAction(a) ==
    IsShowable(a) /\ \A b \in Action : IsShowable(b) => a <= b

-----------------------------------------------------------------------------
(* SubmitUserAction.                                                       *)

Fail == failures < MaxFailures /\ failures' = failures + 1

\* The request ends and forgets what it held.
Done(s) ==
    /\ pc' = [pc EXCEPT ![s] = "idle"]
    /\ target' = [target EXCEPT ![s] = None]
    /\ values' = [values EXCEPT ![s] = None]
    /\ seenResume' = [seenResume EXCEPT ![s] = None]
    /\ heldKey' = [heldKey EXCEPT ![s] = None]

\* A request arrives and reads the live application and the question.
ReadUserAction(s, a, v) ==
    /\ pc[s] = "idle"
    /\ ~app.deleted
    /\ a <= created
    /\ pc' = [pc EXCEPT ![s] = IF durable[a] THEN "submit" ELSE "legacy"]
    /\ target' = [target EXCEPT ![s] = a]
    /\ values' = [values EXCEPT ![s] = v]
    /\ seenResume' = [seenResume EXCEPT ![s] = app.resume]
    /\ UNCHANGED <<app, questions, heldKey, sent, bounds>>

\* A legacy question: valid answers go straight to the waiting workflow and
\* nothing is written.  A failed signal may have been delivered.
SubmitLegacy(s) ==
    /\ pc[s] = "legacy"
    /\ \/ /\ values[s] = Invalid
          /\ UNCHANGED <<legacySent, failures>>
       \/ /\ values[s] # Invalid
          /\ legacySent' = legacySent \cup {<<target[s], values[s]>>}
          /\ UNCHANGED failures
       \/ /\ values[s] # Invalid
          /\ Fail
          /\ legacySent' \in
                {legacySent, legacySent \cup {<<target[s], values[s]>>}}
    /\ Done(s)
    /\ UNCHANGED <<app, questions, queueItems, moves>>

\* uuid.NewString: an id nobody has seen.
FreshKeys ==
    {k \in ResumeKey : /\ \A a \in Action : key[a] # k
                       /\ \A i \in queueItems : i.key # k}

IsFirstSubmission(a) == ~Submitted(a)
AcceptsFirst(a, v) == pending[a] /\ v # Invalid /\ app.status = "blocked"

RecordOnly(a, v, k) ==
    /\ answers' = [answers EXCEPT ![a] = v]
    /\ pending' = [pending EXCEPT ![a] = FALSE]
    /\ key' = [key EXCEPT ![a] = k]
    /\ UNCHANGED <<app, created, durable, enqueued>>

\* What a first submission commits: the answer, the id of the workflow that
\* will resume the application, and the application unblocked.
Record(a, v, k) ==
    /\ answers' = [answers EXCEPT ![a] = v]
    /\ pending' = [pending EXCEPT ![a] = FALSE]
    /\ key' = [key EXCEPT ![a] = k]
    /\ app' = [app EXCEPT !.status = "processing"]
    /\ UNCHANGED <<created, durable, enqueued>>

\* The transaction commits a first submission.
SubmitFirst(s) ==
    /\ pc[s] = "submit"
    /\ IsFirstSubmission(target[s])
    /\ AcceptsFirst(target[s], values[s])
    /\ \E k \in FreshKeys :
        /\ Record(target[s], values[s], k)
        /\ heldKey' = [heldKey EXCEPT ![s] = k]
    /\ pc' = [pc EXCEPT ![s] = "signal"]
    /\ UNCHANGED <<target, values, seenResume, sent, bounds>>

SubmitAgainNewKey(s) ==
    /\ pc[s] = "submit"
    /\ ~IsFirstSubmission(target[s])
    /\ \E k \in FreshKeys :
        /\ key' = [key EXCEPT ![target[s]] = k]
        /\ heldKey' = [heldKey EXCEPT ![s] = k]
    /\ pc' = [pc EXCEPT ![s] = "signal"]
    /\ UNCHANGED <<app, created, durable, pending, answers, enqueued, target,
                   values, seenResume, sent, bounds>>

\* It finds the question answered: whatever this request brings is ignored,
\* and the resume is signalled again under the recorded id.
SubmitAgain(s) ==
    /\ pc[s] = "submit"
    /\ ~IsFirstSubmission(target[s])
    /\ heldKey' = [heldKey EXCEPT ![s] = key[target[s]]]
    /\ pc' = [pc EXCEPT ![s] = "signal"]
    /\ UNCHANGED <<app, questions, target, values, seenResume, sent, bounds>>

\* It is refused and rolled back: not pending any more, invalid values, or
\* the application is no longer blocked.
SubmitRefused(s) ==
    /\ pc[s] = "submit"
    /\ IsFirstSubmission(target[s])
    /\ ~AcceptsFirst(target[s], values[s])
    /\ Done(s)
    /\ UNCHANGED <<app, questions, sent, bounds>>

\* A statement or the commit fails; a failing commit may have committed.
SubmitFails(s) ==
    /\ pc[s] = "submit"
    /\ Fail
    /\ \/ UNCHANGED <<app, questions>>
       \/ /\ IsFirstSubmission(target[s])
          /\ AcceptsFirst(target[s], values[s])
          /\ \E k \in FreshKeys : Record(target[s], values[s], k)
    /\ Done(s)
    /\ UNCHANGED <<sent, moves>>

\* buildUserActionResumeQueueItem, from the application as first read.
ResumeItem(s) ==
    [action |-> target[s], key |-> heldKey[s], resume |-> seenResume[s]]

EnqueueResume(s) ==
    /\ pc[s] = "signal"
    /\ queueItems' = queueItems \cup {ResumeItem(s)}
    /\ pc' = [pc EXCEPT ![s] = "mark"]
    /\ UNCHANGED <<app, questions, target, values, seenResume, heldKey,
                   legacySent, bounds>>

EnqueueFailsSilently(s) ==
    /\ pc[s] = "signal"
    /\ Fail
    /\ pc' = [pc EXCEPT ![s] = "mark"]
    /\ UNCHANGED <<app, questions, target, values, seenResume, heldKey, sent,
                   moves>>

\* 503 "Answers saved; application requeue will retry": the server or the
\* client is gone; the signal may have been delivered.
EnqueueFails(s) ==
    /\ pc[s] = "signal"
    /\ Fail
    /\ queueItems' \in {queueItems, queueItems \cup {ResumeItem(s)}}
    /\ Done(s)
    /\ UNCHANGED <<app, questions, legacySent, moves>>

MarkEnqueued(s) ==
    /\ pc[s] = "mark"
    /\ enqueued' = [enqueued EXCEPT ![target[s]] = TRUE]
    /\ Done(s)
    /\ UNCHANGED <<app, created, durable, pending, answers, key, sent, bounds>>

\* 503 "Answers saved; application resume will retry".
MarkFails(s) ==
    /\ pc[s] = "mark"
    /\ Fail
    /\ Done(s)
    /\ UNCHANGED <<app, questions, sent, moves>>

\* The API process restarts and forgets its requests.
Crash ==
    /\ Fail
    /\ \E s \in Submitter : pc[s] # "idle"
    /\ pc' = [s \in Submitter |-> "idle"]
    /\ target' = [s \in Submitter |-> None]
    /\ values' = [s \in Submitter |-> None]
    /\ seenResume' = [s \in Submitter |-> None]
    /\ heldKey' = [s \in Submitter |-> None]
    /\ UNCHANGED <<app, questions, sent, moves>>

-----------------------------------------------------------------------------
(* The application outside SubmitUserAction.                               *)

Move == moves < MaxMoves /\ moves' = moves + 1

\* What retry, cancel and mark-as-applied may do to the status (in detail:
\* module JobApplication); a durably paused workflow is not running, so a
\* blocked application can be marked.
HandlerMoves ==
    {<<"failed", "queued">>, <<"cancelled", "queued">>,
     <<"processing", "cancelled">>, <<"queued", "cancelled">>,
     <<"blocked", "applied">>, <<"processing", "applied">>,
     <<"failed", "applied">>}

OtherHandler ==
    /\ Move
    /\ \E s \in Status :
        /\ <<app.status, s>> \in HandlerMoves
        /\ app' = [app EXCEPT !.status = s]
    /\ UNCHANGED <<questions, requests, sent, failures>>

\* PATCH may exchange the resume at any time.
PatchJobApplication ==
    /\ Move
    /\ ~app.deleted
    /\ \E c \in Resume : c # app.resume /\ app' = [app EXCEPT !.resume = c]
    /\ UNCHANGED <<questions, requests, sent, failures>>

DeleteApplication ==
    /\ Move
    /\ ~app.deleted
    /\ app.status \in {"failed", "cancelled"}
    /\ app' = [app EXCEPT !.deleted = TRUE]
    /\ UNCHANGED <<questions, requests, sent, failures>>

-----------------------------------------------------------------------------
(* The worker, another program: it asks a question and blocks the          *)
(* application in one step, takes a legacy answer, and closes the open     *)
(* question when it gives up.                                              *)

WorkerBlocks ==
    /\ app.status = "processing"
    /\ created < NumActions
    /\ created' = created + 1
    /\ pending' = [pending EXCEPT ![created + 1] = TRUE]
    /\ app' = [app EXCEPT !.status = "blocked"]
    /\ UNCHANGED <<durable, answers, key, enqueued, requests, sent, bounds>>

WorkerTakesLegacy(a) ==
    /\ pending[a]
    /\ \E v \in Answer : <<a, v>> \in legacySent
    /\ app.status = "blocked"
    /\ pending' = [pending EXCEPT ![a] = FALSE]
    /\ app' = [app EXCEPT !.status = "processing"]
    /\ UNCHANGED <<created, durable, answers, key, enqueued, requests, sent,
                   bounds>>

WorkerGivesUp ==
    /\ app.status = "blocked"
    /\ pending' = [a \in Action |-> FALSE]
    /\ app' = [app EXCEPT !.status = "failed"]
    /\ UNCHANGED <<created, durable, answers, key, enqueued, requests, sent,
                   bounds>>

WorkerRuns ==
    /\ \E s \in Status :
        /\ <<app.status, s>> \in {<<"queued", "processing">>,
                                  <<"processing", "failed">>,
                                  <<"processing", "applied">>}
        /\ app' = [app EXCEPT !.status = s]
    /\ UNCHANGED <<questions, requests, sent, bounds>>

-----------------------------------------------------------------------------
Read(s) == \E a \in Action, v \in Answer \cup {Invalid} :
               ReadUserAction(s, a, v)

Submit(s) == \/ SubmitLegacy(s)
             \/ SubmitFirst(s) \/ SubmitAgain(s)
             \/ SubmitRefused(s) \/ SubmitFails(s)
             \/ EnqueueResume(s) \/ EnqueueFails(s)
             \/ MarkEnqueued(s) \/ MarkFails(s)

Environment == \/ OtherHandler \/ PatchJobApplication \/ DeleteApplication
               \/ WorkerBlocks \/ WorkerGivesUp \/ WorkerRuns
               \/ \E a \in Action : WorkerTakesLegacy(a)

Next == \/ \E s \in Submitter : Read(s) \/ Submit(s)
        \/ Crash
        \/ Environment

Spec == Init /\ [][Next]_vars

\* The client keeps showing the question GetUserAction returns and submits
\* it again: what both 503 answers leave to it.
Resubmits(s) == \E a \in Action, v \in Answer :
                    GetUserAction(a) /\ ReadUserAction(s, a, v)

\* Strong: between two such submissions it may send others.  A submission
\* that has begun keeps running, and no call has to fail.
Fairness == \A s \in Submitter :
                /\ SF_vars(Resubmits(s))
                /\ WF_vars(Submit(s) /\ UNCHANGED failures)

FairSpec == Spec /\ Fairness

-----------------------------------------------------------------------------
(* Safety.                                                                 *)

\* Every queue item sent for a question carries the one resume_workflow_id
\* recorded with its answer, and no two questions share one: the pool can
\* tell a repeated resume from a new one, whoever submitted, however often,
\* and wherever the process stopped.  (SubmitUserAction: the id is persisted
\* before the signal and read back under the row lock.)
OneKeyPerQuestion ==
    /\ \A i \in queueItems : i.key = key[i.action]
    /\ \A a, b \in Action : key[a] # None /\ key[a] = key[b] => a = b

\* resume_enqueued_at is set only for a resume that reached the pool: the
\* question never disappears from GetUserAction while the pool knows nothing.
\* (SubmitUserAction: mark after signal, return when the signal fails.)
EnqueuedWasSignalled ==
    \A a \in Action : enqueued[a] => \E i \in queueItems : i.action = a

\* A blocked application has exactly one question left to answer, its last:
\* no submission answers a question without unblocking the application, and
\* none unblocks it for a question it is not blocked on.
\* (SubmitUserAction: both updates in one transaction.)
BlockedOnItsLastQuestion ==
    app.status = "blocked" =>
        \A a \in Action : (pending[a] /\ ~Submitted(a)) <=> a = created

\* What a request holds is what the database holds: a resume_workflow_id in
\* memory is the recorded one, and whoever is about to mark the resume as
\* enqueued has sent it.
RequestsAreCurrent ==
    \A s \in Submitter :
        /\ pc[s] # "idle" => /\ target[s] \in 1..created
                             /\ values[s] \in Answer \cup {Invalid}
                             /\ seenResume[s] \in Resume
        /\ pc[s] \in {"signal", "mark"} =>
               heldKey[s] # None /\ heldKey[s] = key[target[s]]
        /\ pc[s] = "mark" =>
               \E i \in queueItems : i.action = target[s]

\* A question is answered exactly when it has a resume_workflow_id, never
\* while it is pending, and only after it was asked.
AnsweredHasKey ==
    \A a \in Action :
        /\ Submitted(a) <=> key[a] # None
        /\ Submitted(a) => ~pending[a]
        /\ Submitted(a) \/ pending[a] => a <= created

\* A question is open only while its application is blocked on it, or was
\* marked as applied by hand.
OpenOnlyWhenBlocked ==
    \A a \in Action :
        pending[a] => a = created /\ app.status \in {"blocked", "applied"}

\* The inductive invariant behind the three properties above.
IndInv == /\ TypeOK
          /\ RequestsAreCurrent
          /\ AnsweredHasKey
          /\ OpenOnlyWhenBlocked
          /\ OneKeyPerQuestion
          /\ EnqueuedWasSignalled
          /\ BlockedOnItsLastQuestion

-----------------------------------------------------------------------------
(* Refinement and liveness.                                                *)

DR == INSTANCE DurableResume WITH
          Question <- Action, Reply <- Answer, ResumeId <- ResumeKey,
          NoReply <- None, answer <- answers, resumeId <- key,
          resumed <- {<<i.action, i.key>> : i \in queueItems},
          settled <- {a \in Action : enqueued[a]}

\* With every race, retry, failure and restart, the handler does what a
\* durable pause promises: the first answer and its resume id are final, the
\* pool hears only of answered questions and only under that id, and nothing
\* counts as enqueued before.  (SubmitUserAction as a whole.)
ImplementsDurableResume == DR!Spec

\* An answered question is eventually enqueued, provided the client submits
\* what GetUserAction shows it, calls fail only finitely often and the
\* application is not deleted meanwhile.  (The 503 answers of
\* SubmitUserAction and the query of GetUserAction.)
AnsweredIsEnqueued ==
    []~app.deleted => \A a \in Action : Submitted(a) ~> enqueued[a]
=============================================================================
