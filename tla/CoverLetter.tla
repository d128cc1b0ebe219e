----------------------------- MODULE CoverLetter -----------------------------
(***************************************************************************)
(* One cover letter: a row of cover_letter that is either standalone       *)
(* (endpoints/coverletter creates and regenerates it) or attached to a job *)
(* application (endpoints/coverletter/extension generates it, the sync of  *)
(* endpoints/jobapplication/extension may overwrite it).                   *)
(*                                                                         *)
(* A generation is a request that marks the row "processing" and leaves a  *)
(* goroutine behind, which waits for the worker's CoverLetterWorkflow,     *)
(* writes the outcome by key alone and tells the user.  Nothing stops a    *)
(* second generation, or a sync, while the goroutine of a first still runs.*)
(*                                                                         *)
(* A generation g stands for its workflow id and for the text its workflow *)
(* writes, a sync s for the text the extension sends, which may be empty,  *)
(* too (Blank).  Which resume a letter is written from is left out.        *)
(*                                                                         *)
(* A write that reports an error may have taken effect: each is a          *)
(* transaction whose commit may lose its reply.                            *)
(***************************************************************************)
EXTENDS Naturals, FiniteSets

CONSTANTS
    Generation,    \* requests that start a generation, one each
    Sync,          \* requests to SyncApplicationData that carry a letter
    MaxFailures,   \* bound on failing database calls and publications
    MaxCrashes,    \* bound on restarts of the API process
    Blank,         \* the empty text
    None           \* NULL

ASSUME ConstantsAssumption ==
    /\ Generation \cap Sync = {}
    /\ None \notin Generation \cup Sync
    /\ Blank \notin Generation \cup Sync \cup {None}
    /\ MaxFailures \in Nat
    /\ MaxCrashes \in Nat

VARIABLES
    attached,   \* id_job_application IS NOT NULL
    letter,     \* the row: status, body, workflow_id, failure_reason
    pc,         \* where each generation stands, request and goroutine
    syncPc,     \* where each sync stands
    found,      \* the requests whose upsert found a row to update
    events,     \* realtime events published, <<type, generation>>
    orphaned,   \* generations that marked the row, but were told of an error
    logged,     \* generations with an error nobody hears of: only logged
    failures,
    crashes

faults == <<orphaned, logged, failures, crashes>>
vars   == <<attached, letter, pc, syncPc, found, events, faults>>

Text == Generation \cup Sync

Letter == [status: {"none", "processing", "ready", "failed"},
           body: Text \cup {Blank, None},
           wf: Generation \cup {None},
           reason: Generation \cup {None}]

TypeOK ==
    /\ attached \in BOOLEAN
    /\ letter \in Letter
    /\ pc \in [Generation -> {"idle", "write", "running", "persist", "fail",
                              "publishReady", "publishFailed", "done"}]
    /\ syncPc \in [Sync -> {"idle", "check", "find", "write", "done"}]
    /\ found \subseteq Text
    /\ events \subseteq ({"ready", "failed"} \X Generation)
    /\ orphaned \subseteq Generation
    /\ logged \subseteq Generation
    /\ failures \in 0..MaxFailures
    /\ crashes \in 0..MaxCrashes

\* A letter is attached, or not, for good.
Init ==
    /\ attached \in BOOLEAN
    /\ letter = [status |-> "none", body |-> None, wf |-> None, reason |-> None]
    /\ pc = [g \in Generation |-> "idle"]
    /\ syncPc = [s \in Sync |-> "idle"]
    /\ found = {}
    /\ events = {}
    /\ orphaned = {}
    /\ logged = {}
    /\ failures = 0
    /\ crashes = 0

-----------------------------------------------------------------------------
Exists == letter.status # "none"

Fail == failures < MaxFailures /\ failures' = failures + 1

Step(g, from, to) == pc[g] = from /\ pc' = [pc EXCEPT ![g] = to]

SyncStep(s, from, to) == syncPc[s] = from /\ syncPc' = [syncPc EXCEPT ![s] = to]

-----------------------------------------------------------------------------
(* Starting a generation.                                                  *)

\* A new row, or one marked and emptied.
Marked(g) == [status |-> "processing", body |-> None, wf |-> g, reason |-> None]

\* createStandaloneCoverLetter, then the goroutine.
CreateCoverLetter(g) ==
    /\ ~attached
    /\ ~Exists
    /\ Step(g, "idle", "running")
    /\ letter' = Marked(g)
    /\ UNCHANGED <<attached, syncPc, found, events, faults>>

\* getStandaloneCoverLetter finds the row; its status is not looked at.
RegenerateRead(g) ==
    /\ ~attached
    /\ Exists
    /\ Step(g, "idle", "write")
    /\ UNCHANGED <<attached, letter, syncPc, found, events, faults>>

\* The row is marked and emptied, then the goroutine starts.
RegenerateWrite(g) ==
    /\ ~attached
    /\ Step(g, "write", "running")
    /\ letter' = Marked(g)
    /\ UNCHANGED <<attached, syncPc, found, events, faults>>

\* UpsertAttachedCoverLetter looks for a row ...
GenerateFind(g) ==
    /\ attached
    /\ Step(g, "idle", "write")
    /\ found' = IF Exists THEN found \cup {g} ELSE found
    /\ UNCHANGED <<attached, letter, syncPc, events, faults>>

\* ... and updates it: status and workflow id, for the body only a given
\* one, never the failure reason; or creates it.
Upserted(r, status, wf, body) ==
    IF r \in found
    THEN [letter EXCEPT !.status = status, !.wf = wf,
                        !.body = IF body = None THEN @ ELSE body]
    ELSE [status |-> status, body |-> body, wf |-> wf, reason |-> None]

\* Two creations collide on the unique job application.
UpsertCollides(r) == r \notin found /\ Exists

GenerateUpsert(g) ==
    /\ attached
    /\ ~UpsertCollides(g)
    /\ Step(g, "write", "running")
    /\ letter' = Upserted(g, "processing", g, None)
    /\ UNCHANGED <<attached, syncPc, found, events, faults>>

GenerateCollides(g) ==
    /\ attached
    /\ UpsertCollides(g)
    /\ Step(g, "write", "done")
    /\ UNCHANGED <<attached, letter, syncPc, found, events, faults>>

\* The write that marks the row reports an error: no goroutine is started.
StartFails(g) ==
    /\ \/ Step(g, "write", "done")
       \/ ~attached /\ ~Exists /\ Step(g, "idle", "done")
    /\ Fail
    /\ UNCHANGED <<attached, letter, syncPc, found, events, orphaned, logged,
                   crashes>>

\* As little when it took effect and only its reply was lost.
StartReplyLost(g) ==
    /\ \/ /\ attached /\ ~UpsertCollides(g)
          /\ Step(g, "write", "done")
          /\ letter' = Upserted(g, "processing", g, None)
       \/ /\ ~attached
          /\ Step(g, "write", "done") \/ (~Exists /\ Step(g, "idle", "done"))
          /\ letter' = Marked(g)
    /\ Fail
    /\ orphaned' = orphaned \cup {g}
    /\ UNCHANGED <<attached, syncPc, found, events, logged, crashes>>

-----------------------------------------------------------------------------
(* The goroutine of GenerateCoverLetterAsync.                              *)

ReturnsEmpty(g) ==
    /\ Step(g, "running", "publishReady")
    /\ letter' = [letter EXCEPT !.status = "ready"]
    /\ UNCHANGED <<attached, syncPc, found, events, faults>>

\* The workflow returns a text.
WorkflowReturns(g) ==
    /\ Step(g, "running", "persist")
    /\ UNCHANGED <<attached, letter, syncPc, found, events, faults>>

\* It cannot be started, fails, times out, or returns an empty text.
WorkflowFails(g) ==
    /\ Step(g, "running", "fail")
    /\ UNCHANGED <<attached, letter, syncPc, found, events, faults>>

PersistCoverLetter(g) ==
    /\ Step(g, "persist", "publishReady")
    /\ letter' = [letter EXCEPT !.status = "ready", !.body = g]
    /\ UNCHANGED <<attached, syncPc, found, events, faults>>

PersistFailsUnmarked(g) ==
    /\ Step(g, "persist", "publishFailed")
    /\ Fail
    /\ UNCHANGED <<attached, letter, syncPc, found, events, orphaned, logged,
                   crashes>>

\* The row may have the text all the same.
PersistFails(g) ==
    /\ Step(g, "persist", "fail")
    /\ letter' \in {letter, [letter EXCEPT !.status = "ready", !.body = g]}
    /\ Fail
    /\ UNCHANGED <<attached, syncPc, found, events, orphaned, logged, crashes>>

\* An error of this update is only logged.
MarkCoverLetterFailed(g) ==
    LET failed == [letter EXCEPT !.status = "failed", !.reason = g] IN
    /\ Step(g, "fail", "publishFailed")
    /\ \/ letter' = failed /\ UNCHANGED <<logged, failures>>
       \/ /\ Fail /\ logged' = logged \cup {g}
          /\ letter' \in {letter, failed}
    /\ UNCHANGED <<attached, syncPc, found, events, orphaned, crashes>>

\* An error of a publication is only logged, too.
Publish(g, from, event) ==
    /\ Step(g, from, "done")
    /\ \/ events' = events \cup {<<event, g>>} /\ UNCHANGED <<logged, failures>>
       \/ /\ Fail /\ logged' = logged \cup {g}
          /\ events' \in {events, events \cup {<<event, g>>}}
    /\ UNCHANGED <<attached, letter, syncPc, found, orphaned, crashes>>

PublishFailedThenReady(g) ==
    /\ Step(g, "publishFailed", "publishReady")
    /\ events' = events \cup {<<"failed", g>>}
    /\ UNCHANGED <<attached, letter, syncPc, found, faults>>

PublishFailedSilently(g) ==
    /\ Step(g, "publishFailed", "done")
    /\ UNCHANGED <<attached, letter, syncPc, found, events, faults>>

PublishReadyStatus(g) == Publish(g, "publishReady", "processing")

PublishReady(g)  == Publish(g, "publishReady", "ready")
PublishFailed(g) == Publish(g, "publishFailed", "failed")

-----------------------------------------------------------------------------
(* SyncApplicationData with a cover letter.  Its transaction first writes  *)
(* the row of job_application_data, so two syncs of an application follow  *)
(* one another; of two that both create that row the second is turned away *)
(* as if it had not come.  The row of cover_letter is only read until it   *)
(* is written.                                                             *)

SyncBegin(s) ==
    /\ attached
    /\ \A t \in Sync : syncPc[t] \in {"idle", "done"}
    /\ SyncStep(s, "idle", "check")
    /\ UNCHANGED <<attached, letter, pc, found, events, faults>>

\* A row that is being generated is left alone.
SyncMayWrite == letter.status # "processing"

SyncCheck(s) ==
    /\ SyncStep(s, "check", IF SyncMayWrite THEN "find" ELSE "done")
    /\ UNCHANGED <<attached, letter, pc, found, events, faults>>

SyncFind(s) ==
    /\ SyncStep(s, "find", "write")
    /\ found' = IF Exists THEN found \cup {s} ELSE found
    /\ UNCHANGED <<attached, letter, pc, events, faults>>

\* The upsert and the commit; from the write on the row is locked.  That the
\* request has a text is tested, not that it is not empty.
SyncWrites(s) ==
    /\ ~UpsertCollides(s)
    /\ SyncStep(s, "write", "done")
    /\ \E text \in {s, Blank} : letter' = Upserted(s, "ready", None, text)

SyncUpsert(s) ==
    /\ SyncWrites(s)
    /\ UNCHANGED <<attached, pc, found, events, faults>>

\* The commit took effect and its reply was lost.
SyncReplyLost(s) ==
    /\ SyncWrites(s)
    /\ Fail
    /\ UNCHANGED <<attached, pc, found, events, orphaned, logged, crashes>>

\* A failing statement or commit: rollback.
SyncRollsBack(s) ==
    /\ \E place \in {"check", "find", "write"} : SyncStep(s, place, "done")
    /\ \/ Fail
       \/ syncPc[s] = "write" /\ UpsertCollides(s) /\ UNCHANGED failures
    /\ UNCHANGED <<attached, letter, pc, found, events, orphaned, logged,
                   crashes>>

-----------------------------------------------------------------------------
\* The API process restarts; no goroutine survives, and nobody takes up the
\* generations they were waiting for.
Crash ==
    /\ crashes < MaxCrashes
    /\ crashes' = crashes + 1
    /\ pc' = [g \in Generation |-> IF pc[g] = "idle" THEN "idle" ELSE "done"]
    /\ syncPc' = [s \in Sync |-> IF syncPc[s] = "idle" THEN "idle" ELSE "done"]
    /\ UNCHANGED <<attached, letter, found, events, orphaned, logged,
                   failures>>

Start(g) == CreateCoverLetter(g) \/ RegenerateRead(g) \/ GenerateFind(g)

Generate(g) ==
    \/ RegenerateWrite(g) \/ GenerateUpsert(g) \/ GenerateCollides(g)
    \/ StartFails(g) \/ StartReplyLost(g)
    \/ WorkflowReturns(g) \/ WorkflowFails(g)
    \/ PersistCoverLetter(g) \/ PersistFails(g)
    \/ MarkCoverLetterFailed(g)
    \/ PublishReady(g) \/ PublishFailed(g)

Synchronize(s) == \/ SyncCheck(s) \/ SyncFind(s) \/ SyncUpsert(s)
                  \/ SyncReplyLost(s) \/ SyncRollsBack(s)

Next == \/ \E g \in Generation : Start(g) \/ Generate(g)
        \/ \E s \in Sync : SyncBegin(s) \/ Synchronize(s)
        \/ Crash

Spec == Init /\ [][Next]_vars

\* What has begun goes on; the workflow has an execution timeout of ten
\* minutes, so that waiting for it ends.  No call has to fail.
Fairness ==
    /\ \A g \in Generation : WF_vars(Generate(g) /\ UNCHANGED failures)
    /\ \A s \in Sync : WF_vars(Synchronize(s) /\ UNCHANGED failures)

FairSpec == Spec /\ Fairness

-----------------------------------------------------------------------------
(* Properties.                                                             *)

\* A letter that is ready has a text, and one just emptied for a new text is
\* never ready, however generations and syncs overlap.  The text is empty only
\* if it is a sync's, which leaves no workflow id; a generation's never is.
\* (runCoverLetterWorkflow refuses an empty result; status and body are
\* written in one statement; a sync's text is stored as it comes.)
ReadyHasText ==
    letter.status = "ready" =>
        letter.body # None /\ (letter.body = Blank => letter.wf = None)

\* Nothing is left "processing" for good: as long as the row says so, some
\* goroutine is still to write it.  Three things break this: a restart, an
\* error of the update that should record a failure, which is only logged, and
\* a start that took effect although its user was told it failed.
\* (GenerateCoverLetterAsync: every other exit writes the row.)
NothingLeftProcessing ==
    letter.status = "processing" /\ crashes = 0 /\ logged = {} =>
        \/ \E g \in Generation : pc[g] \in {"running", "persist", "fail"}
        \/ letter.wf \in orphaned

\* The user hears one verdict per generation, and "ready" only if the text
\* reached the row.  (GenerateCoverLetterAsync: the returns after a failure.)
OneVerdictPerGeneration ==
    \A g \in Generation : ~(<<"ready", g>> \in events /\ <<"failed", g>> \in events)

\* A generation of which the user heard is over.
VerdictEndsGeneration ==
    \A e \in events : pc[e[2]] = "done"

\* Together they are inductive.
IndInv ==
    /\ TypeOK
    /\ ReadyHasText
    /\ NothingLeftProcessing
    /\ VerdictEndsGeneration
    /\ OneVerdictPerGeneration

\* A sync never writes a row that a generation has marked.
\* (SyncApplicationData: the comment on the case that skips the upsert.)
SyncSparesGeneration ==
    [][\A s \in Sync : syncPc[s] = "write" /\ letter' # letter /\ syncPc' # syncPc
           => letter.status # "processing"]_vars

\* A letter being generated gets its outcome, and the user who waits for it
\* an event.  (GenerateCoverLetterAsync under its timeout.)
GenerationConcludes ==
    [](crashes = 0 /\ logged = {}) =>
        \A g \in Generation :
            pc[g] = "running" ~>
                <<"ready", g>> \in events \/ <<"failed", g>> \in events
=============================================================================
