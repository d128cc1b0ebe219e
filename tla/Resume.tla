------------------------------- MODULE Resume -------------------------------
(***************************************************************************)
(* The resumes of one user: SetResumeAsActive, UploadResume and            *)
(* DeleteResume of endpoints/resume on rows of the table resume and on the *)
(* files behind them, in S3.                                               *)
(*                                                                         *)
(* SetResumeAsActive is the only handler that writes several rows: in one  *)
(* transaction it clears is_active on every live row, then sets it on one. *)
(* At READ COMMITTED the first statement works on the rows that were live  *)
(* when it began, locks them one after the other, waits for the ones that  *)
(* are locked, and looks again at those that changed meanwhile; rows that  *)
(* were inserted meanwhile it does not see.  Two such statements may wait  *)
(* for each other, and Postgres then aborts one.                           *)
(*                                                                         *)
(* A write that reports an error may have taken effect, since each is a    *)
(* transaction whose commit may lose its reply; so may a call of S3.       *)
(*                                                                         *)
(* UpdateDisplayName writes a column nothing here depends on.              *)
(***************************************************************************)
EXTENDS Naturals, FiniteSets

CONSTANTS
    Request,      \* the HTTP requests that may arrive, one operation each
    ResumeId,     \* ids of resumes, and of the files they refer to
    Uploaded,     \* the resumes that are there from the start
    Operations,   \* the operations the requests of a run may perform
    MaxFailures,  \* bound on failing calls of S3 and the database
    MaxCrashes,   \* bound on restarts of the API process
    None

ASSUME ConstantsAssumption ==
    /\ None \notin Request \cup ResumeId
    /\ Uploaded \subseteq ResumeId
    /\ Operations \subseteq {"activate", "upload", "delete"}
    /\ MaxFailures \in Nat
    /\ MaxCrashes \in Nat

VARIABLES
    status,      \* of each row: "none", "live" or "deleted"
    active,      \* the rows with is_active
    files,       \* the files in S3
    lock,        \* the transaction that holds each row
    pc,          \* where each request stands
    target,      \* the resume it is about
    toClear,     \* rows its statement still has to clear
    cleared,     \* rows it has cleared and not committed
    halfDone,    \* resumes of which an upload or a deletion ended with an
                 \* error or a restart between file and row
    failures,
    crashes

rows     == <<status, active>>
tx       == <<lock, toClear, cleared>>
requests == <<pc, target>>
faults   == <<halfDone, failures, crashes>>
vars     == <<rows, files, tx, requests, faults>>

Exist == {x \in ResumeId : status[x] # "none"}
Live  == {x \in ResumeId : status[x] = "live"}

TypeOK ==
    /\ status \in [ResumeId -> {"none", "live", "deleted"}]
    /\ active \subseteq Exist
    /\ files \subseteq ResumeId
    /\ lock \in [ResumeId -> Request \cup {None}]
    /\ pc \in [Request -> {"idle", "clear", "activate", "commit", "insert",
                           "removeFile", "deleteFile", "deleteRow", "done"}]
    /\ target \in [Request -> ResumeId \cup {None}]
    /\ toClear \in [Request -> SUBSET ResumeId]
    /\ cleared \in [Request -> SUBSET ResumeId]
    /\ halfDone \subseteq ResumeId
    /\ failures \in 0..MaxFailures
    /\ crashes \in 0..MaxCrashes

\* UploadResume creates rows inactive; at most one has been activated.
Init ==
    /\ status = [x \in ResumeId |-> IF x \in Uploaded THEN "live" ELSE "none"]
    /\ \/ active = {}
       \/ \E x \in Uploaded : active = {x}
    /\ files = Uploaded
    /\ lock = [x \in ResumeId |-> None]
    /\ pc = [r \in Request |-> "idle"]
    /\ target = [r \in Request |-> None]
    /\ toClear = [r \in Request |-> {}]
    /\ cleared = [r \in Request |-> {}]
    /\ halfDone = {}
    /\ failures = 0
    /\ crashes = 0

-----------------------------------------------------------------------------
Fail == failures < MaxFailures /\ failures' = failures + 1

GoTo(r, place) == pc' = [pc EXCEPT ![r] = place]

\* A request arrives and is about resume x.
Arrive(r, operation, x, place) ==
    /\ operation \in Operations
    /\ pc[r] = "idle"
    /\ GoTo(r, place)
    /\ target' = [target EXCEPT ![r] = x]

Step(r, from, to) == pc[r] = from /\ GoTo(r, to) /\ UNCHANGED target

-----------------------------------------------------------------------------
(* SetResumeAsActive.                                                      *)

EndTx(r) ==
    /\ lock' = [x \in ResumeId |-> IF lock[x] = r THEN None ELSE lock[x]]
    /\ toClear' = [toClear EXCEPT ![r] = {}]
    /\ cleared' = [cleared EXCEPT ![r] = {}]

\* The rows the first statement is to clear.
ClearsActiveOnly == Live \cap active
Clears == Live

\* Begin and the start of "deactivate all"; a client names any resume it
\* has seen, which may be deleted by now.
SetActiveBegin(r) ==
    /\ \E x \in Exist : Arrive(r, "activate", x, "clear")
    /\ toClear' = [toClear EXCEPT ![r] = Clears]
    /\ UNCHANGED <<rows, files, lock, cleared, faults>>

\* The statement gets the lock of one more row; one that was deleted
\* meanwhile is left as it is.
ClearRow(r) ==
    /\ pc[r] = "clear"
    /\ \E x \in toClear[r] :
        /\ lock[x] = None
        /\ lock' = [lock EXCEPT ![x] = r]
        /\ toClear' = [toClear EXCEPT ![r] = @ \ {x}]
        /\ cleared' = [cleared EXCEPT ![r] = @ \cup ({x} \cap Live)]
    /\ UNCHANGED <<rows, files, requests, faults>>

FindCommits(r) ==
    /\ toClear[r] = {}
    /\ \/ /\ target[r] \in Live
          /\ Step(r, "clear", "activate")
          /\ UNCHANGED <<tx, active>>
       \/ /\ target[r] \notin Live
          /\ Step(r, "clear", "done")
          /\ active' = active \ cleared[r]
          /\ EndTx(r)
    /\ UNCHANGED <<status, files, faults>>

FindLeavesTx(r) ==
    /\ toClear[r] = {}
    /\ Step(r, "clear", IF target[r] \in Live THEN "activate" ELSE "done")
    /\ UNCHANGED <<rows, files, tx, faults>>

\* The resume is looked up; one that is not live is a 404 and a rollback.
SetActiveFind(r) ==
    /\ toClear[r] = {}
    /\ \/ /\ target[r] \in Live
          /\ Step(r, "clear", "activate")
          /\ UNCHANGED tx
       \/ /\ target[r] \notin Live
          /\ Step(r, "clear", "done")
          /\ EndTx(r)
    /\ UNCHANGED <<rows, files, faults>>

\* It is activated by its key alone.
SetActiveActivate(r) ==
    /\ Step(r, "activate", "commit")
    /\ lock[target[r]] \in {None, r}
    /\ lock' = [lock EXCEPT ![target[r]] = r]
    /\ UNCHANGED <<rows, files, toClear, cleared, faults>>

Activated(r) == (active \ cleared[r]) \cup {target[r]}

SetActiveCommit(r) ==
    /\ Step(r, "commit", "done")
    /\ active' = Activated(r)
    /\ EndTx(r)
    /\ UNCHANGED <<status, files, faults>>

\* A statement fails and is rolled back, or the commit fails, which may
\* have committed.
SetActiveFails(r) ==
    /\ \E place \in {"clear", "activate", "commit"} : Step(r, place, "done")
    /\ Fail
    /\ active' \in {active} \cup IF pc[r] = "commit" THEN {Activated(r)} ELSE {}
    /\ EndTx(r)
    /\ UNCHANGED <<status, files, halfDone, crashes>>

\* Statements that all wait for rows the others hold.
Deadlocked(waiting) ==
    \A r \in waiting :
        /\ pc[r] = "clear"
        /\ toClear[r] # {}
        /\ \A x \in toClear[r] : lock[x] \in waiting \ {r}

\* Postgres aborts one of them; the handler rolls back.
SetActiveAborted(r) ==
    /\ \E waiting \in SUBSET Request : r \in waiting /\ Deadlocked(waiting)
    /\ Step(r, "clear", "done")
    /\ EndTx(r)
    /\ UNCHANGED <<rows, files, faults>>

-----------------------------------------------------------------------------
(* UploadResume: the file first, then the row.                             *)

\* A fresh UUID names the resume and its file.
Fresh == {x \in ResumeId : /\ status[x] = "none"
                            /\ \A q \in Request : target[q] # x}

UploadFile(r) ==
    /\ \E x \in Fresh :
        /\ Arrive(r, "upload", x, "insert")
        /\ files' = files \cup {x}
    /\ UNCHANGED <<rows, tx, faults>>

UploadFileFailsUnnoticed(r) ==
    /\ \E x \in Fresh : Arrive(r, "upload", x, "insert")
    /\ Fail
    /\ UNCHANGED <<rows, files, tx, halfDone, crashes>>

\* S3 reports an error, whether or not it stored the file.
UploadFileFails(r) ==
    /\ \E x \in Fresh :
        /\ Arrive(r, "upload", x, "done")
        /\ files' \in {files, files \cup {x}}
    /\ Fail
    /\ UNCHANGED <<rows, tx, halfDone, crashes>>

UploadInsert(r) ==
    /\ Step(r, "insert", "done")
    /\ status' = [status EXCEPT ![target[r]] = "live"]
    /\ UNCHANGED <<active, files, tx, faults>>

UploadInsertFailsActive(r) ==
    /\ Step(r, "insert", "done")
    /\ Fail
    /\ active' = active \cup {target[r]}
    /\ UNCHANGED <<status, files, tx, halfDone, crashes>>

\* The insert reports an error, whether or not it took effect.
UploadInsertFails(r) ==
    /\ Step(r, "insert", "removeFile")
    /\ Fail
    /\ \/ UNCHANGED <<status, halfDone>>
       \/ /\ status' = [status EXCEPT ![target[r]] = "live"]
          /\ halfDone' = halfDone \cup {target[r]}
    /\ UNCHANGED <<active, files, tx, crashes>>

\* Then the file is deleted, if that works: its error is ignored.
UploadRemoveFile(r) ==
    /\ Step(r, "removeFile", "done")
    /\ files' \in {files, files \ {target[r]}}
    /\ UNCHANGED <<rows, tx, faults>>

-----------------------------------------------------------------------------
(* DeleteResume: the file first, then the row.                             *)

DeleteRead(r) ==
    /\ \E x \in Live : Arrive(r, "delete", x, "deleteFile")
    /\ UNCHANGED <<rows, files, tx, faults>>

DeleteFile(r) ==
    /\ Step(r, "deleteFile", "deleteRow")
    /\ files' = files \ {target[r]}
    /\ UNCHANGED <<rows, tx, faults>>

\* S3 reports an error, whether or not the file is gone.
DeleteFileFails(r) ==
    /\ Step(r, "deleteFile", "done")
    /\ Fail
    /\ \/ UNCHANGED <<files, halfDone>>
       \/ /\ files' = files \ {target[r]}
          /\ halfDone' = halfDone \cup {target[r]}
    /\ UNCHANGED <<rows, tx, crashes>>

\* The row is written by its key, once no transaction holds it.
SoftDelete(r) ==
    /\ lock[target[r]] = None
    /\ status' = [status EXCEPT ![target[r]] = "deleted"]
    /\ active' = active \ {target[r]}

DeleteRow(r) ==
    /\ Step(r, "deleteRow", "done")
    /\ SoftDelete(r)
    /\ UNCHANGED <<files, tx, faults>>

\* The update reports an error, whether or not it took effect.
DeleteRowFails(r) ==
    /\ Step(r, "deleteRow", "done")
    /\ Fail
    /\ UNCHANGED rows \/ SoftDelete(r)
    /\ halfDone' = halfDone \cup {target[r]}
    /\ UNCHANGED <<files, tx, crashes>>

-----------------------------------------------------------------------------
\* The API process restarts: open transactions are rolled back.
Crash ==
    /\ crashes < MaxCrashes
    /\ crashes' = crashes + 1
    /\ pc' = [r \in Request |-> IF pc[r] = "idle" THEN "idle" ELSE "done"]
    /\ lock' = [x \in ResumeId |-> None]
    /\ toClear' = [r \in Request |-> {}]
    /\ cleared' = [r \in Request |-> {}]
    /\ halfDone' = halfDone \cup
           {target[r] : r \in {q \in Request : pc[q] = "deleteRow"}}
    /\ UNCHANGED <<rows, files, target, failures>>

Begin(r) == \/ SetActiveBegin(r) \/ DeleteRead(r)
            \/ UploadFile(r) \/ UploadFileFails(r)

SetResumeAsActive(r) ==
    \/ ClearRow(r) \/ SetActiveFind(r) \/ SetActiveActivate(r)
    \/ SetActiveCommit(r) \/ SetActiveFails(r) \/ SetActiveAborted(r)

UploadResume(r) == \/ UploadInsert(r) \/ UploadInsertFails(r)
                   \/ UploadRemoveFile(r)

DeleteResume(r) == \/ DeleteFile(r) \/ DeleteFileFails(r)
                   \/ DeleteRow(r) \/ DeleteRowFails(r)

Proceed(r) == SetResumeAsActive(r) \/ UploadResume(r) \/ DeleteResume(r)

Next == \/ \E r \in Request : Begin(r) \/ Proceed(r)
        \/ Crash

Spec == Init /\ [][Next]_vars

\* A handler that has begun keeps running; a failure never has to come to
\* the rescue of one that waits.
Fairness == \A r \in Request : WF_vars(Proceed(r) /\ UNCHANGED failures)

FairSpec == Spec /\ Fairness

-----------------------------------------------------------------------------
(* Properties.                                                             *)

\* Of the resumes that were there before any request at most one is active,
\* whatever is uploaded meanwhile: activations that wait for each other's
\* rows never each win half.  (SetResumeAsActive: both updates and the commit.)
OneActiveOfUploaded == \A x, y \in active \cap Live \cap Uploaded : x = y

\* A deleted resume is not active, even when it was being activated while it
\* was deleted.  (SetResumeAsActive holds the row it found live;
\* DeleteResume clears is_active.)
DeletedIsInactive == active \subseteq Live

\* A resume that is shown has its file, or a deletion of it has just removed
\* it or ended half-way, or its upload was told of an error although the row
\* is there.  (UploadResume and DeleteResume: file first; UploadResume deletes
\* the file after every error of the insert.)
LiveHasFile ==
    \A x \in Live \ files :
        \/ x \in halfDone
        \/ \E r \in Request : pc[r] = "deleteRow" /\ target[r] = x

\* A request that is under way is about a resume: one that exists, for an
\* upload one that nobody else knows.
TargetsExist ==
    /\ Uploaded \subseteq Exist
    /\ \A r \in Request :
        /\ pc[r] # "idle" => target[r] \in ResumeId
        /\ pc[r] \in {"clear", "activate", "commit"} => target[r] \in Exist
        /\ pc[r] = "insert" => /\ target[r] \in files \ Exist
                               /\ \A q \in Request \ {r} : target[q] # target[r]
        /\ pc[r] = "removeFile" =>
               \/ target[r] \in halfDone
               \/ /\ target[r] \notin Exist
                  /\ \A q \in Request \ {r} : target[q] # target[r]

\* An activation holds the rows it has cleared, and those are, once it has
\* cleared what it found, all that were live at the start and still are.
ActivationHoldsRows ==
    \A r \in Request :
        /\ \A x \in cleared[r] : lock[x] = r
        /\ pc[r] = "clear" =>
               /\ Live \cap Uploaded \subseteq toClear[r] \cup cleared[r]
               /\ target[r] \in Live => target[r] \in toClear[r] \cup cleared[r]
        /\ pc[r] \in {"activate", "commit"} =>
               /\ Live \cap Uploaded \subseteq cleared[r]
               /\ target[r] \in Live /\ lock[target[r]] = r

\* The conjuncts that are inductive together.
IndInv ==
    /\ TypeOK
    /\ TargetsExist
    /\ ActivationHoldsRows
    /\ OneActiveOfUploaded
    /\ DeletedIsInactive
    /\ LiveHasFile

\* Whoever has an active resume keeps one until it is deleted: an activation
\* that fails, or names a deleted resume, deactivates nothing.
\* (SetResumeAsActive: every early return rolls back.)
KeepsAnActiveResume ==
    [][active # {} /\ active' = {} =>
        \E r \in Request : pc[r] = "deleteRow" /\ pc'[r] = "done"]_vars

\* Every request concludes, although activations may wait for each other.
RequestsConclude == \A r \in Request : pc[r] # "idle" ~> pc[r] = "done"
=============================================================================
