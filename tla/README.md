# iris-api in TLA+

TLA+ models of [iris-api](../src/README.md), the HTTP API of Iris, with TLC runs
that check them on small instances and TLAPS proofs for every instance. The
models are translated from the Go code under `src/endpoints`, `src/model` and
`src/pkg`; `PROJECT.json` maps every definition to the lines it stands for.

iris-api keeps its state in Postgres and Redis, its files in S3, and leaves the
work to iris-worker, a separate program it reaches through Temporal. Handlers run
concurrently, several of them leave goroutines behind that write the database
minutes after the answer, and between any two calls of Postgres, Temporal or S3
another request, the worker, a failure or a restart may come. That is where this
code is hard to test, and what the models are about.

## 1. Inventory

| Component | State | Operations | What makes it correct |
|---|---|---|---|
| **Job application lifecycle** `endpoints/jobapplication`, `…/extension` | a row of `job_application`: status, workflow id, deleted_at; open transactions; cancel goroutines | ApplyForJob, InitiateApplication, Retry, Cancel, Delete, MarkAsApplied, Patch, two fetches | one retry per failure; a queued row is known to the pool; a cancellation reaches the pool; applied is final; every request ends; a failed creation is hidden |
| **User actions** `endpoints/jobapplication` | rows of `user_action`: pending, answers, resume_workflow_id, resume_enqueued_at | GetUserAction, SubmitUserAction | the first answer is final; one resume id per question whatever is retried; nothing counts as enqueued that the pool was not told; an answered question is eventually enqueued |
| **Cover letters** `endpoints/coverletter`, `…/extension` | a row of `cover_letter`: status, body, workflow id, failure reason; goroutines; realtime events | Create, Regenerate, Generate (attached), sync, three reads | ready has a text; nothing stays in processing; one verdict per generation; a sync spares a generation |
| **Resumes** `endpoints/resume` | rows of `resume`: is_active, deleted_at; files in S3 | SetResumeAsActive, UploadResume, DeleteResume, UpdateDisplayName, two reads | one active resume; never a deleted one; a row has its file; a failed activation deactivates nothing |
| **Application data** `endpoints/jobapplication/extension` | the list `job_application_data.questions` | AutofillApplication, SyncApplicationData, merge | no question lost; one entry per question; an autofill blanks no answer |
| **Job search** `endpoints/jobsearch` | Redis: result cache, history list per user | TriggerJobSearch, GetJobSearchHistory | history newest first, without duplicates, at most 100; entries are lost only by overlapping searches |
| **Issues** `endpoints/issue` | rows of issue, issue_comments and the two upvote tables | create, comment, upvote, undo, resolve, three reads | upvotes match the answers given; a resolved issue changes only by what was in flight; a reader sees its own upvote |
| Rate limiter `pkg/redis` | a Redis counter with a TTL | acquire, release, count | never more slots than allowed (not called by anything) |
| **Realtime events** `pkg/redis`, `endpoints/realtimeeventssse` | Redis channels, open streams and their goroutines | PublishToUser, SubscribeToUser, StreamEvents, TriggerTestEvent | events in order and once; a stream ends as a whole |
| Migrations `migrate` | rows of resume and cover letter | ensureOneActiveResumePerUser, backfills | repeatable; a stopped run can be resumed (called by nothing) |
| **Accounts, profile** `endpoints/auth`, `endpoints/jobapplicationprofile` | rows of user and job_application_profile; a signed cookie | signup, login, reset, onboarding flag, upsert, patch | one account per e-mail with one profile; partial writes undo nothing |
| Cost tracking, workflow relay, health, browser tables, helpers, wiring | – | reads, stateless calls, schema | no state of their own: not modelled |

How they interact: handlers share rows (an application is written by six
handlers, the extension's handlers, SubmitUserAction and the worker), signal the
worker's browser pool (`queue_application`, `cancel_application`), start and wait
for workflows, and publish events through Redis to the streams of a user.
There is no lock in the program: the only synchronisation is Postgres.

What is hard to test is listed line by line under "hazards" in `PROJECT.json`.

## 2. Modules

| Module | What it models |
|---|---|
| `ApplicationLife` | abstract specification: what the handlers of an application promise |
| `JobApplication` | one row of `job_application` and the requests on it; implements `ApplicationLife` |
| `JobApplicationProofs` | its inductive invariant, safety and step properties, and the refinement, proved |
| `DurableResume` | abstract specification: what a durable pause promises |
| `UserAction` | SubmitUserAction and GetUserAction; implements `DurableResume` |
| `UserActionProofs` | its inductive invariant and the refinement, proved |
| `CoverLetter` | one cover letter, standalone or attached |
| `CoverLetterProofs` | its inductive invariant and safety properties, proved |
| `Resume` | the resumes of one user |
| `ResumeProofs` | its inductive invariant, safety and step properties, proved |
| `ApplicationData` | the questions and answers of one application |
| `MCApplicationData` | its inputs, for TLC |
| `RealtimeEvents` | the events of one user and the streams that carry them |
| `RealtimeEventsProofs` | lemmas on message sequences, the inductive invariant and the order of events, proved |
| `JobSearchHistory` | cache and history of one user's searches |
| `ListProofs` | lists of any length: the merge of ApplicationData, the recency list of JobSearchHistory, and what their users promise, proved |
| `Issue` | issues, comments and upvotes |
| `MCIssue` | its initial rows and symmetry, for TLC |
| `IssueProofs` | its inductive invariant, safety and step properties, proved |
| `Account` | users, their profiles and the onboarding flag |
| `MCAccount` | its symmetry, for TLC |
| `AccountProofs` | its inductive invariant, safety and step properties, proved |

A handler is a record spread over functions on `Request` (or `Submitter`,
`Generation`): `pc` is the next call it makes, the other functions what it holds
in memory. An action is what happens between two calls that others can observe:
a guard for the code's conditions, the assignments of the call, the place the
handler goes to. Failures are actions of their own, bounded by `MaxFailures`;
`Crash` is a restart of the API process, bounded by `MaxCrashes`: memory,
goroutines and open transactions are gone, rows, files and signals stay.

**JobApplication.** `app` is the committed row; `lock` and `openTx` are Postgres'
row lock and open transactions. Each handler reads (`…Read`), then updates. A
retry is `RetryUpdate` (Begin and the conditional update), possibly `RetryRecheck`
(the lock came free: the row is locked, then the WHERE tested again, as Postgres
does at READ COMMITTED), `RetrySignal`, `RetryCommit`, each with its failure.
`CancelUpdate` answers and leaves a goroutine in place `"signalling"`. The row may
be created by ApplyForJob (with a workflow id, watched by a goroutine) or by
InitiateApplication (without one). Every handler addresses one row by its key, so
one row is enough. A single statement that fails is taken to have changed nothing (see
the end of this section); a commit or a signal that fails may have taken effect. `ApplicationLife` is the same life
without transactions: every step sees the row it changes, a retry is `Announce` and
`Requeue` (or `Abandon`) with nothing in between, and no id is announced twice. The mapping
is `Told` (the ids the pool has work for or had) and `Pending` (the retry that has signalled
and holds the row); a handler's read and its 409 are invisible there.

**UserAction.** Questions are numbered by `created_at`. The transaction of
SubmitUserAction locks its question first, so it is one action (`SubmitFirst`,
`SubmitAgain`, `SubmitRefused`, `SubmitFails`); the signal and the mark that follow
are separate. Status changes by other handlers and the worker are the environment.
Encryption and the layout of the answers are left out; `Invalid` stands for a
submission validateUserActionValues rejects.

**CoverLetter.** A generation is a request and its goroutine, from the update that
marks the row to the event. The read and the write of UpsertAttachedCoverLetter
are two actions; `found` remembers which branch it took. In SyncApplicationData
the transaction has locked the row of `job_application_data` before, so syncs of one
application do not overlap. A text is the one who wrote it, or `Blank`, the empty text: a
generation with an empty result is a failure, but a sync may bring one, and it is stored.
Every write that reports an error may have taken effect (`StartReplyLost`,
`SyncReplyLost`, the disjuncts of `PersistFails` and `MarkCoverLetterFailed`); `orphaned` is
history, the generations that marked the row although their user was told of an error.

**Resume.** "Deactivate all" is a statement on the rows that were live when it
began (`toClear`), which locks them one by one in any order and skips those deleted
meanwhile. `SetActiveAborted` is Postgres resolving a deadlock. Uploads and
deletions are two calls, S3 first; an upload whose insert reports an error has a third
(`UploadRemoveFile`). A call that reports an error may have taken effect; `halfDone` is
history, the resumes of which an upload or a deletion ended that way, or in a restart,
between file and row.

**ApplicationData.** A text is its case-folded, trimmed key with the form it was
written in; `Upsert` and `Merge` are mergeJobApplicationQuestions over lists of such
entries. `SyncRead` and `AutofillRead` keep the list in `seen`, `AutofillReturns` is
the workflow's answer, `Find` the transaction's search for the row, `Write` the write
and commit. `MergesReadAndIncoming` compares every merge with a definition that
does not iterate. `DropBlankAnswers` is the loop that leaves out an autofill's blank
answers, a fold as the merge is. A failing call ends the request. `OnlyOverlapsLose` bounds what
section 5 says of lost questions: without an overlap nothing is lost.

**RealtimeEvents.** A stream is a `handler` and a `relay` (the goroutine of
SubscribeToUser). Each step of the two selects is an action: `Take` receives a
message, `HandOver` is the unbuffered channel between them, `RelayStops` and
`HandlerStops` are the cases of the context and of the closed channel. `pipe` is what
Redis sent and the relay has not taken: what is in it beyond `Buffer` the library may
drop, what is in it when the connection breaks may be lost. `due` and `missed` are
history, two sets: the events published since the stream subscribed, and those of them
the library or the network lost; `Arriving` is the difference.
Heartbeats matter only when they fail (`WriteFails`). The user's streams share nothing
but the channel, so one stream is enough for TLC; the proof is for any number.

**JobSearchHistory.** A query is a subject that may have white space around it: the
cache key trims it, the comparison in the list does not. `Read` is LRANGE, `Replace`
the transaction of DEL, RPUSH and EXPIRE. `Kept` is the code's loop over the old list, a fold that
leaves out the entries of the new query and keeps what does not parse; `Cut` is the cap.
`story` is history: all entries the stored list comes from, carried along by each rebuild
(`loadedStory` goes with the list a search has `loaded`); `HistoryIsRecencyList` says that
every list is the recency list of its story, cut once. `LosesOnlyToOverlap` says what a
replacement may lose. Some names begin with H, for `ListProofs` extends this module
beside ApplicationData.

**Issue.** A target is an issue or a comment; a row of an upvote table is a number
per target and user, which the unique indexes keep at 0 or 1 (`TypeOK`). `LoadIssue` is
the first statement of every handler and its checks, `LoadComment` the second of those
that name a comment. A reader is GetIssue, FetchIssues or GetIssueComments asking for
the upvotes of one target, in two statements (`Count`, `TakeOwn`). `acked` counts what the
answers told the users, `late` the requests that began after their issue was
resolved, `steady` the readers whose user wrote nothing meanwhile. A statement that
fails is taken to have changed nothing (see the end of this section).

**Account.** A user is the id its row gets, a column's value the request that brought
it. A signup is a transaction of two inserts (`CreateUser`, `CreateProfile`, `Commit`);
the unique index on the e-mail makes the second of two inserts wait for the first.
`Find`, `Create`, `Save`, `Patch` are the profile's handlers: `Save` writes every column,
`Patch` those of the map, over the row as it is then. An upsert may not leave the texts
blank it must bring (`Demanded`), but may bring an empty list of citizenships or a date in
the year one, which onboarding takes for blanks, as may a patch. `Legacy` is a user from before
signups wrote a profile. `brought` is history: per column the last value brought.

**Errors that are none.** gorm wraps every create, save and update in a transaction of its
own, so the error of a single write may be that of a commit which took effect while
its reply was lost. What the modules make of it:

- It may have taken effect in CoverLetter, Resume, ApplicationData and the transactions of
  JobApplication, UserAction and Account; so may the calls of S3, the signals, and in
  JobSearchHistory the transaction of Redis.
- It is taken to have changed nothing in the single writes of JobApplication (the updates of
  cancel, delete and mark, the creation), UserAction (the mark) and Account (the profile), and in
  Issue. For a delete, a mark, `resume_enqueued_at` and a profile this hides nothing: the row is
  as after a success, and the handler does no more. It hides a cancellation that
  answers 500 and is not told to the pool (`CancelReachesPool` is about those that
  answered 200), a creation that answers 500 and leaves a row no workflow works on, and
  an upvote that is there without a 201 or gone without a "removed":
  `UpvotesMatchAnswers` rests on this assumption.

**External behaviour** (marked external in the map). The worker is another
repository. What the models take from how this code uses it: it writes an
application's status while it works on it; it starts a workflow for every queued
item under the item's id; `cancel_application` ends all it has for the
application; it asks a question and blocks the application together; when it gives
up a blocked application it closes its question. The client submits again what
GetUserAction shows.

## 3. Runs

Passing runs (bounds in the `.cfg` files):

| Run | Question | Instance |
|---|---|---|
| `job_application` | the safety and step properties of section 4 with all four operations, whether they implement `ApplicationLife`, and whether everything ends | 2 requests: two retries, or a retry against anything else; 2 cancel attempts (5 in the code: a first and a last); 1 failure, 1 restart; 69,000 states. |
| `user_action` | the invariants, the refinement, and is every answer enqueued? | 2 submitters, 2 questions, 2 ids, 2 resumes, 1 failure (or restart), 1 move of another handler; 424,000 states. |
| `cover_letter` | letters of both kinds, safety and whether every generation concludes | 2 generations, 2 syncs (each with a text or an empty one), 2 failures, 1 restart; 401,000 states |
| `resume` | activations, uploads and deletions, safety and whether requests end although activations can deadlock | 3 requests (two that wait for each other and a third), 2 resumes and one to upload, 1 failure, 1 restart; 243,000 states |
| `application_data` | is the merge what it should be, and is anything lost without an overlap? | an autofill and a sync, each with every list of up to two of five entries (three spellings of one question, another, a blank one), 1 failure; 29,000 states |
| `realtime_events` | order of what arrives, and does a stream end as a whole? | 1 stream, buffer of 1, 4 events and 1 message that does not parse (full, dropped from, broken and overtaken buffers all occur), 2 broken connections; 31,000 states |
| `job_search` | is the list what it should be after any overlap, and what may be lost? | 3 searches, 2 subjects with and without white space, at most 2 entries (100 in the code: three searches exceed it), 1 failure, 1 expiry, 1 element that does not parse; 596,000 states |
| `issue` | upvotes, comments and resolution | 3 requests of any kind, 2 users of whom one opened an issue, 2 issues and 2 comments (one of each not there yet), 1 failure; 212,000 states up to symmetry |
| `account` | signups, upserts and patches | 3 requests of any kind, 2 e-mails, 3 users (one from before profiles), 3 columns (names, a date, another), 1 failure; 185,000 states up to symmetry |

Runs that expect a violation, each a disagreement of the code with its own text:

| Run | What TLC finds |
|---|---|
| `job_application_conflict_hangs` | "no need to rollback here nothing was updated": a retry that waited for the row's lock and then answers 409 keeps the lock; nobody can write the application any more |
| `job_application_delete` | "Only failed, cancelled, or halted applications can be deleted": a retry between check and update has its queued application deleted |
| `cover_letter_sync_clobbers` | "don't clobber it with a sync": a generation that starts between the sync's check and upsert is clobbered |

Requests are model values, symmetric in `issue` and `account` (there e-mails and the users
to come, too), which check no liveness. The safety properties of all
passing runs are also proved for instances of any size. One row, one
letter, one user suffice because no handler mentions another one's key. Deadlock is
not checked: every bounded instance ends when its requests and faults are used up;
that a system may not end early is what the liveness runs ask. Failures are bounded
because the properties that survive one failure at each place survive more: no
handler counts failures but the cancel goroutine, whose attempts are bounded by
`CancelAttempts`, and what it counts is proved for every value. (An attempt of the goroutine that
fails is not counted in `MaxFailures`.)

**Fairness.** Weak fairness of the steps of a handler or goroutine that has begun:
the Go scheduler and the clients' own timeouts see to it, and CoverLetterWorkflow has an
execution timeout of ten minutes. Fairness never forces a failing
call: a handler that waits for a lock is not rescued by an error. A request never has to arrive, except in
`user_action`: there the client must resubmit what GetUserAction shows (strong
fairness, for in between it may send other submissions), since both 503 answers leave
the retry to it. The worker owes nothing. In `RealtimeEvents` the two cases that end a
stream are strongly fair, since Go chooses among the ready cases of a select at
random: a case that is ready again and again is chosen. A write has to end only once
the client has left; a client that is there may stop reading for ever.

The liveness properties name the cases the code does not cover: a retry that
met a conflict (`RequestsConcludeWithoutConflict`), a restart, and an update or
publication whose error is only logged.

## 4. What is checked and proved

Proved for every value of the constants: any number of requests, users, rows and
events, lists of any length, and any bounds. Each module also proves its inductive
invariant (`Invariance`) and its type invariant (`TypeCorrect`).

| Theorem | Property |
|---|---|
| `JobApplicationProofs!RetryHolds`, `RequeuedSignalled`, `CancelReaches` | `RetryHoldsTheRow`, `RequeuedRowWasSignalled`, `CancelReachesPool` |
| `…!OneRetryPerSettlement` | `RequeuesOnlySettled`: of simultaneous retries one succeeds |
| `…!AppliedSurvives` | `AppliedSurvivesHandlers` |
| `JobApplicationProofs!Refinement` | `ImplementsApplicationLife`: Spec implements `ApplicationLife` |
| `UserActionProofs!OneKey`, `EnqueuedSignalled`, `BlockedHasQuestion` | `OneKeyPerQuestion`, `EnqueuedWasSignalled`, `BlockedOnItsLastQuestion` |
| `UserActionProofs!Refinement` | `ImplementsDurableResume`: Spec implements `DurableResume` |
| `CoverLetterProofs!ReadyLetterHasText` | `ReadyHasText`: a text, empty only from a sync |
| `…!ProcessingHasGoroutine` | `NothingLeftProcessing` |
| `…!OneVerdict` | `OneVerdictPerGeneration` |
| `ResumeProofs!OneActive`, `ActiveIsLive`, `FileOfLive` | `OneActiveOfUploaded`, `DeletedIsInactive`, `LiveHasFile` |
| `…!ActiveIsKept` | `KeepsAnActiveResume`: a failed activation deactivates nothing |
| `AccountProofs!WholeAccounts`, `ColumnsKept` | `AccountsAreWhole`, `ColumnsKeepWhatWasBrought` |
| `…!BlanksReopen` | `OnlyBlanksReopenOnboarding` |
| `IssueProofs!AnswersAddUp`, `OwnUpvoteIsSeen` | `UpvotesMatchAnswers`, `ReadersSeeTheirUpvote` |
| `…!ClosedIsClosed` | `ResolvedIsClosed` |
| `ListProofs!FoldMerges` | the fold of mergeJobApplicationQuestions is the merge, whatever the lists |
| `…!WritesAreMerges`, `NothingIsLost` | `MergesReadAndIncoming`, `OnlyOverlapsLose` |
| `…!HistoryIsRecent` | `HistoryIsRecencyList` |
| `…!LossesHaveReasons` | `LosesOnlyToOverlap` |
| `RealtimeEventsProofs!EventsInOrder` | `EventsArriveInOrder` |

The proofs assume only the `ConstantsAssumption` (`HConstants` in JobSearchHistory) of each module, which TLC evaluates on
the runs: bounds are naturals, sets that play different parts are disjoint, and `None`
(no request, no value) is none of the values it stands beside.

*JobApplication.* `RetryHoldsTheRow` is inductive because every writer needs
`lock = None`; it gives `RequeuesOnlySettled` at once, for only a commit changes the
workflow id. `RequeuedRowWasSignalled` needs `SignalledBeforeCommit`, which says where
the signal is in a retry. `CancelReachesPool` needs to know what a cancel request
knows at each place (`CancelProgress`): that it had a workflow id, since a row of
ApplyForJob always has one (`CreatedWithWorkflow`), and that its attempts are below
the limit while it is signalling.

The refinement needs two facts more (`LifeInv`). `FreshIds`: the pool has not heard of a
retry's id before it signals, so `Announce` never repeats one. `NothingBeforeTheRow`:
nothing is created or told while there is no row. Then every update by another handler or the
worker happens with the row free, when nothing is pending (`FreeRow`); a signal finds
the row settled (`RetryHoldsTheRow`) and is `Announce`, followed by `Requeue` if it commits;
a failed signal that reached the pool is an `Announce` that leaves nothing pending; a commit
that failed, or a restart, is `Abandon`. All else stutters, because a request that
neither comes to the commit nor leaves it changes nothing of `Pending` (`SamePending`).

*UserAction.* The invariants speak of rows and queue items, the steps of what
requests hold in memory. `RequestsAreCurrent` connects them: the id a request holds is
the recorded one, and a request about to mark has signalled. `AnsweredHasKey` keeps
answer and id together, `OpenOnlyWhenBlocked` keeps old questions closed. In the
refinement `SubmitFirst` (and a failing commit that committed) is `Record`, the
signal is `Announce`, the mark is `Settle`, and everything else stutters: by
`RequestsAreCurrent` the signalled id is the recorded one.

*CoverLetter.* `OneVerdictPerGeneration` is about events alone and not inductive:
`VerdictEndsGeneration` adds that a generation which published a verdict takes no further
step that publishes one. The other two are inductive beside it: a letter becomes ready only by
a generation's text, which is not empty, or by a sync, which takes the workflow id away.

*Resume.* What an activation cleared it holds until it ends, and others wait for it.
`ActivationHoldsRows` says so at each place: the rows it has cleared are locked, before the
commit they are all that were live at the start and still are, and the resume it found is
live and locked, so a deletion of it has to wait. `OneActiveOfUploaded` and
`KeepsAnActiveResume` follow from it at the commit. `TargetsExist` says what a request
names is there, or for an upload not there yet; and that an upload which removes its file has
no row, nor anybody who could make one, or is `halfDone`.

*Account.* `AccountsAreWhole` is about what is committed; `OpenSignups` says what a signup
has inserted and not committed: a user, and an e-mail, that nobody else has or is inserting.
`ColumnsKeepWhatWasBrought` needs of the profile's requests only what they carry and that
the row they are to write is there (`ProfileRequests`), since a patch never writes back
what it read.

*Issue.* `UpvotesMatchAnswers` needs that a vote is on what was read (`HasTask`,
`WritesWhatItRead`); `ResolvedIsClosed` that a request which came after the resolution is
refused (`LateChangesNothing`); `ReadersSeeTheirUpvote` that a reader nobody disturbed
has counted its own row (`CountsItsOwn`), which rests on a lemma: the sum of
zeros and ones over a finite set is the number of the ones (`SumOfBits`).

*ApplicationData.* `IsMergeOf` defines the merge without iterating. `UpsertMerges` shows that
one more entry keeps a merge a merge (blank, new or known), and `FoldInOrder` that
FoldLeft over a list takes its entries one after the other; together `FoldMerges`. Both
`FoldInOrder` and `SumOfBits` are inductions, which the library's induction theorems
cannot serve here: they take an operator as parameter, which no installed prover
instantiates. The proofs use a least counterexample instead: the set of lengths (or of
subsets, by cardinality) that fail has a least element, and the step contradicts it
(`LeastNumber`, `LeastSubset`). The folds of the community modules choose an element of the set
at each step, so `FoldExists` first proves that the recursive function they are defined
by exists over any finite set. `StoredIsMerged` is what the requests need of the row.

*JobSearchHistory.* The recency list of a story is defined by its places: the last of each
query, numbered from the newest. `Enumeration` and `Counted` turn that into a list of
places in falling order (by least counterexample again), `KeptInOrder` and `KeptOne` say that
the code's loop takes out one place at most. `RecencyAppended`: a new entry in front of the recency list without
its query is the recency list of the longer story. `CutTwice`: it does not matter that
the list it was made from had been cut before. With both, `Rebuilding`
shows that a rebuild of any list that was read is again a cut recency list, and
`HistoryInvariance` carries that over every read and replacement, for the stored list and for
every list in a search's memory (`ReadsAreRecencyLists`), however stale: that is what makes
the property survive overlaps. `LossesHaveReasons` follows from what one rebuild keeps
(`RebuiltKeeps`).

*RealtimeEvents.* `EventsArriveInOrder` is about the whole line of a stream: what was
written, the event in the handler's hand, the relay's, and the pipe. `PartsInOrder` and `Before`
cut the line at the goroutines, because a step moves one event from one part to the
next; `LineInOrder` puts it together again. `Holds` says which part is empty at
which place, and that a subscription is open exactly while the relay listens. `Loses`
adds that what was written together with what the handler holds is the first of what
arrives, which is what survives a stream that ends with an event in its hands.

Every `IndInv` was checked by TLC before it was proved and is not part of a run any
more, since the theorems say more.

Only model-checked:

- all liveness, which under fairness is out of the prover's reach: `RequestsConclude`,
  `RequestsConcludeWithoutConflict`, `FailedCreationIsHidden`, `AnsweredIsEnqueued`,
  `GenerationConcludes`, `StreamsEndAsAWhole`;
- that the three violations exist.

## 5. What the models do not say

- `CancelReachesPool` is about applications that had a workflow id when the cancellation read
  them, as those of ApplyForJob always have. One of the extension has none until it is
  retried; a cancellation that read it before its first retry and updates it after is not
  told to the pool.
- A late `cancel_application` of an earlier cancellation stops a later retry's work,
  since it names the application only; a retry accepts deleted applications; a
  resubmitted answer is signalled even when the application was cancelled or applied
  meanwhile. The models contain these steps; no text of the repository calls them wrong.
- The payload of a resume is not stable: the queue item of a first submission and of
  its repetition have the same id, but PATCH may have exchanged the resume between
  them (endpoint_test.go:132 compares items built from one application in memory).
- Questions are lost when an autofill and a sync overlap: each stores the list it read
  before, folded with its own. `OnlyOverlapsLose` is what holds.
- Two resumes can end active: "deactivate all" clears the rows its snapshot knows; one
  uploaded and activated while it waits for a lock is not among them.
  `OneActiveOfUploaded` is what holds. (migrate.go has a repair, called by nothing.)
- A search can be lost from the middle of the history: a search that overlaps brings back an
  entry that had fallen off the end, and a third, which had read the list without it, takes it
  away again. Hence `LosesOnlyToOverlap` speaks of what the replacing search had read, not of
  the list it replaces.
- A comment or an upvote can land after the resolution of its issue if it had read the
  issue before; the history of searches is newest first by the order of replacement,
  not by the times in its entries, which are taken earlier.
- A patch of dateOfBirth alone is answered "No fields to update": the map of updates is
  looked at before the date is added (in the model: `UpdateMap`, `Arrive`). An upsert
  always leaves linkedinUrl set, if only to an empty text, which onboarding accepts.
- Two password resets that overlap are both accepted against the same old password,
  and the later one wins.
- A sync with `"coverLetter": ""` makes a letter ready with an empty text (extension/endpoint.go:405
  tests only that there is a text, shared.go:144 stores it), although a generation with
  an empty result counts as failed (shared.go:66). `ReadyHasText` is what holds; no text of
  the repository says whether a sync may do so.
- A lost reply of a commit leaves a row behind its handler's back: an upload's resume stays
  on show while its file is deleted (resume/endpoint.go:281-283), a generation's letter
  stays in processing. `LiveHasFile` and `NothingLeftProcessing` name these cases.
- A subscription whose confirmation fails is never closed (`sub` = "abandoned").
- After a restart a letter in processing stays so, and a failed creation may stay
  visible: nothing in the code takes these up again.
- In UserAction, PATCH and the other handlers are single steps (their races are
  JobApplication's subject).
- Left out: which resume a letter is written from, display names, the workflow that
  processes an uploaded resume, reasons and timestamps that nothing reads,
  authentication, reads that return pages of rows.
- Not modelled, with reasons, are the components so marked in `PROJECT.json`.

## 6. Plan

Order of work, the most important behaviour first. Done: JobApplication with proofs,
UserAction with DurableResume and proofs, CoverLetter, Resume, ApplicationData,
RealtimeEvents, JobSearchHistory, Issue, Account, then the proofs of CoverLetter, Resume,
Account, Issue, ApplicationData, RealtimeEvents and JobSearchHistory, and ApplicationLife with
the proof that JobApplication implements it.

Every safety and step property of a passing run is proved. Worth adding: abstract
specifications of a cover letter's generations and of an issue's upvotes, as
ApplicationLife is one of an application.

Not modelled because no code calls it: the rate limiter, the channel, broadcast and
online helpers of `pkg/redis`, and the repairs and backfills of `migrate`. Not modelled
because it keeps no state of its own: login, logout and the check of the cookie, cost
tracking, the workflow relay, health, and the helpers of `utils` and `pkg`.
