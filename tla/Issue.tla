-------------------------------- MODULE Issue --------------------------------
(***************************************************************************)
(* Issues, their comments and the upvotes of both: endpoints/issue over    *)
(* the tables issue, issue_comments, issue_upvote, issue_comment_upvote.   *)
(*                                                                         *)
(* Every handler reads the issue first and acts on what it read: between   *)
(* the check that an issue is not resolved and the write that follows,     *)
(* another request may resolve it.  An upvote is a row under a unique      *)
(* index; the number of upvotes and whether the reader's is among them are *)
(* two statements.                                                         *)
(*                                                                         *)
(* A target is what can be upvoted, an issue or a comment.  Texts, pages,  *)
(* filters, orders, totals and the application an issue is about are left  *)
(* out: a reader asks about one target of its page.                        *)
(***************************************************************************)
EXTENDS Integers, FiniteSets, FiniteSetsExt

CONSTANTS
    User,
    Admin,         \* users with is_admin
    Issue,         \* ids of rows of issue, present or not yet
    Comment,       \* ids of rows of issue_comments
    Opened,        \* issues there are at the beginning, with their owners
    Posted,        \* comments there are at the beginning, with their issues
    Request,
    MaxFailures,   \* bound on failing database and Temporal calls
    None           \* no row, no task

Target == Issue \cup Comment

Task == [op: {"create", "comment", "upvote", "undo", "resolve", "read"},
         by: User, issue: Issue, target: Target]

ASSUME ConstantsAssumption ==
    /\ Admin \subseteq User
    /\ Issue \cap Comment = {}
    /\ None \notin User \cup Target \cup Task
    /\ Opened \in [Issue -> User \cup {None}]
    /\ Posted \in [Comment -> Issue \cup {None}]
    /\ \A c \in Comment : Posted[c] # None => Opened[Posted[c]] # None
    /\ MaxFailures \in Nat
    /\ IsFiniteSet(User)

VARIABLES
    owner,      \* id_user of an issue, None: no row
    resolved,   \* is_resolved
    parent,     \* id_issue of a comment, None: no row
    votes,      \* rows of the upvote tables, per target and user
    summary,    \* issues SummarizeIssueWorkflow was started for
    pc,         \* where each request stands
    task,       \* what each request asks for
    count,      \* the number of upvotes a reader counted
    flag,       \* whether it found its user's own among them
    failures,
    acked,      \* history: upvotes answered 201 less those answered "removed"
    late,       \* history: requests that came after their issue was resolved
    steady      \* history: readers whose user wrote no upvote meanwhile

rows    == <<owner, resolved, parent, votes, summary>>
answer  == <<count, flag>>
history == <<acked, late, steady>>
vars    == <<rows, pc, task, answer, failures, history>>

\* One row per target and user is what the unique indexes promise.
TypeOK ==
    /\ owner \in [Issue -> User \cup {None}]
    /\ resolved \in [Issue -> BOOLEAN]
    /\ parent \in [Comment -> Issue \cup {None}]
    /\ votes \in [Target -> [User -> 0..1]]
    /\ summary \subseteq Issue
    /\ pc \in [Request -> {"idle", "summarize", "target", "write", "count",
                           "flag", "done"}]
    /\ task \in [Request -> Task \cup {None}]
    /\ count \in [Request -> 0..Cardinality(User)]
    /\ flag \in [Request -> BOOLEAN]
    /\ failures \in 0..MaxFailures
    /\ acked \in [Target -> [User -> Int]]
    /\ late \subseteq Request
    /\ steady \subseteq Request

Init ==
    /\ owner = Opened
    /\ resolved = [i \in Issue |-> FALSE]
    /\ parent = Posted
    /\ votes = [t \in Target |-> [u \in User |-> 0]]
    /\ summary = {}
    /\ pc = [r \in Request |-> "idle"]
    /\ task = [r \in Request |-> None]
    /\ count = [r \in Request |-> 0]
    /\ flag = [r \in Request |-> FALSE]
    /\ failures = 0
    /\ acked = votes
    /\ late = {}
    /\ steady = {}

-----------------------------------------------------------------------------
Step(r, from, to) == pc[r] = from /\ pc' = [pc EXCEPT ![r] = to]

Is(r, op) == task[r] # None /\ task[r].op = op

Changes(op) == op \in {"comment", "upvote", "undo"}

\* An issue is written, then a workflow is asked for its summary ...
CreateIssue(r) ==
    /\ Step(r, "idle", "summarize")
    /\ \E i \in Issue, u \in User :
           /\ owner[i] = None
           /\ owner' = [owner EXCEPT ![i] = u]
           /\ task' = [task EXCEPT ![r] =
                           [op |-> "create", by |-> u, issue |-> i, target |-> i]]
    /\ UNCHANGED <<resolved, parent, votes, summary, answer, failures, history>>

\* ... and whether that succeeds, the answer is 201.
StartSummary(r) ==
    /\ Step(r, "summarize", "done")
    /\ summary' = summary \cup {task[r].issue}
    /\ UNCHANGED <<owner, resolved, parent, votes, task, answer, failures, history>>

-----------------------------------------------------------------------------
(* What is asked of an issue, and the checks on the issue as it was read.  *)

MissingOnly(i, u, op) == owner[i] = None

\* The answer is 404, 400, 409 or 403 at once.
Refused(i, u, op) ==
    \/ owner[i] = None
    \/ Changes(op) /\ resolved[i]
    \/ op = "resolve" /\ owner[i] # u /\ u \notin Admin

After(op) == IF op = "read" THEN "count" ELSE "write"

StartsReading(r) ==
    steady' = IF pc'[r] = "count" THEN steady \cup {r} ELSE steady

\* The first step of every other handler: the issue is read and looked at.
\* A comment that is named is read next.
LoadIssue(r) ==
    \E t \in Task :
        /\ t.op # "create"
        /\ t.op = "comment" \/ t.op = "resolve" => t.target = t.issue
        /\ t.target \in Issue => t.target = t.issue
        /\ Step(r, "idle", IF Refused(t.issue, t.by, t.op) THEN "done"
                           ELSE IF t.target \in Comment THEN "target"
                           ELSE After(t.op))
        /\ task' = [task EXCEPT ![r] = t]
        /\ late' = IF resolved[t.issue] THEN late \cup {r} ELSE late
        /\ StartsReading(r)
        /\ UNCHANGED <<rows, answer, failures, acked>>

\* A comment of another issue is as good as none.
LoadComment(r) ==
    /\ Step(r, "target",
            IF parent[task[r].target] # task[r].issue THEN "done"
            ELSE After(task[r].op))
    /\ StartsReading(r)
    /\ UNCHANGED <<rows, task, answer, failures, acked, late>>

-----------------------------------------------------------------------------
(* The writes.                                                             *)

\* The readers of this user and target no longer count on what they read.
Disturb(t, u) ==
    steady' = steady \ {r \in Request : Is(r, "read") /\ task[r].target = t
                                                      /\ task[r].by = u}

CreateComment(r) ==
    /\ Is(r, "comment")
    /\ Step(r, "write", "done")
    /\ \E c \in Comment :
           /\ parent[c] = None
           /\ parent' = [parent EXCEPT ![c] = task[r].issue]
    /\ UNCHANGED <<owner, resolved, votes, summary, task, answer, failures, history>>

NoIndex(t, u) == FALSE

\* idx_issue_upvote_issue_user, idx_issue_comment_upvote_issue_comment_user
Duplicate(t, u) == votes[t][u] > 0

\* UpvoteIssue, UpvoteIssueComment: 201, or 409 for a duplicate.
Upvote(r) ==
    LET t == task[r].target
        u == task[r].by
    IN /\ Is(r, "upvote")
       /\ Step(r, "write", "done")
       /\ IF Duplicate(t, u)
          THEN UNCHANGED <<votes, acked, steady>>
          ELSE /\ votes' = [votes EXCEPT ![t][u] = @ + 1]
               /\ acked' = [acked EXCEPT ![t][u] = @ + 1]
               /\ Disturb(t, u)
       /\ UNCHANGED <<owner, resolved, parent, summary, task, answer, failures, late>>

DeleteOfAll(t, u) == [v \in User |-> 0]

DeleteOf(t, u) == [votes[t] EXCEPT ![u] = 0]

\* UndoIssueUpvote, UndoIssueCommentUpvote: 200 with a row deleted, else 404.
UndoUpvote(r) ==
    LET t == task[r].target
        u == task[r].by
    IN /\ Is(r, "undo")
       /\ Step(r, "write", "done")
       /\ votes' = [votes EXCEPT ![t] = DeleteOf(t, u)]
       /\ IF votes' = votes
          THEN UNCHANGED <<acked, steady>>
          ELSE /\ acked' = [acked EXCEPT ![t][u] = @ - 1]
               /\ Disturb(t, u)
       /\ UNCHANGED <<owner, resolved, parent, summary, task, answer, failures, late>>

MarkIssueAsResolved(r) ==
    /\ Is(r, "resolve")
    /\ Step(r, "write", "done")
    /\ resolved' = [resolved EXCEPT ![task[r].issue] = TRUE]
    /\ UNCHANGED <<owner, parent, votes, summary, task, answer, failures, history>>

-----------------------------------------------------------------------------
(* issueUpvoteMeta and commentUpvoteMeta, for GetIssue, FetchIssues and    *)
(* GetIssueComments: two statements whose errors are not looked at.        *)

UpvotesOf(t) == MapThenSumSet(LAMBDA u : votes[t][u], User)

Count(r) ==
    /\ Step(r, "count", "flag")
    /\ count' = [count EXCEPT ![r] = UpvotesOf(task[r].target)]
    /\ UNCHANGED <<rows, task, flag, failures, history>>

AnyUpvote(t, u) == \E v \in User : votes[t][v] > 0

OwnUpvote(t, u) == votes[t][u] > 0

TakeOwn(r) ==
    /\ Step(r, "flag", "done")
    /\ flag' = [flag EXCEPT ![r] = OwnUpvote(task[r].target, task[r].by)]
    /\ UNCHANGED <<rows, task, count, failures, history>>

\* A failing count reads as 0, a failing look-up as no upvote.
MetaFails(r) ==
    /\ \/ Step(r, "count", "flag")
       \/ Step(r, "flag", "done")
    /\ failures < MaxFailures
    /\ failures' = failures + 1
    /\ steady' = steady \ {r}
    /\ UNCHANGED <<rows, task, answer, acked, late>>

\* Any other call fails: 500, except for the summary, and nothing is written.
CallFails(r) ==
    /\ \E place \in {"summarize", "target", "write"} : Step(r, place, "done")
    /\ failures < MaxFailures
    /\ failures' = failures + 1
    /\ UNCHANGED <<rows, task, answer, history>>

-----------------------------------------------------------------------------
Next == \E r \in Request :
            \/ CreateIssue(r) \/ StartSummary(r)
            \/ LoadIssue(r) \/ LoadComment(r)
            \/ CreateComment(r) \/ Upvote(r) \/ UndoUpvote(r)
            \/ MarkIssueAsResolved(r)
            \/ Count(r) \/ TakeOwn(r)
            \/ MetaFails(r) \/ CallFails(r)

Spec == Init /\ [][Next]_vars
-----------------------------------------------------------------------------
(* Properties.                                                             *)

\* What users were told adds up to the rows: an upvote is there exactly when
\* the 201s for it are one more than the answers "removed", however requests
\* repeat and overlap.
\* (UpvoteIssue and its three relatives: 409 for a duplicate, 404 when no row
\* was deleted.)
UpvotesMatchAnswers == votes = acked

Content(i) == LET comments == {c \in Comment : parent[c] = i} IN
              [t \in {i} \cup comments |-> votes[t]]

\* Once an issue is resolved, its comments and upvotes change only by requests
\* that had read it before: none that came later changes anything, whatever
\* was in flight, and resolved it stays.
\* (The checks of is_resolved; "Comments are disabled on resolved issues".)
ResolvedStaysClosed ==
    \A i \in Issue :
        resolved[i] =>
            /\ resolved'[i]
            /\ Content(i)' # Content(i) =>
                   \E r \in Request \ late : /\ pc[r] = "write" /\ pc'[r] = "done"
                                             /\ task[r].issue = i

ResolvedIsClosed == [][ResolvedStaysClosed]_vars

\* A reader whose user writes nothing meanwhile is told of its own upvote what
\* the answers before have told it, and the number includes it, although the
\* two come from different statements and other users write in between.
\* (issueUpvoteMeta, commentUpvoteMeta)
ReadersSeeTheirUpvote ==
    \A r \in steady :
        pc[r] = "done" =>
            /\ flag[r] <=> acked[task[r].target][task[r].by] = 1
            /\ flag[r] => count[r] >= 1

-----------------------------------------------------------------------------
(* The inductive invariant behind them.                                    *)

\* A request under way has a task; an issue it names twice is the one it
\* read.
HasTask(r) ==
    pc[r] \notin {"idle", "done"} =>
        /\ task[r] \in Task
        /\ task[r].target \in Issue => task[r].target = task[r].issue

\* A comment that is about to be voted on is one of the issue that was read.
WritesWhatItRead(r) ==
    pc[r] = "write" /\ task[r].target \in Comment =>
        parent[task[r].target] = task[r].issue

\* What came after its issue was resolved was refused if it would change it.
LateChangesNothing(r) ==
    r \in late =>
        /\ pc[r] # "idle"
        /\ pc[r] \in {"target", "write"} => ~Changes(task[r].op)

\* A reader nobody disturbed has counted its own upvote, if there is one.
CountsItsOwn(r) ==
    r \in steady =>
        /\ pc[r] \in {"count", "flag", "done"}
        /\ task[r] \in Task /\ task[r].op = "read"
        /\ pc[r] = "flag" /\ votes[task[r].target][task[r].by] = 1 =>
               count[r] >= 1

Requests ==
    \A r \in Request : /\ HasTask(r) /\ WritesWhatItRead(r)
                       /\ LateChangesNothing(r) /\ CountsItsOwn(r)

IndInv ==
    /\ TypeOK
    /\ Requests
    /\ UpvotesMatchAnswers
    /\ ReadersSeeTheirUpvote
=============================================================================
