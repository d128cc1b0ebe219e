----------------------------- MODULE IssueProofs -----------------------------
(***************************************************************************)
(* Proofs about Issue, for any number of users, issues, comments, requests *)
(* and failures: the number of upvotes is the number of users who upvoted, *)
(* IndInv is inductive, hence its conjuncts are invariants, and a resolved *)
(* issue is closed to whoever comes later.                                 *)
(***************************************************************************)
EXTENDS Issue, FiniteSetTheorems, WellFoundedInduction, TLAPS

USE DEF Step

-----------------------------------------------------------------------------
(* Upvotes counted.                                                        *)

\* Among some subsets of a finite set there is a least one.
LEMMA LeastSubset ==
    ASSUME NEW S, IsFiniteSet(S), NEW T, T \subseteq SUBSET S, T # {}
    PROVE  \E x \in T : \A y \in T : y \subseteq x => y = x
<1>1. IsWellFoundedOn(StrictSubsetOrdering(S), SUBSET S)
  BY FS_StrictSubsetOrderingWellFounded, FS_FiniteSubsetsOfFinite
<1>2. \E x \in T : \A y \in T : <<y, x>> \notin StrictSubsetOrdering(S)
  BY <1>1, WFMin
<1>3. \A x, y \in T :
          y \subseteq x /\ y # x => <<y, x>> \in StrictSubsetOrdering(S)
  BY DEF StrictSubsetOrdering
<1> QED  BY <1>2, <1>3

\* The sum of zeros and ones is the number of the ones.
LEMMA SumOfBits ==
    ASSUME NEW S, IsFiniteSet(S), NEW v \in [S -> 0..1]
    PROVE  MapThenSumSet(LAMBDA u : v[u], S) = Cardinality({u \in S : v[u] = 1})
<1> DEFINE one(s)  == CHOOSE x \in s : TRUE
           ones(s) == {u \in s : v[u] = 1}
           Sums(iter) == iter = [s \in SUBSET S |->
                                    IF s = {} THEN 0
                                    ELSE v[one(s)] + iter[s \ {one(s)}]]
           sum == CHOOSE iter : Sums(iter)
<1>1. MapThenSumSet(LAMBDA u : v[u], S) = sum[S]
  BY Zenon DEF MapThenSumSet, MapThenFoldSet
<1>2. \A s \in SUBSET S : /\ Cardinality(ones(s)) \in Nat
                          /\ s # {} => one(s) \in s
  <2>1. ASSUME NEW s \in SUBSET S PROVE Cardinality(ones(s)) \in Nat
    <3>1. ones(s) \in SUBSET S
      OBVIOUS
    <3> QED  BY <3>1, FS_Subset, FS_CardinalityType
  <2> QED  BY <2>1
<1> HIDE DEF one, ones
<1>3. ASSUME NEW s \in SUBSET S, s # {}
      PROVE  Cardinality(ones(s)) = v[one(s)] + Cardinality(ones(s \ {one(s)}))
  <2>1. one(s) \in s /\ Cardinality(ones(s)) \in Nat
    BY <1>2, <1>3
  <2>2. IsFiniteSet(ones(s))
    <3>1. ones(s) \in SUBSET S
      BY DEF ones
    <3> QED  BY <3>1, FS_Subset
  <2>3. ones(s \ {one(s)}) = ones(s) \ {one(s)}
    BY DEF ones
  <2>4. CASE v[one(s)] = 1
    <3>1. one(s) \in ones(s)
      BY <2>1, <2>4 DEF ones
    <3>2. Cardinality(ones(s) \ {one(s)}) = Cardinality(ones(s)) - 1
      BY <2>2, <3>1, FS_RemoveElement
    <3> QED  BY <2>1, <2>3, <2>4, <3>2
  <2>5. CASE v[one(s)] = 0
    <3>1. one(s) \notin ones(s)
      BY <2>5 DEF ones
    <3>2. ones(s) \ {one(s)} = ones(s)
      BY <3>1
    <3> QED  BY <2>1, <2>3, <2>5, <3>2
  <2>6. v[one(s)] \in 0..1
    BY <2>1
  <2> QED  BY <2>4, <2>5, <2>6
<1>4. Cardinality(ones({})) = 0
  BY FS_EmptySet DEF ones
<1>5. Sums([s \in SUBSET S |-> Cardinality(ones(s))])
  BY <1>2, <1>3, <1>4
<1>6. Sums(sum)
  BY <1>5
<1> HIDE DEF sum
<1>7. \A s \in SUBSET S : sum[s] = Cardinality(ones(s))
  <2> DEFINE wrong == {s \in SUBSET S : sum[s] # Cardinality(ones(s))}
  <2> SUFFICES ASSUME wrong # {} PROVE FALSE
    OBVIOUS
  <2>1. PICK s \in wrong : \A y \in wrong : y \subseteq s => y = s
    <3> HIDE DEF wrong
    <3>1. wrong \subseteq SUBSET S
      BY DEF wrong
    <3> QED  BY <3>1, LeastSubset
  <2>2. s # {}
    BY <1>4, <1>6
  <2>3. s \ {one(s)} \notin wrong
    BY <1>2, <2>1, <2>2
  <2>4. sum[s] = v[one(s)] + Cardinality(ones(s \ {one(s)}))
    BY <1>6, <2>2, <2>3
  <2> QED  BY <1>3, <2>2, <2>4
<1> QED  BY <1>1, <1>7 DEF ones

\* The number a reader is given: no more than there are users, and with an
\* upvote at all at least one.
LEMMA NumberOfUpvotes ==
    ASSUME TypeOK, NEW t \in Target
    PROVE  /\ UpvotesOf(t) = Cardinality({u \in User : votes[t][u] = 1})
           /\ UpvotesOf(t) \in 0..Cardinality(User)
           /\ \A u \in User : votes[t][u] = 1 => UpvotesOf(t) >= 1
<1> DEFINE upvoters == {u \in User : votes[t][u] = 1}
<1>1. UpvotesOf(t) = Cardinality(upvoters)
  <2>1. votes[t] \in [User -> 0..1] /\ IsFiniteSet(User)
    BY ConstantsAssumption DEF TypeOK
  <2> QED  BY <2>1, SumOfBits DEF UpvotesOf
<1>2. /\ IsFiniteSet(upvoters)
      /\ Cardinality(upvoters) <= Cardinality(User)
  <2>1. upvoters \in SUBSET User
    OBVIOUS
  <2> QED  BY <2>1, ConstantsAssumption, FS_Subset
<1>3. Cardinality(upvoters) \in Nat /\ Cardinality(User) \in Nat
  BY <1>2, ConstantsAssumption, FS_CardinalityType
<1>4. ASSUME NEW u \in User, votes[t][u] = 1 PROVE Cardinality(upvoters) >= 1
  <2>1. upvoters # {}
    BY <1>4
  <2>2. Cardinality(upvoters) # 0
    BY <2>1, <1>2, FS_EmptySet
  <2> HIDE DEF upvoters
  <2> QED  BY <1>3, <2>2
<1> HIDE DEF upvoters
<1>5. UpvotesOf(t) \in 0..Cardinality(User)
  BY <1>1, <1>2, <1>3
<1> QED  BY <1>1, <1>4, <1>5 DEF upvoters

-----------------------------------------------------------------------------
LEMMA InitIndInv == Init => IndInv
<1> SUFFICES ASSUME Init PROVE IndInv
  OBVIOUS
<1>1. Cardinality(User) \in Nat
  BY ConstantsAssumption, FS_CardinalityType
<1>2. TypeOK
  BY <1>1, ConstantsAssumption DEF Init, TypeOK
<1>3. Requests
  BY DEF Init, Requests, HasTask, WritesWhatItRead, LateChangesNothing,
         CountsItsOwn
<1>4. UpvotesMatchAnswers /\ ReadersSeeTheirUpvote
  BY DEF Init, UpvotesMatchAnswers, ReadersSeeTheirUpvote
<1> QED  BY <1>2, <1>3, <1>4 DEF IndInv

-----------------------------------------------------------------------------
(* A step moves one request and leaves what the others rely on.            *)

\* A step moves one request.
LEMMA Moved ==
    ASSUME TypeOK, NEW r \in Request, NEW place, pc' = [pc EXCEPT ![r] = place]
    PROVE  /\ pc'[r] = place
           /\ \A q \in Request \ {r} : pc'[q] = pc[q]
<1> QED  BY DEF TypeOK

\* Another request relies on what it relied on before, when comments and
\* upvotes are as they were.
LEMMA OthersKept ==
    ASSUME IndInv, NEW q \in Request,
           pc'[q] = pc[q], task'[q] = task[q], late' \cap {q} = late \cap {q},
           steady' \cap {q} = steady \cap {q},
           parent' = parent, votes' = votes, count'[q] = count[q]
    PROVE  /\ HasTask(q)' /\ WritesWhatItRead(q)'
           /\ LateChangesNothing(q)' /\ CountsItsOwn(q)'
<1> QED  BY DEF IndInv, Requests, HasTask, WritesWhatItRead,
                LateChangesNothing, CountsItsOwn

\* A new issue is nobody's concern yet, and its summary nobody's at all.
LEMMA CreateIssueKeeps ==
    ASSUME IndInv, NEW r \in Request, CreateIssue(r) \/ StartSummary(r)
    PROVE  IndInv'
<1> USE DEF IndInv
<1>1. UNCHANGED <<resolved, parent, votes, answer, failures, history>>
  BY DEF CreateIssue, StartSummary
<1>2. UpvotesMatchAnswers'
  BY <1>1 DEF UpvotesMatchAnswers, history
<1>3. CASE CreateIssue(r)
  <2>1. PICK i \in Issue, u \in User :
            /\ pc[r] = "idle" /\ pc' = [pc EXCEPT ![r] = "summarize"]
            /\ owner' = [owner EXCEPT ![i] = u]
            /\ task' = [task EXCEPT ![r] =
                     [op |-> "create", by |-> u, issue |-> i, target |-> i]]
            /\ summary' = summary
    BY <1>3 DEF CreateIssue
  <2> DEFINE t == [op |-> "create", by |-> u, issue |-> i, target |-> i]
  <2>2. t \in Task /\ t.target = t.issue
    BY DEF Task, Target
  <2>3. task'[r] = t /\ \A q \in Request \ {r} : task'[q] = task[q]
    BY <2>1 DEF TypeOK
  <2>4. r \notin steady /\ r \notin late
    BY <2>1 DEF Requests, CountsItsOwn, LateChangesNothing
  <2> HIDE DEF t
  <2>5. TypeOK'
    BY <1>1, <2>1, <2>2 DEF TypeOK, answer, history, t
  <2>6. Requests'
    <3>1. /\ HasTask(r)' /\ WritesWhatItRead(r)'
          /\ LateChangesNothing(r)' /\ CountsItsOwn(r)'
      BY <1>1, <2>1, <2>2, <2>3, <2>4, Moved
         DEF HasTask, WritesWhatItRead, LateChangesNothing, CountsItsOwn,
             history
    <3>2. \A q \in Request \ {r} :
             /\ HasTask(q)' /\ WritesWhatItRead(q)'
             /\ LateChangesNothing(q)' /\ CountsItsOwn(q)'
      BY <1>1, <2>1, <2>3, Moved, OthersKept DEF answer, history
    <3> QED  BY <3>1, <3>2 DEF Requests
  <2>7. ReadersSeeTheirUpvote'
    BY <1>1, <2>1, <2>3, <2>4, Moved
       DEF ReadersSeeTheirUpvote, answer, history
  <2> QED  BY <1>2, <2>5, <2>6, <2>7
<1>4. CASE StartSummary(r)
  <2>1. /\ pc[r] = "summarize" /\ pc' = [pc EXCEPT ![r] = "done"]
        /\ task' = task /\ owner' = owner
        /\ summary' = summary \cup {task[r].issue}
    BY <1>4 DEF StartSummary
  <2>2. r \notin steady /\ task[r] \in Task
    BY <2>1 DEF Requests, CountsItsOwn, HasTask
  <2>3. TypeOK'
    BY <1>1, <2>1, <2>2 DEF TypeOK, answer, history, Task
  <2>4. Requests'
    BY <1>1, <2>1, <2>2, Moved
       DEF Requests, HasTask, WritesWhatItRead, LateChangesNothing,
           CountsItsOwn, answer, history
  <2>5. ReadersSeeTheirUpvote'
    BY <1>1, <2>1, <2>2, Moved DEF ReadersSeeTheirUpvote, answer, history
  <2> QED  BY <1>2, <2>3, <2>4, <2>5
<1> QED  BY <1>3, <1>4

\* An issue or a comment is read: what is asked is a task on what was found.
LEMMA LoadKeeps ==
    ASSUME IndInv, NEW r \in Request, LoadIssue(r) \/ LoadComment(r)
    PROVE  IndInv'
<1> USE DEF IndInv
<1>1. UNCHANGED <<rows, answer, failures, acked>>
  BY DEF LoadIssue, LoadComment
<1>2. UpvotesMatchAnswers'
  BY <1>1 DEF UpvotesMatchAnswers, rows
<1>3. CASE LoadIssue(r)
  <2>1. PICK t \in Task :
            /\ t.op # "create"
            /\ t.op = "comment" \/ t.op = "resolve" => t.target = t.issue
            /\ t.target \in Issue => t.target = t.issue
            /\ pc[r] = "idle"
            /\ pc' = [pc EXCEPT ![r] =
                          IF Refused(t.issue, t.by, t.op) THEN "done"
                          ELSE IF t.target \in Comment THEN "target"
                          ELSE After(t.op)]
            /\ task' = [task EXCEPT ![r] = t]
            /\ late' = IF resolved[t.issue] THEN late \cup {r} ELSE late
            /\ StartsReading(r)
    BY <1>3 DEF LoadIssue
  <2>2. /\ t.op \in {"create", "comment", "upvote", "undo", "resolve", "read"}
        /\ t.by \in User /\ t.issue \in Issue /\ t.target \in Target
    BY DEF Task
  <2>3. task'[r] = t /\ \A q \in Request \ {r} : task'[q] = task[q]
    BY <2>1 DEF TypeOK
  <2>4. r \notin steady
    BY <2>1 DEF Requests, CountsItsOwn
  <2>5. /\ pc'[r] = IF Refused(t.issue, t.by, t.op) THEN "done"
                    ELSE IF t.target \in Comment THEN "target"
                    ELSE After(t.op)
        /\ pc'[r] \in {"done", "target", "write", "count"}
        /\ \A q \in Request \ {r} : pc'[q] = pc[q]
    BY <2>1, Moved DEF After
  <2>6. /\ r \in steady' => pc'[r] = "count"
        /\ \A q \in Request \ {r} : q \in steady' <=> q \in steady
    BY <2>1, <2>4 DEF StartsReading
  <2>7. TypeOK'
    BY <1>1, <2>1, <2>5 DEF TypeOK, StartsReading, rows, answer
  <2>8. Requests'
    <3>1. HasTask(r)'
      BY <2>1, <2>3 DEF HasTask
    <3>2. WritesWhatItRead(r)'
      BY <2>3, <2>5 DEF WritesWhatItRead, After
    <3>3. LateChangesNothing(r)'
      <4>1. r \in late' /\ pc'[r] # "done" /\ Changes(t.op) => r \in late
        BY <2>1, <2>5 DEF Refused
      <4>2. r \notin late
        BY <2>1 DEF Requests, LateChangesNothing
      <4>3. pc'[r] # "idle"
        BY <2>5
      <4> QED  BY <2>3, <4>1, <4>2, <4>3 DEF LateChangesNothing
    <3>4. CountsItsOwn(r)'
      BY <2>2, <2>3, <2>5, <2>6 DEF CountsItsOwn, After
    <3>5. \A q \in Request \ {r} :
             /\ HasTask(q)' /\ WritesWhatItRead(q)'
             /\ LateChangesNothing(q)' /\ CountsItsOwn(q)'
      BY <1>1, <2>1, <2>3, <2>5, <2>6, OthersKept DEF rows, answer
    <3> QED  BY <3>1, <3>2, <3>3, <3>4, <3>5 DEF Requests
  <2>9. ReadersSeeTheirUpvote'
    BY <1>1, <2>3, <2>5, <2>6, <2>7 DEF TypeOK, ReadersSeeTheirUpvote, answer
  <2> QED  BY <1>2, <2>7, <2>8, <2>9
<1>4. CASE LoadComment(r)
  <2>1. /\ pc[r] = "target"
        /\ pc' = [pc EXCEPT ![r] =
                      IF parent[task[r].target] # task[r].issue THEN "done"
                      ELSE After(task[r].op)]
        /\ StartsReading(r) /\ task' = task /\ late' = late
    BY <1>4 DEF LoadComment
  <2>2. task[r] \in Task /\ r \notin steady
    BY <2>1 DEF Requests, HasTask, CountsItsOwn
  <2>3. /\ pc'[r] = IF parent[task[r].target] # task[r].issue THEN "done"
                    ELSE After(task[r].op)
        /\ pc'[r] \in {"done", "write", "count"}
        /\ \A q \in Request \ {r} : pc'[q] = pc[q]
    BY <2>1, Moved DEF After
  <2>4. /\ r \in steady' => pc'[r] = "count"
        /\ \A q \in Request \ {r} : q \in steady' <=> q \in steady
    BY <2>1, <2>2 DEF StartsReading
  <2>5. TypeOK'
    BY <1>1, <2>1, <2>3 DEF TypeOK, StartsReading, rows, answer
  <2>6. Requests'
    <3>1. /\ HasTask(r)' /\ WritesWhatItRead(r)'
          /\ LateChangesNothing(r)' /\ CountsItsOwn(r)'
      BY <1>1, <2>1, <2>2, <2>3, <2>4
         DEF Requests, HasTask, WritesWhatItRead, LateChangesNothing,
             CountsItsOwn, After, rows
    <3>2. \A q \in Request \ {r} :
             /\ HasTask(q)' /\ WritesWhatItRead(q)'
             /\ LateChangesNothing(q)' /\ CountsItsOwn(q)'
      BY <1>1, <2>1, <2>3, <2>4, OthersKept DEF rows, answer
    <3> QED  BY <3>1, <3>2 DEF Requests
  <2>7. ReadersSeeTheirUpvote'
    BY <1>1, <2>1, <2>3, <2>4, <2>5 DEF TypeOK, ReadersSeeTheirUpvote, answer
  <2> QED  BY <1>2, <2>5, <2>6, <2>7
<1> QED  BY <1>3, <1>4

-----------------------------------------------------------------------------
(* The writes.                                                             *)

\* A writer has a task on a target; it is no reader.
LEMMA Writer ==
    ASSUME IndInv, NEW r \in Request, pc[r] = "write"
    PROVE  /\ task[r].by \in User /\ task[r].issue \in Issue
           /\ task[r].target \in Target
           /\ r \notin steady
<1> QED  BY DEF IndInv, Requests, HasTask, CountsItsOwn, Task

\* A comment is posted where there was none, so it is none that anybody has
\* found; and that an issue is resolved matters to whoever comes later.
LEMMA CommentOrResolveKeeps ==
    ASSUME IndInv, NEW r \in Request, CreateComment(r) \/ MarkIssueAsResolved(r)
    PROVE  IndInv'
<1> USE DEF IndInv
<1>1. /\ UNCHANGED <<owner, votes, summary, task, answer, failures, history>>
      /\ pc[r] = "write" /\ pc' = [pc EXCEPT ![r] = "done"]
  BY DEF CreateComment, MarkIssueAsResolved
<1>2. /\ pc'[r] = "done" /\ r \notin steady /\ task[r].issue \in Issue
      /\ \A q \in Request \ {r} : pc'[q] = pc[q]
  BY <1>1, Writer, Moved
<1>3. \A c \in Comment : parent[c] # None => parent'[c] = parent[c]
  BY DEF CreateComment, MarkIssueAsResolved, TypeOK
<1>4. TypeOK'
  <2>1. parent' \in [Comment -> Issue \cup {None}]
    BY <1>2 DEF TypeOK, CreateComment, MarkIssueAsResolved
  <2>2. resolved' \in [Issue -> BOOLEAN]
    BY <1>2 DEF TypeOK, CreateComment, MarkIssueAsResolved
  <2> QED  BY <1>1, <2>1, <2>2 DEF TypeOK, answer, history
<1>5. UpvotesMatchAnswers' /\ ReadersSeeTheirUpvote'
  BY <1>1, <1>2 DEF TypeOK, UpvotesMatchAnswers, ReadersSeeTheirUpvote,
                    answer, history
<1>6. Requests'
  <2>1. \A q \in Request : HasTask(q)' /\ LateChangesNothing(q)'
    BY <1>1, <1>2 DEF Requests, HasTask, LateChangesNothing, history
  <2>2. \A q \in Request : CountsItsOwn(q)'
    BY <1>1, <1>2 DEF Requests, CountsItsOwn, answer, history
  <2>3. ASSUME NEW q \in Request, pc'[q] = "write",
               task'[q].target \in Comment
        PROVE  parent'[task'[q].target] = task'[q].issue
    <3>1. pc[q] = "write" /\ task[q].target \in Comment /\ task'[q] = task[q]
      BY <1>1, <1>2, <2>3
    <3>2. /\ parent[task[q].target] = task[q].issue
          /\ task[q].issue \in Issue
      BY <3>1, Writer DEF Requests, WritesWhatItRead
    <3> QED  BY <1>3, <3>1, <3>2, ConstantsAssumption DEF Target
  <2> QED  BY <2>1, <2>2, <2>3 DEF Requests, WritesWhatItRead
<1> QED  BY <1>4, <1>5, <1>6

\* A writer sets one user's upvote, rows and answers alike, and the readers of
\* it, if it changes, no longer count on what they read.
LEMMA VoteKeeps ==
    ASSUME IndInv, NEW r \in Request, NEW vote \in 0..1,
           pc[r] = "write", pc' = [pc EXCEPT ![r] = "done"],
           votes' = [votes EXCEPT ![task[r].target][task[r].by] = vote],
           acked' = votes',
           \/ votes' = votes /\ steady' = steady
           \/ Disturb(task[r].target, task[r].by),
           UNCHANGED <<owner, resolved, parent, summary, task, answer,
                       failures, late>>
    PROVE  IndInv'
<1> DEFINE t == task[r].target
           u == task[r].by
<1> USE DEF IndInv
<1>1. t \in Target /\ u \in User /\ r \notin steady
  BY Writer
<1>2. pc'[r] = "done" /\ \A q \in Request \ {r} : pc'[q] = pc[q]
  BY Moved
<1> HIDE DEF t, u
<1>3. votes' \in [Target -> [User -> 0..1]]
  BY <1>1 DEF TypeOK, t, u
<1>4. \A x \in Target, v \in User :
          x # t \/ v # u => votes'[x][v] = votes[x][v]
  BY <1>1 DEF TypeOK, t, u
<1>5. TypeOK'
  <2>1. acked' \in [Target -> [User -> Int]] /\ steady' \subseteq Request
    BY <1>3 DEF TypeOK, Disturb
  <2> QED  BY <1>3, <2>1 DEF TypeOK, answer
<1>6. ASSUME NEW q \in steady'
      PROVE  /\ q \in steady /\ q # r /\ task[q] \in Task
             /\ votes'[task[q].target][task[q].by] =
                    votes[task[q].target][task[q].by]
  <2>1. q \in steady /\ q \in Request /\ q # r
    BY <1>1, <1>5, <1>6 DEF Disturb, TypeOK
  <2>2. /\ task[q] \in Task /\ task[q].op = "read"
        /\ task[q].target \in Target /\ task[q].by \in User
    BY <2>1 DEF Requests, CountsItsOwn, Task
  <2>3. Is(q, "read")
    BY <2>2, ConstantsAssumption DEF Is
  <2>4. votes' = votes \/ task[q].target # t \/ task[q].by # u
    BY <1>6, <2>1, <2>3 DEF Disturb, t, u
  <2> QED  BY <1>4, <2>1, <2>2, <2>4
<1>7. Requests'
  <2>1. \A q \in Request : /\ HasTask(q)' /\ WritesWhatItRead(q)'
                           /\ LateChangesNothing(q)'
    BY <1>2 DEF Requests, HasTask, WritesWhatItRead, LateChangesNothing
  <2>2. \A q \in Request : CountsItsOwn(q)'
    BY <1>2, <1>6 DEF Requests, CountsItsOwn, answer
  <2> QED  BY <2>1, <2>2 DEF Requests
<1>8. UpvotesMatchAnswers'
  BY DEF UpvotesMatchAnswers
<1>9. ReadersSeeTheirUpvote'
  BY <1>2, <1>5, <1>6
     DEF TypeOK, ReadersSeeTheirUpvote, UpvotesMatchAnswers, answer
<1> QED  BY <1>5, <1>7, <1>8, <1>9

\* An upvote is written and answered, or refused and not written.
LEMMA UpvoteKeeps ==
    ASSUME IndInv, NEW r \in Request, Upvote(r) \/ UndoUpvote(r)
    PROVE  IndInv'
<1> DEFINE t == task[r].target
           u == task[r].by
<1>1. /\ pc[r] = "write" /\ pc' = [pc EXCEPT ![r] = "done"]
      /\ UNCHANGED <<owner, resolved, parent, summary, task, answer, failures,
                     late>>
  BY DEF Upvote, UndoUpvote
<1>2. /\ t \in Target /\ u \in User
      /\ acked = votes /\ votes \in [Target -> [User -> 0..1]]
      /\ votes[t][u] \in 0..1
  BY <1>1, Writer DEF IndInv, UpvotesMatchAnswers, TypeOK
<1> HIDE DEF t, u
<1>3. CASE Upvote(r) /\ Duplicate(t, u)
  <2>1. votes' = votes /\ acked' = acked /\ steady' = steady
    BY <1>3 DEF Upvote, t, u
  <2>2. votes' = [votes EXCEPT ![t][u] = votes[t][u]]
    BY <1>2, <2>1
  <2> QED  BY <1>1, <1>2, <2>1, <2>2, VoteKeeps DEF t, u
<1>4. CASE Upvote(r) /\ ~Duplicate(t, u)
  <2>1. /\ votes' = [votes EXCEPT ![t][u] = @ + 1]
        /\ acked' = [acked EXCEPT ![t][u] = @ + 1]
        /\ Disturb(t, u)
    BY <1>4 DEF Upvote, t, u
  <2>2. votes[t][u] = 0
    BY <1>2, <1>4 DEF Duplicate
  <2>3. votes' = [votes EXCEPT ![t][u] = 1] /\ acked' = votes'
    BY <1>2, <2>1, <2>2
  <2>4. 1 \in 0..1
    OBVIOUS
  <2> QED  BY <1>1, <2>1, <2>3, <2>4, VoteKeeps DEF t, u
<1>5. CASE UndoUpvote(r)
  <2>1. /\ votes' = [votes EXCEPT ![t] = DeleteOf(t, u)]
        /\ votes' = votes => acked' = acked /\ steady' = steady
        /\ votes' # votes => /\ acked' = [acked EXCEPT ![t][u] = @ - 1]
                             /\ Disturb(t, u)
    BY <1>5 DEF UndoUpvote, t, u
  <2>2. votes' = [votes EXCEPT ![t][u] = 0]
    BY <1>2, <2>1 DEF DeleteOf
  <2>3. acked' = votes'
    <3>1. CASE votes' # votes
      <4>1. votes[t][u] = 1
        BY <1>2, <2>2, <3>1
      <4>2. acked' = [votes EXCEPT ![t][u] = votes[t][u] - 1]
        BY <1>2, <2>1, <3>1
      <4>3. votes[t][u] - 1 = 0
        BY <4>1
      <4> QED  BY <2>2, <4>2, <4>3
    <3> QED  BY <1>2, <2>1, <3>1
  <2>4. 0 \in 0..1
    OBVIOUS
  <2> QED  BY <1>1, <2>1, <2>2, <2>3, <2>4, VoteKeeps DEF t, u
<1> QED  BY <1>3, <1>4, <1>5

-----------------------------------------------------------------------------
(* The readers, and what fails.                                            *)

\* The number a reader counts includes its own upvote, and so it stays until
\* it looks for it.
LEMMA ReadKeeps ==
    ASSUME IndInv, NEW r \in Request, Count(r) \/ TakeOwn(r)
    PROVE  IndInv'
<1> USE DEF IndInv
<1>1. UNCHANGED <<rows, task, failures, history>>
  BY DEF Count, TakeOwn
<1>2. /\ task[r] \in Task
      /\ task[r].target \in Target /\ task[r].by \in User
  BY DEF Count, TakeOwn, Requests, HasTask, Task
<1>3. UpvotesMatchAnswers'
  BY <1>1 DEF UpvotesMatchAnswers, rows, history
<1>4. CASE Count(r)
  <2>1. /\ pc[r] = "count" /\ pc' = [pc EXCEPT ![r] = "flag"] /\ flag' = flag
        /\ count' = [count EXCEPT ![r] = UpvotesOf(task[r].target)]
    BY <1>4 DEF Count
  <2>2. /\ UpvotesOf(task[r].target) \in 0..Cardinality(User)
        /\ votes[task[r].target][task[r].by] = 1 =>
               UpvotesOf(task[r].target) >= 1
    BY <1>2, NumberOfUpvotes
  <2>3. /\ count'[r] = UpvotesOf(task[r].target)
        /\ \A q \in Request \ {r} : count'[q] = count[q]
        /\ pc'[r] = "flag" /\ \A q \in Request \ {r} : pc'[q] = pc[q]
    BY <2>1, Moved DEF TypeOK
  <2>4. TypeOK'
    BY <1>1, <2>1, <2>2 DEF TypeOK, rows, history
  <2>5. Requests'
    BY <1>1, <2>1, <2>2, <2>3
       DEF Requests, HasTask, WritesWhatItRead, LateChangesNothing,
           CountsItsOwn, rows, history
  <2>6. ReadersSeeTheirUpvote'
    BY <1>1, <2>1, <2>3 DEF TypeOK, ReadersSeeTheirUpvote, rows, history
  <2> QED  BY <1>3, <2>4, <2>5, <2>6
<1>5. CASE TakeOwn(r)
  <2>1. /\ pc[r] = "flag" /\ pc' = [pc EXCEPT ![r] = "done"] /\ count' = count
        /\ flag' = [flag EXCEPT ![r] = OwnUpvote(task[r].target, task[r].by)]
    BY <1>5 DEF TakeOwn
  <2>2. /\ flag'[r] = OwnUpvote(task[r].target, task[r].by)
        /\ \A q \in Request \ {r} : flag'[q] = flag[q]
        /\ pc'[r] = "done" /\ \A q \in Request \ {r} : pc'[q] = pc[q]
    BY <2>1, Moved DEF TypeOK
  <2>3. TypeOK'
    BY <1>1, <2>1 DEF TypeOK, OwnUpvote, rows, history
  <2>4. Requests'
    BY <1>1, <2>1, <2>2
       DEF Requests, HasTask, WritesWhatItRead, LateChangesNothing,
           CountsItsOwn, rows, history
  <2>5. ASSUME r \in steady
        PROVE  /\ flag'[r] <=> acked[task[r].target][task[r].by] = 1
               /\ flag'[r] => count[r] >= 1
    <3>1. votes[task[r].target][task[r].by] \in 0..1
      BY <1>2 DEF TypeOK
    <3>2. votes[task[r].target][task[r].by] > 0
              <=> votes[task[r].target][task[r].by] = 1
      BY <3>1
    <3>3. flag'[r] <=> votes[task[r].target][task[r].by] = 1
      BY <2>2, <3>2, Zenon DEF OwnUpvote
    <3> QED  BY <2>1, <2>5, <3>3
             DEF Requests, CountsItsOwn, UpvotesMatchAnswers
  <2>6. ReadersSeeTheirUpvote'
    BY <1>1, <2>1, <2>2, <2>5 DEF TypeOK, ReadersSeeTheirUpvote, rows, history
  <2> QED  BY <1>3, <2>3, <2>4, <2>6
<1> QED  BY <1>4, <1>5

\* A request that fails writes nothing; a reader goes on with what it has, and
\* nobody counts on it.
LEMMA FailureKeeps ==
    ASSUME IndInv, NEW r \in Request, MetaFails(r) \/ CallFails(r)
    PROVE  IndInv'
<1> USE DEF IndInv
<1>1. PICK place \in {"flag", "done"} :
          /\ pc[r] \in {"count", "flag", "summarize", "target", "write"}
          /\ pc' = [pc EXCEPT ![r] = place]
          /\ place = "flag" => pc[r] = "count"
  BY DEF MetaFails, CallFails
<1>2. UNCHANGED <<rows, task, answer, acked, late>>
  BY DEF MetaFails, CallFails, history
<1>3. steady' \subseteq steady /\ r \notin steady'
  <2>1. CASE MetaFails(r)
    BY <2>1 DEF MetaFails
  <2>2. CASE CallFails(r)
    BY <2>2 DEF CallFails, Requests, CountsItsOwn, history
  <2> QED  BY <2>1, <2>2
<1>4. pc'[r] = place /\ \A q \in Request \ {r} : pc'[q] = pc[q]
  BY <1>1, Moved
<1>5. TypeOK'
  <2>1. failures' \in 0..MaxFailures
    BY ConstantsAssumption DEF MetaFails, CallFails, TypeOK
  <2> QED  BY <1>1, <1>2, <1>3, <2>1 DEF TypeOK, rows, answer
<1>6. Requests'
  BY <1>1, <1>2, <1>3, <1>4
     DEF Requests, HasTask, WritesWhatItRead, LateChangesNothing,
         CountsItsOwn, rows, answer
<1>7. UpvotesMatchAnswers'
  BY <1>2 DEF UpvotesMatchAnswers, rows
<1>8. ReadersSeeTheirUpvote'
  BY <1>2, <1>3, <1>4 DEF TypeOK, ReadersSeeTheirUpvote, answer
<1> QED  BY <1>5, <1>6, <1>7, <1>8

-----------------------------------------------------------------------------
LEMMA StepIndInv == IndInv /\ [Next]_vars => IndInv'
<1> SUFFICES ASSUME IndInv, [Next]_vars PROVE IndInv'
  OBVIOUS
<1>1. CASE Next
  <2>1. PICK r \in Request :
            \/ CreateIssue(r) \/ StartSummary(r)
            \/ LoadIssue(r) \/ LoadComment(r)
            \/ CreateComment(r) \/ Upvote(r) \/ UndoUpvote(r)
            \/ MarkIssueAsResolved(r)
            \/ Count(r) \/ TakeOwn(r)
            \/ MetaFails(r) \/ CallFails(r)
    BY <1>1 DEF Next
  <2>2. CASE CreateIssue(r) \/ StartSummary(r)
    BY <2>2, CreateIssueKeeps
  <2>3. CASE LoadIssue(r) \/ LoadComment(r)
    BY <2>3, LoadKeeps
  <2>4. CASE CreateComment(r) \/ MarkIssueAsResolved(r)
    BY <2>4, CommentOrResolveKeeps
  <2>5. CASE Upvote(r) \/ UndoUpvote(r)
    BY <2>5, UpvoteKeeps
  <2>6. CASE Count(r) \/ TakeOwn(r)
    BY <2>6, ReadKeeps
  <2>7. CASE MetaFails(r) \/ CallFails(r)
    BY <2>7, FailureKeeps
  <2> QED  BY <2>1, <2>2, <2>3, <2>4, <2>5, <2>6, <2>7
<1>2. CASE UNCHANGED vars
  BY <1>2 DEF vars, rows, answer, history, IndInv, TypeOK, Requests, HasTask,
              WritesWhatItRead, LateChangesNothing, CountsItsOwn,
              UpvotesMatchAnswers, ReadersSeeTheirUpvote
<1> QED  BY <1>1, <1>2

\* The inductive invariant holds in every state, however many requests overlap
\* and fail (the handlers of endpoints/issue).
THEOREM Invariance == Spec => []IndInv
<1>1. Init => IndInv
  BY InitIndInv
<1>2. IndInv /\ [Next]_vars => IndInv'
  BY StepIndInv
<1> QED  BY <1>1, <1>2, PTL DEF Spec

\* Every column and every place in a handler has a value of its type: never two
\* upvotes of a user on a target, never more upvotes counted than users.
THEOREM TypeCorrect == Spec => []TypeOK
<1>1. IndInv => TypeOK
  BY DEF IndInv
<1> QED  BY <1>1, Invariance, PTL

\* The upvotes there are are those the answers add up to (UpvoteIssue,
\* UndoIssueUpvote and the two for comments: 409 for a duplicate, 404 when no
\* row was deleted).
THEOREM AnswersAddUp == Spec => []UpvotesMatchAnswers
<1>1. IndInv => UpvotesMatchAnswers
  BY DEF IndInv
<1> QED  BY <1>1, Invariance, PTL

\* A reader nobody disturbed is told of its own upvote what it was told before,
\* and its number includes it, though others write between the two statements
\* (issueUpvoteMeta, commentUpvoteMeta).
THEOREM OwnUpvoteIsSeen == Spec => []ReadersSeeTheirUpvote
<1>1. IndInv => ReadersSeeTheirUpvote
  BY DEF IndInv
<1> QED  BY <1>1, Invariance, PTL

-----------------------------------------------------------------------------
(* What is resolved.                                                       *)

\* A vote on a target leaves the other issues alone.
LEMMA VoteElsewhere ==
    ASSUME IndInv, NEW r \in Request, pc[r] = "write",
           NEW i \in Issue, task[r].issue # i, parent' = parent,
           NEW new, votes' = [votes EXCEPT ![task[r].target] = new]
    PROVE  Content(i)' = Content(i)
<1>1. task[r].target \in Target
  BY Writer
<1>2. task[r].target # i
  BY DEF IndInv, Requests, HasTask
<1>3. \A c \in Comment : parent[c] = i => task[r].target # c
  BY DEF IndInv, Requests, WritesWhatItRead
<1> QED  BY <1>2, <1>3 DEF Content

\* Whoever writes a comment or a vote came in time, and writes to the issue it
\* read.
LEMMA ContentStep ==
    ASSUME IndInv, NEW r \in Request, NEW i \in Issue,
           CreateComment(r) \/ Upvote(r) \/ UndoUpvote(r),
           resolved[i], Content(i)' # Content(i)
    PROVE  /\ r \notin late /\ pc[r] = "write" /\ pc'[r] = "done"
           /\ task[r].issue = i
<1>1. /\ pc[r] = "write" /\ pc' = [pc EXCEPT ![r] = "done"]
      /\ Changes(task[r].op)
  BY DEF CreateComment, Upvote, UndoUpvote, Is, Changes
<1>2. r \notin late
  BY <1>1 DEF IndInv, Requests, LateChangesNothing
<1>3. ASSUME task[r].issue # i PROVE FALSE
  <2>1. CASE CreateComment(r)
    <3>1. PICK c \in Comment :
              /\ parent[c] = None
              /\ parent' = [parent EXCEPT ![c] = task[r].issue]
              /\ votes' = votes
      BY <2>1 DEF CreateComment
    <3>2. i # None
      BY ConstantsAssumption DEF Target
    <3>3. \A d \in Comment : parent'[d] = i <=> parent[d] = i
      BY <1>3, <3>1, <3>2 DEF IndInv, TypeOK
    <3> QED  BY <3>1, <3>3 DEF Content
  <2>2. CASE Upvote(r)
    <3>1. parent' = parent
      BY <2>2 DEF Upvote
    <3>2. CASE votes' = votes
      BY <3>1, <3>2 DEF Content
    <3>3. CASE votes' # votes
      <4>1. votes' = [votes EXCEPT ![task[r].target][task[r].by] = @ + 1]
        BY <2>2, <3>3 DEF Upvote
      <4> DEFINE t == task[r].target
                 u == task[r].by
      <4>2. votes' = [votes EXCEPT ![t] =
                          [votes[t] EXCEPT ![u] = votes[t][u] + 1]]
        BY <4>1
      <4> QED  BY <1>1, <1>3, <3>1, <4>2, VoteElsewhere
    <3> QED  BY <3>2, <3>3
  <2>3. CASE UndoUpvote(r)
    <3>1. /\ parent' = parent
          /\ votes' = [votes EXCEPT ![task[r].target] =
                           DeleteOf(task[r].target, task[r].by)]
      BY <2>3 DEF UndoUpvote
    <3> QED  BY <1>1, <1>3, <3>1, VoteElsewhere
  <2> QED  BY <2>1, <2>2, <2>3
<1>4. pc'[r] = "done"
  BY <1>1, Moved DEF IndInv
<1> QED  BY <1>1, <1>2, <1>3, <1>4

LEMMA ResolvedStep == IndInv /\ [Next]_vars => ResolvedStaysClosed
<1> SUFFICES ASSUME IndInv, [Next]_vars, NEW i \in Issue, resolved[i]
             PROVE  /\ resolved'[i]
                    /\ Content(i)' # Content(i) =>
                           \E r \in Request \ late :
                               /\ pc[r] = "write" /\ pc'[r] = "done"
                               /\ task[r].issue = i
  BY DEF ResolvedStaysClosed
<1>1. CASE Next
  <2>1. PICK r \in Request :
            \/ CreateIssue(r) \/ StartSummary(r)
            \/ LoadIssue(r) \/ LoadComment(r)
            \/ CreateComment(r) \/ Upvote(r) \/ UndoUpvote(r)
            \/ MarkIssueAsResolved(r)
            \/ Count(r) \/ TakeOwn(r)
            \/ MetaFails(r) \/ CallFails(r)
    BY <1>1 DEF Next
  <2>2. CASE CreateComment(r) \/ Upvote(r) \/ UndoUpvote(r)
    <3>1. resolved' = resolved
      BY <2>2 DEF CreateComment, Upvote, UndoUpvote
    <3> QED  BY <2>2, <3>1, ContentStep
  <2>3. CASE MarkIssueAsResolved(r)
    <3>1. resolved'[i] /\ parent' = parent /\ votes' = votes
      BY <2>3 DEF MarkIssueAsResolved, IndInv, TypeOK
    <3> QED  BY <3>1 DEF Content
  <2>4. CASE \/ CreateIssue(r) \/ StartSummary(r)
             \/ LoadIssue(r) \/ LoadComment(r)
             \/ Count(r) \/ TakeOwn(r)
             \/ MetaFails(r) \/ CallFails(r)
    <3>1. resolved' = resolved /\ parent' = parent /\ votes' = votes
      BY <2>4 DEF CreateIssue, StartSummary, LoadIssue, LoadComment, Count,
                  TakeOwn, MetaFails, CallFails, rows
    <3> QED  BY <3>1 DEF Content
  <2> QED  BY <2>1, <2>2, <2>3, <2>4
<1>2. CASE UNCHANGED vars
  BY <1>2 DEF vars, rows, Content
<1> QED  BY <1>1, <1>2

\* Resolved is for good, and what belongs to a resolved issue is changed only
\* by requests that had read it before it was resolved (the checks of
\* is_resolved in CreateIssueComment, UpvoteIssue and its relatives).
THEOREM ClosedIsClosed == Spec => ResolvedIsClosed
<1>1. IndInv /\ [Next]_vars => ResolvedStaysClosed
  BY ResolvedStep
<1> QED  BY <1>1, Invariance, PTL DEF Spec, ResolvedIsClosed
=============================================================================
