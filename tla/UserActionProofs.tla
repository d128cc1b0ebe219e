-------------------------- MODULE UserActionProofs --------------------------
(***************************************************************************)
(* Proofs about UserAction, for every number of requests, questions,       *)
(* failures and moves: IndInv is inductive, hence its conjuncts are        *)
(* invariants, and UserAction implements DurableResume.                    *)
(***************************************************************************)
EXTENDS UserAction, TLAPS

USE DEF Action

-----------------------------------------------------------------------------
(* What the steps of IndInv have in common.                                *)

\* The parts of IndInv that speak of questions hold on as long as questions,
\* items and status stay what they are.
LEMMA QuestionsUntouched ==
    ASSUME IndInv, UNCHANGED <<created, pending, answers, key, enqueued,
                               queueItems>>,
           app'.status = app.status
    PROVE  /\ AnsweredHasKey'
           /\ OpenOnlyWhenBlocked'
           /\ OneKeyPerQuestion'
           /\ EnqueuedWasSignalled'
           /\ BlockedOnItsLastQuestion'
  BY DEF IndInv, AnsweredHasKey, OpenOnlyWhenBlocked, OneKeyPerQuestion,
         EnqueuedWasSignalled, BlockedOnItsLastQuestion, Submitted

\* A request that ends leaves a well-typed idle slot behind, and the other
\* requests as they were.
LEMMA DoneKeeps ==
    ASSUME TypeOK, RequestsAreCurrent, NEW s \in Submitter, Done(s),
           created' = created, queueItems \subseteq queueItems',
           \A a \in Action : key[a] # None => key'[a] = key[a]
    PROVE  /\ pc' \in [Submitter -> {"idle", "legacy", "submit", "signal",
                                     "mark"}]
           /\ target' \in [Submitter -> Action \cup {None}]
           /\ values' \in [Submitter -> Answer \cup {Invalid, None}]
           /\ seenResume' \in [Submitter -> Resume \cup {None}]
           /\ heldKey' \in [Submitter -> ResumeKey \cup {None}]
           /\ RequestsAreCurrent'
<1>1. /\ pc' \in [Submitter -> {"idle", "legacy", "submit", "signal", "mark"}]
      /\ target' \in [Submitter -> Action \cup {None}]
      /\ values' \in [Submitter -> Answer \cup {Invalid, None}]
      /\ seenResume' \in [Submitter -> Resume \cup {None}]
      /\ heldKey' \in [Submitter -> ResumeKey \cup {None}]
  BY DEF TypeOK, Done
<1>2. ASSUME NEW t \in Submitter, pc'[t] # "idle"
      PROVE  /\ t # s
             /\ pc'[t] = pc[t] /\ target'[t] = target[t]
             /\ values'[t] = values[t] /\ seenResume'[t] = seenResume[t]
             /\ heldKey'[t] = heldKey[t]
  BY <1>2 DEF TypeOK, Done
<1>3. created \in 0..NumActions
  BY DEF TypeOK
<1>4. RequestsAreCurrent'
  <2>1. ASSUME NEW t \in Submitter, pc'[t] # "idle"
        PROVE  /\ target'[t] \in 1..created'
               /\ values'[t] \in Answer \cup {Invalid}
               /\ seenResume'[t] \in Resume
    BY <1>2, <2>1 DEF RequestsAreCurrent
  <2>2. ASSUME NEW t \in Submitter, pc'[t] \in {"signal", "mark"}
        PROVE  heldKey'[t] # None /\ heldKey'[t] = key'[target'[t]]
    <3>1. heldKey[t] # None /\ heldKey[t] = key[target[t]]
      BY <1>2, <2>2 DEF RequestsAreCurrent
    <3>2. target[t] \in Action
      BY <1>2, <1>3, <2>2, ConstantsAssumption DEF RequestsAreCurrent
    <3> QED  BY <1>2, <2>2, <3>1, <3>2
  <2>3. ASSUME NEW t \in Submitter, pc'[t] = "mark"
        PROVE  \E i \in queueItems' : i.action = target'[t]
    BY <1>2, <2>3 DEF RequestsAreCurrent
  <2> QED  BY <2>1, <2>2, <2>3 DEF RequestsAreCurrent
<1> QED  BY <1>1, <1>4

\* Recording a first answer under a fresh id keeps every part of IndInv that
\* speaks of questions.
LEMMA RecordKeeps ==
    ASSUME IndInv, NEW a \in Action, NEW v \in Answer, NEW k \in FreshKeys,
           IsFirstSubmission(a), AcceptsFirst(a, v), Record(a, v, k),
           queueItems' = queueItems
    PROVE  /\ app' \in [status: Status, resume: Resume, deleted: BOOLEAN]
           /\ pending' \in [Action -> BOOLEAN]
           /\ answers' \in [Action -> Answer \cup {None}]
           /\ key' \in [Action -> ResumeKey \cup {None}]
           /\ key[a] = None /\ key'[a] = k
           /\ \A b \in Action : key[b] # None => key'[b] = key[b]
           /\ AnsweredHasKey'
           /\ OpenOnlyWhenBlocked'
           /\ OneKeyPerQuestion'
           /\ EnqueuedWasSignalled'
           /\ BlockedOnItsLastQuestion'
<1> USE DEF IndInv
<1>1. /\ app' \in [status: Status, resume: Resume, deleted: BOOLEAN]
      /\ app'.status = "processing"
  BY DEF TypeOK, Record, Status
<1>2. /\ pending' \in [Action -> BOOLEAN]
      /\ answers' \in [Action -> Answer \cup {None}]
      /\ key' \in [Action -> ResumeKey \cup {None}]
  BY DEF TypeOK, Record, FreshKeys
<1>3. key[a] = None /\ key'[a] = k /\ k # None /\ v # None
  BY ConstantsAssumption DEF TypeOK, Record, FreshKeys, IsFirstSubmission,
                             AnsweredHasKey
<1>4. \A b \in Action \ {a} : /\ key'[b] = key[b] /\ answers'[b] = answers[b]
                              /\ pending'[b] = pending[b]
  BY DEF TypeOK, Record
<1>5. /\ answers'[a] = v /\ ~pending'[a] /\ a = created
      /\ created' = created /\ enqueued' = enqueued
  BY DEF TypeOK, Record, AcceptsFirst, OpenOnlyWhenBlocked
<1>6. \A b \in Action : key[b] # None => key'[b] = key[b]
  BY <1>3, <1>4
<1>7. AnsweredHasKey'
  BY <1>3, <1>4, <1>5 DEF AnsweredHasKey, Submitted, TypeOK
<1>8. \A b \in Action : ~pending'[b]
  BY <1>4, <1>5 DEF OpenOnlyWhenBlocked
<1>9. OpenOnlyWhenBlocked'
  BY <1>8 DEF OpenOnlyWhenBlocked
<1>10. OneKeyPerQuestion'
  <2>1. ASSUME NEW i \in queueItems'  PROVE i.key = key'[i.action]
    <3>1. i \in queueItems /\ i.action \in Action /\ i.key \in ResumeKey
      BY DEF TypeOK, QueueItem
    <3>2. i.key = key[i.action]
      BY <3>1 DEF OneKeyPerQuestion
    <3>3. i.key # None
      BY <3>1, ConstantsAssumption
    <3> QED  BY <1>6, <3>1, <3>2, <3>3
  <2>2. ASSUME NEW b \in Action, NEW c \in Action,
               key'[b] # None, key'[b] = key'[c]
        PROVE  b = c
    <3>1. \A d \in Action : key[d] # k
      BY DEF FreshKeys
    <3> QED  BY <1>3, <1>4, <2>2, <3>1 DEF OneKeyPerQuestion
  <2> QED  BY <2>1, <2>2 DEF OneKeyPerQuestion
<1>11. EnqueuedWasSignalled'
  BY <1>5 DEF EnqueuedWasSignalled
<1>12. BlockedOnItsLastQuestion'
  BY <1>1 DEF BlockedOnItsLastQuestion
<1> QED  BY <1>1, <1>2, <1>3, <1>6, <1>7, <1>9, <1>10, <1>11, <1>12

\* Requests nobody touches stay current while keys are final, and questions
\* and queue items only get more.
LEMMA RequestsUntouched ==
    ASSUME TypeOK, RequestsAreCurrent, UNCHANGED requests,
           created' \in Nat, created <= created',
           queueItems \subseteq queueItems',
           \A a \in Action : key[a] # None => key'[a] = key[a]
    PROVE  RequestsAreCurrent'
<1>1. created \in 0..NumActions
  BY DEF TypeOK
<1>2. \A s \in Submitter : target[s] \in 1..created => target[s] \in Action
  BY <1>1, ConstantsAssumption
<1>3. \A s \in Submitter : pc[s] # "idle" => target[s] \in 1..created'
  BY <1>1 DEF RequestsAreCurrent
<1> QED  BY <1>2, <1>3 DEF RequestsAreCurrent, requests

-----------------------------------------------------------------------------
(* IndInv is inductive.                                                    *)

LEMMA InitIndInv == Init => IndInv
<1> SUFFICES ASSUME Init PROVE IndInv
  OBVIOUS
<1>1. TypeOK
  <2>1. app \in [status: Status, resume: Resume, deleted: BOOLEAN]
    BY DEF Init, Status
  <2>2. /\ created \in 0..NumActions
        /\ failures \in 0..MaxFailures /\ moves \in 0..MaxMoves
    BY ConstantsAssumption DEF Init
  <2> QED  BY <2>1, <2>2 DEF Init, TypeOK
<1>2. RequestsAreCurrent /\ AnsweredHasKey /\ OpenOnlyWhenBlocked
  BY ConstantsAssumption
  DEF Init, RequestsAreCurrent, AnsweredHasKey, OpenOnlyWhenBlocked, Submitted
<1>3. OneKeyPerQuestion /\ EnqueuedWasSignalled /\ BlockedOnItsLastQuestion
  BY DEF Init, OneKeyPerQuestion, EnqueuedWasSignalled,
         BlockedOnItsLastQuestion
<1> QED  BY <1>1, <1>2, <1>3 DEF IndInv

\* Reading the application and the question.
LEMMA ReadKeeps ==
    ASSUME IndInv, NEW s \in Submitter, Read(s)
    PROVE  IndInv'
<1> USE DEF IndInv
<1>1. PICK a \in Action, v \in Answer \cup {Invalid} : ReadUserAction(s, a, v)
  BY DEF Read
<1>2. TypeOK'
  BY <1>1 DEF ReadUserAction, TypeOK, questions, sent, bounds
<1>3. /\ AnsweredHasKey' /\ OpenOnlyWhenBlocked' /\ OneKeyPerQuestion'
      /\ EnqueuedWasSignalled' /\ BlockedOnItsLastQuestion'
  BY <1>1, QuestionsUntouched DEF ReadUserAction, questions, sent
<1>4. RequestsAreCurrent'
  <2>1. a \in 1..created /\ app.resume \in Resume
    BY <1>1 DEF ReadUserAction, TypeOK
  <2>2. /\ pc'[s] \in {"submit", "legacy"}
        /\ target'[s] = a /\ values'[s] = v /\ seenResume'[s] = app.resume
    BY <1>1 DEF ReadUserAction, TypeOK
  <2>3. \A t \in Submitter \ {s} :
            /\ pc'[t] = pc[t] /\ target'[t] = target[t]
            /\ values'[t] = values[t] /\ seenResume'[t] = seenResume[t]
    BY <1>1 DEF ReadUserAction, TypeOK
  <2>4. UNCHANGED <<created, key, heldKey, queueItems>>
    BY <1>1 DEF ReadUserAction, questions, sent
  <2> QED  BY <2>1, <2>2, <2>3, <2>4 DEF RequestsAreCurrent
<1> QED  BY <1>2, <1>3, <1>4

\* Every step that ends a request without touching a question.
LEMMA EndKeeps ==
    ASSUME IndInv, NEW s \in Submitter, Done(s), UNCHANGED <<app, questions>>,
           queueItems \subseteq queueItems', queueItems' \subseteq QueueItem,
           \A i \in queueItems' : i.key = key[i.action],
           legacySent' \subseteq Action \X Answer,
           failures' \in 0..MaxFailures, moves' = moves
    PROVE  IndInv'
<1> USE DEF IndInv, questions
<1>1. /\ pc' \in [Submitter -> {"idle", "legacy", "submit", "signal", "mark"}]
      /\ target' \in [Submitter -> Action \cup {None}]
      /\ values' \in [Submitter -> Answer \cup {Invalid, None}]
      /\ seenResume' \in [Submitter -> Resume \cup {None}]
      /\ heldKey' \in [Submitter -> ResumeKey \cup {None}]
      /\ RequestsAreCurrent'
  BY DoneKeeps
<1>2. TypeOK'
  BY <1>1 DEF TypeOK
<1>3. AnsweredHasKey' /\ OpenOnlyWhenBlocked' /\ BlockedOnItsLastQuestion'
  BY DEF AnsweredHasKey, OpenOnlyWhenBlocked, BlockedOnItsLastQuestion,
         Submitted
<1>4. OneKeyPerQuestion' /\ EnqueuedWasSignalled'
  BY DEF OneKeyPerQuestion, EnqueuedWasSignalled
<1> QED  BY <1>1, <1>2, <1>3, <1>4

\* The steps that end a request by way of EndKeeps.
LEMMA EndingKeeps ==
    ASSUME IndInv, NEW s \in Submitter,
           SubmitLegacy(s) \/ SubmitRefused(s) \/ EnqueueFails(s)
               \/ MarkFails(s)
    PROVE  IndInv'
<1> USE DEF IndInv
<1>1. /\ failures \in 0..MaxFailures /\ queueItems \subseteq QueueItem
      /\ legacySent \subseteq Action \X Answer
      /\ \A i \in queueItems : i.key = key[i.action]
  BY DEF TypeOK, OneKeyPerQuestion
<1>2. Fail => failures' \in 0..MaxFailures
  BY <1>1, ConstantsAssumption DEF Fail
<1>3. pc[s] # "idle" =>
          /\ target[s] \in Action /\ seenResume[s] \in Resume
          /\ values[s] \in Answer \cup {Invalid}
  BY ConstantsAssumption DEF RequestsAreCurrent, TypeOK
<1>4. CASE SubmitLegacy(s)
  <2>1. legacySent' \subseteq Action \X Answer
    BY <1>1, <1>3, <1>4 DEF SubmitLegacy
  <2>2. failures' \in 0..MaxFailures
    BY <1>1, <1>2, <1>4 DEF SubmitLegacy
  <2>3. /\ Done(s)
        /\ UNCHANGED <<app, questions, queueItems, moves>>
    BY <1>4 DEF SubmitLegacy
  <2> QED  BY <1>1, <2>1, <2>2, <2>3, EndKeeps
<1>5. CASE SubmitRefused(s)
  BY <1>1, <1>5, EndKeeps DEF SubmitRefused, sent, bounds
<1>6. CASE EnqueueFails(s)
  <2>1. /\ ResumeItem(s) \in QueueItem
        /\ ResumeItem(s).key = key[ResumeItem(s).action]
    <3>1. heldKey[s] # None /\ heldKey[s] = key[target[s]]
      BY <1>6 DEF EnqueueFails, RequestsAreCurrent
    <3>2. heldKey[s] \in ResumeKey
      BY <3>1 DEF TypeOK
    <3> QED  BY <1>3, <1>6, <3>1, <3>2 DEF EnqueueFails, ResumeItem, QueueItem
  <2>2. /\ queueItems \subseteq queueItems' /\ queueItems' \subseteq QueueItem
        /\ \A i \in queueItems' : i.key = key[i.action]
    BY <1>1, <1>6, <2>1 DEF EnqueueFails
  <2>3. failures' \in 0..MaxFailures
    BY <1>2, <1>6 DEF EnqueueFails
  <2>4. Done(s) /\ UNCHANGED <<app, questions, legacySent, moves>>
    BY <1>6 DEF EnqueueFails
  <2> QED  BY <1>1, <2>2, <2>3, <2>4, EndKeeps
<1>7. CASE MarkFails(s)
  BY <1>1, <1>2, <1>7, EndKeeps DEF MarkFails, sent
<1> QED  BY <1>4, <1>5, <1>6, <1>7

\* A first submission commits, and the request goes on to signal.
LEMMA SubmitFirstKeeps ==
    ASSUME IndInv, NEW s \in Submitter, SubmitFirst(s)
    PROVE  IndInv'
<1> USE DEF IndInv
<1>1. PICK k \in FreshKeys :
          /\ Record(target[s], values[s], k)
          /\ heldKey' = [heldKey EXCEPT ![s] = k]
  BY DEF SubmitFirst
<1>2. /\ target[s] \in 1..created /\ target[s] \in Action
      /\ values[s] \in Answer /\ seenResume[s] \in Resume
  BY ConstantsAssumption DEF SubmitFirst, AcceptsFirst, RequestsAreCurrent, TypeOK
<1>3. /\ IsFirstSubmission(target[s]) /\ AcceptsFirst(target[s], values[s])
      /\ queueItems' = queueItems /\ k \in ResumeKey
      /\ UNCHANGED <<created, durable, enqueued>>
  BY <1>1 DEF SubmitFirst, sent, FreshKeys, Record
<1>4. /\ app' \in [status: Status, resume: Resume, deleted: BOOLEAN]
      /\ pending' \in [Action -> BOOLEAN]
      /\ answers' \in [Action -> Answer \cup {None}]
      /\ key' \in [Action -> ResumeKey \cup {None}]
      /\ key[target[s]] = None /\ key'[target[s]] = k
      /\ \A b \in Action : key[b] # None => key'[b] = key[b]
      /\ AnsweredHasKey' /\ OpenOnlyWhenBlocked' /\ OneKeyPerQuestion'
      /\ EnqueuedWasSignalled' /\ BlockedOnItsLastQuestion'
  BY <1>1, <1>2, <1>3, RecordKeeps
<1>5. TypeOK'
  BY <1>1, <1>3, <1>4 DEF SubmitFirst, TypeOK, sent, bounds
<1>6. RequestsAreCurrent'
  <2>1. /\ heldKey'[s] = k /\ pc'[s] = "signal"
        /\ UNCHANGED <<created, target, values, seenResume, queueItems>>
    BY <1>1, <1>3 DEF SubmitFirst, TypeOK
  <2>2. \A t \in Submitter \ {s} : pc'[t] = pc[t] /\ heldKey'[t] = heldKey[t]
    BY <1>1 DEF SubmitFirst, TypeOK
  <2>3. k # None
    BY <1>3, ConstantsAssumption
  <2>4. ASSUME NEW t \in Submitter, pc'[t] # "idle"
        PROVE  /\ target'[t] \in 1..created'
               /\ values'[t] \in Answer \cup {Invalid}
               /\ seenResume'[t] \in Resume
    BY <1>2, <2>1, <2>2, <2>4 DEF RequestsAreCurrent
  <2>5. ASSUME NEW t \in Submitter \ {s}, pc'[t] \in {"signal", "mark"}
        PROVE  heldKey'[t] # None /\ heldKey'[t] = key'[target'[t]]
    <3>1. heldKey[t] # None /\ heldKey[t] = key[target[t]]
      BY <2>2, <2>5 DEF RequestsAreCurrent
    <3>2. target[t] \in Action
      BY <2>2, <2>5, ConstantsAssumption DEF RequestsAreCurrent, TypeOK
    <3> QED  BY <1>4, <2>1, <2>2, <3>1, <3>2
  <2>6. ASSUME NEW t \in Submitter, pc'[t] = "mark"
        PROVE  \E i \in queueItems' : i.action = target'[t]
    BY <2>1, <2>2, <2>6 DEF RequestsAreCurrent
  <2> QED  BY <1>4, <2>1, <2>3, <2>4, <2>5, <2>6 DEF RequestsAreCurrent
<1> QED  BY <1>4, <1>5, <1>6

\* A retry reads the recorded id back.
LEMMA SubmitAgainKeeps ==
    ASSUME IndInv, NEW s \in Submitter, SubmitAgain(s)
    PROVE  IndInv'
<1> USE DEF IndInv
<1>1. /\ UNCHANGED <<app, created, durable, pending, answers, key, enqueued,
                     target, values, seenResume, queueItems, legacySent,
                     failures, moves>>
      /\ pc' = [pc EXCEPT ![s] = "signal"]
      /\ heldKey' = [heldKey EXCEPT ![s] = key[target[s]]]
  BY DEF SubmitAgain, questions, sent, bounds
<1>2. /\ pc[s] = "submit" /\ target[s] \in Action
      /\ key[target[s]] \in ResumeKey /\ key[target[s]] # None
  BY ConstantsAssumption
  DEF SubmitAgain, IsFirstSubmission, RequestsAreCurrent, AnsweredHasKey, TypeOK
<1>3. TypeOK'
  BY <1>1, <1>2 DEF TypeOK
<1>4. /\ AnsweredHasKey' /\ OpenOnlyWhenBlocked' /\ OneKeyPerQuestion'
      /\ EnqueuedWasSignalled' /\ BlockedOnItsLastQuestion'
  BY <1>1, QuestionsUntouched
<1>5. RequestsAreCurrent'
  <2>1. /\ heldKey'[s] = key[target[s]] /\ pc'[s] = "signal"
    BY <1>1 DEF TypeOK
  <2>2. \A t \in Submitter \ {s} : pc'[t] = pc[t] /\ heldKey'[t] = heldKey[t]
    BY <1>1 DEF TypeOK
  <2> QED  BY <1>1, <1>2, <2>1, <2>2 DEF RequestsAreCurrent
<1> QED  BY <1>3, <1>4, <1>5

\* The transaction fails, perhaps after it committed.
LEMMA SubmitFailsKeeps ==
    ASSUME IndInv, NEW s \in Submitter, SubmitFails(s)
    PROVE  IndInv'
<1> USE DEF IndInv
<1>1. /\ Done(s) /\ failures' \in 0..MaxFailures
      /\ UNCHANGED <<queueItems, legacySent, moves>>
  BY ConstantsAssumption DEF SubmitFails, Fail, TypeOK, sent
<1>2. CASE UNCHANGED <<app, questions>>
  <2>1. /\ queueItems' \subseteq QueueItem
        /\ legacySent' \subseteq Action \X Answer
        /\ \A i \in queueItems' : i.key = key[i.action]
    BY <1>1 DEF TypeOK, OneKeyPerQuestion
  <2> QED  BY <1>1, <1>2, <2>1, EndKeeps
<1>3. CASE /\ IsFirstSubmission(target[s])
           /\ AcceptsFirst(target[s], values[s])
           /\ \E k \in FreshKeys : Record(target[s], values[s], k)
  <2>1. PICK k \in FreshKeys : Record(target[s], values[s], k)
    BY <1>3
  <2>2. target[s] \in Action /\ values[s] \in Answer
    BY <1>3, ConstantsAssumption
    DEF SubmitFails, AcceptsFirst, RequestsAreCurrent, TypeOK
  <2>3. /\ app' \in [status: Status, resume: Resume, deleted: BOOLEAN]
        /\ pending' \in [Action -> BOOLEAN]
        /\ answers' \in [Action -> Answer \cup {None}]
        /\ key' \in [Action -> ResumeKey \cup {None}]
        /\ \A b \in Action : key[b] # None => key'[b] = key[b]
        /\ AnsweredHasKey' /\ OpenOnlyWhenBlocked' /\ OneKeyPerQuestion'
        /\ EnqueuedWasSignalled' /\ BlockedOnItsLastQuestion'
    BY <1>1, <1>3, <2>1, <2>2, RecordKeeps
  <2>4. UNCHANGED <<created, durable, enqueued>>
    BY <2>1 DEF Record
  <2>5. /\ pc' \in [Submitter -> {"idle", "legacy", "submit", "signal",
                                  "mark"}]
        /\ target' \in [Submitter -> Action \cup {None}]
        /\ values' \in [Submitter -> Answer \cup {Invalid, None}]
        /\ seenResume' \in [Submitter -> Resume \cup {None}]
        /\ heldKey' \in [Submitter -> ResumeKey \cup {None}]
        /\ RequestsAreCurrent'
    BY <1>1, <2>3, <2>4, DoneKeeps
  <2>6. TypeOK'
    BY <1>1, <2>3, <2>4, <2>5 DEF TypeOK
  <2> QED  BY <2>3, <2>5, <2>6
<1> QED  BY <1>2, <1>3 DEF SubmitFails

\* The signal reaches the pool.
LEMMA EnqueueResumeKeeps ==
    ASSUME IndInv, NEW s \in Submitter, EnqueueResume(s)
    PROVE  IndInv'
<1> USE DEF IndInv
<1>1. /\ UNCHANGED <<app, created, durable, pending, answers, key, enqueued,
                     target, values, seenResume, heldKey, legacySent,
                     failures, moves>>
      /\ pc[s] = "signal"
      /\ pc' = [pc EXCEPT ![s] = "mark"]
      /\ queueItems' = queueItems \cup {ResumeItem(s)}
  BY DEF EnqueueResume, questions, bounds
<1>2. /\ target[s] \in Action /\ seenResume[s] \in Resume
      /\ heldKey[s] \in ResumeKey /\ heldKey[s] = key[target[s]]
  BY <1>1, ConstantsAssumption DEF RequestsAreCurrent, TypeOK
<1>3. /\ ResumeItem(s) \in QueueItem
      /\ ResumeItem(s).key = key[ResumeItem(s).action]
      /\ ResumeItem(s).action = target[s]
  BY <1>2 DEF ResumeItem, QueueItem
<1>4. TypeOK'
  BY <1>1, <1>3 DEF TypeOK
<1>5. AnsweredHasKey' /\ OpenOnlyWhenBlocked' /\ BlockedOnItsLastQuestion'
  BY <1>1 DEF AnsweredHasKey, OpenOnlyWhenBlocked, BlockedOnItsLastQuestion,
              Submitted
<1>6. OneKeyPerQuestion' /\ EnqueuedWasSignalled'
  BY <1>1, <1>3 DEF OneKeyPerQuestion, EnqueuedWasSignalled
<1>7. RequestsAreCurrent'
  <2>1. pc'[s] = "mark" /\ \A t \in Submitter \ {s} : pc'[t] = pc[t]
    BY <1>1 DEF TypeOK
  <2> QED  BY <1>1, <1>3, <2>1 DEF RequestsAreCurrent
<1> QED  BY <1>4, <1>5, <1>6, <1>7

\* resume_enqueued_at is set.
LEMMA MarkEnqueuedKeeps ==
    ASSUME IndInv, NEW s \in Submitter, MarkEnqueued(s)
    PROVE  IndInv'
<1> USE DEF IndInv
<1>1. /\ UNCHANGED <<app, created, durable, pending, answers, key,
                     queueItems, legacySent, failures, moves>>
      /\ enqueued' = [enqueued EXCEPT ![target[s]] = TRUE]
      /\ pc[s] = "mark" /\ Done(s)
  BY DEF MarkEnqueued, sent, bounds
<1>2. target[s] \in Action /\ \E i \in queueItems : i.action = target[s]
  BY <1>1, ConstantsAssumption DEF RequestsAreCurrent, TypeOK
<1>3. /\ pc' \in [Submitter -> {"idle", "legacy", "submit", "signal", "mark"}]
      /\ target' \in [Submitter -> Action \cup {None}]
      /\ values' \in [Submitter -> Answer \cup {Invalid, None}]
      /\ seenResume' \in [Submitter -> Resume \cup {None}]
      /\ heldKey' \in [Submitter -> ResumeKey \cup {None}]
      /\ RequestsAreCurrent'
  BY <1>1, DoneKeeps
<1>4. TypeOK'
  BY <1>1, <1>2, <1>3 DEF TypeOK
<1>5. AnsweredHasKey' /\ OpenOnlyWhenBlocked' /\ BlockedOnItsLastQuestion'
  BY <1>1 DEF AnsweredHasKey, OpenOnlyWhenBlocked, BlockedOnItsLastQuestion,
              Submitted
<1>6. OneKeyPerQuestion' /\ EnqueuedWasSignalled'
  BY <1>1, <1>2 DEF OneKeyPerQuestion, EnqueuedWasSignalled, TypeOK
<1> QED  BY <1>3, <1>4, <1>5, <1>6

\* A restart forgets every request.
LEMMA CrashKeeps ==
    ASSUME IndInv, Crash
    PROVE  IndInv'
<1> USE DEF IndInv
<1>1. /\ UNCHANGED <<app, created, durable, pending, answers, key, enqueued,
                     queueItems, legacySent, moves>>
      /\ failures' \in 0..MaxFailures
  BY ConstantsAssumption DEF Crash, Fail, TypeOK, questions, sent
<1>2. TypeOK'
  BY <1>1 DEF Crash, TypeOK
<1>3. /\ AnsweredHasKey' /\ OpenOnlyWhenBlocked' /\ OneKeyPerQuestion'
      /\ EnqueuedWasSignalled' /\ BlockedOnItsLastQuestion'
  BY <1>1, QuestionsUntouched
<1>4. RequestsAreCurrent'
  BY DEF Crash, RequestsAreCurrent
<1> QED  BY <1>2, <1>3, <1>4

\* The other handlers and the worker.
LEMMA EnvironmentKeeps ==
    ASSUME IndInv, Environment
    PROVE  IndInv'
<1> USE DEF IndInv
<1>1. created \in 0..NumActions /\ app.status \in Status
  BY DEF TypeOK
<1>2. /\ UNCHANGED <<requests, queueItems, answers, key, enqueued>>
      /\ created' \in Nat /\ created <= created'
  BY <1>1, ConstantsAssumption
  DEF Environment, OtherHandler, PatchJobApplication, DeleteApplication,
      WorkerBlocks, WorkerGivesUp, WorkerRuns, WorkerTakesLegacy, questions,
      sent
<1>3. RequestsAreCurrent'
  BY <1>2, RequestsUntouched
<1>4. OneKeyPerQuestion' /\ EnqueuedWasSignalled'
  BY <1>2 DEF OneKeyPerQuestion, EnqueuedWasSignalled
<1>5. CASE OtherHandler
  <2>1. PICK st \in Status : /\ <<app.status, st>> \in HandlerMoves
                             /\ app' = [app EXCEPT !.status = st]
    BY <1>5 DEF OtherHandler
  <2>2. /\ app' \in [status: Status, resume: Resume, deleted: BOOLEAN]
        /\ app'.status = st
    BY <2>1 DEF TypeOK
  <2>3. /\ moves' \in 0..MaxMoves
        /\ UNCHANGED <<questions, requests, sent, failures>>
    BY <1>5, ConstantsAssumption DEF OtherHandler, Move, TypeOK
  <2>4. TypeOK'
    BY <2>2, <2>3 DEF TypeOK, questions, requests, sent
  <2>5. /\ st # "blocked"
        /\ app.status \in {"blocked", "applied"} => st = "applied"
    BY <2>1 DEF HandlerMoves
  <2>6. AnsweredHasKey' /\ OpenOnlyWhenBlocked' /\ BlockedOnItsLastQuestion'
    BY <2>2, <2>3, <2>5
    DEF AnsweredHasKey, OpenOnlyWhenBlocked, BlockedOnItsLastQuestion,
        Submitted, questions
  <2> QED  BY <1>3, <1>4, <2>4, <2>6
<1>6. CASE PatchJobApplication \/ DeleteApplication
  <2>1. /\ app' \in [status: Status, resume: Resume, deleted: BOOLEAN]
        /\ app'.status = app.status
        /\ moves' \in 0..MaxMoves
        /\ UNCHANGED <<questions, requests, sent, failures>>
    <3>1. CASE PatchJobApplication
      BY <3>1, ConstantsAssumption DEF PatchJobApplication, Move, TypeOK
    <3>2. CASE DeleteApplication
      <4>1. app' = [app EXCEPT !.deleted = TRUE]
        BY <3>2 DEF DeleteApplication
      <4>2. /\ app' \in [status: Status, resume: Resume, deleted: BOOLEAN]
            /\ app'.status = app.status
        BY <4>1 DEF TypeOK
      <4> QED  BY <3>2, <4>2, ConstantsAssumption
               DEF DeleteApplication, Move, TypeOK
    <3> QED  BY <1>6, <3>1, <3>2
  <2>2. TypeOK'
    BY <2>1 DEF TypeOK, questions, requests, sent
  <2>3. AnsweredHasKey' /\ OpenOnlyWhenBlocked' /\ BlockedOnItsLastQuestion'
    BY <2>1, QuestionsUntouched DEF questions, sent
  <2> QED  BY <1>3, <1>4, <2>2, <2>3
<1>7. CASE WorkerBlocks
  <2>1. /\ created' = created + 1 /\ created' \in Action
        /\ app'.status = "blocked"
        /\ UNCHANGED <<answers, key>>
    BY <1>1, <1>7, ConstantsAssumption DEF WorkerBlocks, TypeOK
  <2>2. TypeOK'
    BY <1>7, <2>1 DEF WorkerBlocks, TypeOK, Status, requests, sent, bounds
  <2>3. \A a \in Action : pending'[a] <=> a = created'
    BY <1>1, <1>7, <2>1 DEF WorkerBlocks, TypeOK, OpenOnlyWhenBlocked
  <2>4. ~Submitted(created + 1)
    BY <1>1, <2>1 DEF AnsweredHasKey
  <2>5. AnsweredHasKey' /\ OpenOnlyWhenBlocked' /\ BlockedOnItsLastQuestion'
    BY <1>1, <2>1, <2>3, <2>4
    DEF AnsweredHasKey, OpenOnlyWhenBlocked, BlockedOnItsLastQuestion,
        Submitted
  <2> QED  BY <1>3, <1>4, <2>2, <2>5
<1>8. CASE WorkerGivesUp \/ \E a \in Action : WorkerTakesLegacy(a)
  <2>1. /\ app' \in [status: Status, resume: Resume, deleted: BOOLEAN]
        /\ app'.status # "blocked"
        /\ UNCHANGED <<created, durable, answers, key, enqueued, requests,
                       sent, bounds>>
    BY <1>8 DEF WorkerGivesUp, WorkerTakesLegacy, TypeOK, Status
  <2>2. pending' = [a \in Action |-> FALSE]
    BY <1>8 DEF WorkerGivesUp, WorkerTakesLegacy, TypeOK, OpenOnlyWhenBlocked
  <2>3. TypeOK'
    BY <2>1, <2>2 DEF TypeOK, requests, sent, bounds
  <2>4. AnsweredHasKey' /\ OpenOnlyWhenBlocked' /\ BlockedOnItsLastQuestion'
    BY <2>1, <2>2
    DEF AnsweredHasKey, OpenOnlyWhenBlocked, BlockedOnItsLastQuestion,
        Submitted
  <2> QED  BY <1>3, <1>4, <2>3, <2>4
<1>9. CASE WorkerRuns
  <2>1. /\ app' \in [status: Status, resume: Resume, deleted: BOOLEAN]
        /\ app'.status # "blocked" /\ app.status \notin {"blocked", "applied"}
        /\ UNCHANGED <<questions, requests, sent, bounds>>
    BY <1>9 DEF WorkerRuns, TypeOK, Status
  <2>2. TypeOK'
    BY <2>1 DEF TypeOK, questions, requests, sent, bounds
  <2>3. AnsweredHasKey' /\ OpenOnlyWhenBlocked' /\ BlockedOnItsLastQuestion'
    BY <2>1
    DEF AnsweredHasKey, OpenOnlyWhenBlocked, BlockedOnItsLastQuestion,
        Submitted, questions
  <2> QED  BY <1>3, <1>4, <2>2, <2>3
<1> QED  BY <1>5, <1>6, <1>7, <1>8, <1>9 DEF Environment

-----------------------------------------------------------------------------
(* The theorems.                                                           *)

LEMMA StepIndInv == IndInv /\ [Next]_vars => IndInv'
<1> SUFFICES ASSUME IndInv, [Next]_vars PROVE IndInv'
  OBVIOUS
<1>1. CASE Next
  <2>1. ASSUME NEW s \in Submitter, Submit(s)  PROVE IndInv'
    BY <2>1, EndingKeeps, SubmitFirstKeeps, SubmitAgainKeeps,
       SubmitFailsKeeps, EnqueueResumeKeeps, MarkEnqueuedKeeps DEF Submit
  <2> QED  BY <1>1, <2>1, ReadKeeps, CrashKeeps, EnvironmentKeeps DEF Next
<1>2. CASE UNCHANGED vars
  BY <1>2 DEF vars, questions, requests, sent, bounds, IndInv, TypeOK,
              RequestsAreCurrent, AnsweredHasKey, OpenOnlyWhenBlocked,
              OneKeyPerQuestion, EnqueuedWasSignalled,
              BlockedOnItsLastQuestion, Submitted
<1> QED  BY <1>1, <1>2

\* The inductive invariant holds of every reachable state.
THEOREM Invariance == Spec => []IndInv
  BY InitIndInv, StepIndInv, PTL DEF Spec

\* Rows, requests and messages are always well-typed: in particular no
\* request signals without a resume_workflow_id.
THEOREM TypeCorrect == Spec => []TypeOK
<1>1. IndInv => TypeOK
  BY DEF IndInv
<1> QED  BY <1>1, Invariance, PTL

\* However many requests race, retry or die: one resume_workflow_id per
\* question, and every queue item carries it.
THEOREM OneKey == Spec => []OneKeyPerQuestion
<1>1. IndInv => OneKeyPerQuestion
  BY DEF IndInv
<1> QED  BY <1>1, Invariance, PTL

\* resume_enqueued_at is never set before the pool was signalled.
THEOREM EnqueuedSignalled == Spec => []EnqueuedWasSignalled
<1>1. IndInv => EnqueuedWasSignalled
  BY DEF IndInv
<1> QED  BY <1>1, Invariance, PTL

\* A blocked application always has its last question, and no other, to
\* answer.
THEOREM BlockedHasQuestion == Spec => []BlockedOnItsLastQuestion
<1>1. IndInv => BlockedOnItsLastQuestion
  BY DEF IndInv
<1> QED  BY <1>1, Invariance, PTL

-----------------------------------------------------------------------------
(* UserAction implements DurableResume.                                    *)

LEMMA InitRefines == Init => DR!Init
<1> SUFFICES ASSUME Init PROVE DR!Init
  OBVIOUS
<1>1. {<<i.action, i.key>> : i \in queueItems} = {}
  BY DEF Init
<1>2. {a \in Action : enqueued[a]} = {}
  BY DEF Init
<1> QED  BY <1>1, <1>2 DEF Init, DR!Init

\* A committed first submission is Record.
LEMMA RecordRefines ==
    ASSUME IndInv, NEW a \in Action, NEW v \in Answer, NEW k \in FreshKeys,
           IsFirstSubmission(a), Record(a, v, k), queueItems' = queueItems
    PROVE  DR!Record(a)
<1>1. /\ answers[a] = None /\ answers' = [answers EXCEPT ![a] = v]
      /\ key' = [key EXCEPT ![a] = k] /\ enqueued' = enqueued
      /\ k \in ResumeKey /\ \A b \in Action : key[b] # k
  BY DEF IsFirstSubmission, Submitted, Record, FreshKeys
<1> QED  BY <1>1 DEF DR!Record

\* A signal that reached the pool is Announce.
LEMMA ResumeRefines ==
    ASSUME IndInv, NEW s \in Submitter, pc[s] = "signal",
           queueItems' = queueItems \cup {ResumeItem(s)},
           UNCHANGED <<answers, key, enqueued>>
    PROVE  DR!Next
<1>1. /\ target[s] \in Action /\ heldKey[s] # None
      /\ heldKey[s] = key[target[s]]
  BY ConstantsAssumption DEF IndInv, RequestsAreCurrent, TypeOK
<1>2. answers[target[s]] # None
  BY <1>1 DEF IndInv, AnsweredHasKey, Submitted
<1>3. /\ ResumeItem(s).action = target[s]
      /\ ResumeItem(s).key = key[target[s]]
  BY <1>1 DEF ResumeItem
<1>4. {<<i.action, i.key>> : i \in queueItems'} =
      {<<i.action, i.key>> : i \in queueItems}
          \cup {<<target[s], key[target[s]]>>}
  BY <1>3
<1> QED  BY <1>1, <1>2, <1>4 DEF DR!Next, DR!Announce

\* resume_enqueued_at set is Settle.
LEMMA SettleRefines ==
    ASSUME IndInv, NEW s \in Submitter, MarkEnqueued(s)
    PROVE  DR!Next
<1>1. /\ pc[s] = "mark"
      /\ enqueued' = [enqueued EXCEPT ![target[s]] = TRUE]
      /\ UNCHANGED <<answers, key, queueItems>>
  BY DEF MarkEnqueued, sent
<1>2. target[s] \in Action /\ \E i \in queueItems : i.action = target[s]
  BY <1>1, ConstantsAssumption DEF IndInv, RequestsAreCurrent, TypeOK
<1>3. PICK i \in queueItems : i.action = target[s]
  BY <1>2
<1>4. i.key = key[target[s]]
  BY <1>3 DEF IndInv, OneKeyPerQuestion
<1>5. <<target[s], key[target[s]]>> \in
          {<<j.action, j.key>> : j \in queueItems}
  BY <1>3, <1>4
<1>6. {a \in Action : enqueued'[a]} =
      {a \in Action : enqueued[a]} \cup {target[s]}
  BY <1>1, <1>2 DEF IndInv, TypeOK
<1> QED  BY <1>1, <1>2, <1>5, <1>6 DEF DR!Next, DR!Settle

\* Every step is a step of DurableResume or changes nothing it sees.
LEMMA StepRefines == IndInv /\ [Next]_vars => [DR!Next]_DR!vars
<1> SUFFICES ASSUME IndInv, [Next]_vars PROVE [DR!Next]_DR!vars
  OBVIOUS
<1>1. ASSUME UNCHANGED <<answers, key, queueItems, enqueued>>
      PROVE  UNCHANGED DR!vars
  BY <1>1 DEF DR!vars
<1>2. \A s \in Submitter :
          pc[s] # "idle" => /\ target[s] \in Action
                            /\ values[s] # Invalid => values[s] \in Answer
  BY ConstantsAssumption DEF IndInv, RequestsAreCurrent, TypeOK
<1>3. ASSUME NEW s \in Submitter, SubmitFirst(s)  PROVE DR!Next
  <2>1. /\ target[s] \in Action /\ values[s] \in Answer
        /\ IsFirstSubmission(target[s]) /\ queueItems' = queueItems
        /\ \E k \in FreshKeys : Record(target[s], values[s], k)
    BY <1>2, <1>3 DEF SubmitFirst, AcceptsFirst, sent
  <2> QED  BY <2>1, RecordRefines DEF DR!Next
<1>4. ASSUME NEW s \in Submitter, SubmitFails(s)
      PROVE  DR!Next \/ UNCHANGED DR!vars
  <2>1. CASE UNCHANGED <<app, questions>>
    BY <1>1, <1>4, <2>1 DEF SubmitFails, questions, sent
  <2>2. CASE /\ IsFirstSubmission(target[s])
             /\ AcceptsFirst(target[s], values[s])
             /\ \E k \in FreshKeys : Record(target[s], values[s], k)
    <3>1. /\ target[s] \in Action /\ values[s] \in Answer
          /\ queueItems' = queueItems
      BY <1>2, <1>4, <2>2 DEF SubmitFails, AcceptsFirst, sent
    <3> QED  BY <2>2, <3>1, RecordRefines DEF DR!Next
  <2> QED  BY <1>4, <2>1, <2>2 DEF SubmitFails
<1>5. ASSUME NEW s \in Submitter, EnqueueResume(s)  PROVE DR!Next
  BY <1>5, ResumeRefines DEF EnqueueResume, questions
<1>6. ASSUME NEW s \in Submitter, EnqueueFails(s)
      PROVE  DR!Next \/ UNCHANGED DR!vars
  <2>1. CASE queueItems' = queueItems
    BY <1>1, <1>6, <2>1 DEF EnqueueFails, questions
  <2>2. CASE queueItems' = queueItems \cup {ResumeItem(s)}
    BY <1>6, <2>2, ResumeRefines DEF EnqueueFails, questions
  <2> QED  BY <1>6, <2>1, <2>2 DEF EnqueueFails
<1>7. ASSUME NEW s \in Submitter, MarkEnqueued(s)  PROVE DR!Next
  BY <1>7, SettleRefines
<1>8. ASSUME NEW s \in Submitter,
             \/ SubmitLegacy(s) \/ SubmitAgain(s) \/ SubmitRefused(s)
             \/ MarkFails(s) \/ Read(s)
      PROVE  UNCHANGED DR!vars
  BY <1>1, <1>8 DEF SubmitLegacy, SubmitAgain, SubmitRefused, MarkFails, Read,
                    ReadUserAction, questions, sent
<1>9. ASSUME Crash \/ Environment  PROVE UNCHANGED DR!vars
  BY <1>1, <1>9
  DEF Crash, Environment, OtherHandler, PatchJobApplication,
      DeleteApplication, WorkerBlocks, WorkerTakesLegacy, WorkerGivesUp,
      WorkerRuns, questions, sent
<1>10. ASSUME UNCHANGED vars  PROVE UNCHANGED DR!vars
  BY <1>1, <1>10 DEF vars, questions, sent
<1> QED  BY <1>3, <1>4, <1>5, <1>6, <1>7, <1>8, <1>9, <1>10
         DEF Next, Submit

\* SubmitUserAction with all its races, retries and failures implements the
\* durable pause of DurableResume.
THEOREM Refinement == Spec => ImplementsDurableResume
  BY InitRefines, StepRefines, Invariance, PTL
  DEF Spec, ImplementsDurableResume, DR!Spec
=============================================================================
