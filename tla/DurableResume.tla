--------------------------- MODULE DurableResume ---------------------------
(***************************************************************************)
(* What a durable pause promises, with no requests, retries or failures in *)
(* sight.  A paused application asks a question; one answer is recorded    *)
(* for it, once and for all, together with the id of the workflow that     *)
(* will resume the application; then the pool is told to resume under that *)
(* id, perhaps repeatedly; and only then the resume counts as enqueued.    *)
(***************************************************************************)
CONSTANTS
    Question,   \* the durable pauses
    Reply,      \* the answers a user may give
    ResumeId,   \* ids for resumed workflows
    NoReply     \* not answered yet, no id yet

VARIABLES
    answer,     \* the recorded answer of each question
    resumeId,   \* the workflow id recorded with it
    resumed,    \* <<question, id>>: resumes the pool was told of
    settled     \* the questions whose resume counts as enqueued

vars == <<answer, resumeId, resumed, settled>>

Init ==
    /\ answer = [q \in Question |-> NoReply]
    /\ resumeId = [q \in Question |-> NoReply]
    /\ resumed = {}
    /\ settled = {}

\* The first answer is recorded, with an id no other question uses.
Record(q) ==
    /\ answer[q] = NoReply
    /\ \E v \in Reply : answer' = [answer EXCEPT ![q] = v]
    /\ \E k \in ResumeId :
        /\ \A p \in Question : resumeId[p] # k
        /\ resumeId' = [resumeId EXCEPT ![q] = k]
    /\ UNCHANGED <<resumed, settled>>

\* The pool is told to resume, always under the recorded id.
Announce(q) ==
    /\ answer[q] # NoReply
    /\ resumed' = resumed \cup {<<q, resumeId[q]>>}
    /\ UNCHANGED <<answer, resumeId, settled>>

Settle(q) ==
    /\ <<q, resumeId[q]>> \in resumed
    /\ settled' = settled \cup {q}
    /\ UNCHANGED <<answer, resumeId, resumed>>

Next == \E q \in Question : Record(q) \/ Announce(q) \/ Settle(q)

Spec == Init /\ [][Next]_vars
=============================================================================
