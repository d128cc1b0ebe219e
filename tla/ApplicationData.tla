--------------------------- MODULE ApplicationData ---------------------------
(***************************************************************************)
(* The questions and answers of one application, the jsonb column          *)
(* questions of job_application_data: AutofillApplication and              *)
(* SyncApplicationData of endpoints/jobapplication/extension merge what    *)
(* they bring into what they read, and write the whole list.               *)
(*                                                                         *)
(* A handler reads the list before its transaction, an autofill even       *)
(* before a workflow that takes minutes.  The transaction looks only for   *)
(* the row, updates or creates it, and commits; from the write to the      *)
(* commit the row is locked and the old list is visible, so both are one   *)
(* action.  The cover letter of a sync is in module CoverLetter.           *)
(***************************************************************************)
EXTENDS Naturals, Sequences, SequencesExt

CONSTANTS
    Autofill,     \* requests to AutofillApplication
    Sync,         \* requests to SyncApplicationData
    Key,          \* what texts have in common after trimming and lower-casing
    Blank,        \* ... those of white space only
    Answer,       \* answers with something in them
    NoAnswer,     \* answers of white space only
    Input,        \* the entries requests may bring
    MaxLength,    \* bound on the entries one request brings
    MaxFailures,  \* bound on failing calls
    None          \* no row

\* A text as the page, the user or the model wrote it.
Text == [key: Key \cup {Blank}, form: {"plain", "cased", "padded"}]

\* Whether a question is optional travels with its answer and is left out.
Entry == [question: Text, answer: Answer \cup {NoAnswer}]
Answered == [question: Text, answer: Answer]

ASSUME ConstantsAssumption ==
    /\ Autofill \cap Sync = {}
    /\ Blank \notin Key
    /\ NoAnswer \notin Answer
    /\ Input \subseteq Entry
    /\ None \notin Seq(Entry)
    /\ MaxLength \in Nat
    /\ MaxFailures \in Nat

Request == Autofill \cup Sync

VARIABLES
    stored,    \* the committed list, None without a row
    pc,        \* where each request stands
    seen,      \* the list it read
    incoming,  \* the entries it brings
    found,     \* the requests whose transaction found a row
    failures

vars == <<stored, pc, seen, incoming, found, failures>>

-----------------------------------------------------------------------------
(* mergeJobApplicationQuestions.                                           *)

Trim(text) ==
    IF text.form = "padded" THEN [text EXCEPT !.form = "plain"] ELSE text

PositionsOf(list, key) == {i \in DOMAIN list : list[i].question.key = key}

UpsertKeepsOldAnswer(list, entry) ==
    LET same == PositionsOf(list, entry.question.key) IN
    IF entry.question.key = Blank \/ same # {}
    THEN list
    ELSE Append(list, [entry EXCEPT !.question = Trim(@)])

\* A question known by its trimmed, lower-cased text keeps its place and gets
\* the new spelling and answer, a new one goes to the end, a blank one is
\* dropped.
Upsert(list, entry) ==
    LET trimmed == [entry EXCEPT !.question = Trim(@)]
        same    == PositionsOf(list, entry.question.key)
    IN CASE entry.question.key = Blank -> list
         [] entry.question.key # Blank /\ same = {} -> Append(list, trimmed)
         [] OTHER -> [i \in DOMAIN list |->
                         IF i \in same THEN trimmed ELSE list[i]]

MergeIncomingOnly(existing, new) == FoldLeft(Upsert, <<>>, new)

Merge(existing, new) ==
    FoldLeft(Upsert, <<>>, IF existing = None THEN new ELSE existing \o new)

-----------------------------------------------------------------------------
Lists == UNION {[1..n -> Input] : n \in 0..MaxLength}

\* Types; an autofill brings only entries with an answer.
TypeOK ==
    /\ stored = None \/ stored \in Seq(Entry)
    /\ pc \in [Request -> {"idle", "workflow", "find", "write", "done"}]
    /\ seen \in [Request -> Seq(Entry) \cup {None}]
    /\ incoming \in [Request -> Seq(Entry)]
    /\ \A r \in Autofill : incoming[r] \in Seq(Answered)
    /\ found \subseteq Request
    /\ failures \in 0..MaxFailures

Init ==
    /\ stored = None
    /\ pc = [r \in Request |-> "idle"]
    /\ seen = [r \in Request |-> None]
    /\ incoming = [r \in Request |-> <<>>]
    /\ found = {}
    /\ failures = 0

Step(r, from, to) == pc[r] = from /\ pc' = [pc EXCEPT ![r] = to]

\* A sync brings its entries with it.
SyncRead(r) ==
    /\ r \in Sync
    /\ Step(r, "idle", "find")
    /\ seen' = [seen EXCEPT ![r] = stored]
    /\ \E list \in Lists : incoming' = [incoming EXCEPT ![r] = list]
    /\ UNCHANGED <<stored, found, failures>>

AutofillRead(r) ==
    /\ r \in Autofill
    /\ Step(r, "idle", "workflow")
    /\ seen' = [seen EXCEPT ![r] = stored]
    /\ UNCHANGED <<stored, incoming, found, failures>>

KeepBlankAnswers(list) == list
KeepAnswered(kept, entry) ==
    IF entry.answer = NoAnswer THEN kept ELSE Append(kept, entry)

DropBlankAnswers(list) == FoldLeft(KeepAnswered, <<>>, list)

\* AutofillApplicationWorkflow returns; without an answer nothing is saved.
AutofillReturns(r) ==
    \E list \in Lists :
        LET answered == DropBlankAnswers(list) IN
        /\ Step(r, "workflow", IF answered = <<>> THEN "done" ELSE "find")
        /\ incoming' = [incoming EXCEPT ![r] = answered]
        /\ UNCHANGED <<stored, seen, found, failures>>

\* The transaction begins and looks for the row.
Find(r) ==
    /\ Step(r, "find", "write")
    /\ found' = IF stored # None THEN found \cup {r} ELSE found
    /\ UNCHANGED <<stored, seen, incoming, failures>>

\* Two creations collide on the unique job application.
Collides(r) == r \notin found /\ stored # None

Write(r) ==
    /\ ~Collides(r)
    /\ Step(r, "write", "done")
    /\ stored' = Merge(seen[r], incoming[r])
    /\ UNCHANGED <<seen, incoming, found, failures>>

\* A call fails, or the creation collides: the request ends and saves
\* nothing, unless it was the commit that failed after all.
Fails(r) ==
    /\ \E place \in {"workflow", "find", "write"} : Step(r, place, "done")
    /\ \/ /\ pc[r] = "write" /\ Collides(r)
          /\ UNCHANGED <<stored, failures>>
       \/ /\ failures < MaxFailures
          /\ failures' = failures + 1
          /\ \/ UNCHANGED stored
             \/ /\ pc[r] = "write" /\ ~Collides(r)
                /\ stored' = Merge(seen[r], incoming[r])
    /\ UNCHANGED <<seen, incoming, found>>

Next == \E r \in Request :
            \/ SyncRead(r) \/ AutofillRead(r) \/ AutofillReturns(r)
            \/ Find(r) \/ Write(r) \/ Fails(r)

Spec == Init /\ [][Next]_vars

-----------------------------------------------------------------------------
(* Properties.                                                             *)

Keys(list) == {list[i].question.key : i \in DOMAIN list}

\* What merging means: a question appears where the first entry for it was,
\* with the answer of the last.
FirstAt(list, key) ==
    CHOOSE i \in PositionsOf(list, key) : \A j \in PositionsOf(list, key) : i <= j
LastAt(list, key) ==
    CHOOSE i \in PositionsOf(list, key) : \A j \in PositionsOf(list, key) : i >= j

IsMergeOf(out, list) ==
    /\ Keys(out) = Keys(list) \ {Blank}
    /\ \A i \in DOMAIN out :
           LET last == list[LastAt(list, out[i].question.key)] IN
           /\ out[i].answer = last.answer
           /\ out[i].question = Trim(last.question)
    /\ \A i, j \in DOMAIN out :
           i < j => FirstAt(list, out[i].question.key)
                        < FirstAt(list, out[j].question.key)

\* Every list a handler is about to write is the merge of what it read and
\* what it brings: one entry per question, none blank, in the order they
\* first came, with the trimmed text and the answer that came last.
\* (mergeJobApplicationQuestions: "so duplicates collapse to a single answer")
MergesReadAndIncoming ==
    \A r \in Request :
        pc[r] = "write" =>
            IsMergeOf(Merge(seen[r], incoming[r]),
                      IF seen[r] = None THEN incoming[r]
                      ELSE seen[r] \o incoming[r])

AnswerTo(list, key) == list[LastAt(list, key)].answer

Writes(r) == pc[r] = "write" /\ stored' # stored /\ pc'[r] # pc[r]

\* Only an overlap loses anything: a write whose request read the list that
\* is still stored removes no question, and if it is an autofill it replaces
\* no answer by a blank one.  (Both handlers write the whole list they
\* folded from what they read, however long ago; AutofillApplication drops
\* what it could not answer.)
WriteLosesNothing ==
    \A r \in Request :
        Writes(r) /\ seen[r] = stored /\ stored # None =>
            \A k \in Keys(stored) :
                /\ k \in Keys(stored')
                /\ r \in Autofill /\ AnswerTo(stored, k) # NoAnswer =>
                       AnswerTo(stored', k) # NoAnswer

OnlyOverlapsLose == [][WriteLosesNothing]_vars

-----------------------------------------------------------------------------
(* The inductive invariant behind them.                                    *)

\* What is stored was merged: nothing in it is blank.
StoredIsMerged == stored # None => Blank \notin Keys(stored)

IndInv ==
    /\ TypeOK
    /\ StoredIsMerged
    /\ MergesReadAndIncoming
=============================================================================
