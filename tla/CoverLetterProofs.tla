-------------------------- MODULE CoverLetterProofs --------------------------
(***************************************************************************)
(* Proofs about CoverLetter, for every number of generations, syncs,       *)
(* failures and restarts: IndInv is inductive, hence its conjuncts are     *)
(* invariants.                                                             *)
(***************************************************************************)
EXTENDS CoverLetter, TLAPS

USE DEF Step, SyncStep

-----------------------------------------------------------------------------
LEMMA InitIndInv == Init => IndInv
<1> SUFFICES ASSUME Init PROVE IndInv
  OBVIOUS
<1>1. TypeOK
  BY ConstantsAssumption DEF Init, TypeOK, Letter
<1>2. /\ ReadyHasText /\ NothingLeftProcessing
      /\ VerdictEndsGeneration /\ OneVerdictPerGeneration
  BY DEF Init, ReadyHasText, NothingLeftProcessing, VerdictEndsGeneration,
         OneVerdictPerGeneration
<1> QED  BY <1>1, <1>2 DEF IndInv

\* What an upsert leaves in the row is a letter.
LEMMA UpsertedType ==
    ASSUME TypeOK, NEW r \in Text, NEW status \in {"processing", "ready"},
           NEW wf \in Generation \cup {None},
           NEW body \in Text \cup {Blank, None}
    PROVE  /\ Upserted(r, status, wf, body) \in Letter
           /\ Upserted(r, status, wf, body).status = status
           /\ Upserted(r, status, wf, body).wf = wf
           /\ body # None => Upserted(r, status, wf, body).body = body
<1>1. Upserted(r, status, wf, body) \in Letter
  BY DEF TypeOK, Letter, Upserted
<1>2. /\ Upserted(r, status, wf, body).status = status
      /\ Upserted(r, status, wf, body).wf = wf
      /\ body # None => Upserted(r, status, wf, body).body = body
  BY DEF TypeOK, Letter, Upserted
<1> QED  BY <1>1, <1>2

-----------------------------------------------------------------------------
(* The steps of a generation.                                              *)

\* A generation starts: the row is marked, or only looked for.
LEMMA StartKeeps ==
    ASSUME IndInv, NEW g \in Generation,
           \/ Start(g) \/ RegenerateWrite(g) \/ GenerateUpsert(g)
           \/ GenerateCollides(g) \/ StartFails(g) \/ StartReplyLost(g)
    PROVE  IndInv'
<1> USE DEF IndInv
<1>1. PICK place \in {"running", "write", "done"} :
          /\ pc' = [pc EXCEPT ![g] = place]
          /\ letter' # letter =>
                 /\ letter' \in Letter
                 /\ letter'.status = "processing" /\ letter'.wf = g
                 /\ place = "running" \/ g \in orphaned'
  <2>1. /\ Marked(g) \in Letter
        /\ Marked(g).status = "processing" /\ Marked(g).wf = g
    BY DEF Marked, Letter
  <2>2. LET row == Upserted(g, "processing", g, None)
        IN  row \in Letter /\ row.status = "processing" /\ row.wf = g
    BY UpsertedType DEF Text
  <2>3. CASE CreateCoverLetter(g) \/ RegenerateWrite(g)
    BY <2>1, <2>3 DEF CreateCoverLetter, RegenerateWrite
  <2>4. CASE GenerateUpsert(g)
    BY <2>2, <2>4 DEF GenerateUpsert
  <2>5. CASE StartReplyLost(g)
    BY <2>1, <2>2, <2>5 DEF StartReplyLost
  <2>6. CASE \/ RegenerateRead(g) \/ GenerateFind(g) \/ GenerateCollides(g)
             \/ StartFails(g)
    BY <2>6 DEF RegenerateRead, GenerateFind, GenerateCollides, StartFails
  <2> QED  BY <2>3, <2>4, <2>5, <2>6 DEF Start
<1>2. /\ UNCHANGED <<attached, syncPc, events, logged, crashes>>
      /\ pc[g] \in {"idle", "write"}
      /\ found' \subseteq Text
      /\ orphaned \subseteq orphaned' /\ orphaned' \subseteq Generation
      /\ failures' \in 0..MaxFailures
  BY ConstantsAssumption
  DEF Start, CreateCoverLetter, RegenerateRead, GenerateFind, RegenerateWrite,
      GenerateUpsert, GenerateCollides, StartFails, StartReplyLost, Fail,
      TypeOK, Text, faults
<1>3. pc'[g] = place /\ \A h \in Generation \ {g} : pc'[h] = pc[h]
  BY <1>1 DEF TypeOK
<1>4. TypeOK'
  BY <1>1, <1>2 DEF TypeOK
<1>5. ReadyHasText'
  BY <1>1 DEF ReadyHasText
<1>6. NothingLeftProcessing'
  <2>1. CASE letter' = letter
    BY <1>2, <1>3, <2>1 DEF NothingLeftProcessing
  <2>2. CASE letter' # letter
    BY <1>1, <1>3, <2>2 DEF NothingLeftProcessing
  <2> QED  BY <2>1, <2>2
<1>7. VerdictEndsGeneration' /\ OneVerdictPerGeneration'
  BY <1>2, <1>3
  DEF VerdictEndsGeneration, OneVerdictPerGeneration, TypeOK
<1> QED  BY <1>4, <1>5, <1>6, <1>7

\* The goroutine waits for its workflow and writes what came of it.
LEMMA OutcomeKeeps ==
    ASSUME IndInv, NEW g \in Generation,
           \/ WorkflowReturns(g) \/ WorkflowFails(g) \/ PersistCoverLetter(g)
           \/ PersistFails(g) \/ MarkCoverLetterFailed(g)
    PROVE  IndInv'
<1> USE DEF IndInv
<1>1. /\ UNCHANGED <<attached, syncPc, found, events, orphaned, crashes>>
      /\ pc[g] \in {"running", "persist", "fail"}
      /\ failures' \in 0..MaxFailures
      /\ logged \subseteq logged' /\ logged' \subseteq Generation
  BY ConstantsAssumption
  DEF WorkflowReturns, WorkflowFails, PersistCoverLetter, PersistFails,
      MarkCoverLetterFailed, Fail, TypeOK, faults
<1> DEFINE ready  == [letter EXCEPT !.status = "ready", !.body = g]
           failed == [letter EXCEPT !.status = "failed", !.reason = g]
<1>2. PICK place \in {"persist", "fail", "publishReady", "publishFailed"} :
          /\ pc' = [pc EXCEPT ![g] = place]
          /\ letter' \in {letter, ready, failed}
          /\ letter' = letter => place \in {"persist", "fail"} \/ g \in logged'
                                 \/ letter \in {ready, failed}
  <2>1. CASE WorkflowReturns(g) \/ WorkflowFails(g)
    BY <2>1 DEF WorkflowReturns, WorkflowFails
  <2>2. CASE PersistCoverLetter(g)
    BY <2>2 DEF PersistCoverLetter
  <2>3. CASE PersistFails(g)
    BY <2>3 DEF PersistFails
  <2>4. CASE MarkCoverLetterFailed(g)
    BY <2>4 DEF MarkCoverLetterFailed
  <2> QED  BY <2>1, <2>2, <2>3, <2>4
<1>3. pc'[g] = place /\ \A h \in Generation \ {g} : pc'[h] = pc[h]
  BY <1>2 DEF TypeOK
<1>4. /\ ready \in Letter /\ ready.status = "ready" /\ ready.body = g
      /\ failed \in Letter /\ failed.status = "failed"
      /\ letter' \in Letter
  BY <1>2 DEF TypeOK, Letter, Text
<1> HIDE DEF ready, failed
<1>5. TypeOK'
  BY <1>1, <1>2, <1>4 DEF TypeOK
<1>6. ReadyHasText'
  BY <1>2, <1>4, ConstantsAssumption DEF ReadyHasText
<1>7. NothingLeftProcessing'
  BY <1>1, <1>2, <1>3, <1>4 DEF NothingLeftProcessing
<1>8. VerdictEndsGeneration' /\ OneVerdictPerGeneration'
  BY <1>1, <1>3
  DEF VerdictEndsGeneration, OneVerdictPerGeneration, TypeOK
<1> QED  BY <1>5, <1>6, <1>7, <1>8

\* It tells the user, once.
LEMMA PublishKeeps ==
    ASSUME IndInv, NEW g \in Generation, PublishReady(g) \/ PublishFailed(g)
    PROVE  IndInv'
<1> USE DEF IndInv
<1>1. PICK from \in {"publishReady", "publishFailed"},
           event \in {"ready", "failed"} : Publish(g, from, event)
  BY DEF PublishReady, PublishFailed
<1>2. /\ UNCHANGED <<attached, letter, syncPc, found, orphaned, crashes>>
      /\ pc[g] = from /\ pc' = [pc EXCEPT ![g] = "done"]
      /\ events' \in {events, events \cup {<<event, g>>}}
      /\ failures' \in 0..MaxFailures
      /\ logged \subseteq logged' /\ logged' \subseteq Generation
  BY <1>1, ConstantsAssumption DEF Publish, Fail, TypeOK
<1>3. pc'[g] = "done" /\ \A h \in Generation \ {g} : pc'[h] = pc[h]
  BY <1>2 DEF TypeOK
<1>4. TypeOK'
  BY <1>2 DEF TypeOK
<1>5. ReadyHasText'
  BY <1>2 DEF ReadyHasText
<1>6. NothingLeftProcessing'
  BY <1>2, <1>3 DEF NothingLeftProcessing
<1>7. \A e \in events : e[2] # g
  BY <1>2 DEF VerdictEndsGeneration
<1>8. VerdictEndsGeneration'
  BY <1>2, <1>3 DEF VerdictEndsGeneration, TypeOK
<1>9. OneVerdictPerGeneration'
  <2> SUFFICES ASSUME NEW h \in Generation,
                      <<"ready", h>> \in events', <<"failed", h>> \in events'
               PROVE  FALSE
    BY DEF OneVerdictPerGeneration
  <2>1. h = g
    BY <1>2 DEF OneVerdictPerGeneration
  <2>2. <<"ready", g>> \notin events /\ <<"failed", g>> \notin events
    BY <1>7
  <2> QED  BY <1>2, <2>1, <2>2
<1> QED  BY <1>4, <1>5, <1>6, <1>8, <1>9

-----------------------------------------------------------------------------
\* A sync writes a text or nothing, and moves no goroutine.
LEMMA SyncKeeps ==
    ASSUME IndInv, NEW s \in Sync, SyncBegin(s) \/ Synchronize(s)
    PROVE  IndInv'
<1> USE DEF IndInv
<1>1. /\ UNCHANGED <<attached, pc, events, orphaned, logged, crashes>>
      /\ failures' \in 0..MaxFailures
  BY ConstantsAssumption
  DEF SyncBegin, Synchronize, SyncCheck, SyncFind, SyncUpsert, SyncReplyLost,
      SyncRollsBack, Fail, TypeOK, faults
<1>2. /\ syncPc' \in [Sync -> {"idle", "check", "find", "write", "done"}]
      /\ found' \subseteq Text
  <2>1. CASE \/ SyncBegin(s) \/ SyncCheck(s) \/ SyncUpsert(s)
             \/ SyncReplyLost(s) \/ SyncRollsBack(s)
    <3>1. PICK place \in {"check", "find", "done"} :
              syncPc' = [syncPc EXCEPT ![s] = place]
      BY <2>1 DEF SyncBegin, SyncCheck, SyncUpsert, SyncReplyLost, SyncWrites,
                  SyncRollsBack
    <3>2. found' = found
      BY <2>1 DEF SyncBegin, SyncCheck, SyncUpsert, SyncReplyLost, SyncRollsBack
    <3> QED  BY <3>1, <3>2 DEF TypeOK
  <2>2. CASE SyncFind(s)
    BY <2>2 DEF SyncFind, TypeOK, Text
  <2> QED  BY <2>1, <2>2 DEF Synchronize
<1>3. \/ letter' = letter
      \/ /\ letter' \in Letter
         /\ letter'.status = "ready" /\ letter'.body # None
         /\ letter'.wf = None
  <2>1. CASE SyncUpsert(s) \/ SyncReplyLost(s)
    <3>1. PICK text \in {s, Blank} : letter' = Upserted(s, "ready", None, text)
      BY <2>1 DEF SyncUpsert, SyncReplyLost, SyncWrites
    <3> QED  BY <3>1, UpsertedType, ConstantsAssumption DEF Text
  <2>2. CASE SyncBegin(s) \/ SyncCheck(s) \/ SyncFind(s) \/ SyncRollsBack(s)
    BY <2>2 DEF SyncBegin, SyncCheck, SyncFind, SyncRollsBack
  <2> QED  BY <2>1, <2>2 DEF Synchronize
<1>4. TypeOK'
  BY <1>1, <1>2, <1>3 DEF TypeOK
<1>5. ReadyHasText' /\ NothingLeftProcessing'
  BY <1>1, <1>3 DEF ReadyHasText, NothingLeftProcessing
<1>6. VerdictEndsGeneration' /\ OneVerdictPerGeneration'
  BY <1>1 DEF VerdictEndsGeneration, OneVerdictPerGeneration
<1> QED  BY <1>4, <1>5, <1>6

\* A restart leaves the row and the events as they are.
LEMMA CrashKeeps ==
    ASSUME IndInv, Crash
    PROVE  IndInv'
<1> USE DEF IndInv
<1>1. /\ UNCHANGED <<attached, letter, found, events, orphaned, logged,
                     failures>>
      /\ crashes' \in 0..MaxCrashes /\ crashes' # 0
      /\ pc' = [g \in Generation |-> IF pc[g] = "idle" THEN "idle" ELSE "done"]
      /\ syncPc' \in [Sync -> {"idle", "check", "find", "write", "done"}]
  BY ConstantsAssumption DEF Crash, TypeOK
<1>2. TypeOK'
  BY <1>1 DEF TypeOK
<1>3. ReadyHasText' /\ NothingLeftProcessing'
  BY <1>1 DEF ReadyHasText, NothingLeftProcessing
<1>4. VerdictEndsGeneration' /\ OneVerdictPerGeneration'
  BY <1>1 DEF VerdictEndsGeneration, OneVerdictPerGeneration, TypeOK
<1> QED  BY <1>2, <1>3, <1>4

LEMMA StepIndInv == IndInv /\ [Next]_vars => IndInv'
<1> SUFFICES ASSUME IndInv, [Next]_vars PROVE IndInv'
  OBVIOUS
<1>1. CASE UNCHANGED vars
  BY <1>1
  DEF vars, faults, IndInv, TypeOK, ReadyHasText, NothingLeftProcessing,
      VerdictEndsGeneration, OneVerdictPerGeneration
<1>2. ASSUME NEW g \in Generation, Start(g) \/ Generate(g)
      PROVE  IndInv'
  BY <1>2, StartKeeps, OutcomeKeeps, PublishKeeps DEF Generate
<1>3. ASSUME NEW s \in Sync, SyncBegin(s) \/ Synchronize(s)
      PROVE  IndInv'
  BY <1>3, SyncKeeps
<1> QED  BY <1>1, <1>2, <1>3, CrashKeeps DEF Next

-----------------------------------------------------------------------------
\* The strengthened invariant holds of every behaviour.
\* (GenerateCoverLetterAsync, the handlers that start it, and the syncs.)
THEOREM Invariance == Spec => []IndInv
<1> QED  BY InitIndInv, StepIndInv, PTL DEF Spec

\* Type correctness: status, texts and places are what they may be.
\* (cover_letter's row and the two kinds of handlers.)
THEOREM TypeCorrect == Spec => []TypeOK
<1>1. IndInv => TypeOK
  BY DEF IndInv
<1> QED  BY <1>1, Invariance, PTL

\* A letter shown as ready has a text, whatever overlaps, and an empty one only
\* from a sync.
\* (runCoverLetterWorkflow, persistCoverLetter, UpsertAttachedCoverLetter.)
THEOREM ReadyLetterHasText == Spec => []ReadyHasText
<1>1. IndInv => ReadyHasText
  BY DEF IndInv
<1> QED  BY <1>1, Invariance, PTL

\* Without a restart, an error that is only logged and a start that took effect
\* although it reported an error, a row that says "processing" has a goroutine
\* that will write it.
\* (GenerateCoverLetterAsync: every exit writes the row.)
THEOREM ProcessingHasGoroutine == Spec => []NothingLeftProcessing
<1>1. IndInv => NothingLeftProcessing
  BY DEF IndInv
<1> QED  BY <1>1, Invariance, PTL

\* No generation is announced as ready and as failed.
\* (GenerateCoverLetterAsync: the returns after a failure.)
THEOREM OneVerdict == Spec => []OneVerdictPerGeneration
<1>1. IndInv => OneVerdictPerGeneration
  BY DEF IndInv
<1> QED  BY <1>1, Invariance, PTL
=============================================================================
