--------------------------- MODULE AgentRunProofs ---------------------------
(***************************************************************************)
(* Theorems about AgentRun, for every choice of its constants, about the   *)
(* controller object that owns a runtime, and about the messages of a      *)
(* thread, for whatever executors yield.                                   *)
(***************************************************************************)
EXTENDS MCAgentRun, FiniteSetTheorems, SequenceTheorems, WellFoundedInduction, TLAPS

-----------------------------------------------------------------------------
(* The shared halves of the worker's store calls keep the types. *)

\* Where a call of the worker leads, and the budget of faults.
LEMMA OutcomeType ==
  ASSUME TypeOK,
         NEW to \in WorkerPc, NEW onError \in WorkerPc,
         Succeeds(to) \/ Fails(onError)
  PROVE  /\ wpc' \in WorkerPc
         /\ inCatch' \in BOOLEAN
         /\ faults' \in 0 .. MaxFaults
<1>1. wpc' \in WorkerPc
  BY DEF Succeeds, Fails
<1>2. inCatch' \in BOOLEAN
  <2>1. CASE Succeeds(to)
    BY <2>1 DEF Succeeds, TypeOK
  <2>2. CASE Fails(onError)
    BY <2>2, Zenon DEF Fails, TypeOK
  <2> QED BY <2>1, <2>2
<1>3. faults' \in 0 .. MaxFaults
  <2>1. CASE Succeeds(to)
    BY <2>1 DEF Succeeds, TypeOK
  <2>2. CASE Fails(onError)
    BY <2>2, BoundsAssumption DEF Fails, StoreFails, TypeOK
  <2> QED BY <2>1, <2>2
<1> QED BY <1>1, <1>2, <1>3

LEMMA GetRunType ==
  ASSUME TypeOK,
         NEW from, NEW to \in WorkerPc, NEW onError \in WorkerPc,
         GetRun(from, to, onError)
  PROVE  TypeOK'
<1>1. /\ wpc' \in WorkerPc
      /\ inCatch' \in BOOLEAN
      /\ faults' \in 0 .. MaxFaults
  BY OutcomeType DEF GetRun
<1> QED
  BY <1>1 DEF TypeOK, GetRun, flushVars, cancelVars

LEMMA UpdateGetType ==
  ASSUME TypeOK,
         NEW from, NEW to \in WorkerPc, NEW onError \in WorkerPc,
         UpdateGet(from, to, onError), rb' \in Status
  PROVE  TypeOK'
<1>1. /\ wpc' \in WorkerPc
      /\ inCatch' \in BOOLEAN
      /\ faults' \in 0 .. MaxFaults
  BY OutcomeType DEF UpdateGet
<1>2. wheld' \in Record
  BY DEF UpdateGet, TypeOK
<1> QED
  BY <1>1, <1>2 DEF TypeOK, UpdateGet, flushVars, cancelVars

LEMMA UpdatedType ==
  /\ NewRecord \in Record
  /\ \A held \in Record, value \in Status, stamps \in SUBSET Stamp :
       Updated(held, value, stamps) \in Record
BY DEF Updated, NewRecord, Record, Status

LEMMA UpdatePutType ==
  ASSUME TypeOK,
         NEW from, NEW to \in WorkerPc, NEW onError \in WorkerPc,
         NEW value \in Status, NEW stamps \in SUBSET Stamp,
         UpdatePut(from, value, stamps, to, onError)
  PROVE  TypeOK'
<1>1. /\ wpc' \in WorkerPc
      /\ inCatch' \in BOOLEAN
      /\ faults' \in 0 .. MaxFaults
  BY OutcomeType DEF UpdatePut
<1>2. rec' \in Record /\ wheld' \in Record
  BY UpdatedType DEF UpdatePut, TypeOK
<1> QED
  BY <1>1, <1>2 DEF TypeOK, UpdatePut, flushVars, cancelVars

LEMMA FlushType ==
  ASSUME TypeOK,
         NEW from, NEW force \in BOOLEAN,
         NEW to \in WorkerPc, NEW onError \in WorkerPc,
         Flush(from, force, to, onError), rb' \in Status
  PROVE  TypeOK'
<1>1. FlushedBatch \in Batch
  BY DEF TypeOK, FlushedBatch, Batch
<1>2. Append(appended, FlushedBatch) \in Seq(Batch)
  BY <1>1 DEF TypeOK
<1>3. appended' \in Seq(Batch)
  BY <1>2 DEF Flush, TypeOK
<1>4. flushedCount' \in 0 .. Len(normalized) /\ inputFlushed' \in BOOLEAN
  <2>1. CursorMoves \/ CursorStays
    BY DEF Flush
  <2>2. Len(normalized) \in Nat
    BY DEF TypeOK
  <2>3. CASE CursorMoves
    BY <2>2, <2>3 DEF CursorMoves
  <2>4. CASE CursorStays
    BY <2>4 DEF CursorStays, TypeOK
  <2> QED BY <2>1, <2>3, <2>4
<1>5. /\ wpc' \in WorkerPc
      /\ inCatch' \in BOOLEAN
      /\ faults' \in 0 .. MaxFaults
  BY OutcomeType DEF Flush
<1> QED
  BY <1>3, <1>4, <1>5 DEF Flush, TypeOK, cancelVars


-----------------------------------------------------------------------------
(* So do the shared parts of cancelRun. *)

\* A step of cancelRun that leaves the worker alone.
LEMMA CancelStepType ==
  ASSUME TypeOK, WorkerIdle,
         rec' \in Record, aborted' \in BOOLEAN, faults' \in 0 .. MaxFaults,
         cpc' \in [Cancellers -> CancelPc],
         cheld' \in [Cancellers -> Record],
         cret' \in [Cancellers -> Status \cup {"none"}]
  PROVE  TypeOK'
BY DEF TypeOK, WorkerIdle, taskVars, flushVars

LEMMA CancelGoesType ==
  ASSUME TypeOK, NEW c \in Cancellers, NEW pc \in CancelPc, CancelGoes(c, pc)
  PROVE  cpc' \in [Cancellers -> CancelPc]
BY DEF TypeOK, CancelGoes

LEMMA StoreFailsType ==
  ASSUME TypeOK, StoreFails \/ UNCHANGED faults
  PROVE  faults' \in 0 .. MaxFaults
BY BoundsAssumption DEF TypeOK, StoreFails

LEMMA CancelGetType ==
  ASSUME TypeOK, NEW c \in Cancellers, NEW from,
         NEW to \in CancelPc, NEW onError \in CancelPc,
         CancelGet(c, from, to, onError)
  PROVE  /\ rec' \in Record
         /\ cpc' \in [Cancellers -> CancelPc]
         /\ cheld' \in [Cancellers -> Record]
         /\ cret' \in [Cancellers -> Status \cup {"none"}]
         /\ faults' \in 0 .. MaxFaults
<1>1. cpc' \in [Cancellers -> CancelPc]
  BY CancelGoesType DEF CancelGet
<1>2. faults' \in 0 .. MaxFaults
  BY StoreFailsType DEF CancelGet
<1> QED BY <1>1, <1>2 DEF CancelGet, TypeOK

LEMMA CancelPutType ==
  ASSUME TypeOK, NEW c \in Cancellers, NEW from,
         NEW value \in Status, NEW stamps \in SUBSET Stamp,
         NEW to \in CancelPc, NEW onError \in CancelPc,
         CancelPut(c, from, value, stamps, to, onError)
  PROVE  /\ rec' \in Record
         /\ cpc' \in [Cancellers -> CancelPc]
         /\ cheld' \in [Cancellers -> Record]
         /\ faults' \in 0 .. MaxFaults
<1>1. cpc' \in [Cancellers -> CancelPc]
  BY CancelGoesType DEF CancelPut
<1>2. faults' \in 0 .. MaxFaults
  BY StoreFailsType DEF CancelPut
<1>3. rec' \in Record
  <2>1. cheld[c] \in Record
    BY DEF TypeOK
  <2> QED
    BY <2>1, UpdatedType DEF CancelPut, TypeOK
<1>4. cheld' \in [Cancellers -> Record]
  BY UpdatedType DEF CancelPut, TypeOK
<1> QED BY <1>1, <1>2, <1>3, <1>4

-----------------------------------------------------------------------------
(* Type correctness. *)

LEMMA TypeInit == ASSUME Init PROVE TypeOK
<1>1. NewRecord \in Record
  BY UpdatedType
<1>2. /\ cpc \in [Cancellers -> CancelPc]
      /\ cheld \in [Cancellers -> Record]
      /\ cret \in [Cancellers -> Status \cup {"none"}]
  BY <1>1 DEF Init, CancelPc
<1>3. /\ normalized \in Seq(Message) /\ appended \in Seq(Batch)
      /\ flushedCount \in 0 .. Len(normalized)
      /\ faults \in 0 .. MaxFaults
  BY BoundsAssumption DEF Init
<1> QED
  BY <1>1, <1>2, <1>3 DEF Init, TypeOK, Status, WorkerPc, TryPcs

LEMMA ExecutorType == ASSUME TypeOK, Executor PROVE TypeOK'
<1>1. ASSUME NEW m \in Message, Yield(m) PROVE TypeOK'
  <2>1. normalized' \in Seq(Message) /\ flushedCount' \in 0 .. Len(normalized')
    BY <1>1 DEF TypeOK, Yield, LoopUnchanged, flushVars
  <2> QED
    BY <1>1, <2>1 DEF TypeOK, Yield, LoopUnchanged, flushVars, cancelVars,
                      WorkerPc, TryPcs
<1>2. CASE ExecutorEnds
  BY <1>2 DEF TypeOK, ExecutorEnds, LoopUnchanged, flushVars, cancelVars,
              WorkerPc, TryPcs
<1>3. CASE ExecutorThrows
  BY <1>3 DEF TypeOK, ExecutorThrows, LoopUnchanged, flushVars, cancelVars,
              WorkerPc, CatchPcs, Caught
<1> QED BY <1>1, <1>2, <1>3 DEF Executor

LEMMA WorkerType == ASSUME TypeOK, Worker PROVE TypeOK'
<1> USE DEF WorkerPc, TryPcs, FinalisePcs, CatchPcs, Caught, AfterFinalise
<1>1. CASE StartGet
  BY <1>1, UpdateGetType DEF StartGet, Status
<1>2. CASE StartPut
  BY <1>2, UpdatePutType DEF StartPut, Status, Stamp
<1>3. CASE MarkCommittedIfNeeded
  BY <1>3 DEF TypeOK, MarkCommittedIfNeeded, LoopUnchanged, flushVars, cancelVars
<1>4. CASE FlushInLoop
  BY <1>4, FlushType DEF FlushInLoop, FlushQuietly, TypeOK
<1>5. CASE PostLoopCheck
  BY <1>5, GetRunType DEF PostLoopCheck
<1>6. CASE PostLoopFlush
  BY <1>6, FlushType DEF PostLoopFlush, FlushQuietly, TypeOK
<1>7. CASE FinalFlush
  BY <1>7, FlushType DEF FinalFlush, TypeOK, Status
<1>8. CASE CompleteGet
  BY <1>8, UpdateGetType DEF CompleteGet, TypeOK
<1>9. CASE CompletePut
  BY <1>9, UpdatePutType DEF CompletePut, Status, Stamp
<1>10. CASE AbortFlush
  BY <1>10, FlushType DEF AbortFlush, FlushQuietly, TypeOK
<1>11. CASE FinaliseCheck
  BY <1>11, GetRunType DEF FinaliseCheck
<1>12. CASE FinaliseCancellingGet \/ FinaliseCancelledGet
  BY <1>12, UpdateGetType DEF FinaliseCancellingGet, FinaliseCancelledGet, TypeOK
<1>13. CASE FinaliseCancellingPut \/ FinaliseCancelledPut
  BY <1>13, UpdatePutType
     DEF FinaliseCancellingPut, FinaliseCancelledPut, Status, Stamp
<1>14. CASE ReadLatest
  BY <1>14, GetRunType DEF ReadLatest
<1>15. CASE CatchFlush
  BY <1>15, FlushType DEF CatchFlush, FlushQuietly, FailOrEnd, TypeOK
<1>16. CASE CatchCheck
  BY <1>16, GetRunType DEF CatchCheck, FailOrEnd
<1>17. CASE FailGet
  BY <1>17, UpdateGetType DEF FailGet, Status
<1>18. CASE FailPut
  BY <1>18, UpdatePutType DEF FailPut, Status, Stamp
<1> QED
  BY <1>1, <1>2, <1>3, <1>4, <1>5, <1>6, <1>7, <1>8, <1>9, <1>10, <1>11,
     <1>12, <1>13, <1>14, <1>15, <1>16, <1>17, <1>18 DEF Worker


LEMMA CancelRunType ==
  ASSUME TypeOK, NEW c \in Cancellers, CancelRun(c) \/ CancelContinues(c)
  PROVE  TypeOK'
<1> USE DEF CancelPc, CancelReturned
<1>1. CASE CancelRun(c)
  <2>1. cpc' \in [Cancellers -> CancelPc]
    BY <1>1, CancelGoesType DEF CancelRun
  <2>2. faults' \in 0 .. MaxFaults
    BY <1>1, StoreFailsType DEF CancelRun
  <2> QED
    BY <1>1, <2>1, <2>2, CancelStepType DEF CancelRun, TypeOK
<1>2. CASE CancellingGet(c)
  BY <1>2, CancelGetType, CancelStepType DEF CancellingGet, TypeOK
<1>3. CASE CancellingPut(c)
  BY <1>3, CancelPutType, CancelStepType
     DEF CancellingPut, TypeOK, Status, Stamp
<1>4. CASE LookupTask(c)
  <2>1. cpc' \in [Cancellers -> CancelPc]
    BY <1>4, CancelGoesType DEF LookupTask
  <2>2. aborted' \in BOOLEAN
    BY <1>4, Zenon DEF LookupTask, TypeOK
  <2> QED
    BY <1>4, <2>1, <2>2, CancelStepType DEF LookupTask, TypeOK
<1>5. CASE CommittedOrEnded(c)
  BY <1>5, CancelGoesType, CancelStepType DEF CommittedOrEnded, TypeOK
<1>6. CASE CommitTimeout(c)
  BY <1>6, CancelGoesType, CancelStepType DEF CommitTimeout, TypeOK
<1>7. CASE TimeoutFailGet(c)
  <2>1. aborted' \in BOOLEAN
    BY <1>7, Zenon DEF TimeoutFailGet, TypeOK
  <2> QED
    BY <1>7, <2>1, CancelGetType, CancelStepType DEF TimeoutFailGet
<1>8. CASE TimeoutFailPut(c)
  BY <1>8, CancelPutType, CancelStepType
     DEF TimeoutFailPut, TypeOK, Status, Stamp
<1>9. CASE TimedOut(c) \/ Awaited(c)
  BY <1>9, CancelGoesType, CancelStepType DEF TimedOut, Awaited, TaskEnded, TypeOK
<1>10. CASE FreshCheck(c)
  <2>1. cpc' \in [Cancellers -> CancelPc]
    BY <1>10, CancelGoesType DEF FreshCheck, Answers
  <2>2. faults' \in 0 .. MaxFaults
    BY <1>10, StoreFailsType DEF FreshCheck
  <2>3. cret' \in [Cancellers -> Status \cup {"none"}]
    BY <1>10 DEF FreshCheck, Answers, TypeOK, Record
  <2> QED
    BY <1>10, <2>1, <2>2, <2>3, CancelStepType DEF FreshCheck, TypeOK
<1>11. CASE CancelledGet(c)
  BY <1>11, CancelGetType, CancelStepType DEF CancelledGet, TypeOK
<1>12. CASE CancelledPut(c)
  <2>1. cret' \in [Cancellers -> Status \cup {"none"}]
    BY <1>12 DEF CancelledPut, TypeOK, Status
  <2> QED
    BY <1>12, <2>1, CancelPutType, CancelStepType
       DEF CancelledPut, TypeOK, Status, Stamp
<1>13. CASE Fallback(c)
  <2>1. cpc' \in [Cancellers -> CancelPc]
    BY <1>13, CancelGoesType DEF Fallback, Answers
  <2>2. faults' \in 0 .. MaxFaults
    BY <1>13, StoreFailsType DEF Fallback
  <2>3. cret' \in [Cancellers -> Status \cup {"none"}]
    BY <1>13 DEF Fallback, Answers, TypeOK, Record
  <2> QED
    BY <1>13, <2>1, <2>2, <2>3, CancelStepType DEF Fallback, TypeOK
<1> QED
  BY <1>1, <1>2, <1>3, <1>4, <1>5, <1>6, <1>7, <1>8, <1>9, <1>10, <1>11,
     <1>12, <1>13 DEF CancelContinues

LEMMA TypeStep == ASSUME TypeOK, [Next]_vars PROVE TypeOK'
<1>1. CASE ExternalAbort
  BY <1>1 DEF TypeOK, ExternalAbort, taskVars, flushVars, cancelVars
<1>2. CASE Crash
  <2>1. cpc' \in [Cancellers -> CancelPc]
    BY <1>2 DEF Crash, TypeOK, CancelPc, CancelReturned
  <2> QED
    BY <1>2, <2>1 DEF TypeOK, Crash, taskVars, flushVars, WorkerPc
<1>3. CASE Stopped \/ UNCHANGED vars
  BY <1>3 DEF TypeOK, Stopped, vars
<1> QED
  BY <1>1, <1>2, <1>3, ExecutorType, WorkerType, CancelRunType DEF Next

\* Every variable keeps its type, in every behaviour of the runtime.
THEOREM TypeCorrect == Spec => []TypeOK
<1>1. Init => TypeOK
  BY TypeInit
<1>2. TypeOK /\ [Next]_vars => TypeOK'
  BY TypeStep
<1> QED BY <1>1, <1>2, PTL DEF Spec


-----------------------------------------------------------------------------
(* The commit gate. *)

\* Before and in the loop over the executor.
InLoop == wpc \in {"start_get", "start_put", "iter", "commit", "flush"}

\* The forced flush is reached only when the executor ended by itself, which
\* happens once, at the end of the loop.
GateInv ==
  /\ ThreadUntouchedBeforeCommit
  /\ wpc \in {"post_get", "force_flush"} => finished
  /\ InLoop => ~finished

LEMMA GateFlush ==
  ASSUME TypeOK, GateInv, NEW from, NEW to, NEW onError, NEW force \in BOOLEAN,
         Flush(from, force, to, onError), force => finished
  PROVE  ThreadUntouchedBeforeCommit'
BY DEF GateInv, ThreadUntouchedBeforeCommit, Flush, GateOpen

LEMMA GateStep == ASSUME TypeOK, GateInv, [Next]_vars PROVE GateInv'
<1> USE DEF InLoop, Caught, AfterFinalise, Succeeds, Fails
<1> DEFINE Pcs == /\ wpc' \in {"post_get", "force_flush"} => finished'
                  /\ InLoop' => ~finished'
<1>1. CASE Executor
  <2>1. wpc = "iter" /\ UNCHANGED <<committed, flushVars>>
    BY <1>1 DEF Executor, Yield, ExecutorEnds, ExecutorThrows, LoopUnchanged
  <2>2. \/ wpc' \in {"abort_flush", "catch_flush", "commit"} /\ UNCHANGED finished
        \/ wpc' = "abort_flush"
        \/ wpc' = "post_get" /\ finished'
    BY <1>1 DEF Executor, Yield, ExecutorEnds, ExecutorThrows
  <2>3. ~finished /\ (~committed => appended = <<>>)
    BY <2>1 DEF GateInv, ThreadUntouchedBeforeCommit
  <2> QED
    BY <2>1, <2>2, <2>3 DEF flushVars, GateInv, ThreadUntouchedBeforeCommit
<1>2. CASE Worker
  <2>1. CASE StartGet \/ CompleteGet \/ FailGet
             \/ FinaliseCancellingGet \/ FinaliseCancelledGet
    BY <2>1 DEF StartGet, CompleteGet, FailGet, FinaliseCancellingGet,
                FinaliseCancelledGet, UpdateGet, flushVars, GateInv,
                ThreadUntouchedBeforeCommit
  <2>2. CASE StartPut \/ CompletePut \/ FailPut
             \/ FinaliseCancellingPut \/ FinaliseCancelledPut
    <3>1. UNCHANGED <<committed, finished, flushVars>>
      BY <2>2 DEF StartPut, CompletePut, FailPut, FinaliseCancellingPut,
                  FinaliseCancelledPut, UpdatePut
    <3>2. \/ wpc = "start_put" /\ wpc' \in {"iter", "abort_flush", "catch_flush"}
          \/ wpc' \in {"ended", "latest", "led_get", "abort_flush", "catch_flush"}
      BY <2>2 DEF StartPut, CompletePut, FailPut, FinaliseCancellingPut,
                  FinaliseCancelledPut, UpdatePut
    <3> QED
      BY <3>1, <3>2 DEF flushVars, GateInv, ThreadUntouchedBeforeCommit
  <2>3. CASE PostLoopCheck \/ FinaliseCheck \/ ReadLatest \/ CatchCheck
    BY <2>3 DEF PostLoopCheck, FinaliseCheck, ReadLatest, CatchCheck, FailOrEnd,
                GetRun, flushVars, GateInv, ThreadUntouchedBeforeCommit
  <2>4. CASE MarkCommittedIfNeeded
    BY <2>4 DEF MarkCommittedIfNeeded, LoopUnchanged, flushVars, GateInv,
                ThreadUntouchedBeforeCommit, TypeOK
  <2>5. CASE FlushInLoop \/ PostLoopFlush \/ AbortFlush \/ CatchFlush
    <3>1. ThreadUntouchedBeforeCommit'
      BY <2>5, GateFlush DEF FlushInLoop, PostLoopFlush, AbortFlush,
                             CatchFlush, FlushQuietly
    <3>2. Pcs
      <4>1. finished' = finished
        BY <2>5 DEF FlushInLoop, PostLoopFlush, AbortFlush, CatchFlush,
                    FlushQuietly, Flush
      <4>2. CASE FlushInLoop
        <5>1. wpc = "flush" /\ wpc' = "iter"
          BY <4>2 DEF FlushInLoop, FlushQuietly, Flush
        <5> QED BY <4>1, <5>1 DEF GateInv
      <4>3. CASE PostLoopFlush \/ AbortFlush \/ CatchFlush
        BY <4>3 DEF PostLoopFlush, AbortFlush, CatchFlush, FailOrEnd,
                    FlushQuietly, Flush
      <4> QED BY <2>5, <4>2, <4>3
    <3> QED BY <3>1, <3>2 DEF GateInv
  <2>6. CASE FinalFlush
    <3>1. wpc = "force_flush"
      BY <2>6 DEF FinalFlush, Flush
    <3>2. ThreadUntouchedBeforeCommit'
      BY <2>6, <3>1, GateFlush DEF FinalFlush, GateInv
    <3>3. Pcs
      BY <2>6 DEF FinalFlush, Flush, GateInv
    <3> QED BY <3>2, <3>3 DEF GateInv
  <2> QED
    BY <1>2, <2>1, <2>2, <2>3, <2>4, <2>5, <2>6 DEF Worker
<1>3. ASSUME NEW c \in Cancellers, CancelRun(c) \/ CancelContinues(c)
      PROVE  GateInv'
  <2>1. WorkerIdle
    BY <1>3 DEF CancelRun, CancelContinues, CancellingGet, CancellingPut,
         LookupTask, CommittedOrEnded, CommitTimeout, TimeoutFailGet,
         TimeoutFailPut, TimedOut, Awaited, TaskEnded, FreshCheck,
         CancelledGet, CancelledPut, Fallback
  <2> QED
    BY <2>1 DEF WorkerIdle, taskVars, flushVars, GateInv,
                ThreadUntouchedBeforeCommit
<1>4. CASE ExternalAbort \/ Crash \/ Stopped \/ UNCHANGED vars
  BY <1>4 DEF ExternalAbort, Crash, Stopped, vars, taskVars, flushVars,
              GateInv, ThreadUntouchedBeforeCommit
<1> QED
  BY <1>1, <1>2, <1>3, <1>4 DEF Next

\* The commit gate holds whatever aborts, cancels, fails or crashes the run: a
\* thread is written only once the session is committed or the executor has
\* ended by itself.
THEOREM CommitGate == Spec => []ThreadUntouchedBeforeCommit
<1>1. Init => GateInv
  BY DEF Init, GateInv, ThreadUntouchedBeforeCommit, InLoop
<1>2. TypeOK /\ GateInv /\ [Next]_vars => GateInv'
  BY GateStep
<1>3. GateInv => ThreadUntouchedBeforeCommit
  BY DEF GateInv
<1> QED BY <1>1, <1>2, <1>3, TypeCorrect, PTL DEF Spec


-----------------------------------------------------------------------------
(* A completed record vouches for the thread. *)

\* The flusher is done: every message is behind the cursor.
Mirrored == inputFlushed /\ flushedCount = Len(normalized)

\* What the cursor says is in the thread.
CursorInv ==
  /\ inputFlushed => \E k \in DOMAIN appended : appended[k].input
  /\ \A i \in 1 .. flushedCount :
       normalized[i].durable => \E k \in DOMAIN appended : Holds(k, i)

\* Some record, stored or read by an update in progress, says completed.
SaysCompleted ==
  \/ "completed" \in rec.stamps
  \/ "completed" \in wheld.stamps
  \/ \E c \in Cancellers : "completed" \in cheld[c].stamps

\* No record says completed before the flusher is done, and the executor is
\* not listened to afterwards.
SealInv ==
  /\ wpc \in {"done_get", "done_put"} => Mirrored
  /\ SaysCompleted => Mirrored /\ ~InLoop

LEMMA CursorKept ==
  ASSUME TypeOK, CursorInv, UNCHANGED <<normalized, flushVars>>
  PROVE  CursorInv'
BY DEF CursorInv, Holds, flushVars

LEMMA CursorFlush ==
  ASSUME TypeOK, CursorInv, NEW from, NEW to, NEW onError,
         NEW force \in BOOLEAN, Flush(from, force, to, onError)
  PROVE  CursorInv'
<1> DEFINE n == Len(appended)
           b == FlushedBatch
<1>1. n \in Nat /\ Len(normalized) \in Nat /\ flushedCount \in 0 .. Len(normalized)
  BY DEF TypeOK
<1>2. normalized' = normalized
  BY DEF Flush
<1>3. CASE appended' = appended /\ UNCHANGED <<flushedCount, inputFlushed>>
  BY <1>2, <1>3, CursorKept DEF flushVars
<1>4. CASE appended' = Append(appended, b)
  <2>1. /\ DOMAIN appended' = 1 .. n + 1
        /\ DOMAIN appended = 1 .. n
        /\ appended'[n + 1] = b
        /\ \A k \in 1 .. n : appended'[k] = appended[k]
    BY <1>1, <1>4 DEF TypeOK, FlushedBatch, Batch
  <2>2. /\ inputFlushed' \in {inputFlushed, TRUE}
        /\ flushedCount' \in {flushedCount, Len(normalized)}
    BY DEF Flush, CursorMoves, CursorStays
  <2>3. \E k \in DOMAIN appended' : appended'[k].input
    <3>1. CASE inputFlushed
      <4>1. PICK k \in DOMAIN appended : appended[k].input
        BY <3>1 DEF CursorInv
      <4> QED BY <1>1, <2>1, <4>1
    <3>2. CASE ~inputFlushed
      <4>1. b.input
        BY <3>2 DEF FlushedBatch
      <4> QED BY <1>1, <2>1, <4>1
    <3> QED BY <3>1, <3>2
  <2>4. ASSUME NEW i \in 1 .. flushedCount', normalized'[i].durable
        PROVE  \E k \in DOMAIN appended' : Holds(k, i)'
    <3>1. CASE i \in 1 .. flushedCount
      <4>1. PICK k \in DOMAIN appended : Holds(k, i)
        BY <1>2, <2>4, <3>1 DEF CursorInv
      <4> QED BY <1>1, <2>1, <4>1 DEF Holds
    <3>2. CASE i \notin 1 .. flushedCount
      <4>1. b.from < i /\ i <= b.to
        BY <1>1, <2>2, <3>2 DEF FlushedBatch
      <4> QED BY <1>1, <2>1, <4>1 DEF Holds
    <3> QED BY <3>1, <3>2
  <2> QED BY <2>3, <2>4 DEF CursorInv
<1>5. CASE appended' = appended /\ CursorMoves /\ inputFlushed /\ ~Pending
  <2>1. ASSUME NEW i \in 1 .. Len(normalized), normalized[i].durable
        PROVE  i \in 1 .. flushedCount
    BY <1>1, <1>5, <2>1 DEF Pending
  <2>2. flushedCount' = Len(normalized)
    BY <1>5 DEF CursorMoves
  <2>3. ASSUME NEW i \in 1 .. flushedCount', normalized'[i].durable
        PROVE  \E k \in DOMAIN appended' : Holds(k, i)'
    <3>1. PICK k \in DOMAIN appended : Holds(k, i)
      BY <1>2, <2>1, <2>2, <2>3 DEF CursorInv
    <3> QED BY <1>5, <3>1 DEF Holds
  <2> QED BY <1>5, <2>3 DEF CursorInv
<1> QED
  BY <1>3, <1>4, <1>5 DEF Flush, CursorStays

LEMMA SealFlush ==
  ASSUME TypeOK, SealInv, NEW from, NEW to, NEW onError,
         NEW force \in BOOLEAN, Flush(from, force, to, onError)
  PROVE  /\ force /\ wpc' # onError => Mirrored'
         /\ Mirrored => Mirrored'
<1>1. normalized' = normalized
  BY DEF Flush
<1>2. CursorMoves => Mirrored'
  BY <1>1 DEF CursorMoves, Mirrored
<1>3. CursorStays => Mirrored' = Mirrored
  BY <1>1 DEF CursorStays, Mirrored
<1>4. force /\ wpc' # onError => CursorMoves
  BY DEF Flush, GateOpen, Fails
<1>5. CursorMoves \/ CursorStays
  BY DEF Flush
<1> QED BY <1>2, <1>3, <1>4, <1>5


\* The steps of cancelRun leave the worker alone.
LEMMA CancelIdle ==
  ASSUME NEW c \in Cancellers, CancelRun(c) \/ CancelContinues(c)
  PROVE  WorkerIdle
BY DEF CancelRun, CancelContinues, CancellingGet, CancellingPut,
       LookupTask, CommittedOrEnded, CommitTimeout, TimeoutFailGet,
       TimeoutFailPut, TimedOut, Awaited, TaskEnded, FreshCheck,
       CancelledGet, CancelledPut, Fallback

\* The worker flushes, or leaves messages and thread alone.
LEMMA WorkerFlushesOrNot ==
  ASSUME Worker
  PROVE  \/ UNCHANGED <<normalized, flushVars>>
         \/ \E from, to, onError : \E force \in BOOLEAN : Flush(from, force, to, onError)
<1>1. CASE FlushInLoop \/ PostLoopFlush \/ FinalFlush \/ AbortFlush \/ CatchFlush
  <2>1. \E from, to, onError : \E force \in BOOLEAN : Flush(from, force, to, onError)
    <3>1. CASE FlushInLoop
      BY <3>1 DEF FlushInLoop, FlushQuietly
    <3>2. CASE PostLoopFlush
      BY <3>2 DEF PostLoopFlush, FlushQuietly
    <3>3. CASE FinalFlush
      BY <3>3 DEF FinalFlush
    <3>4. CASE AbortFlush
      BY <3>4 DEF AbortFlush, FlushQuietly
    <3>5. CASE CatchFlush
      BY <3>5 DEF CatchFlush, FlushQuietly
    <3> QED BY <1>1, <3>1, <3>2, <3>3, <3>4, <3>5
  <2> QED BY <2>1
<1>2. CASE StartGet \/ CompleteGet \/ FailGet
           \/ FinaliseCancellingGet \/ FinaliseCancelledGet
  BY <1>2 DEF StartGet, CompleteGet, FailGet, FinaliseCancellingGet,
              FinaliseCancelledGet, UpdateGet
<1>3. CASE StartPut \/ CompletePut \/ FailPut
           \/ FinaliseCancellingPut \/ FinaliseCancelledPut
  BY <1>3 DEF StartPut, CompletePut, FailPut, FinaliseCancellingPut,
              FinaliseCancelledPut, UpdatePut
<1>4. CASE PostLoopCheck \/ FinaliseCheck \/ ReadLatest \/ CatchCheck
  BY <1>4 DEF PostLoopCheck, FinaliseCheck, ReadLatest, CatchCheck, GetRun
<1>5. CASE MarkCommittedIfNeeded
  BY <1>5 DEF MarkCommittedIfNeeded, LoopUnchanged
<1> QED BY <1>1, <1>2, <1>3, <1>4, <1>5 DEF Worker

LEMMA CursorStep == ASSUME TypeOK, CursorInv, [Next]_vars PROVE CursorInv'
<1>1. ASSUME NEW m \in Message, Yield(m), UNCHANGED normalized PROVE CursorInv'
  BY <1>1, CursorKept DEF Yield, LoopUnchanged
<1>2. ASSUME NEW m \in Message, Yield(m), normalized' = Append(normalized, m)
      PROVE  CursorInv'
  <2>1. UNCHANGED flushVars
    BY <1>2 DEF Yield, LoopUnchanged
  <2>2. \A i \in 1 .. flushedCount : normalized'[i] = normalized[i]
    BY <1>2 DEF TypeOK
  <2> QED
    BY <2>1, <2>2 DEF CursorInv, Holds, flushVars
<1>3. CASE ExecutorEnds \/ ExecutorThrows
  BY <1>3, CursorKept DEF ExecutorEnds, ExecutorThrows, LoopUnchanged
<1>4. CASE Worker
  BY <1>4, WorkerFlushesOrNot, CursorFlush, CursorKept
<1>5. ASSUME NEW c \in Cancellers, CancelRun(c) \/ CancelContinues(c)
      PROVE  CursorInv'
  BY <1>5, CancelIdle, CursorKept DEF WorkerIdle, taskVars
<1>6. CASE ExternalAbort \/ Crash \/ Stopped \/ UNCHANGED vars
  BY <1>6, CursorKept DEF ExternalAbort, Crash, Stopped, vars, taskVars, flushVars
<1>7. ASSUME NEW m \in Message, Yield(m) PROVE CursorInv'
  BY <1>1, <1>2, <1>7 DEF Yield
<1> QED
  BY <1>3, <1>4, <1>5, <1>6, <1>7 DEF Next, Executor

\* A read and a write of a record that do not add completed.
LEMMA UpdatedSays ==
  ASSUME NEW held \in Record, NEW value, NEW stamps \in SUBSET Stamp
  PROVE  /\ "completed" \in Updated(held, value, stamps).stamps
              <=> "completed" \in held.stamps \cup stamps
         /\ "completed" \notin NewRecord.stamps
BY DEF Updated, NewRecord

LEMMA PutSays ==
  ASSUME TypeOK, NEW from, NEW value, NEW stamps \in SUBSET Stamp,
         NEW to, NEW onError, UpdatePut(from, value, stamps, to, onError),
         "completed" \notin stamps, SaysCompleted'
  PROVE  SaysCompleted
<1>1. "completed" \in rec'.stamps => SaysCompleted
  BY UpdatedSays DEF UpdatePut, SaysCompleted, TypeOK
<1> QED
  BY <1>1, UpdatedSays DEF UpdatePut, SaysCompleted, TypeOK, cancelVars

LEMMA GetSays ==
  ASSUME NEW from, NEW to, NEW onError, UpdateGet(from, to, onError),
         SaysCompleted'
  PROVE  SaysCompleted
BY DEF UpdateGet, SaysCompleted, cancelVars

LEMMA CancelSays ==
  ASSUME TypeOK, NEW c \in Cancellers, CancelRun(c) \/ CancelContinues(c),
         SaysCompleted'
  PROVE  SaysCompleted
<1>1. wheld' = wheld
  BY CancelIdle DEF WorkerIdle
<1>2. CASE UNCHANGED <<rec, cheld>>
  BY <1>1, <1>2 DEF SaysCompleted
<1>3. ASSUME NEW from, NEW to, NEW onError, CancelGet(c, from, to, onError)
      PROVE  SaysCompleted
  BY <1>1, <1>3 DEF CancelGet, SaysCompleted, TypeOK
<1>4. ASSUME NEW from, NEW value, NEW stamps \in SUBSET Stamp, NEW to, NEW onError,
             CancelPut(c, from, value, stamps, to, onError),
             "completed" \notin stamps
      PROVE  SaysCompleted
  <2>1. cheld[c] \in Record
    BY DEF TypeOK
  <2>2. "completed" \in rec'.stamps => SaysCompleted
    BY <1>4, <2>1, UpdatedSays DEF CancelPut, SaysCompleted
  <2>3. \A d \in Cancellers :
          "completed" \in cheld'[d].stamps => "completed" \in cheld[d].stamps
    BY <1>4, UpdatedSays DEF CancelPut, TypeOK
  <2> QED BY <1>1, <2>2, <2>3 DEF SaysCompleted
<1>5. CASE CancellingGet(c) \/ TimeoutFailGet(c) \/ CancelledGet(c)
  BY <1>3, <1>5 DEF CancellingGet, TimeoutFailGet, CancelledGet
<1>6. CASE CancellingPut(c) \/ TimeoutFailPut(c) \/ CancelledPut(c)
  BY <1>4, <1>6 DEF CancellingPut, TimeoutFailPut, CancelledPut, Stamp
<1> QED
  BY <1>2, <1>5, <1>6 DEF CancelRun, CancelContinues, LookupTask,
     CommittedOrEnded, CommitTimeout, TimedOut, Awaited, TaskEnded,
     FreshCheck, Fallback


LEMMA SealStep == ASSUME TypeOK, SealInv, [Next]_vars PROVE SealInv'
<1> USE DEF InLoop, Caught, AfterFinalise, Succeeds, Fails
<1>1. CASE Executor
  <2>1. /\ wpc = "iter" /\ UNCHANGED <<rec, wheld, cheld>>
        /\ wpc' \in {"commit", "abort_flush", "catch_flush", "post_get"}
    BY <1>1 DEF Executor, Yield, ExecutorEnds, ExecutorThrows, LoopUnchanged,
                cancelVars
  <2>2. ~SaysCompleted'
    BY <2>1 DEF SealInv, SaysCompleted
  <2> QED BY <2>1, <2>2 DEF SealInv
<1>2. CASE StartGet \/ CompleteGet \/ FailGet
           \/ FinaliseCancellingGet \/ FinaliseCancelledGet
  <2>1. SaysCompleted' => SaysCompleted
    BY <1>2, GetSays DEF StartGet, CompleteGet, FailGet, FinaliseCancellingGet,
                         FinaliseCancelledGet
  <2>2. Mirrored' = Mirrored
    BY <1>2 DEF StartGet, CompleteGet, FailGet, FinaliseCancellingGet,
                FinaliseCancelledGet, UpdateGet, flushVars, Mirrored
  <2>3. \/ wpc = "start_get"
        \/ wpc = "done_get" /\ wpc' \in {"done_put", "abort_flush", "catch_flush"}
        \/ wpc' \in {"fail_put", "ing_put", "led_put", "latest", "ended"}
    BY <1>2 DEF StartGet, CompleteGet, FailGet, FinaliseCancellingGet,
                FinaliseCancelledGet, UpdateGet
  <2>4. wpc = "start_get" => wpc' \in {"start_put", "abort_flush", "catch_flush"}
    BY <1>2 DEF StartGet, CompleteGet, FailGet, FinaliseCancellingGet,
                FinaliseCancelledGet, UpdateGet
  <2> QED BY <2>1, <2>2, <2>3, <2>4 DEF SealInv
<1>3. CASE StartPut \/ FailPut \/ FinaliseCancellingPut \/ FinaliseCancelledPut
  <2>1. SaysCompleted' => SaysCompleted
    BY <1>3, PutSays DEF StartPut, FailPut, FinaliseCancellingPut,
                         FinaliseCancelledPut, Stamp
  <2>2. Mirrored' = Mirrored
    BY <1>3 DEF StartPut, FailPut, FinaliseCancellingPut,
                FinaliseCancelledPut, UpdatePut, flushVars, Mirrored
  <2>3. \/ wpc = "start_put" /\ wpc' \in {"iter", "abort_flush", "catch_flush"}
        \/ wpc' \in {"led_get", "latest", "ended"}
    BY <1>3 DEF StartPut, FailPut, FinaliseCancellingPut,
                FinaliseCancelledPut, UpdatePut
  <2> QED BY <2>1, <2>2, <2>3 DEF SealInv
<1>4. CASE CompletePut
  <2>1. wpc = "done_put" /\ wpc' \in {"ended", "abort_flush", "catch_flush"}
    BY <1>4 DEF CompletePut, UpdatePut
  <2>2. Mirrored' = Mirrored
    BY <1>4 DEF CompletePut, UpdatePut, flushVars, Mirrored
  <2> QED BY <2>1, <2>2 DEF SealInv
<1>5. CASE PostLoopCheck \/ FinaliseCheck \/ ReadLatest \/ CatchCheck
  <2>1. /\ wpc' \in {"post_flush", "force_flush", "abort_flush", "catch_flush",
                     "latest", "ended", "ing_get", "fail_get"}
        /\ UNCHANGED <<rec, wheld, normalized, flushVars, cancelVars>>
    BY <1>5 DEF PostLoopCheck, FinaliseCheck, ReadLatest, CatchCheck,
                FailOrEnd, GetRun
  <2> QED
    BY <2>1 DEF SealInv, SaysCompleted, Mirrored, flushVars, cancelVars
<1>6. CASE MarkCommittedIfNeeded
  BY <1>6 DEF MarkCommittedIfNeeded, LoopUnchanged, SealInv, SaysCompleted,
              Mirrored, flushVars, cancelVars
<1>7. CASE FlushInLoop \/ PostLoopFlush \/ AbortFlush \/ CatchFlush
  <2>1. UNCHANGED <<rec, wheld, cheld>> /\ (Mirrored => Mirrored')
    <3>1. CASE FlushInLoop
      BY <3>1, SealFlush DEF FlushInLoop, FlushQuietly, Flush, cancelVars
    <3>2. CASE PostLoopFlush
      BY <3>2, SealFlush DEF PostLoopFlush, FlushQuietly, Flush, cancelVars
    <3>3. CASE AbortFlush
      BY <3>3, SealFlush DEF AbortFlush, FlushQuietly, Flush, cancelVars
    <3>4. CASE CatchFlush
      BY <3>4, SealFlush DEF CatchFlush, FlushQuietly, Flush, cancelVars
    <3> QED BY <1>7, <3>1, <3>2, <3>3, <3>4
  <2>2. \/ wpc = "flush" /\ wpc' = "iter"
        \/ wpc' \in {"fin_get", "ended", "fail_get", "catch_get"}
    BY <1>7 DEF FlushInLoop, PostLoopFlush, AbortFlush, CatchFlush,
                FailOrEnd, FlushQuietly, Flush
  <2> QED BY <2>1, <2>2 DEF SealInv, SaysCompleted
<1>8. CASE FinalFlush
  <2>1. Mirrored => Mirrored'
    BY <1>8, SealFlush DEF FinalFlush
  <2>2. wpc' = "done_get" => Mirrored'
    <3> HIDE DEF Caught
    <3>1. Flush("force_flush", TRUE, "done_get", Caught)
      BY <1>8 DEF FinalFlush
    <3>2. "done_get" # Caught
      BY DEF Caught
    <3> QED BY <3>1, <3>2, SealFlush
  <2>3. /\ wpc' \in {"done_get", "abort_flush", "catch_flush"}
        /\ UNCHANGED <<rec, wheld, cheld>>
    BY <1>8 DEF FinalFlush, Flush, cancelVars
  <2> QED BY <2>1, <2>2, <2>3 DEF SealInv, SaysCompleted
<1>9. ASSUME NEW c \in Cancellers, CancelRun(c) \/ CancelContinues(c)
      PROVE  SealInv'
  BY <1>9, CancelIdle, CancelSays
     DEF SealInv, WorkerIdle, taskVars, flushVars, Mirrored
<1>10. CASE ExternalAbort \/ Crash \/ Stopped \/ UNCHANGED vars
  BY <1>10 DEF ExternalAbort, Crash, Stopped, vars, taskVars, flushVars,
               cancelVars, SealInv, SaysCompleted, Mirrored
<1> QED
  BY <1>1, <1>2, <1>3, <1>4, <1>5, <1>6, <1>7, <1>8, <1>9, <1>10
     DEF Next, Worker

\* Whoever reads a completed run finds its whole transcript in the thread: no
\* failing append, racing cancel, abort or crash can make the record say more
\* than the thread holds.
THEOREM CompletedIsComplete == Spec => []CompletedHasTranscript
<1>1. Init => CursorInv /\ SealInv
  BY DEF Init, CursorInv, SealInv, SaysCompleted, NewRecord
<1>2. TypeOK /\ CursorInv /\ SealInv /\ [Next]_vars => CursorInv' /\ SealInv'
  BY CursorStep, SealStep
<1>3. TypeOK /\ CursorInv /\ SealInv => CompletedHasTranscript
  BY DEF TypeOK, CursorInv, SealInv, SaysCompleted, Mirrored,
         CompletedHasTranscript
<1> QED BY <1>1, <1>2, <1>3, TypeCorrect, PTL DEF Spec


-----------------------------------------------------------------------------
(* The thread is the transcript of the run, whatever appends were refused. *)

\* The batches of the thread that hold message i, and those with the input.
Copies(i) == {k \in DOMAIN appended : Holds(k, i)}
InputCopies == {k \in DOMAIN appended : appended[k].input}

\* No batch reaches past the messages, and what was not yet taken for written
\* is there once for each append that was in doubt.
KeptInv ==
  /\ \A k \in DOMAIN appended : appended[k].to <= Len(normalized)
  /\ \A i \in DOMAIN normalized :
       Cardinality(Copies(i)) <= IF i <= flushedCount THEN 1 + faults ELSE faults
  /\ Cardinality(InputCopies) <= IF inputFlushed THEN 1 + faults ELSE faults

LEMMA CopiesFinite ==
  ASSUME TypeOK
  PROVE  /\ \A i : IsFiniteSet(Copies(i)) /\ Cardinality(Copies(i)) \in Nat
         /\ IsFiniteSet(InputCopies) /\ Cardinality(InputCopies) \in Nat
<1>1. Len(appended) \in Nat /\ DOMAIN appended = 1 .. Len(appended)
  BY DEF TypeOK
<1>2. IsFiniteSet(DOMAIN appended)
  BY <1>1, FS_Interval
<1>3. \A i : Copies(i) \in SUBSET (DOMAIN appended)
  BY DEF Copies
<1>4. InputCopies \in SUBSET (DOMAIN appended)
  BY DEF InputCopies
<1> QED BY <1>2, <1>3, <1>4, FS_Subset, FS_CardinalityType

\* One more batch adds at most itself.
LEMMA CopiesGrow ==
  ASSUME TypeOK, NEW b \in Batch, appended' = Append(appended, b)
  PROVE  /\ \A i : /\ Cardinality(Copies(i)') <= Cardinality(Copies(i)) + 1
                   /\ ~(b.from < i /\ i <= b.to) =>
                        Cardinality(Copies(i)') = Cardinality(Copies(i))
         /\ Cardinality(InputCopies') <= Cardinality(InputCopies) + 1
         /\ ~b.input => Cardinality(InputCopies') = Cardinality(InputCopies)
         /\ \A i : Cardinality(Copies(i)') \in Nat
         /\ Cardinality(InputCopies') \in Nat
<1> DEFINE n == Len(appended)
<1>1. /\ n \in Nat
      /\ DOMAIN appended = 1 .. n /\ DOMAIN appended' = 1 .. n + 1
      /\ appended'[n + 1] = b
      /\ \A k \in 1 .. n : appended'[k] = appended[k]
  BY DEF TypeOK
<1> HIDE DEF n
<1>2. ASSUME NEW i
      PROVE  Copies(i)' = IF b.from < i /\ i <= b.to
                          THEN Copies(i) \cup {n + 1} ELSE Copies(i)
  BY <1>1 DEF Copies, Holds
<1>3. InputCopies' = IF b.input THEN InputCopies \cup {n + 1} ELSE InputCopies
  BY <1>1 DEF InputCopies
<1>4. ASSUME NEW S, IsFiniteSet(S), Cardinality(S) \in Nat
      PROVE  /\ Cardinality(S \cup {n + 1}) \in Nat
             /\ Cardinality(S \cup {n + 1}) <= Cardinality(S) + 1
  <2>1. Cardinality(S \cup {n + 1}) \in {Cardinality(S), Cardinality(S) + 1}
    BY <1>4, FS_AddElement
  <2> QED BY <1>4, <2>1
<1>5. ASSUME NEW i
      PROVE  /\ Cardinality(Copies(i)') \in Nat
             /\ Cardinality(Copies(i)') <= Cardinality(Copies(i)) + 1
             /\ ~(b.from < i /\ i <= b.to) =>
                  Cardinality(Copies(i)') = Cardinality(Copies(i))
  <2>1. IsFiniteSet(Copies(i)) /\ Cardinality(Copies(i)) \in Nat
    BY CopiesFinite
  <2>2. CASE b.from < i /\ i <= b.to
    <3>1. Copies(i)' = Copies(i) \cup {n + 1}
      BY <1>2, <2>2
    <3> QED BY <1>4, <2>1, <2>2, <3>1
  <2>3. CASE ~(b.from < i /\ i <= b.to)
    <3>1. Copies(i)' = Copies(i)
      BY <1>2, <2>3
    <3> QED BY <2>1, <3>1
  <2> QED BY <2>2, <2>3
<1>6. /\ Cardinality(InputCopies') \in Nat
      /\ Cardinality(InputCopies') <= Cardinality(InputCopies) + 1
      /\ ~b.input => Cardinality(InputCopies') = Cardinality(InputCopies)
  <2>1. IsFiniteSet(InputCopies) /\ Cardinality(InputCopies) \in Nat
    BY CopiesFinite
  <2>2. CASE b.input
    BY <1>3, <1>4, <2>1, <2>2
  <2>3. CASE ~b.input
    BY <1>3, <2>1, <2>3
  <2> QED BY <2>2, <2>3
<1> QED BY <1>5, <1>6

LEMMA KeptSame ==
  ASSUME TypeOK, KeptInv, UNCHANGED <<normalized, flushVars>>, faults' \in Nat, faults <= faults'
  PROVE  KeptInv'
<1>1. /\ UNCHANGED <<appended, normalized, flushedCount, inputFlushed>>
      /\ \A i : Copies(i)' = Copies(i)
      /\ InputCopies' = InputCopies
  BY DEF flushVars, Copies, InputCopies, Holds
<1>2. faults \in Nat
  BY BoundsAssumption DEF TypeOK
<1> QED BY <1>1, <1>2, CopiesFinite DEF KeptInv

LEMMA KeptFlush ==
  ASSUME TypeOK, KeptInv, NEW from, NEW to, NEW onError,
         NEW force \in BOOLEAN, Flush(from, force, to, onError)
  PROVE  KeptInv'
<1> DEFINE b == FlushedBatch
<1>1. /\ Len(normalized) \in Nat /\ flushedCount \in 0 .. Len(normalized)
      /\ DOMAIN normalized = 1 .. Len(normalized)
      /\ faults \in Nat /\ inputFlushed \in BOOLEAN
      /\ DOMAIN appended = 1 .. Len(appended) /\ Len(appended) \in Nat
  BY BoundsAssumption DEF TypeOK
<1>2. normalized' = normalized
  BY DEF Flush
<1>3. /\ b \in Batch /\ b.to = Len(normalized) /\ b.from = flushedCount
      /\ inputFlushed => ~b.input
  <2>1. b \in Batch
    BY <1>1 DEF FlushedBatch, Batch
  <2>2. b.to = Len(normalized) /\ b.from = flushedCount
    BY DEF FlushedBatch
  <2>3. inputFlushed => ~b.input
    BY DEF FlushedBatch
  <2> QED BY <2>1, <2>2, <2>3
<1>4. /\ \A i : Cardinality(Copies(i)) \in Nat
      /\ Cardinality(InputCopies) \in Nat
  BY CopiesFinite
<1>5. \/ /\ faults' = faults
         /\ CursorMoves \/ CursorStays
         /\ appended' = appended
      \/ faults' = faults + 1 /\ CursorStays /\ appended' = appended
      \/ faults' = faults /\ CursorMoves /\ appended' = Append(appended, b)
      \/ faults' = faults + 1 /\ CursorStays /\ appended' = Append(appended, b)
  BY DEF Flush, Succeeds, Fails, StoreFails
<1>6. /\ flushedCount' \in {flushedCount, Len(normalized)}
      /\ inputFlushed' \in {inputFlushed, TRUE}
  BY <1>5 DEF CursorMoves, CursorStays
<1>7. CASE appended' = appended
  <2>1. /\ \A i : Copies(i)' = Copies(i)
        /\ InputCopies' = InputCopies
    BY <1>7 DEF Copies, InputCopies, Holds
  <2>2. faults' \in Nat /\ faults <= faults'
    BY <1>1, <1>5
  <2>3. \A i \in DOMAIN normalized :
          Cardinality(Copies(i)) <= IF i <= flushedCount' THEN 1 + faults' ELSE faults'
    BY <1>1, <1>4, <1>6, <2>2 DEF KeptInv
  <2>4. Cardinality(InputCopies) <= IF inputFlushed' THEN 1 + faults' ELSE faults'
    <3>1. ~inputFlushed' => ~inputFlushed
      BY <1>5 DEF CursorMoves, CursorStays
    <3>2. Cardinality(InputCopies) <= IF inputFlushed THEN 1 + faults ELSE faults
      BY DEF KeptInv
    <3> QED BY <1>1, <1>4, <2>2, <3>1, <3>2
  <2> QED BY <1>2, <1>7, <2>1, <2>3, <2>4 DEF KeptInv
<1>8. CASE appended' = Append(appended, b)
  <2> HIDE DEF b
  <2>0. \/ faults' = faults /\ CursorMoves
        \/ faults' = faults + 1 /\ CursorStays
    <3>1. DOMAIN appended' = 1 .. Len(appended) + 1
      BY <1>1, <1>3, <1>8 DEF TypeOK
    <3>2. Len(appended) + 1 \in DOMAIN appended' /\ Len(appended) + 1 \notin DOMAIN appended
      BY <1>1, <3>1
    <3>3. appended' # appended
      BY <3>2
    <3> QED BY <1>5, <3>3
  <2>1. /\ \A k \in DOMAIN appended' : appended'[k].to <= Len(normalized)
    <3>1. /\ DOMAIN appended' = 1 .. Len(appended) + 1
          /\ appended'[Len(appended) + 1] = b
          /\ \A k \in 1 .. Len(appended) : appended'[k] = appended[k]
      BY <1>1, <1>3, <1>8 DEF TypeOK
    <3> QED BY <1>1, <1>3, <3>1 DEF KeptInv
  <2>2. /\ \A i : /\ Cardinality(Copies(i)') <= Cardinality(Copies(i)) + 1
                  /\ ~(b.from < i /\ i <= b.to) =>
                       Cardinality(Copies(i)') = Cardinality(Copies(i))
        /\ Cardinality(InputCopies') <= Cardinality(InputCopies) + 1
        /\ ~b.input => Cardinality(InputCopies') = Cardinality(InputCopies)
        /\ \A i : Cardinality(Copies(i)') \in Nat
        /\ Cardinality(InputCopies') \in Nat
    BY <1>3, <1>8, CopiesGrow
  <2>3. ASSUME NEW i \in DOMAIN normalized
        PROVE  Cardinality(Copies(i)')
                 <= IF i <= flushedCount' THEN 1 + faults' ELSE faults'
    <3>0. Cardinality(Copies(i)) <= IF i <= flushedCount THEN 1 + faults ELSE faults
      BY DEF KeptInv
    <3>1. CASE i <= flushedCount
      <4>1. Cardinality(Copies(i)') = Cardinality(Copies(i))
        BY <1>1, <1>3, <2>2, <3>1
      <4> QED BY <1>1, <1>4, <2>0, <3>0, <3>1, <4>1 DEF CursorMoves, CursorStays
    <3>2. CASE ~(i <= flushedCount)
      <4>1. Cardinality(Copies(i)') <= faults + 1
        BY <1>1, <1>3, <1>4, <2>2, <3>0, <3>2
      <4> QED BY <1>1, <2>0, <3>2, <4>1 DEF CursorMoves, CursorStays
    <3> QED BY <3>1, <3>2
  <2>4. Cardinality(InputCopies') <= IF inputFlushed' THEN 1 + faults' ELSE faults'
    BY <1>1, <1>3, <1>4, <2>0, <2>2 DEF KeptInv, CursorMoves, CursorStays
  <2> QED BY <1>2, <2>1, <2>3, <2>4 DEF KeptInv
<1> QED BY <1>5, <1>7, <1>8


\* Batches that are there stay; a new one carries everything before its end.
LEMMA GapFlush ==
  ASSUME TypeOK, CursorInv, TranscriptHasNoGap, NEW from, NEW to, NEW onError,
         NEW force \in BOOLEAN, Flush(from, force, to, onError)
  PROVE  TranscriptHasNoGap'
<1> DEFINE n == Len(appended)
           b == FlushedBatch
<1>1. /\ n \in Nat /\ Len(normalized) \in Nat
      /\ flushedCount \in 0 .. Len(normalized)
      /\ DOMAIN appended = 1 .. n
  BY DEF TypeOK
<1>2. normalized' = normalized
  BY DEF Flush
<1>3. CASE appended' = appended
  BY <1>2, <1>3 DEF TranscriptHasNoGap, Holds
<1>4. CASE appended' = Append(appended, b)
  <2>1. /\ DOMAIN appended' = 1 .. n + 1
        /\ appended'[n + 1] = b
        /\ \A k \in 1 .. n : appended'[k] = appended[k]
    BY <1>1, <1>4 DEF TypeOK, FlushedBatch, Batch
  <2>2. /\ b.from = flushedCount /\ b.to = Len(normalized)
        /\ ~inputFlushed => b.input
    BY DEF FlushedBatch
  <2> HIDE DEF b, n
  <2>3. ASSUME NEW k \in 1 .. n
        PROVE  /\ \E j \in 1 .. k : appended'[j].input
               /\ \A i \in 1 .. appended'[k].to :
                    normalized'[i].durable => \E j \in 1 .. k : Holds(j, i)'
    <3>1. \A j \in 1 .. k : j \in 1 .. n
      BY <1>1
    <3> QED BY <1>1, <1>2, <2>1, <3>1 DEF TranscriptHasNoGap, Holds
  <2>4. \E j \in 1 .. n + 1 : appended'[j].input
    <3>1. CASE inputFlushed
      <4>1. PICK k \in DOMAIN appended : appended[k].input
        BY <3>1 DEF CursorInv
      <4> QED BY <1>1, <2>1, <4>1
    <3>2. CASE ~inputFlushed
      BY <1>1, <2>1, <2>2, <3>2
    <3> QED BY <3>1, <3>2
  <2>5. ASSUME NEW i \in 1 .. Len(normalized), normalized[i].durable
        PROVE  \E j \in 1 .. n + 1 : Holds(j, i)'
    <3>1. CASE i \in 1 .. flushedCount
      <4>1. PICK k \in DOMAIN appended : Holds(k, i)
        BY <2>5, <3>1 DEF CursorInv
      <4> QED BY <1>1, <2>1, <4>1 DEF Holds
    <3>2. CASE i \notin 1 .. flushedCount
      <4>1. b.from < i /\ i <= b.to
        BY <1>1, <2>2, <3>2
      <4> QED BY <1>1, <2>1, <4>1 DEF Holds
    <3> QED BY <3>1, <3>2
  <2>6. \A k \in 1 .. n + 1 : k \in 1 .. n \/ k = n + 1
    BY <1>1
  <2> QED BY <1>2, <2>1, <2>2, <2>3, <2>4, <2>5, <2>6 DEF TranscriptHasNoGap
<1> QED BY <1>3, <1>4 DEF Flush

LEMMA GapSame ==
  ASSUME TranscriptHasNoGap, UNCHANGED <<normalized, flushVars>>
  PROVE  TranscriptHasNoGap'
BY DEF TranscriptHasNoGap, Holds, flushVars

\* A message more: it is behind every batch.
LEMMA KeptYield ==
  ASSUME TypeOK, KeptInv, TranscriptHasNoGap, NEW m \in Message,
         normalized' = Append(normalized, m), UNCHANGED <<flushVars, faults>>
  PROVE  KeptInv' /\ TranscriptHasNoGap'
<1> DEFINE n == Len(normalized)
<1>1. /\ n \in Nat /\ DOMAIN normalized = 1 .. n
      /\ DOMAIN normalized' = 1 .. n + 1 /\ Len(normalized') = n + 1
      /\ \A i \in 1 .. n : normalized'[i] = normalized[i]
      /\ flushedCount \in 0 .. n /\ faults \in Nat
  BY BoundsAssumption DEF TypeOK
<1>2. \A k \in DOMAIN appended : appended[k].to \in Nat /\ appended[k].to <= n
  <2>1. ASSUME NEW k \in DOMAIN appended PROVE appended[k] \in Batch
    BY DEF TypeOK
  <2> QED BY <2>1 DEF KeptInv, Batch
<1>3. /\ UNCHANGED <<appended, flushedCount, inputFlushed, faults>>
      /\ \A i : Copies(i)' = Copies(i)
      /\ InputCopies' = InputCopies
  BY DEF flushVars, Copies, InputCopies, Holds
<1>4. Cardinality(Copies(n + 1)) = 0
  <2>1. Copies(n + 1) = {}
    BY <1>1, <1>2 DEF Copies, Holds
  <2> QED BY <2>1, FS_EmptySet
<1> HIDE DEF n
<1>5. KeptInv'
  <2>1. ASSUME NEW i \in 1 .. n + 1
        PROVE  Cardinality(Copies(i)) <= IF i <= flushedCount THEN 1 + faults ELSE faults
    <3>1. CASE i \in 1 .. n
      BY <1>1, <3>1 DEF KeptInv
    <3>2. CASE i = n + 1
      BY <1>1, <1>4, <3>2
    <3> QED BY <1>1, <3>1, <3>2
  <2>2. \A k \in DOMAIN appended : appended[k].to <= n + 1
    BY <1>1, <1>2
  <2> QED BY <1>1, <1>3, <2>1, <2>2 DEF KeptInv
<1>6. TranscriptHasNoGap'
  BY <1>1, <1>2, <1>3 DEF TranscriptHasNoGap, Holds
<1> QED BY <1>5, <1>6

\* No step takes a fault back.
LEMMA FaultsGrow ==
  ASSUME TypeOK, Worker \/ \E c \in Cancellers : CancelRun(c) \/ CancelContinues(c)
  PROVE  faults \in Nat /\ faults' \in Nat /\ faults <= faults'
<1>1. faults \in Nat
  BY BoundsAssumption DEF TypeOK
<1>2. faults' = faults \/ faults' = faults + 1
  <2>1. CASE Worker
    BY <2>1 DEF Worker, StartGet, StartPut, MarkCommittedIfNeeded, FlushInLoop,
       PostLoopCheck, PostLoopFlush, FinalFlush, CompleteGet, CompletePut,
       AbortFlush, FinaliseCheck, FinaliseCancellingGet,
       FinaliseCancellingPut, FinaliseCancelledGet, FinaliseCancelledPut,
       ReadLatest, CatchFlush, CatchCheck, FailGet, FailPut,
       FlushQuietly, Flush, GetRun, UpdateGet, UpdatePut, LoopUnchanged,
       Succeeds, Fails, StoreFails
  <2>2. ASSUME NEW c \in Cancellers, CancelRun(c) \/ CancelContinues(c)
        PROVE  faults' = faults \/ faults' = faults + 1
    BY <2>2 DEF CancelRun, CancelContinues, CancellingGet,
       CancellingPut, LookupTask, CommittedOrEnded, CommitTimeout,
       TimeoutFailGet, TimeoutFailPut, TimedOut, Awaited, TaskEnded,
       FreshCheck, CancelledGet, CancelledPut, Fallback, CancelGet, CancelPut,
       StoreFails
  <2> QED BY <2>1, <2>2
<1> QED BY <1>1, <1>2

LEMMA KeptStep ==
  ASSUME TypeOK, CursorInv, KeptInv, TranscriptHasNoGap, [Next]_vars
  PROVE  KeptInv' /\ TranscriptHasNoGap'
<1>0. faults \in Nat /\ (UNCHANGED faults => faults' \in Nat /\ faults <= faults')
  BY BoundsAssumption DEF TypeOK
<1>1. ASSUME NEW m \in Message, Yield(m)
      PROVE  KeptInv' /\ TranscriptHasNoGap'
  <2>1. UNCHANGED <<flushVars, faults>>
    BY <1>1 DEF Yield, LoopUnchanged
  <2>2. CASE UNCHANGED normalized
    BY <1>0, <2>1, <2>2, KeptSame, GapSame
  <2>3. CASE normalized' = Append(normalized, m)
    BY <2>1, <2>3, KeptYield
  <2> QED BY <1>1, <2>2, <2>3 DEF Yield
<1>2. CASE ExecutorEnds \/ ExecutorThrows
  <2>1. UNCHANGED <<normalized, flushVars, faults>>
    BY <1>2 DEF ExecutorEnds, ExecutorThrows, LoopUnchanged
  <2> QED BY <1>0, <2>1, KeptSame, GapSame
<1>3. CASE Worker
  <2>1. CASE UNCHANGED <<normalized, flushVars>>
    BY <1>3, <2>1, FaultsGrow, KeptSame, GapSame
  <2>2. ASSUME NEW from, NEW to, NEW onError, NEW force \in BOOLEAN,
               Flush(from, force, to, onError)
        PROVE  KeptInv' /\ TranscriptHasNoGap'
    BY <2>2, KeptFlush, GapFlush
  <2> QED BY <1>3, <2>1, <2>2, WorkerFlushesOrNot
<1>4. ASSUME NEW c \in Cancellers, CancelRun(c) \/ CancelContinues(c)
      PROVE  KeptInv' /\ TranscriptHasNoGap'
  <2>1. UNCHANGED <<normalized, flushVars>>
    BY <1>4, CancelIdle DEF WorkerIdle, taskVars
  <2> QED BY <1>4, <2>1, FaultsGrow, KeptSame, GapSame
<1>5. CASE ExternalAbort \/ Crash \/ Stopped \/ UNCHANGED vars
  <2>1. UNCHANGED <<normalized, flushVars, faults>>
    BY <1>5 DEF ExternalAbort, Crash, Stopped, vars, taskVars, flushVars
  <2> QED BY <1>0, <2>1, KeptSame, GapSame
<1> QED BY <1>1, <1>2, <1>3, <1>4, <1>5 DEF Next, Executor

\* The thread is the run's own transcript: no line is missing before another,
\* and a line is there twice at most once for each append in doubt, however
\* many appends are refused and whoever aborts or cancels the run.
THEOREM TranscriptKept == Spec => []TranscriptIsKept
<1>1. Init => CursorInv /\ KeptInv /\ TranscriptHasNoGap
  <2> SUFFICES ASSUME Init PROVE CursorInv /\ KeptInv /\ TranscriptHasNoGap
    OBVIOUS
  <2>1. appended = <<>> /\ normalized = <<>> /\ flushedCount = 0 /\ ~inputFlushed /\ faults = 0
    BY DEF Init
  <2>2. InputCopies = {} /\ DOMAIN appended = {} /\ DOMAIN normalized = {}
    BY <2>1 DEF InputCopies
  <2>3. Cardinality(InputCopies) = 0
    BY <2>2, FS_EmptySet
  <2> QED BY <2>1, <2>2, <2>3 DEF CursorInv, KeptInv, TranscriptHasNoGap
<1>2. TypeOK /\ CursorInv /\ KeptInv /\ TranscriptHasNoGap /\ [Next]_vars
        => CursorInv' /\ KeptInv' /\ TranscriptHasNoGap'
  BY CursorStep, KeptStep
<1>3. TypeOK /\ KeptInv /\ TranscriptHasNoGap => TranscriptIsKept
  <2> SUFFICES ASSUME TypeOK, KeptInv, TranscriptHasNoGap PROVE TranscriptIsKept
    OBVIOUS
  <2>1. faults \in Nat
    BY BoundsAssumption DEF TypeOK
  <2>2. \A i \in DOMAIN normalized : Cardinality(Copies(i)) <= 1 + faults
    BY <2>1, CopiesFinite DEF KeptInv
  <2>3. Cardinality(InputCopies) <= 1 + faults
    BY <2>1, CopiesFinite DEF KeptInv
  <2> QED
    BY <2>2, <2>3 DEF TranscriptIsKept, RepeatsOnlyAfterFaults, Copies, InputCopies
<1> QED BY <1>1, <1>2, <1>3, TypeCorrect, PTL DEF Spec


-----------------------------------------------------------------------------
(* What cancelRun promises on the run's own process. *)

\* Past the hold and the wait for the task, the task has ended.
QuietInv ==
  \A c \in LocalCancellers :
     cpc[c] \in {"fresh", "led_get", "led_put", "fallback", "returned", "timedout"}
       => WorkerGone

LEMMA GoneStays == ASSUME WorkerGone, [Next]_vars
                   PROVE  UNCHANGED <<normalized, appended, wpc, wheld>>
<1> USE DEF WorkerGone
<1>1. ~Executor
  BY DEF Executor, Yield, ExecutorEnds, ExecutorThrows
<1>2. ~Worker
  BY DEF Worker, StartGet, StartPut, MarkCommittedIfNeeded, FlushInLoop,
         PostLoopCheck, PostLoopFlush, FinalFlush, CompleteGet, CompletePut,
         AbortFlush, FinaliseCheck, FinaliseCancellingGet,
         FinaliseCancellingPut, FinaliseCancelledGet, FinaliseCancelledPut,
         ReadLatest, CatchFlush, CatchCheck, FailGet, FailPut,
         FlushQuietly, Flush, GetRun, UpdateGet, UpdatePut
<1>3. ASSUME NEW c \in Cancellers, CancelRun(c) \/ CancelContinues(c)
      PROVE  UNCHANGED <<normalized, appended, wpc, wheld>>
  BY <1>3, CancelIdle DEF WorkerIdle, taskVars, flushVars
<1>4. CASE ExternalAbort \/ Crash \/ Stopped \/ UNCHANGED vars
  BY <1>4 DEF ExternalAbort, Crash, Stopped, vars
<1> QED BY <1>1, <1>2, <1>3, <1>4 DEF Next

LEMMA QuietStep == ASSUME TypeOK, QuietInv, [Next]_vars PROVE QuietInv'
<1>1. CASE Executor \/ Worker
  <2>1. ~WorkerGone
    BY <1>1 DEF Executor, Yield, ExecutorEnds, ExecutorThrows,
       Worker, StartGet, StartPut, MarkCommittedIfNeeded, FlushInLoop,
       PostLoopCheck, PostLoopFlush, FinalFlush, CompleteGet, CompletePut,
       AbortFlush, FinaliseCheck, FinaliseCancellingGet,
       FinaliseCancellingPut, FinaliseCancelledGet, FinaliseCancelledPut,
       ReadLatest, CatchFlush, CatchCheck, FailGet, FailPut,
       FlushQuietly, Flush, GetRun, UpdateGet, UpdatePut, WorkerGone
  <2>2. cpc' = cpc
    <3>1. CASE Executor
      BY <3>1 DEF Executor, Yield, ExecutorEnds, ExecutorThrows, LoopUnchanged,
                  cancelVars
    <3>2. CASE Worker
      BY <3>2 DEF Worker, StartGet, StartPut, MarkCommittedIfNeeded, FlushInLoop,
         PostLoopCheck, PostLoopFlush, FinalFlush, CompleteGet, CompletePut,
         AbortFlush, FinaliseCheck, FinaliseCancellingGet,
         FinaliseCancellingPut, FinaliseCancelledGet, FinaliseCancelledPut,
         ReadLatest, CatchFlush, CatchCheck, FailGet, FailPut,
         FlushQuietly, Flush, GetRun, UpdateGet, UpdatePut, LoopUnchanged,
         cancelVars
    <3> QED BY <1>1, <3>1, <3>2
  <2> QED BY <2>1, <2>2 DEF QuietInv
<1>2. ASSUME NEW c \in Cancellers, CancelRun(c) \/ CancelContinues(c)
      PROVE  QuietInv'
  <2>1. wpc' = wpc
    BY <1>2, CancelIdle DEF WorkerIdle
  <2>2. \A d \in LocalCancellers : d # c => cpc'[d] = cpc[d]
    BY <1>2 DEF TypeOK, Cancellers, CancelRun, CancelContinues, CancellingGet,
       CancellingPut, LookupTask, CommittedOrEnded, CommitTimeout,
       TimeoutFailGet, TimeoutFailPut, TimedOut, Awaited, TaskEnded,
       FreshCheck, CancelledGet, CancelledPut, Fallback, CancelGet, CancelPut,
       CancelGoes, Answers
  <2>3. c \in LocalCancellers =>
          \/ WorkerGone
          \/ cpc'[c] \notin {"fresh", "led_get", "led_put", "fallback",
                             "returned", "timedout"}
    <3>1. CASE CancelRun(c) \/ CancellingGet(c) \/ CancellingPut(c)
               \/ CommittedOrEnded(c) \/ CommitTimeout(c)
               \/ TimeoutFailGet(c) \/ TimeoutFailPut(c)
      BY <3>1 DEF TypeOK, CancelRun, CancellingGet, CancellingPut,
         CommittedOrEnded, CommitTimeout, TimeoutFailGet, TimeoutFailPut,
         CancelGet, CancelPut, CancelGoes
    <3>2. CASE LookupTask(c)
      BY <3>2 DEF TypeOK, LookupTask, HasTask, CancelGoes
    <3>3. CASE TimedOut(c) \/ Awaited(c)
      BY <3>3 DEF TimedOut, Awaited, TaskEnded
    <3>4. CASE FreshCheck(c) \/ CancelledGet(c) \/ CancelledPut(c) \/ Fallback(c)
      BY <3>4 DEF QuietInv, FreshCheck, CancelledGet, CancelledPut, Fallback,
         CancelGet, CancelPut, At
    <3> QED BY <1>2, <3>1, <3>2, <3>3, <3>4 DEF CancelContinues
  <2> QED BY <2>1, <2>2, <2>3 DEF QuietInv, WorkerGone
<1>3. CASE Crash
  BY <1>3 DEF Crash, QuietInv, WorkerGone
<1>4. CASE ExternalAbort \/ Stopped \/ UNCHANGED vars
  BY <1>4 DEF ExternalAbort, Stopped, vars, cancelVars, QuietInv, WorkerGone
<1> QED BY <1>1, <1>2, <1>3, <1>4 DEF Next

LEMMA QuietAlways == Spec => []QuietInv
<1>1. Init => QuietInv
  BY DEF Init, QuietInv, Cancellers
<1> QED BY <1>1, QuietStep, TypeCorrect, PTL DEF Spec

\* After cancelRun has answered on the run's own process, by a result or by the
\* timeout error, the run does nothing any more.
THEOREM CancelQuiesces == Spec => CancelledRunIsQuiet
<1>1. QuietInv /\ [Next]_vars =>
        [(\E c \in LocalCancellers : cpc[c] \in {"returned", "timedout"})
           => UNCHANGED <<normalized, appended, wpc, wheld>>]_vars
  BY GoneStays DEF QuietInv
<1> QED BY <1>1, QuietAlways, PTL DEF Spec, CancelledRunIsQuiet


\* A worker that is gone does not write the record.
LEMMA GoneWritesNothing ==
  ASSUME WorkerGone, Executor \/ Worker PROVE FALSE
BY DEF WorkerGone, Executor, Yield, ExecutorEnds, ExecutorThrows,
   Worker, StartGet, StartPut, MarkCommittedIfNeeded, FlushInLoop,
   PostLoopCheck, PostLoopFlush, FinalFlush, CompleteGet, CompletePut,
   AbortFlush, FinaliseCheck, FinaliseCancellingGet,
   FinaliseCancellingPut, FinaliseCancelledGet, FinaliseCancelledPut,
   ReadLatest, CatchFlush, CatchCheck, FailGet, FailPut,
   FlushQuietly, Flush, GetRun, UpdateGet, UpdatePut

LEMMA AnswerStep ==
  ASSUME TypeOK, QuietInv, CancelAnswersTheStoredStatus, [Next]_vars
  PROVE  CancelAnswersTheStoredStatus'
<1> SUFFICES ASSUME NEW c \in LocalCancellers, Cancellers = {c},
                    cpc'[c] = "returned"
             PROVE  rec'.status = cret'[c]
  BY DEF CancelAnswersTheStoredStatus, Cancellers
<1>1. CASE Executor \/ Worker
  <2>1. UNCHANGED cancelVars
    <3>1. CASE Executor
      BY <3>1 DEF Executor, Yield, ExecutorEnds, ExecutorThrows, LoopUnchanged
    <3>2. CASE Worker
      BY <3>2 DEF Worker, StartGet, StartPut, MarkCommittedIfNeeded, FlushInLoop,
         PostLoopCheck, PostLoopFlush, FinalFlush, CompleteGet, CompletePut,
         AbortFlush, FinaliseCheck, FinaliseCancellingGet,
         FinaliseCancellingPut, FinaliseCancelledGet, FinaliseCancelledPut,
         ReadLatest, CatchFlush, CatchCheck, FailGet, FailPut,
         FlushQuietly, Flush, GetRun, UpdateGet, UpdatePut, LoopUnchanged
    <3> QED BY <1>1, <3>1, <3>2
  <2>2. WorkerGone
    BY <2>1 DEF QuietInv, cancelVars
  <2> QED BY <1>1, <2>2, GoneWritesNothing
<1>2. ASSUME NEW d \in Cancellers, CancelRun(d) \/ CancelContinues(d)
      PROVE  rec'.status = cret'[c]
  <2>1. d = c
    OBVIOUS
  <2>2. /\ c \in Cancellers
        /\ cpc[c] \in CancelPc /\ cret[c] \in Status \cup {"none"}
        /\ \A pc : CancelGoes(c, pc) => cpc'[c] = pc
    BY DEF TypeOK, CancelGoes
  <2>3. CASE CancelRun(c) \/ CancellingGet(c) \/ CancellingPut(c)
             \/ LookupTask(c) \/ CommittedOrEnded(c) \/ CommitTimeout(c)
             \/ TimeoutFailGet(c) \/ TimeoutFailPut(c) \/ TimedOut(c)
             \/ Awaited(c) \/ CancelledGet(c)
    BY <2>2, <2>3 DEF CancelRun, CancellingGet, CancellingPut, LookupTask,
       CommittedOrEnded, CommitTimeout, TimeoutFailGet, TimeoutFailPut,
       TimedOut, Awaited, TaskEnded, CancelledGet, CancelGet, CancelPut
  <2>4. CASE FreshCheck(c) \/ Fallback(c)
    BY <2>2, <2>4 DEF FreshCheck, Fallback, Answers, TypeOK
  <2>5. CASE CancelledPut(c)
    BY <2>2, <2>5 DEF CancelledPut, CancelPut, Updated, TypeOK
  <2> QED
    BY <1>2, <2>1, <2>3, <2>4, <2>5 DEF CancelContinues
<1>3. CASE Crash
  BY <1>3 DEF Crash, CancelAnswersTheStoredStatus, TypeOK
<1>4. CASE ExternalAbort \/ Stopped \/ UNCHANGED vars
  BY <1>4 DEF ExternalAbort, Stopped, vars, cancelVars,
              CancelAnswersTheStoredStatus
<1> QED BY <1>1, <1>2, <1>3, <1>4 DEF Next

\* The answer of a lone cancelRun on the run's process is what the store says,
\* and stays so: the race between its last write, the worker's writes and
\* refused store calls never makes it lie.
THEOREM CancelAnswersTruly == Spec => []CancelAnswersTheStoredStatus
<1>1. Init => CancelAnswersTheStoredStatus
  BY DEF Init, CancelAnswersTheStoredStatus, Cancellers
<1> QED BY <1>1, AnswerStep, QuietAlways, TypeCorrect, PTL DEF Spec

\* What the run record says is true: completed vouches for the transcript, and
\* the status a lone cancelRun answered is the one that stays.
THEOREM RecordIsTrue == Spec => []RecordTellsTheTruth
<1>1. CompletedHasTranscript /\ CancelAnswersTheStoredStatus => RecordTellsTheTruth
  BY DEF RecordTellsTheTruth
<1> QED BY <1>1, CompletedIsComplete, CancelAnswersTruly, PTL

-----------------------------------------------------------------------------
(* The record of a run that nobody cancels *)

Alone == \A c \in Cancellers : cpc[c] = "idle"

\* What the record says at each place of a worker that is its only writer.  A
\* refused write may have taken effect: then the catch block finds a record that
\* is in progress, or completed by a builder that will not fail any more.
LifeInv ==
  Alone =>
    /\ wpc \in {"start_get", "start_put"} => rec.status = "queued"
    /\ wpc \in TryPcs \ {"start_get", "start_put"} =>
         rec.status = "in_progress" /\ wpc # "post_flush"
    /\ wpc \in {"start_put", "done_put", "ing_put", "led_put", "fail_put"} => wheld = rec
    /\ wpc \in {"done_get", "done_put"} => rb = "completed"
    /\ wpc \in {"ing_get", "ing_put", "fail_get", "fail_put"} =>
         rec.status \in {"queued", "in_progress"}
    /\ wpc \in {"led_get", "led_put"} => rec.status = "cancelling"
    /\ wpc \in {"catch_flush", "catch_get"} =>
         rec.status \in {"queued", "in_progress"} \/ rb = "completed"
    /\ wpc \in FinalisePcs \cup {"abort_flush", "latest"} => aborted

\* The worker, the executor, an abort and a crash leave the calls alone that
\* nobody has made; a call that is made is not idle.
LEMMA AloneBefore ==
  ASSUME TypeOK, Alone', [Next]_vars
  PROVE  /\ Alone
         /\ \A c \in Cancellers : ~(CancelRun(c) \/ CancelContinues(c))
<1>1. ASSUME NEW c \in Cancellers, CancelRun(c) \/ CancelContinues(c) PROVE FALSE
  <2>1. /\ cpc'[c] = "idle" /\ cpc[c] \in CancelPc
        /\ \A pc : CancelGoes(c, pc) => cpc'[c] = pc
    BY <1>1 DEF Alone, TypeOK, CancelGoes
  <2>2. CASE CancelRun(c) \/ CancellingGet(c) \/ CancellingPut(c)
             \/ LookupTask(c) \/ CommittedOrEnded(c) \/ CommitTimeout(c)
             \/ TimeoutFailGet(c) \/ TimeoutFailPut(c) \/ TimedOut(c)
             \/ Awaited(c) \/ CancelledGet(c)
    BY <2>1, <2>2 DEF CancelRun, CancellingGet, CancellingPut, LookupTask,
       CommittedOrEnded, CommitTimeout, TimeoutFailGet, TimeoutFailPut,
       TimedOut, Awaited, TaskEnded, CancelledGet, CancelGet, CancelPut
  <2>3. CASE FreshCheck(c) \/ Fallback(c) \/ CancelledPut(c)
    BY <2>1, <2>3 DEF FreshCheck, Fallback, Answers, CancelledPut, CancelPut
  <2> QED BY <1>1, <2>2, <2>3 DEF CancelContinues
<1>2. ASSUME Executor PROVE Alone
  BY <1>2 DEF Executor, Yield, ExecutorEnds, ExecutorThrows, LoopUnchanged, cancelVars, Alone
<1>3. ASSUME Worker PROVE Alone
  BY <1>3 DEF Worker, StartGet, StartPut, MarkCommittedIfNeeded, FlushInLoop,
         PostLoopCheck, PostLoopFlush, FinalFlush, CompleteGet, CompletePut,
         AbortFlush, FinaliseCheck, FinaliseCancellingGet,
         FinaliseCancellingPut, FinaliseCancelledGet, FinaliseCancelledPut,
         ReadLatest, CatchFlush, CatchCheck, FailGet, FailPut,
         FlushQuietly, Flush, GetRun, UpdateGet, UpdatePut, LoopUnchanged,
         cancelVars, Alone
<1>4. ASSUME Crash PROVE Alone
  BY <1>4 DEF Crash, Alone, TypeOK
<1>5. ASSUME ExternalAbort \/ Stopped \/ UNCHANGED vars PROVE Alone
  BY <1>5 DEF ExternalAbort, Stopped, vars, cancelVars, Alone
<1>6. \A c \in Cancellers : ~(CancelRun(c) \/ CancelContinues(c))
  BY <1>1
<1> QED BY <1>2, <1>3, <1>4, <1>5, <1>6 DEF Next

\* The steps of the worker that leave the record alone.
LEMMA LifeReads ==
  ASSUME TypeOK, LifeInv, Alone, Worker,
         ~(StartPut \/ CompletePut \/ FinaliseCancellingPut \/ FinaliseCancelledPut \/ FailPut)
  PROVE  LifeInv' /\ rec' = rec
<1> USE DEF LifeInv, TryPcs, FinalisePcs, Caught, AfterFinalise, Succeeds, Fails
<1>1. CASE StartGet \/ CompleteGet
  BY <1>1 DEF StartGet, CompleteGet, UpdateGet
<1>2. CASE FinaliseCancellingGet \/ FinaliseCancelledGet \/ FailGet
  BY <1>2 DEF FinaliseCancellingGet, FinaliseCancelledGet, FailGet, UpdateGet
<1>3. CASE MarkCommittedIfNeeded \/ FlushInLoop
  BY <1>3 DEF MarkCommittedIfNeeded, FlushInLoop, FlushQuietly, Flush, LoopUnchanged
<1>4. CASE PostLoopCheck
  BY <1>4 DEF PostLoopCheck, GetRun, POST_LOOP_TERMINAL_STATUSES
<1>5. CASE PostLoopFlush
  BY <1>5 DEF PostLoopFlush, FlushQuietly, Flush
<1>6. CASE FinalFlush
  BY <1>6 DEF FinalFlush, Flush
<1>7. CASE AbortFlush
  BY <1>7 DEF AbortFlush, FlushQuietly, Flush
<1>8. CASE FinaliseCheck
  <2>1. rec.status \notin TERMINAL_RUN_STATUSES \cup {"cancelling"}
          => rec.status \in {"queued", "in_progress"}
    BY DEF TypeOK, Record, Status, TERMINAL_RUN_STATUSES
  <2> QED BY <1>8, <2>1 DEF FinaliseCheck, GetRun
<1>9. CASE ReadLatest
  BY <1>9 DEF ReadLatest, GetRun
<1>10. CASE CatchFlush
  BY <1>10 DEF CatchFlush, FlushQuietly, Flush, FailOrEnd, CanFail
<1>11. CASE CatchCheck
  BY <1>11 DEF CatchCheck, GetRun, FailOrEnd, CanFail
<1> QED BY <1>1, <1>2, <1>3, <1>4, <1>5, <1>6, <1>7, <1>8, <1>9, <1>10, <1>11 DEF Worker

\* Its writes, each of which makes one of the transitions or none.
LEMMA LifeWrites ==
  ASSUME TypeOK, LifeInv, Alone,
         StartPut \/ CompletePut \/ FinaliseCancellingPut \/ FinaliseCancelledPut \/ FailPut
  PROVE  LifeInv' /\ [Lifecycle!Next]_rec
<1> USE DEF LifeInv, TryPcs, FinalisePcs, Caught, AfterFinalise, Succeeds, Fails, UpdatePut,
            Updated, Lifecycle!Moves
<1>1. CASE StartPut
  BY <1>1 DEF StartPut, Lifecycle!Next, Lifecycle!start
<1>2. CASE CompletePut
  BY <1>2 DEF CompletePut, Lifecycle!Next, Lifecycle!complete
<1>3. CASE FinaliseCancellingPut
  BY <1>3 DEF FinaliseCancellingPut, Lifecycle!Next, Lifecycle!cancelling
<1>4. CASE FinaliseCancelledPut
  BY <1>4 DEF FinaliseCancelledPut, Lifecycle!Next, Lifecycle!cancel
<1>5. CASE FailPut
  BY <1>5 DEF FailPut, Lifecycle!Next, Lifecycle!fail
<1> QED BY <1>1, <1>2, <1>3, <1>4, <1>5

LEMMA LifeStep ==
  ASSUME TypeOK, LifeInv, [Next]_vars
  PROVE  LifeInv' /\ (Alone' => [Lifecycle!Next]_rec)
<1> SUFFICES ASSUME Alone' PROVE LifeInv' /\ [Lifecycle!Next]_rec
  BY DEF LifeInv
<1>0. Alone /\ \A c \in Cancellers : ~(CancelRun(c) \/ CancelContinues(c))
  BY AloneBefore
<1>1. CASE Executor
  BY <1>0, <1>1 DEF Executor, Yield, ExecutorEnds, ExecutorThrows, LoopUnchanged, LifeInv,
                    TryPcs, FinalisePcs, Caught
<1>2. CASE Worker
  BY <1>0, <1>2, LifeReads, LifeWrites
<1>3. CASE ExternalAbort
  BY <1>0, <1>3 DEF ExternalAbort, LifeInv, TryPcs, FinalisePcs, taskVars
<1>4. CASE Crash
  BY <1>0, <1>4 DEF Crash, LifeInv, TryPcs, FinalisePcs
<1>5. CASE Stopped \/ UNCHANGED vars
  BY <1>0, <1>5 DEF Stopped, vars, LifeInv, TryPcs, FinalisePcs
<1> QED BY <1>0, <1>1, <1>2, <1>3, <1>4, <1>5 DEF Next

\* A behaviour of the whole is one of a run, and one of a controller object.
LEMMA PartsBehave ==
  MCSpec => /\ Init /\ [][Next]_vars
            /\ Object!Init /\ [][Object!Next]_(Object!vars)
            /\ M!Init /\ [][M!Next]_(M!vars)
<1>1. MCInit => Init /\ Object!Init /\ M!Init
  BY DEF MCInit
<1>2. [MCNext]_<<part, vars, messageVars, controllerVars>>
        => [Next]_vars /\ [Object!Next]_(Object!vars) /\ [M!Next]_(M!vars)
  <2>1. UNCHANGED controllerVars => UNCHANGED Object!vars
    BY DEF controllerVars, Object!vars, Object!classVars, Object!lifeVars
  <2>2. UNCHANGED messageVars => UNCHANGED M!vars
    BY DEF messageVars, M!vars
  <2> QED BY <2>1, <2>2 DEF MCNext
<1> QED BY <1>1, <1>2, PTL DEF MCSpec

\* Until somebody calls cancelRun the stored record moves along the transitions
\* of RunBuilder, each once and with its timestamp: whatever the worker, the
\* store that refuses calls, an abort from outside and a crash do.
THEOREM RunLivesItsLifecycle == MCSpec => RefinesLifecycle
<1>1. Init => LifeInv /\ Lifecycle!Init
  BY DEF Init, LifeInv, TryPcs, FinalisePcs, NewRecord, Lifecycle!Init
<1>2. TypeOK /\ LifeInv /\ [Next]_vars =>
        LifeInv' /\ [(\A c \in Cancellers : cpc'[c] = "idle") => [Lifecycle!Next]_rec]_vars
  BY LifeStep DEF Alone
<1> QED BY <1>1, <1>2, TypeCorrect, PartsBehave, PTL DEF RefinesLifecycle, Spec

-----------------------------------------------------------------------------
(* The controller object *)

\* What decorating the class, and then the installation of the runtime, has left.
RoutesInv ==
  /\ defined \subseteq Object!Routes /\ version \in Versions \cup {"none"}
  /\ routes = [r \in Object!Routes |-> IF r \in defined THEN "user"
                                       ELSE IF version = "none" THEN "absent" ELSE "stub"]
  /\ proto # "none" => version # "none"
  /\ at # 0 \/ status # "PENDING" => proto = "agent"
  /\ own = [r \in Object!Routes |->
              IF runtime = "none" \/ r \in defined \ {"getRunStream"} THEN "absent" ELSE "runtime"]

\* What there is of the runtime and of its store, by the status of the object.
ObjectInv ==
  /\ at \in 0 .. 11
  /\ status = "PENDING" => runtime = IF at < 10 THEN "none" ELSE "up"
  /\ status = "PENDING" /\ at >= 9 => store = "ready"
  /\ status = "READY" => runtime = "up"
  /\ status = "FAILING" => runtime = "stopping"
  /\ status = "DESTROYING" /\ at > 0 => runtime = "down"
  /\ status = "DESTROYING" => runtime \in {"stopping", "down"}
  /\ status = "ERROR" => runtime \in {"none", "down"}
  /\ status = "DESTROYED" => runtime = "down"
  /\ status \in {"PENDING", "READY", "FAILING", "DESTROYING", "ERROR", "DESTROYED"}

\* No run is waited for but those that were running; none starts again.
RunsInv ==
  /\ waited \subseteq Runs /\ run \in [Runs -> {"idle", "asked", "running", "ended"}]
  /\ \A r \in waited : run[r] \in {"running", "ended"}
  /\ runtime \in {"none", "up"} => waited = {}
  /\ runtime = "down" => waited \cap Object!Running = {}

ControllerInv == RoutesInv /\ ObjectInv /\ RunsInv

\* Where among the steps of init the store and the runtime come to be.
LEMMA StepsAre ==
  /\ Len(Object!InitSteps) = 11 /\ Len(Object!DestroySteps) = 3
  /\ Object!InitSteps[8] = "createStore" /\ Object!InitSteps[9] = "storeInit"
  /\ Object!InitSteps[10] = "create"
  /\ \A i \in 1 .. 11 :
       /\ Object!InitSteps[i] = "create" <=> i = 10
       /\ Object!InitSteps[i] = "createStore" <=> i = 8
       /\ Object!InitSteps[i] = "storeInit" <=> i = 9
BY DEF Object!InitSteps, Object!DestroySteps

LEMMA ControllerInit == Object!Init => ControllerInv
<1> SUFFICES ASSUME Object!Init PROVE ControllerInv
  OBVIOUS
<1> USE DEF Object!Init
<1>1. RoutesInv
  BY DEF RoutesInv
<1>2. ObjectInv /\ RunsInv
  BY DEF ObjectInv, RunsInv, Object!Running
<1> QED BY <1>1, <1>2 DEF ControllerInv

\* Decorating the class and making its prototype.
LEMMA ClassSteps ==
  ASSUME ControllerInv,
         \/ \E v \in Versions : Object!defineAgentController(v)
         \/ Object!registerPrototypeCreators \/ Object!createProto
  PROVE  ControllerInv'
<1> USE DEF ControllerInv
<1>1. UNCHANGED Object!lifeVars /\ run' = run /\ defined' = defined
  BY DEF Object!defineAgentController, Object!registerPrototypeCreators, Object!createProto
<1>2. ObjectInv' /\ RunsInv'
  BY <1>1 DEF ObjectInv, RunsInv, Object!lifeVars, Object!Running
<1>3. ASSUME NEW v \in Versions, Object!defineAgentController(v) PROVE RoutesInv'
  <2>1. /\ version = "none" /\ version' = v /\ proto' = proto /\ proto = "none"
        /\ routes' = [r \in Object!Routes |-> IF r \in defined THEN "user" ELSE "stub"]
    BY <1>3 DEF Object!defineAgentController, RoutesInv
  <2>2. at = 0 /\ status = "PENDING"
    BY <2>1 DEF RoutesInv
  <2> QED BY <1>1, <2>1, <2>2, InstancesAssumption
          DEF RoutesInv, Object!lifeVars, Object!AgentControllerAssumption
<1>4. CASE Object!registerPrototypeCreators
  <2>1. UNCHANGED <<defined, version, routes, proto, own, at, status, runtime>>
    BY <1>1, <1>4 DEF Object!registerPrototypeCreators, Object!lifeVars
  <2> QED BY <1>2, <2>1 DEF RoutesInv
<1>5. CASE Object!createProto
  <2>1. version # "none" /\ proto = "none" /\ UNCHANGED <<version, routes>>
    BY <1>5 DEF Object!createProto
  <2>2. at = 0 /\ status = "PENDING"
    BY <2>1 DEF RoutesInv
  <2>3. UNCHANGED <<defined, own, at, status, runtime>>
    BY <1>1 DEF Object!lifeVars
  <2> QED BY <1>2, <2>1, <2>2, <2>3 DEF RoutesInv
<1> QED BY <1>2, <1>3, <1>4, <1>5

\* The steps of init.
LEMMA InitializingSteps ==
  ASSUME ControllerInv, Object!Step \/ Object!Ready \/ Object!StepThrows
  PROVE  ControllerInv'
<1> USE DEF ControllerInv
<1>1. CASE Object!Step
  <2>1. /\ proto = "agent" /\ status = "PENDING" /\ at < 11 /\ at' = at + 1
        /\ UNCHANGED <<defined, version, routes, proto, status, waited, run>>
        /\ runtime' = IF Object!InitSteps[at'] = "create" THEN "up" ELSE runtime
        /\ own' = IF Object!InitSteps[at'] = "create" THEN Object!Installed ELSE own
        /\ store' = CASE Object!InitSteps[at'] = "createStore" -> "opened"
                      [] Object!InitSteps[at'] = "storeInit" -> "ready" [] OTHER -> store
    BY <1>1, StepsAre DEF Object!Step, Object!classVars
  <2>2. at' \in 1 .. 11 /\ at \in 0 .. 10
    BY <2>1 DEF ObjectInv
  <2>3. /\ runtime' = IF at' = 10 THEN "up" ELSE runtime
        /\ own' = IF at' = 10 THEN Object!Installed ELSE own
        /\ at' = 9 => store' = "ready"
        /\ at' > 9 => store' = store
    BY <2>1, <2>2, StepsAre
  <2>4. ObjectInv'
    BY <2>1, <2>2, <2>3 DEF ObjectInv
  <2>5. CASE at' = 10
    <3>1. runtime = "none" /\ version # "none"
      BY <2>1, <2>2, <2>5 DEF ObjectInv, RoutesInv
    <3>2. \A r \in Object!Routes :
            Object!Serving(r) = IF r \in defined THEN "user" ELSE "stub"
      BY <3>1 DEF RoutesInv, Object!Serving
    <3>3. Object!Installed = [r \in Object!Routes |-> IF r \in defined \ {"getRunStream"}
                                                      THEN "absent" ELSE "runtime"]
      BY <3>1, <3>2 DEF Object!Installed, RoutesInv
    <3>4. RoutesInv'
      BY <2>1, <2>2, <2>3, <2>5, <3>3 DEF RoutesInv
    <3>5. RunsInv'
      BY <2>1, <2>3, <2>5, <3>1 DEF RunsInv, Object!Running
    <3> QED BY <2>4, <3>4, <3>5
  <2>6. CASE at' # 10
    BY <2>1, <2>2, <2>3, <2>4, <2>6 DEF RoutesInv, RunsInv, Object!Running
  <2> QED BY <2>5, <2>6
<1>2. CASE Object!Ready
  <2>1. /\ status = "PENDING" /\ at = 11 /\ status' = "READY"
        /\ UNCHANGED <<defined, version, routes, proto, own, at, store, runtime, waited, run>>
    BY <1>2, StepsAre DEF Object!Ready, Object!classVars
  <2> QED BY <2>1 DEF RoutesInv, ObjectInv, RunsInv, Object!Running
<1>3. CASE Object!StepThrows
  <2>1. /\ proto = "agent" /\ status = "PENDING"
        /\ UNCHANGED <<defined, version, routes, proto, own, at, store, run>>
        /\ \/ runtime = "up" /\ runtime' = "stopping" /\ waited' = Object!Running
              /\ status' = "FAILING"
           \/ runtime # "up" /\ status' = "ERROR" /\ UNCHANGED <<runtime, waited>>
    BY <1>3 DEF Object!StepThrows, Object!Stops, Object!classVars
  <2> QED BY <2>1 DEF RoutesInv, ObjectInv, RunsInv, Object!Running
<1> QED BY <1>1, <1>2, <1>3

\* The steps of destroy.
LEMMA DestroyingSteps ==
  ASSUME ControllerInv,
         Object!Destroy \/ Object!RuntimeDown \/ Object!DestroyHook \/ Object!Destroyed
  PROVE  ControllerInv'
<1> USE DEF ControllerInv
<1>1. CASE Object!Destroy
  <2>1. /\ status = "READY" /\ status' = "DESTROYING" /\ at' = 0
        /\ runtime' = "stopping" /\ waited' = Object!Running
        /\ UNCHANGED <<defined, version, routes, proto, own, store, run>>
    BY <1>1 DEF Object!Destroy, Object!Stops, Object!classVars
  <2> QED BY <2>1 DEF RoutesInv, ObjectInv, RunsInv, Object!Running
<1>2. CASE Object!RuntimeDown
  <2>1. /\ runtime = "stopping" /\ waited \cap Object!Running = {} /\ runtime' = "down"
        /\ status' = IF status = "FAILING" THEN "ERROR" ELSE status
        /\ at' = IF status = "DESTROYING" /\ throws' # throws THEN 4 ELSE at
        /\ UNCHANGED <<defined, version, routes, proto, own, waited, run>>
    BY <1>2, StepsAre DEF Object!RuntimeDown, Object!AllSettled, Object!classVars
  <2>2. status \in {"FAILING", "DESTROYING"}
    BY <2>1 DEF ObjectInv
  <2> QED BY <2>1, <2>2 DEF RoutesInv, ObjectInv, RunsInv, Object!Running
<1>3. CASE Object!DestroyHook
  <2>1. /\ status = "DESTROYING" /\ runtime = "down" /\ at < 3
        /\ at' \in {at + 1, 4}
        /\ UNCHANGED <<defined, version, routes, proto, own, status, store, runtime, waited, run>>
    BY <1>3, StepsAre DEF Object!DestroyHook, Object!classVars
  <2> QED BY <2>1 DEF RoutesInv, ObjectInv, RunsInv, Object!Running
<1>4. CASE Object!Destroyed
  <2>1. /\ status = "DESTROYING" /\ runtime = "down" /\ status' = "DESTROYED"
        /\ UNCHANGED <<defined, version, routes, proto, own, at, store, runtime, waited, run>>
    BY <1>4 DEF Object!Destroyed, Object!classVars
  <2> QED BY <2>1 DEF RoutesInv, ObjectInv, RunsInv, Object!Running
<1> QED BY <1>1, <1>2, <1>3, <1>4

\* The steps of the runs: who is waited for runs, or has ended.
LEMMA RunSteps ==
  ASSUME ControllerInv, NEW r \in Runs, Object!Ask(r) \/ Object!Register(r) \/ Object!End(r)
  PROVE  ControllerInv'
<1> USE DEF ControllerInv
<1>1. /\ UNCHANGED <<defined, version, routes, proto, own, at, status, store, runtime, waited>>
      /\ run' \in [Runs -> {"idle", "asked", "running", "ended"}]
      /\ \A q \in Runs : q # r => run'[q] = run[q]
      /\ \/ run[r] = "idle" /\ run'[r] = "asked"
         \/ run[r] = "asked" /\ run'[r] \in {"running", "ended"}
         \/ run[r] = "running" /\ run'[r] = "ended"
  BY DEF RunsInv, Object!Ask, Object!Register, Object!End, Object!classVars, Object!lifeVars
<1>2. RoutesInv' /\ ObjectInv'
  BY <1>1 DEF RoutesInv, ObjectInv
<1>3. RunsInv'
  BY <1>1 DEF RunsInv, Object!Running
<1> QED BY <1>2, <1>3

LEMMA ControllerNext == ControllerInv /\ [Object!Next]_(Object!vars) => ControllerInv'
<1> SUFFICES ASSUME ControllerInv, [Object!Next]_(Object!vars) PROVE ControllerInv'
  OBVIOUS
<1>1. CASE UNCHANGED Object!vars
  BY <1>1 DEF Object!vars, Object!classVars, Object!lifeVars, ControllerInv, RoutesInv,
              ObjectInv, RunsInv, Object!Running
<1> QED BY <1>1, ClassSteps, InitializingSteps, DestroyingSteps, RunSteps DEF Object!Next

\* An object that is ready serves every route, with the method of the class or
\* with one of its runtime and never with a stub; and neither a failed init nor
\* destroy leaves a runtime, an open store, or a run it knew behind
\* (AgentControllerObject, installAgentRuntime).
THEOREM ControllerServesAndReleases == MCSpec => []ControllerOwnsRuntime
<1>1. ControllerInv => Object!RoutesAreServed
  <2> SUFFICES ASSUME ControllerInv, status = "READY", NEW r \in Object!Routes
               PROVE  Object!Serving(r) =
                        IF r \in defined \ {"getRunStream"} THEN "user" ELSE "runtime"
    BY DEF Object!RoutesAreServed
  <2>1. runtime = "up" /\ version # "none"
    BY DEF ControllerInv, RoutesInv, ObjectInv
  <2> QED BY <2>1 DEF ControllerInv, RoutesInv, Object!Serving
<1>2. ControllerInv => Object!RuntimeIsReleased
  BY StepsAre DEF ControllerInv, ObjectInv, RunsInv, Object!RuntimeIsReleased
<1> QED BY <1>1, <1>2, ControllerInit, ControllerNext, PartsBehave, PTL DEF ControllerOwnsRuntime

-----------------------------------------------------------------------------
(* Induction over the places of a sequence *)

LEMMA LeastOf ==
  ASSUME NEW S \in SUBSET Nat, S # {}
  PROVE  \E n \in S : \A m \in S : n <= m
<1>1. PICK n \in S : \A m \in Nat : <<m, n>> \in OpToRel(<, Nat) => m \notin S
  BY NatLessThanWellFounded, WFMin
<1>2. \A m \in S : ~(m < n)
  BY <1>1 DEF OpToRel
<1> QED
  BY <1>2

\* Induction over 0 .. n.
LEMMA Climb ==
  ASSUME NEW n \in Nat, NEW S, 0 \in S, \A i \in 1 .. n : i - 1 \in S => i \in S
  PROVE  0 .. n \subseteq S
<1> DEFINE T == {i \in 0 .. n : i \notin S}
<1> SUFFICES ASSUME T # {} PROVE FALSE
  OBVIOUS
<1>1. T \in SUBSET Nat
  OBVIOUS
<1>2. PICK m \in T : \A k \in T : m <= k
  BY <1>1, LeastOf
<1>3. m \in 1 .. n
  BY <1>2
<1>4. m - 1 \notin T /\ m - 1 \in 0 .. n
  BY <1>2, <1>3
<1> QED
  BY <1>2, <1>3, <1>4

\* A function that is defined by recursion over 0 .. n.
Computes(f, n, x0, G) == f[0] = x0 /\ \A i \in 1 .. n : f[i] = G[i][f[i - 1]]
Computed(n, X, x0, G) == \E f \in [0 .. n -> X] : Computes(f, n, x0, G)

LEMMA Recursion ==
  ASSUME NEW n \in Nat, NEW X, NEW x0 \in X, NEW G \in [1 .. n -> [X -> X]]
  PROVE  Computed(n, X, x0, G)
<1> DEFINE S == {m \in 0 .. n : \E f \in [0 .. m -> X] : Computes(f, m, x0, G)}
<1>1. 0 \in S
  <2> DEFINE f == [i \in 0 .. 0 |-> x0]
  <2>1. f \in [0 .. 0 -> X] /\ f[0] = x0 /\ \A i \in 1 .. 0 : f[i] = G[i][f[i - 1]]
    OBVIOUS
  <2> HIDE DEF f
  <2> QED
    BY <2>1 DEF Computes
<1>2. ASSUME NEW m \in 1 .. n, m - 1 \in S PROVE m \in S
  <2>1. PICK f \in [0 .. m - 1 -> X] :
          f[0] = x0 /\ \A i \in 1 .. m - 1 : f[i] = G[i][f[i - 1]]
    BY <1>2 DEF Computes
  <2> DEFINE g == [i \in 0 .. m |-> IF i = m THEN G[m][f[m - 1]] ELSE f[i]]
  <2>2. G[m][f[m - 1]] \in X
    OBVIOUS
  <2>3. g \in [0 .. m -> X] /\ g[0] = x0
    BY <2>1, <2>2
  <2>4. \A i \in 1 .. m : g[i] = G[i][g[i - 1]]
    <3> TAKE i \in 1 .. m
    <3>1. CASE i = m
      BY <3>1
    <3>2. CASE i # m
      <4>1. i \in 1 .. m - 1 /\ i - 1 # m /\ i \in 0 .. m /\ i - 1 \in 0 .. m
        BY <3>2
      <4> QED
        BY <2>1, <3>2, <4>1
    <3> QED
      BY <3>1, <3>2
  <2> HIDE DEF g
  <2>5. m \in 0 .. n /\ Computes(g, m, x0, G)
    BY <2>3, <2>4 DEF Computes
  <2> QED
    BY <2>3, <2>5
<1> HIDE DEF S
<1>3. n \in S
  <2>1. 0 .. n \subseteq S
    BY <1>1, <1>2, Climb
  <2> QED
    BY <2>1
<1> QED
  BY <1>3 DEF S, Computed

\* What of a sequence is in a set, place by place.
Keeps(kept, s, D, S) ==
  /\ kept \in [0 .. Len(s) -> Seq(D \cap S)]
  /\ kept[0] = <<>> /\ M!Within(s, S) = kept[Len(s)]
  /\ \A i \in 1 .. Len(s) :
       kept[i] = IF s[i] \in S THEN Append(kept[i - 1], s[i]) ELSE kept[i - 1]
Kept(s, D, S) == \E kept : Keeps(kept, s, D, S)

LEMMA WithinSteps ==
  ASSUME NEW D, NEW S, NEW s \in Seq(D)
  PROVE  Kept(s, D, S)
<1> DEFINE n == Len(s)
           X == Seq(D \cap S)
           Keep(i, t) == IF s[i] \in S THEN Append(t, s[i]) ELSE t
           Body(f) == [i \in 0 .. n |-> IF i = 0 THEN <<>> ELSE Keep(i, f[i - 1])]
           kept == CHOOSE f : f = Body(f)
           G == [i \in 1 .. n |-> [t \in X |-> Keep(i, t)]]
           Good == {i \in 0 .. n : kept[i] \in X}
<1>1. n \in Nat /\ DOMAIN s = 1 .. n /\ \A i \in 1 .. n : s[i] \in D
  OBVIOUS
<1>2. \A i \in 1 .. n, t \in X : Keep(i, t) \in X
  BY <1>1, AppendProperties
<1>3. <<>> \in X
  OBVIOUS
<1> HIDE DEF Keep, X
<1>4. kept = Body(kept)
  <2>1. G \in [1 .. n -> [X -> X]]
    BY <1>1, <1>2
  <2> HIDE DEF n, G
  <2>3. Computed(n, X, <<>>, G)
    BY <1>1, <1>3, <2>1, Recursion
  <2>4. PICK f \in [0 .. n -> X] : f[0] = <<>> /\ \A i \in 1 .. n : f[i] = G[i][f[i - 1]]
    BY <2>3 DEF Computed, Computes
  <2>5. \A i \in 1 .. n : f[i - 1] \in X
    BY <1>1, <2>4
  <2>6. \A i \in 1 .. n : f[i] = Keep(i, f[i - 1])
    BY <1>1, <2>4, <2>5 DEF G
  <2>7. f = Body(f)
    BY <1>1, <2>4, <2>6
  <2> QED
    BY <2>7
<1> HIDE DEF kept
<1>5. /\ kept[0] = <<>> /\ \A i \in 1 .. n : kept[i] = Keep(i, kept[i - 1])
      /\ kept = [i \in 0 .. n |-> kept[i]]
  BY <1>1, <1>4
<1>6. M!Within(s, S) = kept[n]
  BY DEF M!Within, kept, Keep
<1> HIDE DEF n
<1>7. 0 \in Good /\ \A i \in 1 .. n : i - 1 \in Good => i \in Good
  BY <1>1, <1>2, <1>3, <1>5
<1> HIDE DEF Good
<1>8. 0 .. n \subseteq Good
  BY <1>1, <1>7, Climb
<1>9. kept \in [0 .. n -> X]
  BY <1>5, <1>8 DEF Good
<1>10. \A i \in 1 .. n :
         kept[i] = IF s[i] \in S THEN Append(kept[i - 1], s[i]) ELSE kept[i - 1]
  BY <1>5 DEF Keep
<1> QED
  BY <1>5, <1>6, <1>9, <1>10 DEF n, X, Kept, Keeps

LEMMA WithinType ==
  ASSUME NEW D, NEW S, NEW s \in Seq(D)
  PROVE  M!Within(s, S) \in Seq(D \cap S)
<1>1. PICK kept : Keeps(kept, s, D, S)
  BY WithinSteps DEF Kept
<1>2. Len(s) \in 0 .. Len(s)
  BY LenProperties
<1> QED
  BY <1>1, <1>2 DEF Keeps

LEMMA WithinAppend ==
  ASSUME NEW D, NEW S, NEW s \in Seq(D), NEW x \in D
  PROVE  M!Within(Append(s, x), S)
           = IF x \in S THEN Append(M!Within(s, S), x) ELSE M!Within(s, S)
<1> DEFINE n == Len(s)
           u == Append(s, x)
<1>1. n \in Nat /\ u \in Seq(D) /\ Len(u) = n + 1 /\ u[n + 1] = x
      /\ \A i \in 1 .. n : u[i] = s[i]
  BY AppendProperties
<1>2. PICK kept : Keeps(kept, s, D, S)
  BY WithinSteps DEF Kept
<1> HIDE DEF u
<1>3. PICK more : Keeps(more, u, D, S)
  BY <1>1, WithinSteps DEF Kept
<1> DEFINE Same == {i \in 0 .. n : more[i] = kept[i]}
<1>4. /\ kept[0] = <<>> /\ M!Within(s, S) = kept[n]
       /\ \A i \in 1 .. n :
            kept[i] = IF s[i] \in S THEN Append(kept[i - 1], s[i]) ELSE kept[i - 1]
  BY <1>2 DEF Keeps
<1>5. /\ more[0] = <<>> /\ M!Within(u, S) = more[n + 1]
       /\ \A i \in 1 .. n + 1 :
            more[i] = IF u[i] \in S THEN Append(more[i - 1], u[i]) ELSE more[i - 1]
  BY <1>1, <1>3 DEF Keeps
<1> HIDE DEF n
<1>6. 0 \in Same
  BY <1>1, <1>4, <1>5
<1>7. ASSUME NEW i \in 1 .. n, i - 1 \in Same PROVE i \in Same
  <2>1. i \in 1 .. n + 1 /\ i \in 0 .. n /\ u[i] = s[i] /\ more[i - 1] = kept[i - 1]
    BY <1>1, <1>7
  <2> QED
    BY <1>4, <1>5, <2>1
<1> HIDE DEF Same
<1>8. 0 .. n \subseteq Same
  BY <1>1, <1>6, <1>7, Climb
<1>9. more[n] = kept[n]
  BY <1>1, <1>8 DEF Same
<1>10. n + 1 \in 1 .. n + 1 /\ (n + 1) - 1 = n
  BY <1>1
<1>11. more[n + 1] = IF x \in S THEN Append(more[n], x) ELSE more[n]
  BY <1>1, <1>5, <1>10
<1> QED
  BY <1>9, <1>11, <1>4, <1>5 DEF u

LEMMA WithinNone == \A S : M!Within(<<>>, S) = <<>>
<1> TAKE S
<1>1. PICK kept : Keeps(kept, <<>>, {}, S)
  <2>1. <<>> \in Seq({})
    OBVIOUS
  <2> QED
    BY <2>1, WithinSteps DEF Kept
<1>2. Len(<<>>) = 0
  OBVIOUS
<1> QED
  BY <1>1, <1>2 DEF Keeps

-----------------------------------------------------------------------------
(* The messages of a thread: every line of the file says what the run has    *)
(* told of its message; what the flusher has taken is there to the end of    *)
(* what was accepted, and what it has not leaves the file as it was.         *)

Accepted == M!Yieldable
Asking == [type : M!Roles \ {"system"}, stamped : {FALSE}, says : {None}]
Line == {M!Annotated(n) : n \in Accepted} \cup Asking

\* The lines that a flush makes of messages.
Shown(ns) == [k \in DOMAIN ns |-> M!Annotated(ns[k])]

\* What is read of a message, in the store and on the stream.
LEMMA AcceptedAre ==
  ASSUME NEW n \in Accepted
  PROVE  /\ M!isConversationMessage(M!Annotated(n)) = M!Told(n)
         /\ n.declares \in Nat /\ n.message.usage \in Nat
<1>1. PICK msg \in Yielded : n = M!Normalized(msg)
  BY DEF Accepted, M!Yieldable
<1>2. /\ msg.protocol \in {"v1", "v2"} /\ msg.shape \in M!Shape
      /\ msg.protocol = "v2" => msg.envelope \in M!Envelope
  BY InstancesAssumption DEF M!MessageAssumption
<1> DEFINE shape == msg.shape
           envelope == msg.envelope
<1>3. shape.usage \in Nat
  BY <1>2 DEF M!Shape
<1> HIDE DEF shape, envelope
<1>4. CASE msg.protocol = "v1"
  <2>1. n = [protocol |-> "v1", message |-> shape, durable |-> ~M!isTransientMessage(shape),
             conversational |-> shape.type \in {"user", "assistant"}, declares |-> 0]
    BY <1>1, <1>4 DEF M!Normalized, shape
  <2>2. M!Annotated(n) = [type |-> shape.type, stamped |-> FALSE,
                          says |-> IF shape.marked THEN FALSE ELSE None]
    BY <2>1 DEF M!Annotated
  <2> QED
    BY <1>3, <2>1, <2>2 DEF M!isConversationMessage, M!Told
<1>5. CASE msg.protocol = "v2"
  <2>1. n = [protocol |-> "v2", message |-> shape, durable |-> envelope.durable,
             conversational |-> envelope.conversational, declares |-> envelope.declares]
    BY <1>1, <1>5 DEF M!Normalized, shape, envelope
  <2>2. M!Annotated(n) = [type |-> shape.type, stamped |-> TRUE,
                          says |-> envelope.conversational]
    BY <2>1 DEF M!Annotated
  <2>3. envelope.declares \in Nat
    BY <1>2, <1>5 DEF M!Envelope, envelope
  <2> QED
    BY <1>3, <2>1, <2>2, <2>3 DEF M!isConversationMessage, M!Told
<1> QED
  BY <1>2, <1>4, <1>5

LEMMA ShownLines ==
  ASSUME NEW ns \in Seq(Accepted)
  PROVE  /\ Shown(ns) \in Seq(Line) /\ Len(Shown(ns)) = Len(ns)
         /\ \A k \in 1 .. Len(ns) : Shown(ns)[k] = M!Annotated(ns[k])
<1> DEFINE n == Len(ns)
<1>1. n \in Nat /\ DOMAIN ns = 1 .. n /\ \A k \in 1 .. n : ns[k] \in Accepted
  BY LenProperties
<1>2. \A k \in 1 .. n : M!Annotated(ns[k]) \in Line
  BY <1>1 DEF Line
<1>3. Shown(ns) = [k \in 1 .. n |-> M!Annotated(ns[k])]
  BY <1>1 DEF Shown
<1> HIDE DEF n
<1>4. Shown(ns) \in [1 .. n -> Line] /\ \A k \in 1 .. n : Shown(ns)[k] = M!Annotated(ns[k])
  BY <1>2, <1>3
<1>5. Shown(ns) \in Seq(Line) /\ Len(Shown(ns)) = n
  BY <1>1, <1>4
<1> QED
  BY <1>4, <1>5 DEF n

LEMMA OneMore ==
  ASSUME NEW D, NEW s \in Seq(D), NEW t \in Seq(D), NEW x \in D,
         Len(t) = Len(s) + 1, t[Len(s) + 1] = x, \A k \in 1 .. Len(s) : t[k] = s[k]
  PROVE  t = s \o <<x>>
<1> DEFINE last == <<x>>
           both == s \o last
           m == Len(s)
<1>1. m \in Nat /\ last \in Seq(D) /\ Len(last) = 1 /\ last[1] = x
  BY LenProperties
<1> HIDE DEF last
<1>2. both \in Seq(D) /\ Len(both) = m + 1
      /\ \A k \in 1 .. m + 1 : both[k] = IF k <= m THEN s[k] ELSE last[k - m]
  <2>1. /\ both \in Seq(D) /\ Len(both) = m + Len(last)
        /\ \A k \in 1 .. m + Len(last) : both[k] = IF k <= m THEN s[k] ELSE last[k - m]
    BY <1>1, ConcatProperties
  <2> HIDE DEF both, m
  <2> QED
    BY <1>1, <2>1
<1> HIDE DEF both
<1>3. Len(t) = m + 1 /\ t[m + 1] = x /\ \A k \in 1 .. m : t[k] = s[k]
  OBVIOUS
<1> HIDE DEF m
<1>4. ASSUME NEW k \in 1 .. m + 1 PROVE t[k] = both[k]
  <2>1. CASE k = m + 1
    <3>1. k - m = 1 /\ ~(k <= m)
      BY <1>1, <2>1
    <3> QED
      BY <1>1, <1>2, <1>3, <2>1, <3>1
  <2>2. CASE k # m + 1
    <3>1. k \in 1 .. m /\ k <= m
      BY <1>1, <2>2
    <3> QED
      BY <1>2, <1>3, <3>1
  <2> QED
    BY <2>1, <2>2
<1> QED
  BY <1>2, <1>3, <1>4, SeqEqual DEF both, last

LEMMA ShownAppend ==
  ASSUME NEW ns \in Seq(Accepted), NEW n \in Accepted
  PROVE  Shown(Append(ns, n)) = Shown(ns) \o <<M!Annotated(n)>>
<1> DEFINE more == Append(ns, n)
           m == Len(ns)
           s == Shown(ns)
           t == Shown(more)
<1>1. /\ m \in Nat /\ more \in Seq(Accepted) /\ Len(more) = m + 1 /\ more[m + 1] = n
      /\ \A k \in 1 .. m : more[k] = ns[k]
  BY AppendProperties
<1> HIDE DEF more
<1>2. /\ s \in Seq(Line) /\ Len(s) = m /\ \A k \in 1 .. m : s[k] = M!Annotated(ns[k])
  BY ShownLines
<1>3. /\ t \in Seq(Line) /\ Len(t) = m + 1 /\ \A k \in 1 .. m + 1 : t[k] = M!Annotated(more[k])
  BY <1>1, ShownLines
<1>4. M!Annotated(n) \in Line
  BY DEF Line
<1> HIDE DEF m, s, t
<1>5. m + 1 \in 1 .. m + 1 /\ \A k \in 1 .. m : k \in 1 .. m + 1
  BY <1>1
<1>6. t[m + 1] = M!Annotated(n)
  BY <1>1, <1>3, <1>5
<1>7. \A k \in 1 .. m : t[k] = s[k]
  BY <1>1, <1>2, <1>3, <1>5
<1>8. t = s \o <<M!Annotated(n)>>
  BY <1>2, <1>3, <1>4, <1>6, <1>7, OneMore
<1> QED
  BY <1>8 DEF s, t, more

\* The messages that are stored are such, in their order.
LEMMA DurableOf ==
  ASSUME NEW ns \in Seq(Accepted)
  PROVE  /\ M!durable(ns) \in Seq(Accepted)
         /\ \A n \in Accepted :
              M!durable(Append(ns, n)) = IF n.durable THEN Append(M!durable(ns), n) ELSE M!durable(ns)
<1> DEFINE S == {n \in Accepted : n.durable}
<1>1. M!durable(ns) = M!Within(ns, S)
  BY DEF M!durable, Accepted
<1>2. S \cap Accepted = S /\ Accepted \cap S \subseteq Accepted
  OBVIOUS
<1>3. \A n \in Accepted : M!durable(Append(ns, n)) = M!Within(Append(ns, n), S)
  BY DEF M!durable, Accepted
<1>4. \A n \in Accepted : n.durable <=> n \in S
  OBVIOUS
<1> HIDE DEF S
<1>5. M!Within(ns, S) \in Seq(Accepted)
  BY <1>2, WithinType, SeqMonotonic
<1>6. ASSUME NEW n \in Accepted
      PROVE  M!Within(Append(ns, n), S)
               = IF n \in S THEN Append(M!Within(ns, S), n) ELSE M!Within(ns, S)
  BY WithinAppend
<1> QED
  BY <1>1, <1>3, <1>4, <1>5, <1>6

LEMMA DurableNone == M!durable(<<>>) = <<>> /\ Shown(<<>>) = <<>>
<1>1. Shown(<<>>) = <<>>
  <2>1. <<>> \in Seq(Accepted) /\ Len(<<>>) = 0
    OBVIOUS
  <2> QED
    BY <2>1, ShownLines, EmptySeq
<1> QED
  BY <1>1, WithinNone DEF M!durable

\* The input is asked for as it is, but for the messages of the system.
LEMMA AskedLines ==
  ASSUME NEW roles \in Seq(M!Roles)
  PROVE  LET said == M!Within(roles, M!Roles \ {"system"}) IN
         /\ said \in Seq(M!Roles \ {"system"})
         /\ M!toAgentMessages(roles) \in Seq(Line) /\ Len(M!toAgentMessages(roles)) = Len(said)
         /\ \A k \in 1 .. Len(said) : M!isConversationMessage(M!toAgentMessages(roles)[k]) = TRUE
<1> DEFINE said == M!Within(roles, M!Roles \ {"system"})
           T == M!Roles \ {"system"}
           m == Len(said)
           lines == M!toAgentMessages(roles)
<1>1. said \in Seq(T)
  <2>1. M!Roles \cap T = T
    OBVIOUS
  <2> QED
    BY <2>1, WithinType
<1>2. lines = [k \in DOMAIN said |-> [type |-> said[k], stamped |-> FALSE, says |-> None]]
  BY DEF M!toAgentMessages
<1> HIDE DEF said, lines
<1>3. m \in Nat /\ DOMAIN said = 1 .. m /\ \A k \in 1 .. m : said[k] \in T
  BY <1>1, LenProperties
<1> HIDE DEF m
<1>4. lines \in [1 .. m -> Line]
      /\ \A k \in 1 .. m : lines[k] = [type |-> said[k], stamped |-> FALSE, says |-> None]
  BY <1>2, <1>3 DEF Line, Asking
<1>5. lines \in Seq(Line) /\ Len(lines) = m
  BY <1>3, <1>4
<1>6. T = {"user", "assistant"}
  BY DEF M!Roles
<1> HIDE DEF T
<1>7. ASSUME NEW k \in 1 .. m PROVE M!isConversationMessage(lines[k]) = TRUE
  BY <1>3, <1>4, <1>6 DEF M!isConversationMessage
<1> QED
  BY <1>1, <1>5, <1>7 DEF said, T, m, lines

MsgTypes ==
  /\ phase \in {"none", "running", "completed", "failed"}
  /\ input \in Seq(M!Roles) /\ accepted \in Seq(Accepted)
  /\ file \in Seq(Line) /\ before \in Seq(Line)

OfTheRun == M!toAgentMessages(input) \o Shown(M!durable(accepted))

FileInv ==
  /\ inputWritten => flushed = Len(accepted) /\ file = before \o OfTheRun
  /\ ~inputWritten => flushed = 0 /\ file = before
  /\ inputWritten /\ phase # "completed" => sessionCommitted
  /\ phase = "completed" => inputWritten

LEMMA LastPending ==
  ASSUME NEW s \in Seq(Accepted), NEW n \in Accepted
  PROVE  M!durable(SubSeq(Append(s, n), Len(s) + 1, Len(s) + 1))
           = IF n.durable THEN <<n>> ELSE <<>>
<1> DEFINE u == Append(s, n)
           m == Len(s) + 1
           t == SubSeq(u, m, m)
<1>1. m \in Nat /\ u \in Seq(Accepted) /\ Len(u) = m /\ u[m] = n
  BY AppendProperties
<1> HIDE DEF m, u
<1>2. \A i \in m .. m : u[i] \in Accepted
  BY <1>1
<1>3. t \in Seq(Accepted) /\ Len(t) = 1 /\ \A i \in 1 .. m - m + 1 : t[i] = u[m + i - 1]
  BY <1>1, <1>2, SubSeqProperties
<1>4. t[1] = n
  BY <1>1, <1>3
<1> HIDE DEF t
<1>5. t = Append(<<>>, n)
  BY <1>3, <1>4
<1>6. <<>> \in Seq(Accepted)
  OBVIOUS
<1>7. M!durable(Append(<<>>, n)) = IF n.durable THEN Append(<<>>, n) ELSE <<>>
  BY <1>6, DurableOf, DurableNone
<1>8. M!durable(t) = IF n.durable THEN <<n>> ELSE <<>>
  BY <1>5, <1>7
<1> QED
  BY <1>8 DEF t, u, m

\* Of sequences that are put together three times.
Then(s, t) == s \o t

LEMMA ThenAssociative ==
  ASSUME NEW D, NEW s \in Seq(D), NEW t \in Seq(D), NEW u \in Seq(D)
  PROVE  Then(s, t) \in Seq(D) /\ Then(Then(s, t), u) = Then(s, Then(t, u))
<1>1. Then(s, t) \in Seq(D)
  BY ConcatProperties DEF Then
<1>2. (s \o t) \o u = s \o (t \o u)
  BY ConcatAssociative
<1> QED
  BY <1>1, <1>2 DEF Then

LEMMA Regrouped ==
  ASSUME NEW D, NEW b \in Seq(D), NEW i \in Seq(D), NEW s \in Seq(D), NEW o \in Seq(D)
  PROVE  Then(Then(b, Then(i, s)), o) = Then(b, Then(i, Then(s, o)))
<1>1. Then(i, s) \in Seq(D)
  BY ThenAssociative
<1>2. Then(Then(b, Then(i, s)), o) = Then(b, Then(Then(i, s), o))
  BY <1>1, ThenAssociative
<1>3. Then(Then(i, s), o) = Then(i, Then(s, o))
  BY ThenAssociative
<1> QED
  BY <1>2, <1>3

\* A flush writes what the file does not have of the run.
LEMMA Flushed ==
  ASSUME MsgTypes, FileInv, UNCHANGED <<input, before>>,
         accepted' = accepted \/ \E n \in Accepted : accepted' = Append(accepted, n),
         file' = file \o M!Lines
  PROVE  file' \in Seq(Line) /\ file' = before' \o OfTheRun'
<1> DEFINE I == M!toAgentMessages(input)
           S == Shown(M!durable(accepted))
           P == M!durable(SubSeq(accepted', flushed + 1, Len(accepted')))
<1>1. /\ I \in Seq(Line) /\ before \in Seq(Line) /\ file \in Seq(Line)
      /\ M!durable(accepted) \in Seq(Accepted) /\ S \in Seq(Line)
  BY AskedLines, DurableOf, ShownLines DEF MsgTypes
<1>2. M!Lines = (IF inputWritten THEN <<>> ELSE I) \o Shown(P)
  BY DEF M!Lines, M!Pending, Shown
<1>3. accepted \in Seq(Accepted) /\ accepted' \in Seq(Accepted)
  <2>1. accepted \in Seq(Accepted)
    BY DEF MsgTypes
  <2>2. \A n \in Accepted : Append(accepted, n) \in Seq(Accepted)
    BY <2>1, AppendProperties
  <2> QED
    BY <2>1, <2>2
<1>4. OfTheRun = I \o S /\ OfTheRun' = I \o Shown(M!durable(accepted'))
  BY DEF OfTheRun
<1>5. before' = before
  OBVIOUS
<1> DEFINE S2 == Shown(M!durable(accepted'))
<1>6. S2 \in Seq(Line)
  BY <1>3, DurableOf, ShownLines
<1>7. CASE ~inputWritten
  <2>1. flushed = 0 /\ file = before
    BY <1>7 DEF FileInv
  <2>2. SubSeq(accepted', 1, Len(accepted')) = accepted'
    BY <1>3, SubSeqFull
  <2>3. flushed + 1 = 1
    BY <2>1
  <2>4. P = M!durable(accepted')
    BY <2>2, <2>3
  <2> HIDE DEF I, P
  <2>5. M!Lines = I \o S2
    BY <1>2, <1>7, <2>4
  <2>6. file' = before \o (I \o S2)
    BY <2>1, <2>5
  <2> QED
    BY <1>1, <1>4, <1>5, <1>6, <2>6, ConcatProperties
<1>8. CASE inputWritten
  <2>1. flushed = Len(accepted) /\ file = before \o (I \o S)
    BY <1>4, <1>8 DEF FileInv
  <2>2. CASE accepted' = accepted
    <3>1. SubSeq(accepted', flushed + 1, Len(accepted')) = <<>>
      <4>1. Len(accepted') = flushed /\ flushed \in Nat
        BY <1>3, <2>1, <2>2, LenProperties
      <4>2. flushed + 1 \in Int /\ flushed \in Int /\ flushed < flushed + 1
        BY <4>1
      <4> QED
        BY <4>1, <4>2, SubSeqEmpty
    <3>2. Shown(P) = <<>>
      BY <3>1, DurableNone
    <3> HIDE DEF P, I, S
    <3>3. M!Lines = <<>>
      BY <1>2, <1>8, <3>2
    <3>4. file' = file
      BY <1>1, <3>3, ConcatEmptySeq
    <3>5. OfTheRun' = OfTheRun
      BY <2>2 DEF OfTheRun
    <3> QED
      BY <1>1, <1>4, <1>5, <2>1, <3>4, <3>5
  <2>3. ASSUME NEW n \in Accepted, accepted' = Append(accepted, n)
        PROVE  file' \in Seq(Line) /\ file' = before' \o OfTheRun'
    <3>1. Len(accepted') = flushed + 1
      BY <1>3, <2>1, <2>3, AppendProperties
    <3>2. P = IF n.durable THEN <<n>> ELSE <<>>
      BY <1>3, <2>1, <2>3, <3>1, LastPending
    <3>3. M!durable(accepted') = IF n.durable THEN Append(M!durable(accepted), n)
                                 ELSE M!durable(accepted)
      BY <1>3, <2>3, DurableOf
    <3> DEFINE one == <<M!Annotated(n)>>
    <3>4. M!Annotated(n) \in Line
      BY DEF Line
    <3>5. one \in Seq(Line) /\ <<>> \in Seq(Line)
      BY <3>4
    <3>6. CASE ~n.durable
      <4>1. Shown(P) = <<>> /\ S2 = S
        BY <3>2, <3>3, <3>6, DurableNone
      <4> HIDE DEF P, I, S, S2
      <4>2. M!Lines = <<>>
        BY <1>2, <1>8, <4>1
      <4>3. file' = file
        BY <1>1, <4>2, ConcatEmptySeq
      <4> QED
        BY <1>1, <1>4, <1>5, <2>1, <4>1, <4>3 DEF S2
    <3>7. CASE n.durable
      <4>1. Shown(P) = one
        <5>1. P = Append(<<>>, n) /\ <<>> \in Seq(Accepted)
          BY <3>2, <3>7
        <5>2. Shown(P) = <<>> \o one
          BY <5>1, ShownAppend, DurableNone
        <5> QED
          BY <3>5, <5>2, ConcatEmptySeq
      <4>2. S2 = S \o one
        BY <1>1, <3>3, <3>7, ShownAppend
      <4> HIDE DEF P, I, S, S2, one
      <4>3. M!Lines = one
        BY <1>2, <1>8, <3>5, <4>1, ConcatEmptySeq
      <4>4. I \o S2 \in Seq(Line)
        BY <1>1, <1>6, ConcatProperties
      <4>5. file' = before \o (I \o S2)
        <5>1. /\ file' = Then(Then(before, Then(I, S)), one) /\ S2 = Then(S, one)
              /\ before \o (I \o S2) = Then(before, Then(I, S2))
          BY <2>1, <4>2, <4>3 DEF Then
        <5>2. Then(Then(before, Then(I, S)), one) = Then(before, Then(I, Then(S, one)))
          BY <1>1, <3>5, Regrouped
        <5> QED
          BY <5>1, <5>2
      <4> QED
        BY <1>1, <1>4, <1>5, <4>4, <4>5, ConcatProperties DEF S2
    <3> QED
      BY <3>6, <3>7
  <2> QED
    BY <2>2, <2>3
<1> QED
  BY <1>7, <1>8

-----------------------------------------------------------------------------
(* The usage of a run: the last one declared, or the sum of the results *)

Amount(n) == IF M!reports(n) THEN n.message.usage ELSE 0
Total(ns) ==
  LET total[k \in 0 .. Len(ns)] ==
        IF k = 0 THEN 0 ELSE total[k - 1] + IF M!reports(ns[k]) THEN ns[k].message.usage ELSE 0 IN
  total[Len(ns)]
Totals(total, ns) ==
  /\ total \in [0 .. Len(ns) -> Nat] /\ total[0] = 0 /\ Total(ns) = total[Len(ns)]
  /\ \A i \in 1 .. Len(ns) : total[i] = total[i - 1] + Amount(ns[i])
Totalled(ns) == \E total : Totals(total, ns)

LEMMA AmountType == \A n \in Accepted : Amount(n) \in Nat
BY AcceptedAre DEF Amount

LEMMA TotalSteps ==
  ASSUME NEW ns \in Seq(Accepted)
  PROVE  Totalled(ns)
<1> DEFINE n == Len(ns)
           Plus(i, t) == t + Amount(ns[i])
           Body(f) == [k \in 0 .. n |-> IF k = 0 THEN 0 ELSE Plus(k, f[k - 1])]
           total == CHOOSE f : f = Body(f)
           G == [i \in 1 .. n |-> [t \in Nat |-> Plus(i, t)]]
           Good == {i \in 0 .. n : total[i] \in Nat}
<1>1. n \in Nat /\ \A i \in 1 .. n : ns[i] \in Accepted
  OBVIOUS
<1>2. \A i \in 1 .. n, t \in Nat : Plus(i, t) \in Nat
  BY <1>1, AmountType
<1> HIDE DEF Plus
<1>3. total = Body(total)
  <2>1. G \in [1 .. n -> [Nat -> Nat]]
    BY <1>1, <1>2
  <2> HIDE DEF n, G
  <2>2. Computed(n, Nat, 0, G)
    BY <1>1, <2>1, Recursion
  <2>3. PICK f \in [0 .. n -> Nat] : f[0] = 0 /\ \A i \in 1 .. n : f[i] = G[i][f[i - 1]]
    BY <2>2 DEF Computed, Computes
  <2>4. \A i \in 1 .. n : f[i - 1] \in Nat
    BY <1>1, <2>3
  <2>5. \A i \in 1 .. n : f[i] = Plus(i, f[i - 1])
    BY <1>1, <2>3, <2>4 DEF G
  <2>6. f = Body(f)
    BY <1>1, <2>3, <2>5
  <2> QED
    BY <2>6
<1> HIDE DEF total
<1>4. /\ total[0] = 0 /\ \A i \in 1 .. n : total[i] = Plus(i, total[i - 1])
      /\ total = [i \in 0 .. n |-> total[i]]
  BY <1>1, <1>3
<1>5. Total(ns) = total[n]
  BY DEF Total, total, Plus, Amount
<1> HIDE DEF n
<1>6. ASSUME NEW i \in 1 .. n, i - 1 \in Good PROVE i \in Good
  <2>1. i \in 0 .. n /\ total[i - 1] \in Nat
    BY <1>1, <1>6
  <2> QED
    BY <1>2, <1>4, <2>1
<1>7. 0 \in Good
  BY <1>1, <1>4
<1> HIDE DEF Good
<1>8. 0 .. n \subseteq Good
  BY <1>1, <1>6, <1>7, Climb
<1>9. total \in [0 .. n -> Nat]
  BY <1>4, <1>8 DEF Good
<1>10. \A i \in 1 .. n : total[i] = total[i - 1] + Amount(ns[i])
  BY <1>4 DEF Plus
<1> QED
  BY <1>4, <1>5, <1>9, <1>10 DEF n, Totals, Totalled

LEMMA TotalAppend ==
  ASSUME NEW ns \in Seq(Accepted), NEW x \in Accepted
  PROVE  Total(Append(ns, x)) = Total(ns) + Amount(x)
<1> DEFINE n == Len(ns)
           u == Append(ns, x)
<1>1. n \in Nat /\ u \in Seq(Accepted) /\ Len(u) = n + 1 /\ u[n + 1] = x
      /\ \A i \in 1 .. n : u[i] = ns[i]
  BY AppendProperties
<1>2. PICK less : Totals(less, ns)
  BY TotalSteps DEF Totalled
<1> HIDE DEF u
<1>3. PICK more : Totals(more, u)
  BY <1>1, TotalSteps DEF Totalled
<1>4. /\ less[0] = 0 /\ Total(ns) = less[n]
      /\ \A i \in 1 .. n : less[i] = less[i - 1] + Amount(ns[i])
  BY <1>2 DEF Totals
<1>5. /\ more[0] = 0 /\ Total(u) = more[n + 1]
      /\ \A i \in 1 .. n + 1 : more[i] = more[i - 1] + Amount(u[i])
  BY <1>1, <1>3 DEF Totals
<1> DEFINE Same == {i \in 0 .. n : more[i] = less[i]}
<1> HIDE DEF n
<1>6. 0 \in Same
  BY <1>1, <1>4, <1>5
<1>7. ASSUME NEW i \in 1 .. n, i - 1 \in Same PROVE i \in Same
  <2>1. i \in 1 .. n + 1 /\ i \in 0 .. n /\ u[i] = ns[i] /\ more[i - 1] = less[i - 1]
    BY <1>1, <1>7
  <2> QED
    BY <1>4, <1>5, <2>1
<1> HIDE DEF Same
<1>8. 0 .. n \subseteq Same
  BY <1>1, <1>6, <1>7, Climb
<1>9. more[n] = less[n]
  BY <1>1, <1>8 DEF Same
<1>10. n + 1 \in 1 .. n + 1 /\ (n + 1) - 1 = n
  BY <1>1
<1>11. more[n + 1] = more[n] + Amount(x)
  BY <1>1, <1>5, <1>10
<1> QED
  BY <1>4, <1>5, <1>9, <1>11 DEF u

LEMMA TotalNone == Total(<<>>) = 0
<1>1. <<>> \in Seq(Accepted) /\ Len(<<>>) = 0
  OBVIOUS
<1>2. PICK total : Totals(total, <<>>)
  BY <1>1, TotalSteps DEF Totalled
<1> QED
  BY <1>1, <1>2 DEF Totals

\* Which messages are results, and the sum of what those up to a place report.
ResultsOf(ns) == {k \in DOMAIN ns : ns[k].protocol = "v1" /\ ns[k].message.type = "result"
                                    /\ ns[k].message.usage # 0}
SumOf(ns) ==
  LET sum[k \in 0 .. Len(ns)] ==
        IF k = 0 THEN 0
        ELSE sum[k - 1] + IF k \in ResultsOf(ns) THEN ns[k].message.usage ELSE 0 IN
  sum[Len(ns)]
Part(ns, k) == IF k \in ResultsOf(ns) THEN ns[k].message.usage ELSE 0
Sums(sum, ns) ==
  /\ sum \in [0 .. Len(ns) -> Nat] /\ sum[0] = 0 /\ SumOf(ns) = sum[Len(ns)]
  /\ \A i \in 1 .. Len(ns) : sum[i] = sum[i - 1] + Part(ns, i)
Summed(ns) == \E sum : Sums(sum, ns)

LEMMA SumSteps ==
  ASSUME NEW ns \in Seq(Accepted)
  PROVE  Summed(ns)
<1> DEFINE n == Len(ns)
           Plus(i, t) == t + Part(ns, i)
           Body(f) == [k \in 0 .. n |-> IF k = 0 THEN 0 ELSE Plus(k, f[k - 1])]
           sum == CHOOSE f : f = Body(f)
           G == [i \in 1 .. n |-> [t \in Nat |-> Plus(i, t)]]
           Good == {i \in 0 .. n : sum[i] \in Nat}
<1>1. n \in Nat /\ \A i \in 1 .. n : ns[i] \in Accepted
  OBVIOUS
<1>2. \A i \in 1 .. n, t \in Nat : Plus(i, t) \in Nat
  BY <1>1, AcceptedAre DEF Part
<1> HIDE DEF Plus
<1>3. sum = Body(sum)
  <2>1. G \in [1 .. n -> [Nat -> Nat]]
    BY <1>1, <1>2
  <2> HIDE DEF n, G
  <2>2. Computed(n, Nat, 0, G)
    BY <1>1, <2>1, Recursion
  <2>3. PICK f \in [0 .. n -> Nat] : f[0] = 0 /\ \A i \in 1 .. n : f[i] = G[i][f[i - 1]]
    BY <2>2 DEF Computed, Computes
  <2>4. \A i \in 1 .. n : f[i - 1] \in Nat
    BY <1>1, <2>3
  <2>5. \A i \in 1 .. n : f[i] = Plus(i, f[i - 1])
    BY <1>1, <2>3, <2>4 DEF G
  <2>6. f = Body(f)
    BY <1>1, <2>3, <2>5
  <2> QED
    BY <2>6
<1> HIDE DEF sum
<1>4. /\ sum[0] = 0 /\ \A i \in 1 .. n : sum[i] = Plus(i, sum[i - 1])
      /\ sum = [i \in 0 .. n |-> sum[i]]
  BY <1>1, <1>3
<1>5. SumOf(ns) = sum[n]
  BY DEF SumOf, sum, Plus, Part
<1> HIDE DEF n
<1>6. 0 \in Good
  BY <1>1, <1>4
<1>7. ASSUME NEW i \in 1 .. n, i - 1 \in Good PROVE i \in Good
  <2>1. i \in 0 .. n /\ sum[i - 1] \in Nat
    BY <1>1, <1>7
  <2> QED
    BY <1>2, <1>4, <2>1
<1> HIDE DEF Good
<1>8. 0 .. n \subseteq Good
  BY <1>1, <1>6, <1>7, Climb
<1>9. sum \in [0 .. n -> Nat]
  BY <1>4, <1>8 DEF Good
<1>10. \A i \in 1 .. n : sum[i] = sum[i - 1] + Part(ns, i)
  BY <1>4 DEF Plus
<1> QED
  BY <1>4, <1>5, <1>9, <1>10 DEF n, Sums, Summed

\* What is read of the V1 messages alone is what the results of all add up to.
LEMMA UsageOfV1 ==
  ASSUME NEW ns \in Seq(Accepted)
  PROVE  M!extractUsage(M!v1MessagesOf(ns)) = IF ResultsOf(ns) = {} THEN None ELSE SumOf(ns)
<1> DEFINE S == {x \in Accepted : x.protocol = "v1"}
           n == Len(ns)
           v1 == M!v1MessagesOf(ns)
           Reporting(s) == \E k \in DOMAIN s : M!reports(s[k])
<1>1. v1 = M!Within(ns, S)
  BY DEF M!v1MessagesOf, Accepted
<1>2. n \in Nat /\ DOMAIN ns = 1 .. n /\ \A i \in 1 .. n : ns[i] \in Accepted
  OBVIOUS
<1>3. PICK kept : Keeps(kept, ns, Accepted, S)
  BY WithinSteps DEF Kept
<1>4. PICK sum : Sums(sum, ns)
  BY SumSteps DEF Summed
<1>5. Accepted \cap S = S /\ S \subseteq Accepted
  OBVIOUS
<1>6. /\ kept[0] = <<>> /\ v1 = kept[n] /\ \A i \in 0 .. n : kept[i] \in Seq(S)
      /\ \A i \in 1 .. n :
           kept[i] = IF ns[i] \in S THEN Append(kept[i - 1], ns[i]) ELSE kept[i - 1]
  BY <1>1, <1>3, <1>5 DEF Keeps
<1>7. /\ sum[0] = 0 /\ SumOf(ns) = sum[n] /\ \A i \in 0 .. n : sum[i] \in Nat
      /\ \A i \in 1 .. n : sum[i] = sum[i - 1] + Part(ns, i)
  BY <1>4 DEF Sums
<1>8. \A i \in 1 .. n : ns[i] \in S <=> ns[i].protocol = "v1"
  BY <1>2
<1>9. \A i \in 1 .. n : i \in ResultsOf(ns) <=> ns[i] \in S /\ M!reports(ns[i])
  BY <1>2, <1>8 DEF ResultsOf, M!reports
<1>10. ResultsOf(ns) \subseteq 1 .. n
  BY <1>2 DEF ResultsOf
<1> DEFINE Good == {i \in 0 .. n : /\ Total(kept[i]) = sum[i]
                                   /\ Reporting(kept[i]) <=> \E k \in 1 .. i : k \in ResultsOf(ns)}
<1> HIDE DEF S, n, v1
<1>11. 0 \in Good
  BY <1>2, <1>6, <1>7, TotalNone
<1>12. ASSUME NEW i \in 1 .. n, i - 1 \in Good PROVE i \in Good
  <2> DEFINE s == kept[i - 1]
             j == i - 1
  <2>1. /\ i \in 0 .. n /\ j \in 0 .. n /\ i = j + 1 /\ j \in Nat
        /\ Total(s) = sum[j]
        /\ Reporting(s) <=> \E k \in 1 .. j : k \in ResultsOf(ns)
    BY <1>2, <1>12
  <2>2. s \in Seq(S) /\ s \in Seq(Accepted) /\ ns[i] \in Accepted
    BY <1>2, <1>5, <1>6, <2>1, SeqMonotonic
  <2>3. sum[i] = sum[j] + Part(ns, i) /\ sum[j] \in Nat
        /\ kept[i] = IF ns[i] \in S THEN Append(s, ns[i]) ELSE s
    BY <1>6, <1>7, <2>1
  <2> HIDE DEF s, j, Good
  <2>4. Total(kept[i]) = sum[i]
    <3>1. CASE ns[i] \in S
      <4>1. Part(ns, i) = Amount(ns[i])
        BY <1>9, <3>1 DEF Part, Amount
      <4>2. Total(Append(s, ns[i])) = Total(s) + Amount(ns[i])
        BY <2>2, TotalAppend
      <4> QED
        BY <2>1, <2>3, <3>1, <4>1, <4>2
    <3>2. CASE ns[i] \notin S
      <4>1. Part(ns, i) = 0
        BY <1>9, <3>2 DEF Part
      <4> QED
        BY <2>1, <2>3, <3>2, <4>1
    <3> QED
      BY <3>1, <3>2
  <2>5. (\E k \in 1 .. i : k \in ResultsOf(ns))
          <=> (\E k \in 1 .. j : k \in ResultsOf(ns)) \/ i \in ResultsOf(ns)
    <3>1. \A k : k \in 1 .. i <=> k \in 1 .. j \/ k = i
      BY <2>1
    <3> QED
      BY <3>1
  <2>6. Reporting(kept[i]) <=> Reporting(s) \/ (ns[i] \in S /\ M!reports(ns[i]))
    <3>1. CASE ns[i] \in S
      <4> DEFINE t == Append(s, ns[i])
      <4>1. kept[i] = t
        BY <2>3, <3>1
      <4>2. /\ Len(s) \in Nat /\ DOMAIN s = 1 .. Len(s) /\ DOMAIN t = 1 .. Len(s) + 1
            /\ t[Len(s) + 1] = ns[i] /\ \A k \in 1 .. Len(s) : t[k] = s[k]
        BY <2>2, AppendProperties
      <4> HIDE DEF t
      <4>3. \A k : k \in DOMAIN t <=> k \in DOMAIN s \/ k = Len(s) + 1
        BY <4>2
      <4>4. Reporting(t) <=> Reporting(s) \/ M!reports(t[Len(s) + 1])
        BY <4>2, <4>3
      <4> QED
        BY <3>1, <4>1, <4>2, <4>4
    <3>2. CASE ns[i] \notin S
      BY <2>3, <3>2
    <3> QED
      BY <3>1, <3>2
  <2> HIDE DEF Reporting
  <2>7. Reporting(kept[i]) <=> \E k \in 1 .. i : k \in ResultsOf(ns)
    BY <1>9, <2>1, <2>5, <2>6
  <2> QED
    BY <2>1, <2>4, <2>7 DEF Good
<1> HIDE DEF Good
<1>13. 0 .. n \subseteq Good
  BY <1>2, <1>11, <1>12, Climb
<1>14. n \in Good
  BY <1>2, <1>13
<1>15. M!extractUsage(v1) = IF Reporting(v1) THEN Total(v1) ELSE None
  BY DEF M!extractUsage, Total
<1> HIDE DEF Reporting
<1>16. /\ Total(v1) = SumOf(ns)
       /\ Reporting(v1) <=> \E k \in 1 .. n : k \in ResultsOf(ns)
  BY <1>6, <1>7, <1>14 DEF Good
<1>17. Reporting(v1) <=> ResultsOf(ns) # {}
  BY <1>10, <1>16
<1> QED
  BY <1>15, <1>16, <1>17 DEF v1

\* The last amount declared, and what a run reports that is asked for its usage.
LastDeclared(ns) ==
  LET declared[k \in 0 .. Len(ns)] ==
        IF k = 0 THEN 0 ELSE IF ns[k].declares # 0 THEN ns[k].declares ELSE declared[k - 1] IN
  declared[Len(ns)]
Resolved(ns) ==
  IF LastDeclared(ns) # 0 THEN LastDeclared(ns) ELSE M!extractUsage(M!v1MessagesOf(ns))
DeclaredOf(ns) == {k \in DOMAIN ns : ns[k].declares # 0}
Reported(ns, amount) ==
  IF DeclaredOf(ns) # {}
  THEN \E k \in DeclaredOf(ns) : (\A j \in DeclaredOf(ns) : j <= k) /\ amount = ns[k].declares
  ELSE amount = IF ResultsOf(ns) = {} THEN None ELSE SumOf(ns)

\* Of the first i messages it is the last that declares any.
LastOf(ns, i, amount) ==
  \/ amount = 0 /\ \A k \in 1 .. i : k \notin DeclaredOf(ns)
  \/ \E k \in 1 .. i : /\ k \in DeclaredOf(ns) /\ amount = ns[k].declares
                       /\ \A j \in 1 .. i : j \in DeclaredOf(ns) => j <= k

LEMMA LastDeclaredIs ==
  ASSUME NEW ns \in Seq(Accepted)
  PROVE  LastOf(ns, Len(ns), LastDeclared(ns))
<1> DEFINE n == Len(ns)
           Turn(i, t) == IF ns[i].declares # 0 THEN ns[i].declares ELSE t
           Body(f) == [k \in 0 .. n |-> IF k = 0 THEN 0 ELSE Turn(k, f[k - 1])]
           last == CHOOSE f : f = Body(f)
           G == [i \in 1 .. n |-> [t \in Nat |-> Turn(i, t)]]
           Good == {i \in 0 .. n : LastOf(ns, i, last[i])}
<1>1. n \in Nat /\ DOMAIN ns = 1 .. n /\ \A i \in 1 .. n : ns[i] \in Accepted
  OBVIOUS
<1>2. \A i \in 1 .. n, t \in Nat : Turn(i, t) \in Nat
  BY <1>1, AcceptedAre
<1> HIDE DEF Turn
<1>3. last = Body(last)
  <2>1. G \in [1 .. n -> [Nat -> Nat]]
    BY <1>1, <1>2
  <2> HIDE DEF n, G
  <2>2. Computed(n, Nat, 0, G)
    BY <1>1, <2>1, Recursion
  <2>3. PICK f \in [0 .. n -> Nat] : f[0] = 0 /\ \A i \in 1 .. n : f[i] = G[i][f[i - 1]]
    BY <2>2 DEF Computed, Computes
  <2>4. \A i \in 1 .. n : f[i - 1] \in Nat
    BY <1>1, <2>3
  <2>5. \A i \in 1 .. n : f[i] = Turn(i, f[i - 1])
    BY <1>1, <2>3, <2>4 DEF G
  <2>6. f = Body(f)
    BY <1>1, <2>3, <2>5
  <2> QED
    BY <2>6
<1> HIDE DEF last
<1>4. last[0] = 0 /\ \A i \in 1 .. n : last[i] = Turn(i, last[i - 1])
  BY <1>1, <1>3
<1>5. LastDeclared(ns) = last[n]
  BY DEF LastDeclared, last, Turn
<1>6. \A k \in 1 .. n : k \in DeclaredOf(ns) <=> ns[k].declares # 0
  BY <1>1 DEF DeclaredOf
<1> HIDE DEF n
<1>7. 0 \in Good
  BY <1>1, <1>4 DEF LastOf
<1>8. ASSUME NEW i \in 1 .. n, i - 1 \in Good PROVE i \in Good
  <2> DEFINE h == i - 1
  <2>1. i \in 0 .. n /\ h \in Nat /\ i = h + 1 /\ LastOf(ns, h, last[h])
    BY <1>1, <1>8
  <2>2. last[i] = IF i \in DeclaredOf(ns) THEN ns[i].declares ELSE last[h]
    BY <1>4, <1>6 DEF Turn
  <2> HIDE DEF h
  <2>3. \A k : k \in 1 .. i <=> k \in 1 .. h \/ k = i
    BY <2>1
  <2>4. CASE i \in DeclaredOf(ns)
    <3>1. \A k \in 1 .. i : k <= i
      BY <2>1
    <3> QED
      BY <2>1, <2>2, <2>3, <2>4, <3>1 DEF LastOf
  <2>5. CASE i \notin DeclaredOf(ns)
    BY <2>1, <2>2, <2>3, <2>5 DEF LastOf
  <2> QED
    BY <2>4, <2>5
<1> HIDE DEF Good
<1>9. 0 .. n \subseteq Good
  BY <1>1, <1>7, <1>8, Climb
<1>10. n \in Good
  BY <1>1, <1>9
<1> QED
  BY <1>5, <1>10 DEF Good, n

LEMMA ResolvedIsReported ==
  ASSUME NEW ns \in Seq(Accepted)
  PROVE  Reported(ns, Resolved(ns))
<1> DEFINE last == LastDeclared(ns)
<1>1. DOMAIN ns = 1 .. Len(ns)
  OBVIOUS
<1>2. LastOf(ns, Len(ns), last)
  BY LastDeclaredIs
<1>3. \A k \in DeclaredOf(ns) : k \in 1 .. Len(ns) /\ ns[k].declares # 0
  BY <1>1 DEF DeclaredOf
<1> HIDE DEF last
<1>4. CASE DeclaredOf(ns) = {}
  <2>1. last = 0
    BY <1>2, <1>4 DEF LastOf
  <2> QED
    BY <1>4, <2>1, UsageOfV1 DEF Reported, Resolved, last
<1>5. CASE DeclaredOf(ns) # {}
  <2>1. PICK k \in DeclaredOf(ns) : /\ last = ns[k].declares
                                    /\ \A j \in DeclaredOf(ns) : j <= k
    BY <1>2, <1>3, <1>5 DEF LastOf
  <2>2. last # 0
    BY <1>3, <2>1
  <2> QED
    BY <1>5, <2>1, <2>2 DEF Reported, Resolved, last
<1> QED
  BY <1>4, <1>5

UsageInv == phase = "completed" => Reported(accepted, usage)

LEMMA UsageIs == M!resolveUsage = Resolved(accepted) /\ (UsageInv <=> M!UsageIsReported)
<1>1. M!resolveUsage = Resolved(accepted)
  BY DEF M!resolveUsage, Resolved, LastDeclared
<1>2. UsageInv <=> M!UsageIsReported
  BY DEF UsageInv, M!UsageIsReported, Reported, DeclaredOf, ResultsOf, SumOf
<1> QED
  BY <1>1, <1>2

-----------------------------------------------------------------------------
(* The steps of the runs of a thread *)

MsgInv == MsgTypes /\ FileInv /\ M!ResumesWhatIsShown /\ UsageInv

LEMMA MsgInit == M!Init => MsgInv
<1> SUFFICES ASSUME M!Init PROVE MsgInv
  OBVIOUS
<1>1. <<>> \in Seq(M!Roles) /\ <<>> \in Seq(Accepted) /\ <<>> \in Seq(Line)
  OBVIOUS
<1> QED
  BY <1>1 DEF M!Init, MsgInv, MsgTypes, FileInv, M!ResumesWhatIsShown, UsageInv

\* A flush that is forced, or that finds the session committed, brings the file
\* up to the messages accepted; any other leaves it alone.
LEMMA FlushSteps ==
  ASSUME MsgTypes, FileInv, phase = "running", UNCHANGED <<input, before>>,
         accepted' = accepted \/ \E n \in Accepted : accepted' = Append(accepted, n),
         sessionCommitted => sessionCommitted',
         NEW force \in BOOLEAN, M!Flush(force),
         IF force THEN phase' = "completed" ELSE phase' \in {"running", "failed"}
  PROVE  file' \in Seq(Line) /\ FileInv'
<1>1. CASE force \/ sessionCommitted'
  <2>1. file' = file \o M!Lines /\ flushed' = Len(accepted') /\ inputWritten' = TRUE
    BY <1>1 DEF M!Flush
  <2>2. file' \in Seq(Line) /\ file' = before' \o OfTheRun'
    BY <2>1, Flushed
  <2> QED
    BY <1>1, <2>1, <2>2 DEF FileInv
<1>2. CASE ~(force \/ sessionCommitted')
  <2>1. file' = file /\ flushed' = flushed /\ inputWritten' = inputWritten
    BY <1>2 DEF M!Flush
  <2>2. ~inputWritten /\ file = before /\ flushed = 0
    BY <1>2 DEF FileInv
  <2> QED
    BY <1>2, <2>1, <2>2 DEF FileInv, MsgTypes
<1> QED
  BY <1>1, <1>2

LEMMA MsgNext == ASSUME MsgInv, [M!Next]_(M!vars) PROVE MsgInv'
<1> USE DEF MsgInv
<1>1. CASE UNCHANGED M!vars
  BY <1>1 DEF M!vars, MsgTypes, FileInv, OfTheRun, M!ResumesWhatIsShown, UsageInv
<1>2. CASE M!Begin
  <2>1. /\ phase' = "running" /\ before' = file /\ input' \in Asked /\ file' = file
        /\ ~inputWritten' /\ accepted' = <<>> /\ flushed' = 0
    BY <1>2 DEF M!Begin
  <2>2. input' \in Seq(M!Roles) /\ <<>> \in Seq(Accepted)
    BY <2>1, InstancesAssumption DEF M!MessageAssumption
  <2>3. MsgTypes' /\ FileInv' /\ UsageInv'
    BY <2>1, <2>2 DEF MsgTypes, FileInv, UsageInv
  <2>4. isResume' <=> M!Conversation(file) # {}
    <3>1. PICK k \in 0 .. Len(file) : isResume' = M!hasMessages(k)
      BY <1>2 DEF M!Begin
    <3>2. CASE file = <<>>
      <4>1. M!Conversation(file) = {}
        BY <3>2 DEF M!Conversation
      <4> QED
        BY <3>1, <3>2, <4>1 DEF M!hasMessages
    <3>3. CASE file # <<>>
      <4> DEFINE first == SubSeq(file, 1, k)
      <4>1. /\ file \in Seq(Line) /\ Len(file) \in Nat /\ DOMAIN file = 1 .. Len(file)
            /\ k \in Nat /\ k <= Len(file)
        BY DEF MsgTypes
      <4>2. \A i \in 1 .. k : file[i] \in Line
        BY <4>1
      <4>3. first \in Seq(Line) /\ Len(first) = k /\ \A i \in 1 .. k : first[i] = file[i]
        BY <4>1, <4>2, SubSeqProperties
      <4> HIDE DEF first
      <4>4. DOMAIN first = 1 .. k /\ 1 .. k \subseteq 1 .. Len(file)
        BY <4>1, <4>3
      <4>5. M!Conversation(first) # {} => M!Conversation(file) # {}
        BY <4>1, <4>3, <4>4 DEF M!Conversation
      <4> QED
        BY <3>1, <3>3, <4>5 DEF M!hasMessages, first
    <3> QED
      BY <3>2, <3>3
  <2>5. M!ResumesWhatIsShown'
    BY <2>1, <2>4 DEF M!ResumesWhatIsShown
  <2> QED
    BY <2>3, <2>5
<1>3. ASSUME NEW msg \in Yielded, M!Yield(msg) PROVE MsgInv'
  <2>1. /\ phase = "running" /\ phase' = "running" /\ M!Flush(FALSE)
        /\ accepted' = Append(accepted, M!Normalized(msg))
        /\ sessionCommitted' = (sessionCommitted \/ M!Commits(msg))
        /\ UNCHANGED <<input, before, isResume>>
    BY <1>3 DEF M!Yield
  <2>2. M!Normalized(msg) \in Accepted
    BY DEF Accepted, M!Yieldable
  <2>3. accepted' \in Seq(Accepted)
    BY <2>1, <2>2, AppendProperties DEF MsgTypes
  <2>4. file' \in Seq(Line) /\ FileInv'
    BY <2>1, <2>2, FlushSteps
  <2> QED
    BY <2>1, <2>3, <2>4 DEF MsgTypes, M!ResumesWhatIsShown, UsageInv
<1>4. CASE M!Fail
  <2>1. /\ phase = "running" /\ phase' = "failed" /\ M!Flush(FALSE)
        /\ UNCHANGED <<accepted, sessionCommitted, input, before, isResume>>
    BY <1>4 DEF M!Fail
  <2>2. file' \in Seq(Line) /\ FileInv'
    BY <2>1, FlushSteps
  <2> QED
    BY <2>1, <2>2 DEF MsgTypes, M!ResumesWhatIsShown, UsageInv
<1>5. CASE M!Complete
  <2>1. /\ phase = "running" /\ phase' = "completed" /\ M!Flush(TRUE)
        /\ usage' = M!resolveUsage
        /\ UNCHANGED <<accepted, sessionCommitted, input, before, isResume>>
    BY <1>5 DEF M!Complete
  <2>2. file' \in Seq(Line) /\ FileInv'
    BY <2>1, FlushSteps
  <2>3. Reported(accepted, usage')
    BY <2>1, UsageIs, ResolvedIsReported DEF MsgTypes
  <2>4. UsageInv'
    BY <2>1, <2>3 DEF UsageInv
  <2> QED
    BY <2>1, <2>2, <2>4 DEF MsgTypes, M!ResumesWhatIsShown
<1> QED
  BY <1>1, <1>2, <1>3, <1>4, <1>5 DEF M!Next

\* Of a completed run the file has its lines after those that were there.
LEMMA AddedIs ==
  ASSUME NEW D, NEW b \in Seq(D), NEW t \in Seq(D)
  PROVE  SubSeq(b \o t, Len(b) + 1, Len(b \o t)) = t
<1> DEFINE f == b \o t
           m == Len(b)
           n == Len(t)
           u == SubSeq(f, m + 1, m + n)
<1>1. m \in Nat /\ n \in Nat
  BY LenProperties
<1>2. f \in Seq(D) /\ Len(f) = m + n
      /\ \A i \in 1 .. m + n : f[i] = IF i <= m THEN b[i] ELSE t[i - m]
  BY ConcatProperties
<1> HIDE DEF f, m, n
<1>3. \A i \in m + 1 .. m + n : f[i] \in D
  BY <1>1, <1>2
<1>4. m + 1 \in Int /\ m + n \in Int
  BY <1>1
<1>5. u \in Seq(D) /\ Len(u) = (IF m + 1 <= m + n THEN (m + n) - (m + 1) + 1 ELSE 0)
      /\ \A i \in 1 .. (m + n) - (m + 1) + 1 : u[i] = f[(m + 1) + i - 1]
  BY <1>3, <1>4, SubSeqProperties
<1> HIDE DEF u
<1>6. Len(u) = n /\ \A i \in 1 .. n : u[i] = f[m + i]
  BY <1>1, <1>5
<1>7. \A i \in 1 .. n : f[m + i] = t[i]
  <2> TAKE i \in 1 .. n
  <2>1. m + i \in 1 .. m + n /\ ~(m + i <= m) /\ (m + i) - m = i
    BY <1>1
  <2> QED
    BY <1>2, <2>1
<1>8. u = t
  BY <1>5, <1>6, <1>7, SeqEqual DEF n
<1> QED
  BY <1>2, <1>8 DEF u, f, m, n

LEMMA BothAre ==
  ASSUME NEW D, NEW s \in Seq(D), NEW t \in Seq(D), NEW m, NEW n, Len(s) = m, Len(t) = n
  PROVE  /\ Then(s, t) \in Seq(D) /\ Len(Then(s, t)) = m + n
         /\ \A k \in 1 .. m + n : Then(s, t)[k] = IF k <= m THEN s[k] ELSE t[k - m]
BY ConcatProperties DEF Then

LEMMA ThreadShows == ASSUME MsgTypes, FileInv PROVE M!ThreadIsFaithful
<1>1. ASSUME phase \in {"running", "failed"}, ~sessionCommitted PROVE file = before
  BY <1>1 DEF FileInv
<1>2. ASSUME phase = "completed"
      PROVE  /\ Len(M!Added) = Len(M!NotSystem) + Len(M!Durable)
             /\ \A k \in DOMAIN M!Added :
                  M!isConversationMessage(M!Added[k]) =
                    IF k <= Len(M!NotSystem) THEN TRUE
                    ELSE M!Told(M!Durable[k - Len(M!NotSystem)])
  <2> DEFINE asked == M!toAgentMessages(input)
             said == M!NotSystem
             kept == M!Durable
             shown == Shown(kept)
             m == Len(said)
             n == Len(kept)
             lines == asked \o shown
  <2>1. file = before \o lines
    BY <1>2 DEF FileInv, OfTheRun, M!Durable
  <2>2. /\ said \in Seq(M!Roles \ {"system"}) /\ asked \in Seq(Line) /\ Len(asked) = m
        /\ \A k \in 1 .. m : M!isConversationMessage(asked[k]) = TRUE
    BY AskedLines DEF MsgTypes, M!NotSystem
  <2>3. kept \in Seq(Accepted)
    BY DurableOf DEF MsgTypes, M!Durable
  <2> HIDE DEF kept, said, asked
  <2>4. /\ shown \in Seq(Line) /\ Len(shown) = n
        /\ \A k \in 1 .. n : shown[k] = M!Annotated(kept[k])
    BY <2>3, ShownLines
  <2>5. m \in Nat /\ n \in Nat /\ \A k \in 1 .. n : kept[k] \in Accepted
    BY <2>2, <2>3, LenProperties
  <2> HIDE DEF shown
  <2>6. lines \in Seq(Line) /\ Len(lines) = m + n
        /\ \A k \in 1 .. m + n : lines[k] = IF k <= m THEN asked[k] ELSE shown[k - m]
    <3>1. lines = Then(asked, shown)
      BY DEF Then
    <3> HIDE DEF lines, m, n
    <3> QED
      BY <2>2, <2>4, <3>1, BothAre
  <2> HIDE DEF lines
  <2>7. M!Added = lines
    BY <2>1, <2>6, AddedIs DEF MsgTypes, M!Added
  <2> HIDE DEF m, n
  <2>8. DOMAIN lines = 1 .. m + n
    BY <2>6
  <2>9. ASSUME NEW k \in 1 .. m + n
        PROVE  M!isConversationMessage(lines[k]) = IF k <= m THEN TRUE ELSE M!Told(kept[k - m])
    <3>1. CASE k <= m
      <4>1. k \in 1 .. m /\ lines[k] = asked[k]
        BY <2>5, <2>6, <3>1
      <4> QED
        BY <2>2, <3>1, <4>1
    <3>2. CASE ~(k <= m)
      <4>1. k - m \in 1 .. n
        BY <2>5, <3>2
      <4>2. lines[k] = M!Annotated(kept[k - m]) /\ kept[k - m] \in Accepted
        BY <2>4, <2>5, <2>6, <3>2, <4>1
      <4> QED
        BY <3>2, <4>2, AcceptedAre
    <3> QED
      BY <3>1, <3>2
  <2> QED
    BY <2>6, <2>7, <2>8, <2>9 DEF m, n, said, kept
<1> QED
  BY <1>1, <1>2 DEF M!ThreadIsFaithful

\* The file of a thread has of a completed run the input and every durable
\* message, once and in order, and each reads back as it was told; a run that
\* did not commit left it alone; the next run is told to resume exactly when
\* the file shows a conversation; and the usage of a completed run is the last
\* one declared, or else what the V1 results add up to (AgentRuntime.normalize,
\* MessageConverter, hasMessages, resolveUsage).
THEOREM MessagesFaithful == MCSpec => []MessagesAreFaithful
<1>1. MsgInv => MessagesAreFaithful
  BY ThreadShows, UsageIs DEF MsgInv, MessagesAreFaithful
<1>2. MsgInv /\ [M!Next]_(M!vars) => MsgInv'
  BY MsgNext
<1> QED
  BY <1>1, <1>2, MsgInit, PartsBehave, PTL
=============================================================================
