------------------------------- MODULE AgentRun -------------------------------
(***************************************************************************)
(* One agent run: the worker that executes it (AgentRuntime.syncRun,       *)
(* asyncRun, streamRun), the calls of cancelRun that compete with it, on   *)
(* the worker's own process or on another one, an abort from outside       *)
(* (AbortSignal, destroy) and a crash of the worker's process.             *)
(*                                                                         *)
(* Every await is a step boundary.  The run record lives in the store and  *)
(* OSSAgentStore.updateRun is a read followed by a write of the whole      *)
(* record, so an update is two steps and another writer may come between.  *)
(*                                                                         *)
(* A message is its place in the stream and two bits: whether it is stored *)
(* (durable) and whether it tells that the session is committed.  The      *)
(* thread is the sequence of appends made to it, each one a batch: the     *)
(* input lines or not, then the durable messages after `from' up to `to'.  *)
(***************************************************************************)
EXTENDS Naturals, Sequences, FiniteSets

CONSTANTS
  RunKinds,              \* which of "sync", "async", "stream" the run may be
  LocalCancellers,       \* calls of cancelRun on the worker's process
  RemoteCancellers,      \* calls of cancelRun on another process
  MaxMessages,           \* bound on the messages the executor yields
  MaxFaults,             \* bound on the store calls that fail
  ExternalAborts,        \* may a signal or destroy() abort the run?
  Crashes,               \* may the worker's process die?
  SlowStore              \* may a store call outlast the commit watchdog?

ASSUME RunKindsAssumption == RunKinds \subseteq {"sync", "async", "stream"}
ASSUME BoundsAssumption == MaxMessages \in Nat /\ MaxFaults \in Nat
ASSUME SwitchesAssumption ==
  ExternalAborts \in BOOLEAN /\ Crashes \in BOOLEAN /\ SlowStore \in BOOLEAN

Cancellers == LocalCancellers \cup RemoteCancellers

VARIABLES
  kind,          \* the entry point that created the run
  rec,           \* the run record in the store
  wpc,           \* where the worker is; "ended": off runningTasks; "crashed"
  rb,            \* status held by the worker's RunBuilder
  wheld,         \* record read by the worker's updateRun in progress
  inCatch,       \* the worker has entered its catch block
  aborted,       \* task.abortController.signal.aborted
  committed,     \* task.committed
  normalized,    \* messages accepted from the executor
  flushedCount,  \* cursor of the flusher
  inputFlushed,  \* the flusher has written the input lines
  appended,      \* batches appended to the thread in the store
  finished,      \* (history) the executor ended by itself, unaborted
  cpc,           \* where each call of cancelRun is
  cheld,         \* record read by the call's updateRun in progress
  cret,          \* status the call returned
  faults         \* store calls that failed so far

taskVars == <<kind, rb, inCatch, normalized, finished>>
flushVars == <<flushedCount, inputFlushed, appended>>
cancelVars == <<cpc, cheld, cret>>
vars == <<kind, rec, wpc, rb, wheld, inCatch, aborted, committed, normalized,
          flushedCount, inputFlushed, appended, finished, cpc, cheld, cret,
          faults>>

-----------------------------------------------------------------------------
(* Statuses, records, batches *)

Status == {"queued", "in_progress", "completed", "failed", "cancelling",
           "cancelled"}
TERMINAL_RUN_STATUSES == {"completed", "failed", "cancelled"}
POST_LOOP_TERMINAL_STATUSES == {"cancelling", "cancelled", "failed"}

\* The record is its status and which of startedAt, completedAt, failedAt,
\* cancelledAt it carries.
Stamp == {"started", "completed", "failed", "cancelled"}
Record == [status : Status, stamps : SUBSET Stamp]
NewRecord == [status |-> "queued", stamps |-> {}]

\* Object.assign(run, updates): the rest of the record is what was read.
Updated(held, status, stamps) ==
  [status |-> status, stamps |-> held.stamps \cup stamps]

Message == [durable : BOOLEAN, commits : BOOLEAN]
Batch == [input : BOOLEAN, from : Nat, to : Nat]

TryPcs == {"start_get", "start_put", "iter", "commit", "flush", "post_get",
           "post_flush", "force_flush", "done_get", "done_put"}
FinalisePcs == {"fin_get", "ing_get", "ing_put", "led_get", "led_put"}
CatchPcs == {"catch_flush", "catch_get", "fail_get", "fail_put"}
WorkerPc == TryPcs \cup FinalisePcs \cup CatchPcs
            \cup {"abort_flush", "latest", "ended", "crashed"}
WorkerGone == wpc \in {"ended", "crashed"}

CancelReturned == {"returned", "conflict", "error", "timedout", "gone"}
CancelPc == CancelReturned \cup
  {"idle", "ing_get", "ing_put", "lookup", "wait", "to_get", "to_put",
   "to_await", "await", "fresh", "led_get", "led_put", "fallback"}

Init ==
  /\ kind \in RunKinds
  /\ rec = NewRecord
  /\ wpc = "start_get"
  /\ rb = "queued"
  /\ wheld = NewRecord
  /\ inCatch = FALSE
  /\ aborted = FALSE
  /\ committed = FALSE
  /\ normalized = <<>>
  /\ flushedCount = 0
  /\ inputFlushed = FALSE
  /\ appended = <<>>
  /\ finished = FALSE
  /\ cpc = [c \in Cancellers |-> "idle"]
  /\ cheld = [c \in Cancellers |-> NewRecord]
  /\ cret = [c \in Cancellers |-> "none"]
  /\ faults = 0

-----------------------------------------------------------------------------
(* Store calls of the worker *)

\* One of the calls the store may refuse.
StoreFails == faults < MaxFaults /\ faults' = faults + 1

\* Where an error of the try block lands: the catch block looks at the signal.
Caught == IF aborted THEN "abort_flush" ELSE "catch_flush"

\* A store call of the worker fails and control goes to `onError'.
Fails(onError) ==
  /\ StoreFails
  /\ wpc' = onError
  /\ inCatch' = (inCatch \/ onError = Caught)

Succeeds(to) == wpc' = to /\ UNCHANGED <<inCatch, faults>>

\* store.getRun: `to' is chosen from the record read.
GetRun(from, to, onError) ==
  /\ wpc = from
  /\ Succeeds(to) \/ Fails(onError)
  /\ UNCHANGED <<kind, rec, rb, wheld, aborted, committed, normalized,
                 finished, flushVars, cancelVars>>

\* First half of store.updateRun: read the record.
UpdateGet(from, to, onError) ==
  /\ wpc = from
  /\ \/ Succeeds(to) /\ wheld' = rec
     \/ Fails(onError) /\ UNCHANGED wheld
  /\ UNCHANGED <<kind, rec, aborted, committed, normalized, finished,
                 flushVars, cancelVars>>

\* Second half: write it back, and the record read goes out of scope.  A refused
\* write may have taken effect.
UpdatePut(from, status, stamps, to, onError) ==
  /\ wpc = from
  /\ wheld' = NewRecord
  /\ LET new == Updated(wheld, status, stamps)
     IN \/ Succeeds(to) /\ rec' = new
        \/ Fails(onError) /\ rec' \in {rec, new}
  /\ UNCHANGED <<kind, rb, aborted, committed, normalized, finished,
                 flushVars, cancelVars>>

(* The flusher *)

Pending == \E i \in (flushedCount + 1) .. Len(normalized) : normalized[i].durable

GateOpen_Bug(force) == TRUE  \* mutation: no commit gate
GateOpen(force) == force \/ committed

\* What an append writes, and the cursor it leaves behind.
FlushedBatch == [input |-> ~inputFlushed, from |-> flushedCount,
                 to |-> Len(normalized)]
CursorMoves_Bug ==  \* mutation: the input is not marked as written
  flushedCount' = Len(normalized) /\ UNCHANGED inputFlushed
CursorMoves == flushedCount' = Len(normalized) /\ inputFlushed' = TRUE
CursorStays == UNCHANGED <<flushedCount, inputFlushed>>

\* flush(force): nothing before the commit unless forced; one append of what
\* is pending; the cursor moves only when the append succeeded.  A refused
\* append may have taken effect.
Flush(from, force, to, onError) ==
  /\ wpc = from
  /\ LET lines == GateOpen(force) /\ (~inputFlushed \/ Pending)
         grown == IF lines THEN Append(appended, FlushedBatch) ELSE appended
     IN \/ /\ Succeeds(to)
           /\ appended' = grown
           /\ IF GateOpen(force) THEN CursorMoves ELSE CursorStays
        \/ /\ lines
           /\ Fails(onError)
           /\ appended' \in {appended, grown}
           /\ CursorStays
  /\ UNCHANGED <<kind, rec, wheld, aborted, committed, normalized,
                 finished, cancelVars>>

FlushQuietly(from, to) == Flush(from, FALSE, to, to) /\ UNCHANGED rb

-----------------------------------------------------------------------------
(* The worker: start, the loop over the executor, completion *)

\* store.updateRun(id, rb.start())
StartGet ==
  /\ UpdateGet("start_get", "start_put", Caught)
  /\ rb' = "in_progress"
StartPut == UpdatePut("start_put", "in_progress", {"started"}, "iter", Caught)

\* What an iteration of the loop leaves alone.
LoopUnchanged ==
  UNCHANGED <<kind, rec, rb, wheld, aborted, flushVars, cancelVars, faults>>

\* The executor yields a message: an aborted run drops it and winds up.
Yield(m) ==
  /\ wpc = "iter"
  /\ IF aborted
     THEN wpc' = "abort_flush" /\ UNCHANGED normalized
     ELSE /\ Len(normalized) < MaxMessages
          /\ normalized' = Append(normalized, m)
          /\ wpc' = "commit"
  /\ UNCHANGED <<committed, inCatch, finished>>
  /\ LoopUnchanged

\* markCommittedIfNeeded, after the executor's hook has answered.
MarkCommittedIfNeeded ==
  /\ wpc = "commit"
  /\ committed' = (committed \/ normalized[Len(normalized)].commits)
  /\ wpc' = "flush"
  /\ UNCHANGED <<normalized, inCatch, finished>>
  /\ LoopUnchanged

FlushInLoop == FlushQuietly("flush", "iter")

\* The loop ends by itself; the signal is looked at once more.
ExecutorEnds ==
  /\ wpc = "iter"
  /\ wpc' = IF aborted THEN "abort_flush" ELSE "post_get"
  /\ finished' = ~aborted
  /\ UNCHANGED <<normalized, committed, inCatch>>
  /\ LoopUnchanged

\* The executor, or the normalisation of its message, throws.
ExecutorThrows ==
  /\ wpc = "iter"
  /\ wpc' = Caught
  /\ inCatch' = TRUE
  /\ UNCHANGED <<normalized, committed, finished>>
  /\ LoopUnchanged

\* The status another writer may have set decides whether to complete.
PostLoopCheck ==
  GetRun("post_get",
         IF rec.status \in POST_LOOP_TERMINAL_STATUSES THEN "post_flush"
                                                       ELSE "force_flush",
         Caught)
PostLoopFlush ==
  FlushQuietly("post_flush", IF kind = "sync" THEN "fin_get" ELSE "ended")

\* flush(true), then rb.complete() is evaluated for the update that follows.
FinalFlush ==
  /\ Flush("force_flush", TRUE, "done_get", Caught)
  /\ rb' = IF wpc' = "done_get" THEN "completed" ELSE rb
CompleteGet ==
  UpdateGet("done_get", "done_put", Caught) /\ UNCHANGED rb
CompletePut == UpdatePut("done_put", "completed", {"completed"}, "ended", Caught)

-----------------------------------------------------------------------------
(* The worker: abort and failure *)

AbortFlush == FlushQuietly("abort_flush", "fin_get")

\* syncRun reads the record once more to answer with it.
AfterFinalise == IF kind = "sync" THEN "latest" ELSE "ended"

\* finaliseAbortedRun: cancelling then cancelled, unless somebody else did or
\* will; every error in it is swallowed.
FinaliseCheck ==
  GetRun("fin_get",
         IF rec.status \in TERMINAL_RUN_STATUSES \cup {"cancelling"}
         THEN AfterFinalise ELSE "ing_get",
         AfterFinalise)
FinaliseCancellingGet ==
  UpdateGet("ing_get", "ing_put", AfterFinalise) /\ UNCHANGED rb
FinaliseCancellingPut == UpdatePut("ing_put", "cancelling", {}, "led_get", AfterFinalise)
FinaliseCancelledGet ==
  UpdateGet("led_get", "led_put", AfterFinalise) /\ UNCHANGED rb
FinaliseCancelledPut ==
  UpdatePut("led_put", "cancelled", {"cancelled"}, AfterFinalise, AfterFinalise)

\* An error here is one of the try block, unless the catch block made the call.
ReadLatest == GetRun("latest", "ended", IF inCatch THEN "ended" ELSE Caught)

\* rb.fail() throws on a builder that holds a terminal status; syncRun calls it
\* at once, the others after a look at the record.
CanFail_Bug == TRUE  \* mutation: RunBuilder.fail accepts any status
CanFail == rb \in {"queued", "in_progress", "cancelling"}
FailOrEnd == IF CanFail THEN "fail_get" ELSE "ended"
CatchFlush ==
  FlushQuietly("catch_flush", IF kind = "sync" THEN FailOrEnd ELSE "catch_get")
CatchCheck ==
  GetRun("catch_get",
         IF rec.status \in {"cancelling", "cancelled"} THEN "ended" ELSE FailOrEnd,
         "ended")
FailGet ==
  /\ UpdateGet("fail_get", "fail_put", "ended")
  /\ rb' = "failed"
FailPut == UpdatePut("fail_put", "failed", {"failed"}, "ended", "ended")

-----------------------------------------------------------------------------
(* cancelRun *)

WorkerIdle ==
  UNCHANGED <<taskVars, wpc, wheld, committed, flushVars>>

At(c, pc) == cpc[c] = pc
CancelGoes(c, pc) == cpc' = [cpc EXCEPT ![c] = pc]

\* runningTasks.get(runId): the task is known on its own process, until it ends.
HasTask(c) == c \in LocalCancellers /\ ~WorkerGone

\* The first half and the second half of an updateRun of the call.
CancelGet(c, from, to, onError) ==
  /\ At(c, from)
  /\ \/ CancelGoes(c, to) /\ cheld' = [cheld EXCEPT ![c] = rec] /\ UNCHANGED faults
     \/ StoreFails /\ CancelGoes(c, onError) /\ UNCHANGED cheld
  /\ UNCHANGED <<rec, cret>>
CancelPut(c, from, status, stamps, to, onError) ==
  /\ At(c, from)
  /\ LET new == Updated(cheld[c], status, stamps)
     IN \/ CancelGoes(c, to) /\ rec' = new /\ UNCHANGED faults
        \/ StoreFails /\ CancelGoes(c, onError) /\ rec' \in {rec, new}
  /\ cheld' = [cheld EXCEPT ![c] = NewRecord]

\* The call begins: a run already over is a conflict.
CancelRun(c) ==
  /\ At(c, "idle")
  /\ \/ /\ CancelGoes(c, IF rec.status \in TERMINAL_RUN_STATUSES
                         THEN "conflict" ELSE "ing_get")
        /\ UNCHANGED faults
     \/ StoreFails /\ CancelGoes(c, "error")
  /\ UNCHANGED <<rec, cheld, cret, aborted>>
  /\ WorkerIdle

CancellingGet(c) ==
  CancelGet(c, "ing_get", "ing_put", "error") /\ UNCHANGED aborted /\ WorkerIdle
CancellingPut(c) ==
  /\ CancelPut(c, "ing_put", "cancelling", {}, "lookup", "error")
  /\ UNCHANGED <<cret, aborted>>
  /\ WorkerIdle

\* Find the task; hold until it has committed, else abort it at once.
LookupTask(c) ==
  /\ At(c, "lookup")
  /\ CancelGoes(c, IF ~HasTask(c) THEN "fresh"
                   ELSE IF committed THEN "await" ELSE "wait")
  /\ aborted' = (aborted \/ (HasTask(c) /\ committed))
  /\ UNCHANGED <<rec, cheld, cret, faults>>
  /\ WorkerIdle

\* The task's `commit' or `end' event arrives.
CommittedOrEnded(c) ==
  /\ At(c, "wait")
  /\ committed \/ WorkerGone
  /\ CancelGoes(c, "await")
  /\ aborted' = TRUE
  /\ UNCHANGED <<rec, cheld, cret, faults>>
  /\ WorkerIdle

\* The commit watchdog fires.  Unless SlowStore, it is longer than the store
\* calls of the worker: only the executor can keep it waiting that long.
CommitTimeout_Bug(c) == FALSE  \* mutation: no watchdog
CommitTimeout(c) ==
  /\ At(c, "wait")
  /\ ~committed /\ ~WorkerGone
  /\ SlowStore \/ wpc = "iter"
  /\ CancelGoes(c, "to_get")
  /\ UNCHANGED <<rec, cheld, cret, aborted, faults>>
  /\ WorkerIdle

\* The run is marked failed before the abort, whatever becomes of the update.
TimeoutFailGet(c) ==
  /\ CancelGet(c, "to_get", "to_put", "to_await")
  /\ aborted' = (aborted \/ cpc'[c] = "to_await")
  /\ WorkerIdle
TimeoutFailPut(c) ==
  /\ CancelPut(c, "to_put", "failed", {"failed"}, "to_await", "to_await")
  /\ aborted' = TRUE
  /\ UNCHANGED cret
  /\ WorkerIdle

\* await task.promise
TaskEnded_Bug(c, from, to) ==  \* mutation: the task is not awaited
  /\ At(c, from)
  /\ CancelGoes(c, to)
  /\ UNCHANGED <<rec, cheld, cret, aborted, faults>>
  /\ WorkerIdle
TaskEnded(c, from, to) ==
  /\ At(c, from)
  /\ WorkerGone
  /\ CancelGoes(c, to)
  /\ UNCHANGED <<rec, cheld, cret, aborted, faults>>
  /\ WorkerIdle
TimedOut(c) == TaskEnded(c, "to_await", "timedout")
Awaited(c) == TaskEnded(c, "await", "fresh")

\* The call answers with the status it read.
Answers(c, status) == CancelGoes(c, "returned") /\ cret' = [cret EXCEPT ![c] = status]

\* The record is read again: a run that ended otherwise is left as it is.
FreshCheck(c) ==
  /\ At(c, "fresh")
  /\ \/ /\ IF rec.status \in TERMINAL_RUN_STATUSES
           THEN Answers(c, rec.status)
           ELSE CancelGoes(c, "led_get") /\ UNCHANGED cret
        /\ UNCHANGED faults
     \/ StoreFails /\ CancelGoes(c, "error") /\ UNCHANGED cret
  /\ UNCHANGED <<rec, cheld, aborted>>
  /\ WorkerIdle

CancelledGet(c) ==
  CancelGet(c, "led_get", "led_put", "fallback") /\ UNCHANGED aborted /\ WorkerIdle
CancelledPut_Bug(c) ==  \* mutation: the error of the last write is ignored
  /\ CancelPut(c, "led_put", "cancelled", {"cancelled"}, "returned", "returned")
  /\ cret' = [cret EXCEPT ![c] = "cancelled"]
  /\ UNCHANGED aborted
  /\ WorkerIdle
CancelledPut(c) ==
  /\ CancelPut(c, "led_put", "cancelled", {"cancelled"}, "returned", "fallback")
  /\ cret' = IF cpc'[c] = "returned" THEN [cret EXCEPT ![c] = "cancelled"] ELSE cret
  /\ UNCHANGED aborted
  /\ WorkerIdle

Fallback(c) ==
  /\ At(c, "fallback")
  /\ \/ Answers(c, rec.status) /\ UNCHANGED faults
     \/ StoreFails /\ CancelGoes(c, "error") /\ UNCHANGED cret
  /\ UNCHANGED <<rec, cheld, aborted>>
  /\ WorkerIdle

-----------------------------------------------------------------------------
(* The environment *)

\* The AbortSignal given to syncRun, or destroy().
ExternalAbort ==
  /\ ExternalAborts
  /\ ~aborted /\ ~WorkerGone
  /\ aborted' = TRUE
  /\ UNCHANGED <<taskVars, wpc, rec, wheld, committed, flushVars, cancelVars, faults>>

\* The worker's process dies, and the calls of cancelRun on it.
Crash ==
  /\ Crashes
  /\ ~WorkerGone
  /\ wpc' = "crashed"
  /\ cpc' = [c \in Cancellers |->
               IF c \in LocalCancellers /\ cpc[c] \notin CancelReturned \cup {"idle"}
               THEN "gone" ELSE cpc[c]]
  /\ UNCHANGED <<taskVars, rec, wheld, aborted, committed, flushVars, cheld,
                 cret, faults>>

\* Nothing is left to do.
Stopped ==
  /\ WorkerGone
  /\ \A c \in Cancellers : cpc[c] \in CancelReturned
  /\ UNCHANGED vars

-----------------------------------------------------------------------------

Executor == (\E m \in Message : Yield(m)) \/ ExecutorEnds \/ ExecutorThrows

Worker ==
  \/ StartGet \/ StartPut \/ MarkCommittedIfNeeded \/ FlushInLoop
  \/ PostLoopCheck \/ PostLoopFlush \/ FinalFlush \/ CompleteGet \/ CompletePut
  \/ AbortFlush \/ FinaliseCheck
  \/ FinaliseCancellingGet \/ FinaliseCancellingPut
  \/ FinaliseCancelledGet \/ FinaliseCancelledPut \/ ReadLatest
  \/ CatchFlush \/ CatchCheck \/ FailGet \/ FailPut

CancelContinues(c) ==
  \/ CancellingGet(c) \/ CancellingPut(c) \/ LookupTask(c)
  \/ CommittedOrEnded(c) \/ CommitTimeout(c)
  \/ TimeoutFailGet(c) \/ TimeoutFailPut(c) \/ TimedOut(c)
  \/ Awaited(c) \/ FreshCheck(c) \/ CancelledGet(c) \/ CancelledPut(c)
  \/ Fallback(c)

Next ==
  \/ Executor
  \/ Worker
  \/ \E c \in Cancellers : CancelRun(c) \/ CancelContinues(c)
  \/ ExternalAbort
  \/ Crash
  \/ Stopped

Spec == Init /\ [][Next]_vars

\* A pending store call answers, a timer fires, a resolved promise continues.
\* The executor owes nothing until it is aborted; then it yields, ends or throws.
Fairness ==
  /\ WF_vars(Worker)
  /\ WF_vars(aborted /\ Executor)
  /\ \A c \in Cancellers : WF_vars(CancelContinues(c))

FairSpec == Spec /\ Fairness

-----------------------------------------------------------------------------
(* Properties *)

TypeOK ==
  /\ kind \in RunKinds
  /\ rec \in Record
  /\ wpc \in WorkerPc
  /\ rb \in Status
  /\ wheld \in Record
  /\ inCatch \in BOOLEAN
  /\ aborted \in BOOLEAN
  /\ committed \in BOOLEAN
  /\ normalized \in Seq(Message)
  /\ flushedCount \in 0 .. Len(normalized)
  /\ inputFlushed \in BOOLEAN
  /\ appended \in Seq(Batch)
  /\ finished \in BOOLEAN
  /\ cpc \in [Cancellers -> CancelPc]
  /\ cheld \in [Cancellers -> Record]
  /\ cret \in [Cancellers -> Status \cup {"none"}]
  /\ faults \in 0 .. MaxFaults

\* Batch k of the thread holds message i.
Holds(k, i) == appended[k].from < i /\ i <= appended[k].to

\* A run that dies before its session is committed leaves the thread alone, so
\* that the next run does not resume a session that was never written: the
\* commit gate of the flusher, which only the path of a run that ended by
\* itself may pass.
ThreadUntouchedBeforeCommit ==
  ~committed /\ ~finished => appended = <<>>

\* A record that says the run completed vouches for the thread: the input and
\* every durable message of the run are in it, whatever failed on the way.
CompletedHasTranscript ==
  "completed" \in rec.stamps =>
     /\ \E k \in DOMAIN appended : appended[k].input
     /\ \A i \in DOMAIN normalized :
          normalized[i].durable => \E k \in DOMAIN appended : Holds(k, i)

\* The thread never has a gap, even after refused appends: what precedes a line
\* in the run precedes it in the thread, the input first.
TranscriptHasNoGap ==
  \A k \in DOMAIN appended :
     /\ \E j \in 1 .. k : appended[j].input
     /\ \A i \in 1 .. appended[k].to :
          normalized[i].durable => \E j \in 1 .. k : Holds(j, i)

\* A line is repeated only by the retry of an append whose failure was in doubt:
\* the cursor moves after an append and never back.
RepeatsOnlyAfterFaults ==
  /\ \A i \in DOMAIN normalized :
       Cardinality({k \in DOMAIN appended : Holds(k, i)}) <= 1 + faults
  /\ Cardinality({k \in DOMAIN appended : appended[k].input}) <= 1 + faults

\* What the thread holds of a run is the run's own transcript: no line is
\* missing before another one, the input comes first, and a line is repeated
\* only by the retry of an append whose failure was in doubt (createMessageFlusher).
TranscriptIsKept == TranscriptHasNoGap /\ RepeatsOnlyAfterFaults

\* When cancelRun has answered on the run's own process the run is quiet: it
\* accepts no message, appends nothing to the thread and writes no record.
CancelledRunIsQuiet ==
  [][(\E c \in LocalCancellers : cpc[c] \in {"returned", "timedout"})
        => UNCHANGED <<normalized, appended, wpc, wheld>>]_vars

\* What the only cancelRun of a run, on its own process, answers is and stays
\* what the store says, although the worker, an abort from outside and a crash
\* compete with it and store calls fail.
CancelAnswersTheStoredStatus ==
  \A c \in LocalCancellers :
     Cancellers = {c} /\ cpc[c] = "returned" => rec.status = cret[c]

\* A record says no more than the thread and the answers do: "completed" vouches
\* for the whole transcript, and what the only cancelRun answered stays true.
RecordTellsTheTruth == CompletedHasTranscript /\ CancelAnswersTheStoredStatus

\* Every call of cancelRun ends, even when the executor never commits.
CancelReturns ==
  []<>(\A c \in Cancellers : cpc[c] \in CancelReturned \cup {"idle"})

\* An aborted task ends: destroy() and cancelRun wait for that.
AbortEndsTask == aborted ~> WorkerGone

\* When no store call fails, the record of a task that ended settles on a
\* terminal status: nobody leaves it to somebody who will not do it.
EndedRunSettles ==
  wpc = "ended" ~> [](rec.status \in TERMINAL_RUN_STATUSES)

\* What the tests and comments say of a terminal status: cancelRun does not
\* overwrite it.
TerminalIsFinal ==
  [][rec.status \in TERMINAL_RUN_STATUSES => rec'.status = rec.status]_vars

\* A persist that fails routes through the catch block, which marks the run.
FailedCompletionIsMarked ==
  wpc = "ended" /\ inCatch /\ ~aborted /\ rb = "completed"
     => rec.status \in TERMINAL_RUN_STATUSES \cup {"cancelling"}

=============================================================================
