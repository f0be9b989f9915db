---------------------------- MODULE RunEventStream ----------------------------
(***************************************************************************)
(* The events of one streamed run and the clients that read them.          *)
(*                                                                         *)
(* The worker appends each event to a JSONL file and emits it to the       *)
(* listeners in one synchronous step (pushEvent); the last event and       *)
(* `done' are one step too.  A client first replays the file, which takes  *)
(* many steps: the read stream meets the end of the file at some moment,   *)
(* and the lines read so far are handed over one by one.  If the run is    *)
(* not over by then, the client registers a listener, reads the file again *)
(* to catch up and goes on with the events queued by its listener.         *)
(* A client may close its connection at any time.                          *)
(***************************************************************************)
EXTENDS Naturals, Sequences, Functions

CONSTANTS
  Clients,       \* connections: streamRun's own and those of getRunStream
  MaxEvents,     \* bound on the events of the run: the first, the last, the rest
  MaxFaults      \* bound on the appends to the file that throw

ASSUME EventsAssumption == MaxEvents \in Nat \ {0, 1} /\ MaxFaults \in Nat

VARIABLES
  file,          \* seq numbers of the events in the JSONL file
  lastSeq,       \* buffer.lastSeq
  done,          \* buffer.done
  buffered,      \* runBuffers holds the buffer
  failing,       \* an append threw: the worker is in its catch block
  faults,        \* appends that threw so far
  pc,            \* where each client is
  after,         \* the lastSeq a client asked for
  written,       \* events written to a client
  lastWrittenSeq,
  readPos,       \* lines handed over by the file read in progress
  readEnd,       \* lines the read had met at the end of the file, -1 before
  queue,         \* events queued by a client's listener
  listening,     \* the listener of a client is registered
  closed         \* writer.closed

clientVars == <<pc, after, written, lastWrittenSeq, readPos, readEnd, queue,
                listening, closed>>
runVars == <<file, lastSeq, done, buffered, failing, faults>>
vars == <<runVars, clientVars>>

NotYet == MaxEvents + 1     \* readEnd before the end of the file is met

\* "replayed": ended after the replay, the run being over; "ended": ended after
\* the live events, or after the file of a run long over; "left": closed.
Finished == {"ended", "replayed", "left"}
Pc == Finished \cup {"idle", "replay", "stored", "catch_up", "drain", "wait"}

Init ==
  /\ file = <<1>>           \* run_created is pushed before anybody reads
  /\ lastSeq = 1
  /\ done = FALSE
  /\ buffered = TRUE
  /\ failing = FALSE
  /\ faults = 0
  /\ pc = [c \in Clients |-> "idle"]
  /\ after = [c \in Clients |-> 0]
  /\ written = [c \in Clients |-> <<>>]
  /\ lastWrittenSeq = [c \in Clients |-> 0]
  /\ readPos = [c \in Clients |-> 0]
  /\ readEnd = [c \in Clients |-> NotYet]
  /\ queue = [c \in Clients |-> <<>>]
  /\ listening = [c \in Clients |-> FALSE]
  /\ closed = [c \in Clients |-> FALSE]

-----------------------------------------------------------------------------
(* The worker *)

\* The listeners of the emitter: queue the event and wake the client.
Emit(events) ==
  /\ queue' = [c \in Clients |-> IF listening[c] THEN queue[c] \o events ELSE queue[c]]
  /\ pc' = [c \in Clients |-> IF listening[c] /\ pc[c] = "wait" THEN "drain" ELSE pc[c]]
  /\ UNCHANGED <<after, written, lastWrittenSeq, readPos, readEnd, listening, closed>>

\* pushEvent: number, append, emit.
pushEvent ==
  /\ lastSeq < MaxEvents
  /\ lastSeq' = lastSeq + 1
  /\ file' = Append(file, lastSeq')
  /\ Emit(<<lastSeq'>>)

\* An event of the run; MaxEvents leaves room for the last one.
PushMessage ==
  /\ ~done /\ ~failing /\ lastSeq + 1 < MaxEvents
  /\ pushEvent
  /\ UNCHANGED <<done, buffered, failing, faults>>

\* The append throws: the number is used up, nothing is stored or emitted.
PushThrows ==
  /\ ~done /\ ~failing
  /\ faults < MaxFaults /\ lastSeq + 1 < MaxEvents
  /\ lastSeq' = lastSeq + 1
  /\ faults' = faults + 1
  /\ failing' = TRUE
  /\ UNCHANGED <<file, done, buffered, clientVars>>

\* The run is over: the last event, `done' and the wake-up of the clients.
PushLastAndFinish ==
  /\ ~done
  /\ pushEvent
  /\ done' = TRUE
  /\ UNCHANGED <<buffered, failing, faults>>

\* The last event cannot be stored: the run is over without it.
LastThrows ==
  /\ ~done
  /\ faults < MaxFaults
  /\ faults' = faults + 1
  /\ lastSeq' = lastSeq + 1
  /\ done' = TRUE
  /\ Emit(<<>>)
  /\ UNCHANGED <<file, buffered, failing>>

\* runBuffers.delete and removeAllListeners.
ReleaseBuffer ==
  /\ done /\ buffered
  /\ buffered' = FALSE
  /\ listening' = [c \in Clients |-> FALSE]
  /\ UNCHANGED <<file, lastSeq, done, failing, faults, pc, after, written,
                 lastWrittenSeq, readPos, readEnd, queue, closed>>

-----------------------------------------------------------------------------
(* A client *)

Goes(c, to) == pc' = [pc EXCEPT ![c] = to]
At(c, where) == pc[c] = where

\* Mutation: the read is over before it starts.
StartRead_Bug(c) ==
  /\ readPos' = [readPos EXCEPT ![c] = 0]
  /\ readEnd' = [readEnd EXCEPT ![c] = 0]

StartRead(c) ==
  /\ readPos' = [readPos EXCEPT ![c] = 0]
  /\ readEnd' = [readEnd EXCEPT ![c] = NotYet]

\* streamRun, or getRunStream after the events a client has seen already: from
\* the buffer while the run is known, else from the file alone.
Connect(c, seq) ==
  /\ At(c, "idle")
  /\ Goes(c, IF buffered THEN "replay" ELSE "stored")
  /\ after' = [after EXCEPT ![c] = seq]
  /\ lastWrittenSeq' = [lastWrittenSeq EXCEPT ![c] = seq]
  /\ StartRead(c)
  /\ UNCHANGED <<runVars, written, queue, listening, closed>>

Reading(c) == pc[c] \in {"replay", "stored", "catch_up"}
ReadOver(c) == readPos[c] = readEnd[c]

\* The read stream meets the end of the file.
MeetEnd(c) ==
  /\ Reading(c) /\ readEnd[c] = NotYet
  /\ readEnd' = [readEnd EXCEPT ![c] = Len(file)]
  /\ UNCHANGED <<runVars, pc, after, written, lastWrittenSeq, readPos, queue,
                 listening, closed>>

Leave(c) == Goes(c, "left") /\ listening' = [listening EXCEPT ![c] = FALSE]

\* The next event for the client, from the file or from the queue: skipped when
\* it has it already; a closed writer ends the call.
Deliver(c, seq) ==
  IF seq <= lastWrittenSeq[c]
  THEN UNCHANGED <<pc, written, lastWrittenSeq, listening>>
  ELSE IF closed[c]
  THEN Leave(c) /\ UNCHANGED <<written, lastWrittenSeq>>
  ELSE /\ written' = [written EXCEPT ![c] = Append(@, seq)]
       /\ lastWrittenSeq' = [lastWrittenSeq EXCEPT ![c] = seq]
       /\ UNCHANGED <<pc, listening>>

ReadLine(c) ==
  /\ Reading(c) /\ readPos[c] < Len(file) /\ ~ReadOver(c)
  /\ readPos' = [readPos EXCEPT ![c] = @ + 1]
  /\ Deliver(c, file[readPos[c] + 1])
  /\ UNCHANGED <<runVars, after, readEnd, queue, closed>>

\* writer.end(), unless the client has closed.
Ends(c) == Goes(c, IF closed[c] THEN "left" ELSE "ended")

\* The replay is over and so is the run: nothing more will come.
ReplayedAll(c) ==
  /\ \/ At(c, "replay") /\ done
     \/ At(c, "stored")
  /\ ReadOver(c)
  /\ Goes(c, IF closed[c] THEN "left"
             ELSE IF At(c, "stored") THEN "ended" ELSE "replayed")
  /\ UNCHANGED <<runVars, after, written, lastWrittenSeq, readPos, readEnd,
                 queue, listening, closed>>

\* The replay is over, the run is not: listen, then read again to catch up.
Listen(c) ==
  /\ At(c, "replay") /\ ~done /\ ReadOver(c)
  /\ listening' = [listening EXCEPT ![c] = TRUE]
  /\ Goes(c, "catch_up")
  /\ StartRead(c)
  /\ UNCHANGED <<runVars, after, written, lastWrittenSeq, queue, closed>>

CaughtUp(c) ==
  /\ At(c, "catch_up") /\ ReadOver(c)
  /\ Goes(c, "drain")
  /\ UNCHANGED <<runVars, after, written, lastWrittenSeq, readPos, readEnd,
                 queue, listening, closed>>

DrainOne(c) ==
  /\ At(c, "drain") /\ queue[c] # <<>>
  /\ queue' = [queue EXCEPT ![c] = Tail(@)]
  /\ Deliver(c, Head(queue[c]))
  /\ UNCHANGED <<runVars, after, readPos, readEnd, closed>>

\* Mutation: `done' ends the loop whatever the queue holds.
Drained_Bug(c) ==
  /\ At(c, "drain") /\ (done \/ queue[c] = <<>>)
  /\ IF done THEN Ends(c) /\ listening' = [listening EXCEPT ![c] = FALSE]
     ELSE IF closed[c] THEN Leave(c)
     ELSE Goes(c, "wait") /\ UNCHANGED listening
  /\ UNCHANGED <<runVars, after, written, lastWrittenSeq, readPos, readEnd,
                 queue, closed>>

\* The queue is empty: the end of the run, a client that left, or wait.
Drained(c) ==
  /\ At(c, "drain") /\ queue[c] = <<>>
  /\ IF done THEN Ends(c) /\ listening' = [listening EXCEPT ![c] = FALSE]
     ELSE IF closed[c] THEN Leave(c)
     ELSE Goes(c, "wait") /\ UNCHANGED listening
  /\ UNCHANGED <<runVars, after, written, lastWrittenSeq, readPos, readEnd,
                 queue, closed>>

\* The timer of the keepalive comment ends a wait too.
Heartbeat(c) ==
  /\ At(c, "wait")
  /\ IF closed[c] /\ ~done THEN Leave(c) ELSE Goes(c, "drain") /\ UNCHANGED listening
  /\ UNCHANGED <<runVars, after, written, lastWrittenSeq, readPos, readEnd,
                 queue, closed>>

\* The response closes: the client went away.
Close(c) ==
  /\ pc[c] \notin Finished \cup {"idle"} /\ ~closed[c]
  /\ closed' = [closed EXCEPT ![c] = TRUE]
  /\ UNCHANGED <<runVars, pc, after, written, lastWrittenSeq, readPos, readEnd,
                 queue, listening>>

\* Nothing is left to do.
Stopped ==
  /\ done /\ ~buffered
  /\ \A c \in Clients : pc[c] \in Finished
  /\ UNCHANGED vars

-----------------------------------------------------------------------------

Worker == PushMessage \/ PushThrows \/ PushLastAndFinish \/ LastThrows \/ ReleaseBuffer

Client(c) ==
  \/ MeetEnd(c) \/ ReadLine(c) \/ ReplayedAll(c) \/ Listen(c) \/ CaughtUp(c)
  \/ DrainOne(c) \/ Drained(c)

Next ==
  \/ Worker
  \/ \E c \in Clients : \/ \E seq \in 0 .. lastSeq : Connect(c, seq)
                        \/ Client(c) \/ Heartbeat(c) \/ Close(c)
  \/ Stopped

Spec == Init /\ [][Next]_vars

\* File reads and promise continuations go on.  Nothing is assumed of the
\* worker's executor or of the heartbeat.
FairSpec == Spec /\ \A c \in Clients : WF_vars(Client(c))

-----------------------------------------------------------------------------
(* Properties *)

TypeOK ==
  /\ file \in Seq(1 .. MaxEvents) /\ lastSeq \in 1 .. MaxEvents
  /\ done \in BOOLEAN /\ buffered \in BOOLEAN /\ failing \in BOOLEAN
  /\ faults \in 0 .. MaxFaults
  /\ pc \in [Clients -> Pc]
  /\ after \in [Clients -> 0 .. MaxEvents]
  /\ written \in [Clients -> Seq(1 .. MaxEvents)]
  /\ lastWrittenSeq \in [Clients -> 0 .. MaxEvents]
  /\ readPos \in [Clients -> 0 .. MaxEvents]
  /\ readEnd \in [Clients -> 1 .. NotYet]
  /\ queue \in [Clients -> Seq(1 .. MaxEvents)]
  /\ listening \in [Clients -> BOOLEAN]
  /\ closed \in [Clients -> BOOLEAN]

Ascending(seq) == \A i, j \in 1 .. Len(seq) : i < j => seq[i] < seq[j]

\* The events a client asked for.
Due(c) == {seq \in Range(file) : seq > after[c]}

\* Across the replay, the catch-up and the queue a client gets the events it
\* asked for in order, none twice, and none is skipped: it has every event the
\* run stored up to the last one it got (streamEventsToWriter).
DeliveredInOrder ==
  \A c \in Clients :
     /\ Ascending(written[c])
     /\ Range(written[c]) = {seq \in Due(c) : seq <= lastWrittenSeq[c]}

\* The server ends a stream it followed live only when everything was written,
\* the last event included.
EndedSawEverything ==
  \A c \in Clients : pc[c] = "ended" => done /\ Range(written[c]) = Due(c)

\* A client that waits has nothing to wait for but new events: none is lost
\* between its last look at the queue and its wait.
WaitingIsUpToDate ==
  \A c \in Clients :
     pc[c] = "wait" => ~done /\ listening[c] /\ Range(written[c]) = Due(c)

\* A stream that was followed live ends only after all was written, and a client
\* that waits has been given everything: no event is lost between its last look
\* at the queue and its wait.
NothingIsMissed == EndedSawEverything /\ WaitingIsUpToDate

\* When the run is over every stream ends, without the help of the heartbeat.
NoStreamIsLeft == \A c \in Clients : done => pc[c] \in Finished \cup {"idle"}
StreamsEnd == []<>NoStreamIsLeft

\* The call that serves a client that went away returns, however long the run
\* stays silent, because the timer of its heartbeat fires.
ClosedIsReleased ==
  \A c \in Clients : WF_vars(Heartbeat(c)) => []<>(closed[c] => pc[c] \in Finished)

\* What getRunStream's comment says of a client that connects to a running run:
\* it gets what follows lastSeq, up to the end.
ReplayedSawEverything ==
  \A c \in Clients : pc[c] = "replayed" => Range(written[c]) = Due(c)

=============================================================================
