----------------------------- MODULE FetchSession -----------------------------
(***************************************************************************)
(* A WebSocket connection to a @WebSocketFetch controller: from the        *)
(* upgrade (handleConnection) to the end of its session.                   *)
(*                                                                         *)
(* WebSocketEventStream listens to the socket from the start and keeps     *)
(* what happens until WebSocketFetchSession.run asks for it; the session   *)
(* calls the controller for one event at a time and sends the stream a     *)
(* data method answers with.  Close overtakes: it drops the messages       *)
(* nobody has taken yet and destroys the stream being sent.                *)
(***************************************************************************)
EXTENDS Naturals, Sequences, FiniteSets

CONSTANTS
  MaxMessages,   \* bound on the messages of the peer
  MaxErrors      \* bound on the socket's errors

SessionAssumption == MaxMessages \in Nat /\ MaxErrors \in Nat

VARIABLES
  readyState,    \* of the socket
  defined,       \* which of the controller's optional methods exist
  events,        \* the stream's queue
  closeYielded, disposed, droppedMessages,
  closeListener, \* the stream being sent has registered with onSocketClose
  acceptingData,
  pc,            \* where handleConnection and the session are
  event,         \* the event the session has taken last
  closeAfter,    \* onError is followed by close(1011)
  response,      \* the stream of the last answer: none, open, destroyed, ended
  arrived, given, discarded, errors  \* history: messages and errors

socketVars == <<readyState, arrived, errors>>
streamVars == <<events, closeYielded, disposed, droppedMessages>>
sendVars == <<closeListener, response>>
sessionVars == <<acceptingData, pc, event, closeAfter, given, discarded>>
vars == <<socketVars, streamVars, sendVars, sessionVars, defined>>

Optional == {"connection", "open", "error", "close"}
Event == [type : {"connection", "open", "error", "close"}, id : {0}]
            \cup [type : {"message"}, id : 1 .. MaxMessages]
Plain(type) == [type |-> type, id |-> 0]
IsMessage(e) == e.type = "message"

\* In handleConnection or waiting for the close; asking for an event, waiting
\* for one, holding one; in a method of the controller; with its answer.
Pc == {"starting", "unserved", "next", "waiting", "dispatch", "on", "onError",
       "answering", "reading", "sending", "done"}

Init ==
  /\ readyState = "open" /\ arrived = 0 /\ errors = 0
  /\ defined \in SUBSET Optional
  /\ events = <<Plain("connection"), Plain("open")>>
  /\ closeYielded = FALSE /\ disposed = FALSE /\ droppedMessages = 0
  /\ closeListener = FALSE /\ response = "none"
  /\ acceptingData = TRUE /\ pc = "starting" /\ event = Plain("connection")
  /\ closeAfter = FALSE /\ given = <<>> /\ discarded = 0

-----------------------------------------------------------------------------
(* The event stream *)

\* `closed`
Closed == closeYielded \/ \E i \in DOMAIN events : events[i].type = "close"

\* enqueue, given the queue as it is then.
Enqueue(queue, e) ==
  IF pc = "waiting"
  THEN /\ pc' = "dispatch" /\ event' = e /\ events' = queue
       /\ closeYielded' = (closeYielded \/ e.type = "close")
  ELSE events' = Append(queue, e) /\ UNCHANGED <<pc, event, closeYielded>>

Listening == ~disposed /\ ~Closed

Arrive ==
  /\ readyState # "closed" /\ Listening /\ arrived < MaxMessages
  /\ arrived' = arrived + 1
  /\ Enqueue(events, [type |-> "message", id |-> arrived + 1])
  /\ UNCHANGED <<readyState, errors, disposed, droppedMessages, sendVars,
                 acceptingData, closeAfter, given, discarded, defined>>

\* An error closes the socket; waitForWebSocketClose hears it in any case.
SocketError ==
  /\ readyState # "closed" /\ errors < MaxErrors
  /\ errors' = errors + 1 /\ readyState' = "closing"
  /\ IF Listening THEN Enqueue(events, Plain("error"))
                  ELSE UNCHANGED <<events, closeYielded, pc, event>>
  /\ UNCHANGED <<arrived, disposed, droppedMessages, sendVars,
                 acceptingData, closeAfter, given, discarded, defined>>

PeerCloses ==
  /\ readyState = "open" /\ readyState' = "closing"
  /\ UNCHANGED <<arrived, errors, streamVars, sendVars, sessionVars, defined>>

Of(types) == {i \in DOMAIN events : events[i].type \in types}

\* What is not of the peer, and stands before all that is.
Kept == SubSeq(events, 1, Cardinality(Of({"connection", "open"})))

Dropped == Cardinality(Of({"message"}))

\* Mutation: onClose forgets its listeners before it calls them.
CallListeners_Bug == closeListener' = FALSE /\ UNCHANGED response

CallListeners ==
  /\ response' = IF closeListener THEN "destroyed" ELSE response
  /\ closeListener' = FALSE

\* onClose
SocketCloses ==
  /\ readyState = "closing" /\ readyState' = "closed"
  /\ IF disposed
     THEN UNCHANGED <<events, closeYielded, pc, event, droppedMessages, sendVars>>
     ELSE /\ CallListeners
          /\ droppedMessages' = droppedMessages + Dropped
          /\ Enqueue(Kept, Plain("close"))
  /\ UNCHANGED <<arrived, errors, disposed, acceptingData, closeAfter, given,
                 discarded, defined>>

-----------------------------------------------------------------------------
(* handleConnection *)

Dispose == disposed' = TRUE /\ events' = <<>>

\* socket.close, which does nothing to a socket that closes already.
CloseSocket == readyState' = IF readyState = "open" THEN "closing" ELSE readyState

\* The middlewares have passed and the controller's object is there: run().
Start ==
  /\ pc = "starting" /\ pc' = "next"
  /\ UNCHANGED <<socketVars, streamVars, sendVars, acceptingData, event,
                 closeAfter, given, discarded, defined>>

\* A middleware or the creation of the object throws.
StartFails ==
  /\ pc = "starting" /\ pc' = "done"
  /\ Dispose /\ CloseSocket
  /\ UNCHANGED <<arrived, errors, closeYielded, droppedMessages, sendVars,
                 acceptingData, event, closeAfter, given, discarded, defined>>

\* A middleware answers itself: nobody takes the events, closeHandled is awaited.
ShortCircuit ==
  /\ pc = "starting" /\ pc' = "unserved"
  /\ UNCHANGED <<socketVars, streamVars, sendVars, acceptingData, event,
                 closeAfter, given, discarded, defined>>

Unserved ==
  /\ pc = "unserved" /\ readyState = "closed"
  /\ pc' = "done" /\ Dispose
  /\ UNCHANGED <<socketVars, closeYielded, droppedMessages, sendVars,
                 acceptingData, event, closeAfter, given, discarded, defined>>

-----------------------------------------------------------------------------
(* The session *)

Shift ==
  /\ event' = Head(events) /\ events' = Tail(events)
  /\ closeYielded' = (Head(events).type = "close")

\* next()
TakeNext ==
  /\ pc = "next"
  /\ \/ /\ closeYielded /\ pc' = "done" /\ Dispose
        /\ UNCHANGED <<closeYielded, event>>
     \/ /\ ~closeYielded /\ events # <<>>
        /\ pc' = "dispatch" /\ Shift /\ UNCHANGED disposed
     \/ /\ ~closeYielded /\ events = <<>> /\ pc' = "waiting"
        /\ UNCHANGED <<events, closeYielded, disposed, event>>
  /\ UNCHANGED <<socketVars, droppedMessages, sendVars, acceptingData,
                 closeAfter, given, discarded, defined>>

\* handleError; without a method for it the error is logged.
HandleError(close) ==
  IF "error" \in defined
  THEN pc' = "onError" /\ closeAfter' = close /\ UNCHANGED readyState
  ELSE /\ pc' = "next" /\ UNCHANGED closeAfter
       /\ IF close THEN CloseSocket ELSE UNCHANGED readyState

Calls(types) == pc = "on" /\ event.type \in types

MayCall == event.type \in defined /\ acceptingData /\ ~Closed

\* invokeLifecycle and invokeClose, up to the call.
DispatchLifecycle ==
  /\ pc = "dispatch"
  /\ \/ event.type \in {"connection", "open"}
        /\ pc' = IF MayCall THEN "on" ELSE "next"
     \/ event.type = "close" /\ pc' = IF "close" \in defined THEN "on" ELSE "next"
  /\ UNCHANGED <<socketVars, streamVars, sendVars, acceptingData, event,
                 closeAfter, given, discarded, defined>>

DispatchError ==
  /\ pc = "dispatch" /\ event.type = "error"
  /\ HandleError(FALSE)
  /\ UNCHANGED <<arrived, errors, streamVars, sendVars, acceptingData, event,
                 given, discarded, defined>>

IsData == IsMessage(event)

\* invokeData, up to the call.
Open == acceptingData /\ ~Closed /\ readyState = "open"
DispatchMessage ==
  /\ pc = "dispatch" /\ IsData
  /\ IF Open
     THEN pc' = "on" /\ given' = Append(given, event.id) /\ UNCHANGED discarded
     ELSE pc' = "next" /\ discarded' = discarded + 1 /\ UNCHANGED given
  /\ UNCHANGED <<socketVars, streamVars, sendVars, acceptingData, event,
                 closeAfter, defined>>

\* A method calls the close it was given; it goes on.
MethodCloses ==
  /\ pc \in {"on", "onError"} /\ readyState = "open" /\ readyState' = "closing"
  /\ UNCHANGED <<arrived, errors, streamVars, sendVars, sessionVars, defined>>

\* A method returns, or the close method throws, which is logged.
MethodReturns ==
  /\ pc = "on" /\ pc' = "next"
  /\ UNCHANGED <<socketVars, streamVars, sendVars, acceptingData, event,
                 closeAfter, given, discarded, defined>>

\* The connection or open method throws or times out.
LifecycleFails ==
  /\ Calls({"connection", "open"})
  /\ acceptingData' = FALSE
  /\ HandleError(TRUE)
  /\ UNCHANGED <<arrived, errors, streamVars, sendVars, event, given, discarded,
                 defined>>

\* The catch block of invokeData; fatal is a timeout of the method.
DataFails(fatal) ==
  /\ IF Closed THEN pc' = "next" /\ UNCHANGED <<readyState, closeAfter>>
               ELSE HandleError(fatal)
  /\ UNCHANGED <<arrived, errors, streamVars, acceptingData, event, given,
                 discarded, defined>>

MethodFails ==
  /\ Calls({"message"})
  /\ \E fatal \in BOOLEAN : DataFails(fatal)
  /\ UNCHANGED sendVars

\* The method answers with something that is not a readable stream.
AnswersOther ==
  /\ Calls({"message"})
  /\ HandleError(FALSE)
  /\ UNCHANGED <<arrived, errors, streamVars, sendVars, acceptingData, event,
                 given, discarded, defined>>

ThenClose == IF closeAfter THEN CloseSocket ELSE UNCHANGED readyState

ErrorHandled ==
  /\ pc = "onError" /\ pc' = "next" /\ ThenClose
  /\ UNCHANGED <<arrived, errors, streamVars, sendVars, acceptingData, event,
                 closeAfter, given, discarded, defined>>

-----------------------------------------------------------------------------
(* sendResponse *)

Answers ==
  /\ Calls({"message"})
  /\ pc' = "answering" /\ response' = "open"
  /\ UNCHANGED <<socketVars, streamVars, closeListener, acceptingData, event,
                 closeAfter, given, discarded, defined>>

\* The stream and its listener, once the loop over it is left.
Release(r) == response' = r /\ closeListener' = FALSE

StartSending ==
  /\ pc = "answering"
  /\ IF Closed \/ readyState # "open"
     THEN pc' = "next" /\ Release("destroyed")
     ELSE pc' = "reading" /\ closeListener' = TRUE /\ UNCHANGED response
  /\ UNCHANGED <<socketVars, streamVars, acceptingData, event, closeAfter, given,
                 discarded, defined>>

SendChunk ==
  /\ pc = "reading" /\ response = "open"
  /\ IF Closed \/ readyState # "open"
     THEN pc' = "next" /\ Release("destroyed")
     ELSE pc' = "sending" /\ UNCHANGED sendVars
  /\ UNCHANGED <<socketVars, streamVars, acceptingData, event, closeAfter, given,
                 discarded, defined>>

Sent ==
  /\ pc = "sending" /\ pc' = "reading"
  /\ UNCHANGED <<socketVars, streamVars, sendVars, acceptingData, event,
                 closeAfter, given, discarded, defined>>

\* send reports an error: leaving the loop destroys the stream.
SendFails == pc = "sending" /\ Release("destroyed") /\ DataFails(FALSE)

ResponseEnds ==
  /\ pc = "reading" /\ response = "open" /\ pc' = "next" /\ Release("ended")
  /\ UNCHANGED <<socketVars, streamVars, acceptingData, event, closeAfter, given,
                 discarded, defined>>

ResponseThrows ==
  /\ pc = "reading" /\ response = "open" /\ Release("ended") /\ DataFails(FALSE)

\* The loop over a stream destroyed by the close listener throws.
ResponseDestroyed ==
  /\ pc = "reading" /\ response = "destroyed"
  /\ Release("destroyed") /\ DataFails(FALSE)

-----------------------------------------------------------------------------

Environment == Arrive \/ SocketError \/ PeerCloses \/ SocketCloses \/ MethodCloses

\* What the process owes: its own continuations, and methods of the controller
\* that end or time out.
Session ==
  \/ Start \/ StartFails \/ ShortCircuit \/ Unserved
  \/ TakeNext \/ DispatchLifecycle \/ DispatchError \/ DispatchMessage
  \/ MethodReturns \/ LifecycleFails \/ MethodFails \/ AnswersOther \/ ErrorHandled
  \/ Answers \/ StartSending \/ Sent \/ SendFails \/ ResponseDestroyed

\* What the stream a method answered with does.
Response == SendChunk \/ ResponseEnds \/ ResponseThrows

Next == Environment \/ Session \/ Response

Spec == Init /\ [][Next]_vars

FairSpec == Spec /\ WF_vars(Session)

-----------------------------------------------------------------------------
(* Properties *)

\* Types; the close is the last event of a session, and it comes once.
TypeOK ==
  /\ readyState \in {"open", "closing", "closed"}
  /\ arrived \in 0 .. MaxMessages /\ errors \in 0 .. MaxErrors
  /\ defined \subseteq Optional
  /\ events \in Seq(Event) /\ event \in Event
  /\ closeYielded \in BOOLEAN /\ disposed \in BOOLEAN /\ droppedMessages \in Nat
  /\ closeListener \in BOOLEAN
  /\ response \in {"none", "open", "destroyed", "ended"}
  /\ acceptingData \in BOOLEAN /\ closeAfter \in BOOLEAN
  /\ pc \in Pc
  /\ given \in Seq(1 .. MaxMessages) /\ discarded \in Nat
  /\ closeYielded => events = <<>>
  /\ \A i \in DOMAIN events : events[i].type = "close" => i = Len(events)

\* The data method sees the messages in the order they came, each once; when
\* one is dropped or discarded all later ones are (invokeData, onClose).
GivenInOrder == \A i \in DOMAIN given : given[i] = i

InHand == IF pc = "dispatch" /\ IsMessage(event) THEN 1 ELSE 0

\* While the stream listens no message is lost silently: it was given to the
\* method, waits, or was counted when close dropped it or the session
\* discarded it (droppedMessages, logDebug).
MessagesAreAccounted ==
  ~disposed =>
     arrived = Len(given) + InHand + Cardinality(Of({"message"}))
                 + droppedMessages + discarded

\* The stream of an answer does not outlive what it is for: one that is sent is
\* destroyed with the socket's close, and the session leaves none behind it
\* ("should destroy the active response and discard queued messages on close").
ResponseIsReleased ==
  /\ pc \notin {"answering", "reading", "sending"} => response # "open"
  /\ Closed /\ pc \in {"reading", "sending"} => response = "destroyed"

\* A session whose connection or open method failed closes the socket; and when
\* the socket is closed handleConnection returns, although a stream is being sent
\* that never ends.
NoSocketIsLeft ==
  /\ acceptingData \/ readyState # "open"
  /\ readyState = "closed" => pc = "done"
ConnectionEnds == []<>NoSocketIsLeft
=============================================================================
