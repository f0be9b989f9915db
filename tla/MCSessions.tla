------------------------------ MODULE MCSessions ------------------------------
(* What lives as long as its peer, for TLC: a behaviour is one of streamable  *)
(* HTTP sessions over the cluster, of an SSE session, of a WebSocket fetch    *)
(* session, of a client of the event stream of an agent run, or of the event  *)
(* bus under the contexts of requests.                                        *)
EXTENDS RunEventStream, TLC

CONSTANTS
  Parts,      \* what behaviours may be about
  Workers, Sessions, Requests, TargetOf, Deletes, None, MaxCrashes,
  Messages, IdOf,
  MaxMessages, MaxErrors,
  Contexts, Flows, ContextOf, Emissions, FlowOf, EventOf, Events, Handlers, HandlersOf,
  Waiters, WaitsFor, MaxCorks, MaxIds

VARIABLES
  part,
  alive, owner, init, transport, timer, ping, closing, wrapped, clients, calls, request, at,
  detail, crashes, early,
  proxied, conn, res, heard, held, heart, ssePing, waiters, mapped, client, sseCalls,
  message, left, overtaken,
  readyState, defined, events, closeYielded, disposed, droppedMessages, closeListener,
  acceptingData, sessionPc, event, closeAfter, response, arrived, given, discarded, errors,
  sequence, corkId, times, corked, depth, corks, state, running, waiter, emitted, started,
  busFaults
streamVars == <<alive, owner, init, transport, timer, ping, closing, wrapped, clients, calls,
                request, at, detail, crashes, early>>
sseVars == <<proxied, conn, res, heard, held, heart, ssePing, waiters, mapped, client,
             sseCalls, message, left, overtaken>>
fetchVars == <<readyState, defined, events, closeYielded, disposed, droppedMessages,
               closeListener, acceptingData, sessionPc, event, closeAfter, response, arrived,
               given, discarded, errors>>
busVars == <<sequence, corkId, times, corked, depth, corks, state, running, waiter, emitted,
             started, busFaults>>
allVars == <<part, vars, streamVars, sseVars, fetchVars, busVars>>

-----------------------------------------------------------------------------
(* The instances *)

Stream == INSTANCE McpStream WITH pc <- request

Sse == INSTANCE McpSse WITH
         ping <- ssePing, calls <- sseCalls, pc <- message, early <- left,
         listening <- heard

F == INSTANCE FetchSession WITH pc <- sessionPc

Bus == INSTANCE EventBus WITH queue <- corked, faults <- busFaults

-----------------------------------------------------------------------------
(* The values that TLC gives to the constants that are functions *)

OneSession == [r \in Requests |-> CHOOSE s \in Sessions : TRUE]

\* A client may use an id for two of its messages.
OneIdTwice == "m1" :> 1 @@ "m2" :> 1 @@ "m3" :> 2

\* Two flows of one context and one of another; an event that two handlers
\* take and one that nobody does; somebody waits for either.
TwoFlowsAndOne == "f1" :> "c1" @@ "f2" :> "c1" @@ "f3" :> "c2"
OneOfEachFlow == "e1" :> "f1" @@ "e2" :> "f2"
HelloAndBye == "e1" :> "hello" @@ "e2" :> "bye"
HelloIsHandled == "hello" :> Handlers @@ "bye" :> {}
ForAny == [x \in Waiters |-> Events]

-----------------------------------------------------------------------------
\* The assumptions of the instances.
ASSUME InstancesAssumption ==
  /\ Stream!McpStreamAssumption /\ Sse!McpSseAssumption
  /\ F!SessionAssumption /\ Bus!BusAssumption

MCInit ==
  /\ part \in Parts
  /\ proxied \in IF part = "sse" THEN BOOLEAN ELSE {FALSE}
  /\ defined \in IF part = "fetch" THEN SUBSET F!Optional ELSE {{}}
  /\ Init /\ Stream!Init /\ Sse!Init /\ F!Init /\ Bus!Init
MCNext ==
  /\ UNCHANGED part
  /\ \/ part = "run" /\ Next /\ UNCHANGED <<streamVars, sseVars, fetchVars, busVars>>
     \/ part = "stream" /\ Stream!Next /\ UNCHANGED <<vars, sseVars, fetchVars, busVars>>
     \/ part = "sse" /\ Sse!Next /\ UNCHANGED <<vars, streamVars, fetchVars, busVars>>
     \/ part = "fetch" /\ F!Next /\ UNCHANGED <<vars, streamVars, sseVars, busVars>>
     \/ part = "bus" /\ Bus!Next /\ UNCHANGED <<vars, streamVars, sseVars, fetchVars>>
     \* A session that is over, or rests, may stay so; a client may not get stuck.
     \/ part # "run" /\ UNCHANGED <<vars, streamVars, sseVars, fetchVars, busVars>>

\* The fairness of the modules, each for its own behaviours.
Serves(r) ==
  \/ Stream!AgentAnswers(r) \/ Stream!NotProxied(r) \/ Stream!Forward(r)
  \/ Stream!BodyUnreadable(r) \/ Stream!ForwardFails(r) \/ Stream!Proxied(r)
  \/ Stream!Handle(r)
StreamFairness ==
  /\ \A s \in Sessions :
       /\ WF_streamVars(part = "stream" /\ Stream!Registered(s))
       /\ WF_streamVars(part = "stream" /\ Stream!Initialized(s))
       /\ WF_streamVars(part = "stream" /\ Stream!IdleTimeout(s))
       /\ WF_streamVars(part = "stream" /\ Stream!Closed(s))
       /\ WF_streamVars(part = "stream" /\ Stream!AgentRegisters(s))
       /\ WF_streamVars(part = "stream" /\ Stream!AgentUnregisters(s))
  /\ \A r \in Requests : WF_streamVars(part = "stream" /\ Serves(r))
MCFairness ==
  /\ StreamFairness
  /\ WF_fetchVars(part = "fetch" /\ F!Session)
  /\ \A c \in Clients : WF_vars(part = "run" /\ Client(c))
  /\ \A f \in Flows : WF_busVars(part = "bus" /\ Bus!Uncork(f))
  /\ \A e \in Emissions :
       /\ WF_busVars(part = "bus" /\ (Bus!Handle(e) \/ Bus!InitThrows(e)))
       /\ WF_busVars(part = "bus" /\ Bus!Settle(e))
       /\ \A h \in Handlers : WF_busVars(part = "bus" /\ Bus!HandlerEnds(e, h))
MCSpec == MCInit /\ [][MCNext]_allVars /\ MCFairness

-----------------------------------------------------------------------------
(* Properties *)

\* An MCP session over the cluster is kept, routed and timed as one: its idle
\* timer and its pings follow it, the agent names the worker that has it, and a
\* request goes unanswered only when its session has gone (McpStream); an SSE
\* session whose close is heard is cleaned up and wakes its messages (McpSse).
SessionIsWhole ==
  /\ Stream!TimersFollowSessions /\ Stream!RoutesAreTrue /\ Stream!UnansweredIsGone
  /\ Sse!HeardCloseCleansUp

\* What the test says of every SSE session.
ClosedIsCleanedUp == Sse!ClosedIsCleanedUp

\* What a peer sends is accounted for until its socket is gone: the messages are
\* given in order, a dropped one is counted, and the stream of an answer does
\* not outlive what it is for (FetchSession).
NothingIsLostSilently == F!GivenInOrder /\ F!MessagesAreAccounted /\ F!ResponseIsReleased

\* What the flows of a context emit starts in the order they emitted it, once
\* and without a gap, whichever of them corks and uncorks in between.
StartedInOrder == Bus!StartedInOrder

\* While a flow of the context holds a cork no event of the context starts.
CorkHolds == Bus!CorkHolds

\* Nobody waits forever.  A session over the cluster ends when nobody uses it; a
\* fetch session that failed closes its socket, and the call that serves a socket
\* returns when it is closed, although a stream is being sent that never ends;
\* when a run is over its streams end without the help of the heartbeat, which
\* releases a client that left however long the run stays silent; every event is
\* handled, unless its context fails to init, and who waits for one that is on
\* its way is woken.
PeersAreReleased ==
  /\ []<>(Stream!NoSessionIsLeft /\ F!NoSocketIsLeft /\ NoStreamIsLeft /\ Bus!NoEventIsLeft)
  /\ \A c \in Clients :
       WF_vars(part = "run" /\ Heartbeat(c)) =>
         []<>(closed[c] => pc[c] \in Finished)
  /\ Bus!WaiterIsWoken
=============================================================================
