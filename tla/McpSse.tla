-------------------------------- MODULE McpSse --------------------------------
(***************************************************************************)
(* One SSE session of an MCP controller: the GET request that opens it,    *)
(* what MCPControllerRegister keeps for it, and the messages posted to it. *)
(*                                                                         *)
(* Opening takes two waits: for the agent, when the mcp-proxy plugin is    *)
(* there, and for the registration of the tools.  The peer may leave at    *)
(* any moment; who hears of it depends on how far the opening is.  Each    *)
(* message runs in a context of its own, which lives until the server has  *)
(* sent the answer with the id of the message.                             *)
(***************************************************************************)
EXTENDS Naturals, FiniteSets

CONSTANTS
  Messages, IdOf   \* the JSON-RPC id the client gave to each message

McpSseAssumption == DOMAIN IdOf = Messages

Ids == {IdOf[m] : m \in Messages}

VARIABLES
  proxied,    \* the mcp-proxy plugin is enabled
  conn,       \* the GET handler: none, registering, preparing, open
  res,        \* its response: open, closed
  listening,  \* the proxy's listener for the close of the response
  held,       \* transports
  heart,      \* sseConnections, with the keep-alive interval
  ping,       \* pingIntervals
  waiters,    \* sseTransportsRequestMap: id to message; a set of pairs
  mapped,     \* the transport has an entry there
  client,     \* the agent's entry
  calls,      \* invocations on their way to the agent
  pc,         \* of a message: none, asking, forwarded, context, waiting,
              \* done, refused
  early,      \* history: the peer left before anybody listened
  overtaken   \* history: messages whose id was used again while they waited

connVars == <<proxied, conn, res, listening>>
keptVars == <<held, heart, ping, waiters, mapped>>
agentVars == <<client, calls>>
vars == <<connVars, keptVars, agentVars, pc, early, overtaken>>

Init ==
  /\ proxied \in BOOLEAN
  /\ conn = "none" /\ res = "open" /\ listening = FALSE
  /\ held = FALSE /\ heart = FALSE /\ ping = FALSE /\ waiters = {} /\ mapped = FALSE
  /\ client = FALSE /\ calls = {}
  /\ pc = [m \in Messages |-> "none"]
  /\ early = FALSE /\ overtaken = {}

-----------------------------------------------------------------------------
(* Opening: mcpServerInit *)

Kept == held' = TRUE /\ heart' = TRUE

\* preSSEInitHandle registers the session with the agent.
Connect ==
  /\ conn = "none" /\ res = "open"
  /\ IF proxied
     THEN /\ conn' = "registering" /\ calls' = calls \cup {"register"}
          /\ UNCHANGED <<held, heart>>
     ELSE conn' = "preparing" /\ Kept /\ UNCHANGED calls
  /\ UNCHANGED <<proxied, res, listening, ping, waiters, mapped, client, pc, early, overtaken>>

\* The agent has answered; the proxy listens for the close, and the transport
\* is kept.
Registered ==
  /\ conn = "registering" /\ "register" \notin calls
  /\ conn' = "preparing" /\ listening' = TRUE
  /\ Kept
  /\ UNCHANGED <<proxied, res, ping, waiters, mapped, agentVars, pc, early, overtaken>>

\* The tools are registered: the server connects (the transport starts and
\* listens for the close), the pings start, and sseCtxStorageRun takes over.
Open ==
  /\ conn = "preparing" /\ conn' = "open"
  /\ ping' = TRUE /\ mapped' = TRUE
  /\ UNCHANGED <<proxied, res, listening, held, heart, waiters, agentVars, pc, early, overtaken>>

\* clearSseMcpServer: whoever waits is rejected, and its context is released.
Clear ==
  /\ held' = FALSE /\ heart' = FALSE /\ ping' = FALSE
  /\ waiters' = {} /\ mapped' = FALSE
  /\ pc' = [m \in Messages |-> IF <<IdOf[m], m>> \in waiters THEN "done" ELSE pc[m]]

Unregister == calls' = IF listening THEN calls \cup {"unregister"} ELSE calls

\* The response closes: the listeners there are by then clear the session.
PeerLeaves ==
  /\ conn # "none" /\ res = "open" /\ res' = "closed"
  /\ IF listening \/ conn = "open"
     THEN Clear /\ Unregister /\ UNCHANGED early
     ELSE early' = TRUE /\ UNCHANGED <<keptVars, pc, calls>>
  /\ UNCHANGED <<proxied, conn, listening, client, overtaken>>

\* The pings failed too often, or lasted long enough: the session is cleared,
\* and server.close ends the response.
PingGivesUp ==
  /\ ping /\ held /\ Clear
  /\ res' = "closed" /\ Unregister
  /\ UNCHANGED <<proxied, conn, listening, client, early, overtaken>>

\* The agent: MCPProxyDataClient; a worker's invocations arrive in their order.
AgentRegisters ==
  /\ "register" \in calls /\ calls' = calls \ {"register"}
  /\ client' = TRUE
  /\ UNCHANGED <<connVars, keptVars, pc, early, overtaken>>

AgentUnregisters ==
  /\ "unregister" \in calls /\ calls' = calls \ {"unregister"}
  /\ client' = FALSE
  /\ UNCHANGED <<connVars, keptVars, pc, early, overtaken>>

-----------------------------------------------------------------------------
(* Messages: posted to this worker, or to one that forwards them to it *)

\* messageHander finds the transport, and onmessage makes a context.
Post(m) ==
  /\ conn = "open" /\ pc[m] = "none" /\ held
  /\ pc' = [pc EXCEPT ![m] = "context"]
  /\ UNCHANGED <<connVars, keptVars, agentVars, early, overtaken>>

\* Another worker has no transport: checkAndRunProxy asks the agent.
PostElsewhere(m) ==
  /\ conn = "open" /\ pc[m] = "none" /\ proxied
  /\ pc' = [pc EXCEPT ![m] = "asking"]
  /\ UNCHANGED <<connVars, keptVars, agentVars, early, overtaken>>

\* Without an owner the answer is 400; with one the message is forwarded.
AgentAnswers(m) ==
  /\ pc[m] = "asking"
  /\ pc' = [pc EXCEPT ![m] = IF client THEN "forwarded" ELSE "refused"]
  /\ UNCHANGED <<connVars, keptVars, agentVars, early, overtaken>>

\* The proxy's handler in this worker: 400 when the session has gone.
Proxied(m) ==
  /\ pc[m] = "forwarded"
  /\ pc' = [pc EXCEPT ![m] = IF held THEN "context" ELSE "refused"]
  /\ UNCHANGED <<connVars, keptVars, agentVars, early, overtaken>>

\* The middlewares and preHandle are over.  The message waits under its id,
\* in place of the one that waits there; without the map nothing is awaited.
Track(m) ==
  /\ pc[m] = "context"
  /\ IF mapped
     THEN /\ pc' = [pc EXCEPT ![m] = "waiting"]
          /\ overtaken' = overtaken \cup {n \in Messages : <<IdOf[m], n>> \in waiters}
          /\ waiters' = {w \in waiters : w[1] # IdOf[m]} \cup {<<IdOf[m], m>>}
     ELSE pc' = [pc EXCEPT ![m] = "done"] /\ UNCHANGED <<waiters, overtaken>>
  /\ UNCHANGED <<connVars, held, heart, ping, mapped, agentVars, early>>

\* InnerSSEServerTransport.send of the answer with an id wakes who waits there.
Answer(i) ==
  /\ \E w \in waiters : w[1] = i
  /\ pc' = [m \in Messages |-> IF <<i, m>> \in waiters THEN "done" ELSE pc[m]]
  /\ waiters' = {w \in waiters : w[1] # i}
  /\ UNCHANGED <<connVars, held, heart, ping, mapped, agentVars, early, overtaken>>

Next ==
  \/ Connect \/ Registered \/ Open
  \/ PeerLeaves \/ PingGivesUp
  \/ AgentRegisters \/ AgentUnregisters
  \/ \E m \in Messages :
       Post(m) \/ PostElsewhere(m) \/ AgentAnswers(m) \/ Proxied(m) \/ Track(m)
  \/ \E i \in Ids : Answer(i)

Spec == Init /\ [][Next]_vars

-----------------------------------------------------------------------------
(* Properties *)

\* Types.
TypeOK ==
  /\ {proxied, listening, held, heart, ping, mapped, client, early} \subseteq BOOLEAN
  /\ conn \in {"none", "registering", "preparing", "open"} /\ res \in {"open", "closed"}
  /\ waiters \subseteq Ids \X Messages
  /\ calls \subseteq {"register", "unregister"}
  /\ pc \in [Messages -> {"none", "asking", "forwarded", "context", "waiting",
                          "done", "refused"}]
  /\ overtaken \subseteq Messages

\* A test says of a session that it is cleaned up after close, both in
\* transports and in sseConnections (mcp.test.ts).
ClosedIsCleanedUp ==
  conn = "open" /\ res = "closed" => ~held /\ ~heart

\* The same, when the peer does not leave before anybody listens; and the
\* agent is told, so that no worker forwards to a session that has gone.  A
\* message holds its context only while the session can wake it: the ways a
\* session ends wake every waiter and let nobody wait after that, and only a
\* message whose id the client has used twice is forgotten.  A message is
\* refused only when its session has gone, whichever worker it reached.
HeardCloseCleansUp ==
  /\ res = "closed" /\ ~early =>
       /\ ~held /\ ~heart /\ waiters = {}
       /\ client => "unregister" \in calls
  /\ \A m \in Messages :
       /\ pc[m] = "waiting" => <<IdOf[m], m>> \in waiters \/ m \in overtaken
       /\ pc[m] = "refused" => ~held
=============================================================================
