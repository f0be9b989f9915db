------------------------------- MODULE McpStream -------------------------------
(***************************************************************************)
(* Streamable HTTP sessions of MCP controllers in the worker processes of  *)
(* an egg cluster: the sessions MCPControllerRegister keeps, and the       *)
(* mcp-proxy plugin that finds the worker of a session.                    *)
(*                                                                         *)
(* A session lives in the worker that took its initialize request.  The    *)
(* worker keeps a transport, an idle timer and a ping timer for it, and    *)
(* registers it with the agent process; a request for the session may      *)
(* reach any worker, which asks the agent and forwards it.  Three things   *)
(* end a session: its client deletes it, it is idle, or its pings stop.    *)
(***************************************************************************)
EXTENDS Naturals, FiniteSets

CONSTANTS
  Workers, Sessions, Requests,
  TargetOf,     \* the session each request names
  Deletes,      \* the requests that are DELETE
  None,
  MaxCrashes    \* bound on the workers that die

McpStreamAssumption ==
  /\ TargetOf \in [Requests -> Sessions] /\ Deletes \subseteq Requests
  /\ None \notin Workers /\ MaxCrashes \in Nat

VARIABLES
  alive,       \* the workers that run
  owner,       \* the worker that took the initialize request of a session
  init,        \* of that request: none, registering, responding, over
  transport,   \* streamTransports, streamServers and streamServerNames hold it
  timer,       \* streamCleanupTimers
  ping,        \* pingIntervals
  closing,     \* streamClosePromises
  wrapped,     \* the transport's onclose is the one of the proxy
  clients,     \* the agent's map: MCPProxyDataClient.clients
  calls,       \* invocations on their way to the agent
  pc, at, detail,  \* of a request: place, worker, what getClient answered
  crashes,
  early        \* history: the sessions that were closed while registering

sessionVars == <<owner, init, transport, timer, ping, closing, wrapped, early>>
agentVars == <<clients, calls>>
requestVars == <<pc, at, detail>>
vars == <<alive, sessionVars, agentVars, requestVars, crashes>>

InitPlaces == {"none", "registering", "responding", "over"}
\* In preHandle or preProxy; with the transport; waiting for getClient, with
\* its answer; forwarded.  Served, refused (400, 500, 502), left unanswered.
Places == {"idle", "found", "handling", "asking", "asked", "forwarded"}
Ends == {"served", "refused", "unanswered"}

Init ==
  /\ alive = Workers /\ crashes = 0
  /\ owner = [s \in Sessions |-> None] /\ init = [s \in Sessions |-> "none"]
  /\ transport = {} /\ timer = {} /\ ping = {} /\ closing = {} /\ wrapped = {}
  /\ early = {}
  /\ clients = [s \in Sessions |-> None] /\ calls = {}
  /\ pc = [r \in Requests |-> "idle"] /\ at = [r \in Requests |-> None]
  /\ detail = [r \in Requests |-> None]

Runs(s) == owner[s] \in alive

-----------------------------------------------------------------------------
(* The sessions of a worker *)

\* scheduleStreamMcpServerCleanup
Scheduled(s) == IF s \in transport THEN timer \cup {s} ELSE timer

\* The initialize request: onsessioninitialized runs up to registerClient.
Initialize(s, w) ==
  /\ init[s] = "none" /\ w \in alive
  /\ owner' = [owner EXCEPT ![s] = w]
  /\ init' = [init EXCEPT ![s] = "registering"]
  /\ transport' = transport \cup {s} /\ timer' = timer \cup {s}
  /\ calls' = calls \cup {<<"register", s>>}
  /\ UNCHANGED <<alive, ping, closing, wrapped, early, clients, requestVars, crashes>>

\* Mutation: onStreamSessionInitialized does not wait for the agent.
Registered_Bug(s) ==
  /\ init[s] = "registering" /\ Runs(s)
  /\ init' = [init EXCEPT ![s] = "responding"]
  /\ wrapped' = wrapped \cup {s} /\ ping' = ping \cup {s}
  /\ UNCHANGED <<alive, owner, transport, timer, closing, early, agentVars, requestVars, crashes>>

\* registerClient is answered: the proxy wraps onclose, the pings start, and
\* the transport answers the request.
Registered(s) ==
  /\ init[s] = "registering" /\ Runs(s) /\ <<"register", s>> \notin calls
  /\ init' = [init EXCEPT ![s] = "responding"]
  /\ wrapped' = wrapped \cup {s} /\ ping' = ping \cup {s}
  /\ UNCHANGED <<alive, owner, transport, timer, closing, early, agentVars, requestVars, crashes>>

\* The response is over.
Initialized(s) ==
  /\ init[s] = "responding" /\ Runs(s)
  /\ init' = [init EXCEPT ![s] = "over"]
  /\ timer' = Scheduled(s)
  /\ UNCHANGED <<alive, owner, transport, ping, closing, wrapped, early, agentVars,
                 requestVars, crashes>>

\* clearStreamMcpServer
Clear(s) ==
  /\ timer' = timer \ {s} /\ transport' = transport \ {s} /\ ping' = ping \ {s}

\* closeStreamMcpServer, up to the end of server.close: everything kept for
\* the session is cleared, and the responses of its transport end.
Close(s) ==
  /\ Clear(s)
  /\ closing' = closing \cup {s}
  /\ early' = IF init[s] = "registering" THEN early \cup {s} ELSE early
  /\ UNCHANGED <<alive, owner, wrapped, crashes>>
  /\ UNCHANGED agentVars

EndsResponses(s) ==
  pc' = [q \in Requests |-> IF pc[q] = "handling" /\ TargetOf[q] = s
                            THEN "served" ELSE pc[q]]

\* Mutation: the timer's callback forgets the timer first.
IdleTimeout_Bug(s) ==
  /\ s \in timer /\ Runs(s)
  /\ timer' = timer \ {s}
  /\ UNCHANGED <<alive, owner, init, transport, ping, closing, wrapped, early, agentVars,
                 requestVars, crashes>>

\* The idle timer: it counts from the start or the end of a request, and one
\* that is being served does not stop it.
IdleTimeout(s) ==
  /\ s \in timer /\ Runs(s) /\ s \notin closing
  /\ Close(s) /\ EndsResponses(s)
  /\ UNCHANGED <<init, at, detail>>

\* The pings failed too often, or lasted long enough.
PingGivesUp(s) ==
  /\ s \in ping /\ Runs(s) /\ s \in transport /\ s \notin closing
  /\ Close(s) /\ EndsResponses(s)
  /\ UNCHANGED <<init, at, detail>>

\* The promise settles; the proxy's onclose clears again and unregisters.
Closed(s) ==
  /\ s \in closing /\ Runs(s)
  /\ closing' = closing \ {s}
  /\ IF s \in wrapped
     THEN Clear(s) /\ calls' = calls \cup {<<"unregister", s>>}
     ELSE UNCHANGED <<timer, transport, ping, calls>>
  /\ UNCHANGED <<alive, owner, init, wrapped, early, clients, requestVars, crashes>>

-----------------------------------------------------------------------------
(* The agent: MCPProxyDataClient *)

AgentRegisters(s) ==
  /\ <<"register", s>> \in calls /\ calls' = calls \ {<<"register", s>>}
  /\ clients' = [clients EXCEPT ![s] = owner[s]]
  /\ UNCHANGED <<alive, sessionVars, requestVars, crashes>>

AgentUnregisters(s) ==
  /\ <<"unregister", s>> \in calls /\ calls' = calls \ {<<"unregister", s>>}
  /\ clients' = [clients EXCEPT ![s] = None]
  /\ UNCHANGED <<alive, sessionVars, requestVars, crashes>>

\* getClient
AgentAnswers(r) ==
  /\ pc[r] = "asking" /\ pc' = [pc EXCEPT ![r] = "asked"]
  /\ detail' = [detail EXCEPT ![r] = clients[TargetOf[r]]]
  /\ UNCHANGED <<alive, sessionVars, agentVars, at, crashes>>

-----------------------------------------------------------------------------
(* Requests *)

\* A request whose client knows the session reaches some worker.
Arrive(r, w) ==
  LET s == TargetOf[r] IN
  /\ pc[r] = "idle" /\ init[s] \in {"responding", "over"} /\ s \notin early
  /\ w \in alive
  /\ at' = [at EXCEPT ![r] = w]
  /\ IF s \in transport /\ owner[s] = w
     THEN /\ pc' = [pc EXCEPT ![r] = "found"] /\ timer' = Scheduled(s)
     ELSE /\ pc' = [pc EXCEPT ![r] = "asking"] /\ UNCHANGED timer
  /\ UNCHANGED <<alive, owner, init, transport, ping, closing, wrapped, early, agentVars,
                 detail, crashes>>

At(r) == at[r] \in alive

\* checkAndRunProxy: no worker has the session, or this one should.
NotProxied(r) ==
  /\ pc[r] = "asked" /\ At(r) /\ detail[r] \in {None, at[r]}
  /\ pc' = [pc EXCEPT ![r] = "unanswered"]
  /\ UNCHANGED <<alive, sessionVars, agentVars, at, detail, crashes>>

\* proxyMessage: the body is read, and fetch sends it to the owner's port.
Forward(r) ==
  /\ pc[r] = "asked" /\ At(r) /\ detail[r] \notin {None, at[r]}
  /\ pc' = [pc EXCEPT ![r] = "forwarded"]
  /\ UNCHANGED <<alive, sessionVars, agentVars, at, detail, crashes>>

\* The body cannot be read: 400.
BodyUnreadable(r) ==
  /\ pc[r] = "asked" /\ At(r) /\ detail[r] \notin {None, at[r]}
  /\ pc' = [pc EXCEPT ![r] = "refused"]
  /\ UNCHANGED <<alive, sessionVars, agentVars, at, detail, crashes>>

\* Nobody listens on the port: 502.
ForwardFails(r) ==
  /\ pc[r] = "forwarded" /\ At(r) /\ detail[r] \notin alive
  /\ pc' = [pc EXCEPT ![r] = "refused"]
  /\ UNCHANGED <<alive, sessionVars, agentVars, at, detail, crashes>>

\* The owner's proxy handler: 400 when the session is not there any more.
Proxied(r) ==
  LET s == TargetOf[r] IN
  /\ pc[r] = "forwarded" /\ detail[r] \in alive
  /\ IF s \in transport
     THEN /\ pc' = [pc EXCEPT ![r] = "found"] /\ timer' = Scheduled(s)
     ELSE /\ pc' = [pc EXCEPT ![r] = "refused"] /\ UNCHANGED timer
  /\ UNCHANGED <<alive, owner, init, transport, ping, closing, wrapped, early, agentVars,
                 at, detail, crashes>>

\* The hooks and the middlewares are over: transport.handleRequest.  DELETE
\* closes the session (onsessionclosed, then onclose).  A transport that was
\* closed meanwhile has nobody to answer with.
Handle(r) ==
  LET s == TargetOf[r] IN
  /\ pc[r] = "found" /\ At(r) /\ Runs(s)
  /\ IF s \notin transport
     THEN /\ pc' = [pc EXCEPT ![r] = "unanswered"]
          /\ UNCHANGED <<alive, sessionVars, agentVars, crashes>>
     ELSE IF r \in Deletes
     THEN /\ Close(s) /\ UNCHANGED init
          /\ pc' = [q \in Requests |-> IF q = r \/ (pc[q] = "handling" /\ TargetOf[q] = s)
                                       THEN "served" ELSE pc[q]]
     ELSE /\ pc' = [pc EXCEPT ![r] = "handling"]
          /\ UNCHANGED <<alive, sessionVars, agentVars, crashes>>
  /\ UNCHANGED <<at, detail>>

\* The response is finished or closed.
Respond(r) ==
  /\ pc[r] = "handling" /\ At(r) /\ Runs(TargetOf[r])
  /\ pc' = [pc EXCEPT ![r] = "served"]
  /\ timer' = Scheduled(TargetOf[r])
  /\ UNCHANGED <<alive, owner, init, transport, ping, closing, wrapped, early, agentVars,
                 at, detail, crashes>>

-----------------------------------------------------------------------------
(* A worker dies: what it kept and its connections are gone.  The owner's  *)
(* end of a forwarded request breaks, and the proxy answers 502.           *)

Crash(w) ==
  LET Lost == {s \in Sessions : owner[s] = w} IN
  /\ crashes < MaxCrashes /\ crashes' = crashes + 1
  /\ w \in alive /\ alive' = alive \ {w}
  /\ transport' = transport \ Lost /\ timer' = timer \ Lost /\ ping' = ping \ Lost
  /\ closing' = closing \ Lost /\ wrapped' = wrapped \ Lost
  /\ \E Kept \in SUBSET calls :
       /\ \A c \in calls : owner[c[2]] # w => c \in Kept
       /\ calls' = Kept
  /\ pc' = [r \in Requests |->
              IF pc[r] # "idle" /\ pc[r] \notin Ends
                 /\ (at[r] = w \/ (pc[r] \in {"found", "handling"} /\ owner[TargetOf[r]] = w))
              THEN "refused" ELSE pc[r]]
  /\ UNCHANGED <<owner, init, early, clients, at, detail>>

Next ==
  \/ \E s \in Sessions, w \in Workers : Initialize(s, w)
  \/ \E s \in Sessions :
       \/ Registered(s) \/ Initialized(s)
       \/ IdleTimeout(s) \/ PingGivesUp(s) \/ Closed(s)
       \/ AgentRegisters(s) \/ AgentUnregisters(s)
  \/ \E r \in Requests :
       \/ \E w \in Workers : Arrive(r, w)
       \/ AgentAnswers(r) \/ NotProxied(r) \/ Forward(r) \/ BodyUnreadable(r) \/ ForwardFails(r)
       \/ Proxied(r) \/ Handle(r) \/ Respond(r)
  \/ \E w \in Workers : Crash(w)

Spec == Init /\ [][Next]_vars

\* Timers fire, the agent answers, hooks and middlewares end.  Nothing makes a
\* controller answer or a client leave, so Respond has no fairness.
Fairness ==
  /\ \A s \in Sessions :
       /\ WF_vars(Registered(s)) /\ WF_vars(Initialized(s))
       /\ WF_vars(IdleTimeout(s)) /\ WF_vars(Closed(s))
       /\ WF_vars(AgentRegisters(s)) /\ WF_vars(AgentUnregisters(s))
  /\ \A r \in Requests :
       WF_vars(AgentAnswers(r) \/ NotProxied(r) \/ Forward(r) \/ BodyUnreadable(r) \/ ForwardFails(r)
               \/ Proxied(r) \/ Handle(r))
FairSpec == Spec /\ Fairness

-----------------------------------------------------------------------------
(* Properties *)

\* Types.
TypeOK ==
  /\ alive \subseteq Workers /\ crashes \in 0 .. MaxCrashes
  /\ owner \in [Sessions -> Workers \cup {None}] /\ init \in [Sessions -> InitPlaces]
  /\ transport \cup timer \cup ping \cup closing \cup wrapped \cup early \subseteq Sessions
  /\ clients \in [Sessions -> Workers \cup {None}]
  /\ calls \subseteq {"register", "unregister"} \X Sessions
  /\ pc \in [Requests -> Places \cup Ends]
  /\ at \in [Requests -> Workers \cup {None}]
  /\ detail \in [Requests -> Workers \cup {None}]

\* A session that is kept is always under its idle timer, whatever requests
\* start and end and whoever closes it, so that none outlives its client for
\* good; and no timer is left behind when it goes.  Only a session that was
\* closed while it registered leaves its pings behind.
TimersFollowSessions ==
  /\ timer = transport
  /\ closing \cap transport = {}
  /\ ping \subseteq transport \cup early

\* The agent names the worker that has the session, from before its client
\* can use it until it goes; an entry that outlives the session is about to be
\* removed, unless its worker died or it was closed while it registered.
RoutesAreTrue ==
  \A s \in Sessions :
    /\ clients[s] # None =>
         /\ clients[s] = owner[s]
         /\ \/ ~Runs(s) \/ s \in transport \cup closing \cup early
            \/ <<"unregister", s>> \in calls
    /\ init[s] \in {"responding", "over"} /\ s \in transport => clients[s] = owner[s]

\* A request is left without an answer only when its session is gone, whichever
\* worker it reached and whatever happened on its way.
UnansweredIsGone ==
  \A r \in Requests : pc[r] = "unanswered" => TargetOf[r] \notin transport

\* Every session ends: its worker drops it and the agent forgets it, even when
\* the client never deletes it and a request is never answered.
NoSessionIsLeft ==
  \A s \in Sessions :
    \/ init[s] = "none" \/ ~Runs(s)
    \/ s \notin transport /\ (clients[s] = None \/ s \in early)
SessionsEnd == []<>NoSessionIsLeft
=============================================================================
