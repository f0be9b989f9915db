---------------------------- MODULE SessionsProofs ----------------------------
(***************************************************************************)
(* Proofs about what lives as long as its peer: the sessions of MCP over   *)
(* a cluster (McpStream) and over SSE (McpSse), those of a WebSocket       *)
(* fetch controller (FetchSession), the clients of the events of an agent  *)
(* run (RunEventStream), and the event bus (EventBus), each as the         *)
(* instance that MCSessions has of it.                                     *)
(***************************************************************************)
EXTENDS MCSessions, FiniteSetTheorems, SequenceTheorems, TLAPS

(* Sessions over the cluster *)

\* Who is known of a session, and by whom, as its registration goes on.
SessionInv(s) ==
  /\ init[s] = "none" =>
       /\ owner[s] = None /\ s \notin transport \cup closing \cup wrapped \cup early
       /\ <<"register", s>> \notin calls /\ <<"unregister", s>> \notin calls
  /\ ~Stream!Runs(s) => s \notin transport \cup ping \cup closing \cup wrapped
  /\ clients[s] \in {None, owner[s]}
  /\ s \in transport =>
       /\ s \notin early /\ <<"unregister", s>> \notin calls
       /\ <<"register", s>> \notin calls => clients[s] = owner[s]
  /\ init[s] \in {"responding", "over"} /\ Stream!Runs(s) =>
       s \in wrapped /\ <<"register", s>> \notin calls
  /\ init[s] = "registering" /\ Stream!Runs(s) => s \in transport \/ s \in early
  /\ clients[s] # None /\ Stream!Runs(s) =>
       s \in transport \cup closing \cup early \/ <<"unregister", s>> \in calls

\* A request that asks for the owner of its session is not in the owner, or the
\* session has gone from there; the agent names nobody but the owner.
RequestInv(r) ==
  LET s == TargetOf[r] IN
  /\ request[r] # "idle" => init[s] \notin {"none", "registering"}
  /\ request[r] \in {"asking", "asked"} /\ at[r] = owner[s] => s \notin transport
  /\ request[r] = "asked" =>
       detail[r] \in {None, owner[s]} /\ (detail[r] = None => s \notin transport)
  /\ request[r] = "unanswered" => s \notin transport

StreamInv ==
  /\ Stream!TypeOK /\ Stream!TimersFollowSessions
  /\ \A s \in Sessions : SessionInv(s)
  /\ \A r \in Requests : RequestInv(r)

LEMMA InitStream ==
  ASSUME Stream!McpStreamAssumption, Stream!Init
  PROVE  StreamInv
BY DEF Stream!McpStreamAssumption, Stream!Init, StreamInv, Stream!TypeOK,
       Stream!TimersFollowSessions, SessionInv, RequestInv, Stream!Runs, Stream!InitPlaces,
       Stream!Places, Stream!Ends

LEMMA InitializeKeeps ==
  ASSUME Stream!McpStreamAssumption, StreamInv, NEW s \in Sessions, NEW v \in Workers,
         Stream!Initialize(s, v)
  PROVE  StreamInv'
<1> USE DEF Stream!Initialize, Stream!requestVars
<1>1. Stream!TypeOK'
  BY DEF StreamInv, Stream!TypeOK, Stream!InitPlaces
<1>2. Stream!TimersFollowSessions'
  BY DEF StreamInv, SessionInv, Stream!TypeOK, Stream!TimersFollowSessions
<1>3. ASSUME NEW z \in Sessions PROVE SessionInv(z)'
  BY DEF StreamInv, SessionInv, Stream!TypeOK, Stream!Runs, Stream!McpStreamAssumption,
         Stream!TimersFollowSessions
<1>4. ASSUME NEW r \in Requests PROVE RequestInv(r)'
  BY DEF StreamInv, SessionInv, RequestInv, Stream!TypeOK, Stream!McpStreamAssumption
<1> QED BY <1>1, <1>2, <1>3, <1>4 DEF StreamInv

\* The agent has answered, or the response is over.
LEMMA RegisteredKeeps ==
  ASSUME Stream!McpStreamAssumption, StreamInv, NEW s \in Sessions,
         Stream!Registered(s) \/ Stream!Initialized(s)
  PROVE  StreamInv'
<1> USE DEF Stream!Registered, Stream!Initialized, Stream!Scheduled, Stream!agentVars,
           Stream!requestVars
<1>1. Stream!TypeOK'
  BY DEF StreamInv, Stream!TypeOK, Stream!InitPlaces, Stream!Places, Stream!Ends,
         Stream!McpStreamAssumption
<1>2. Stream!TimersFollowSessions'
  <2>1. init[s] = "registering" /\ Stream!Runs(s) => s \in transport \cup early
    BY DEF StreamInv, SessionInv
  <2>2. CASE Stream!Registered(s)
    BY <2>1, <2>2 DEF StreamInv, Stream!TimersFollowSessions
  <2>3. CASE Stream!Initialized(s)
    BY <2>3 DEF StreamInv, Stream!TimersFollowSessions
  <2> QED BY <2>2, <2>3
<1>3. ASSUME NEW z \in Sessions PROVE SessionInv(z)'
  BY DEF StreamInv, SessionInv, Stream!TypeOK, Stream!Runs, Stream!McpStreamAssumption,
         Stream!TimersFollowSessions
<1>4. ASSUME NEW q \in Requests PROVE RequestInv(q)'
  BY DEF StreamInv, SessionInv, RequestInv, Stream!TypeOK, Stream!McpStreamAssumption
<1> QED BY <1>1, <1>2, <1>3, <1>4 DEF StreamInv

\* The idle timer or the pings close a session.
LEMMA EndsKeeps ==
  ASSUME Stream!McpStreamAssumption, StreamInv, NEW s \in Sessions,
         Stream!IdleTimeout(s) \/ Stream!PingGivesUp(s)
  PROVE  StreamInv'
<1> USE DEF Stream!IdleTimeout, Stream!PingGivesUp, Stream!Close, Stream!Clear,
           Stream!EndsResponses, Stream!agentVars
<1>1. Stream!TypeOK'
  BY DEF StreamInv, Stream!TypeOK, Stream!InitPlaces, Stream!Places, Stream!Ends,
         Stream!McpStreamAssumption
<1>2. Stream!TimersFollowSessions'
  BY DEF StreamInv, SessionInv, Stream!TypeOK, Stream!TimersFollowSessions
<1>3. ASSUME NEW z \in Sessions PROVE SessionInv(z)'
  BY DEF StreamInv, SessionInv, Stream!TypeOK, Stream!Runs, Stream!McpStreamAssumption,
         Stream!TimersFollowSessions
<1>4. ASSUME NEW q \in Requests PROVE RequestInv(q)'
  BY DEF StreamInv, SessionInv, RequestInv, Stream!TypeOK, Stream!McpStreamAssumption
<1> QED BY <1>1, <1>2, <1>3, <1>4 DEF StreamInv

\* The close is over, and the agent is told.
LEMMA ClosedKeeps ==
  ASSUME Stream!McpStreamAssumption, StreamInv, NEW s \in Sessions,
         Stream!Closed(s)
  PROVE  StreamInv'
<1> USE DEF Stream!Closed, Stream!Clear, Stream!requestVars
<1>1. Stream!TypeOK'
  BY DEF StreamInv, Stream!TypeOK, Stream!InitPlaces, Stream!Places, Stream!Ends,
         Stream!McpStreamAssumption
<1>2. Stream!TimersFollowSessions'
  BY DEF StreamInv, SessionInv, Stream!TypeOK, Stream!TimersFollowSessions
<1>3. ASSUME NEW z \in Sessions PROVE SessionInv(z)'
  BY DEF StreamInv, SessionInv, Stream!TypeOK, Stream!Runs, Stream!McpStreamAssumption,
         Stream!TimersFollowSessions, Stream!InitPlaces
<1>4. ASSUME NEW q \in Requests PROVE RequestInv(q)'
  BY DEF StreamInv, SessionInv, RequestInv, Stream!TypeOK, Stream!McpStreamAssumption
<1> QED BY <1>1, <1>2, <1>3, <1>4 DEF StreamInv

\* The agent hears of a session.
LEMMA AgentKeeps ==
  ASSUME Stream!McpStreamAssumption, StreamInv, NEW s \in Sessions,
         Stream!AgentRegisters(s) \/ Stream!AgentUnregisters(s)
  PROVE  StreamInv'
<1> USE DEF Stream!AgentRegisters, Stream!AgentUnregisters, Stream!sessionVars, Stream!requestVars
<1>1. Stream!TypeOK'
  BY DEF StreamInv, Stream!TypeOK, Stream!InitPlaces, Stream!Places, Stream!Ends,
         Stream!McpStreamAssumption
<1>2. Stream!TimersFollowSessions'
  BY DEF StreamInv, SessionInv, Stream!TypeOK, Stream!TimersFollowSessions
<1>3. ASSUME NEW z \in Sessions PROVE SessionInv(z)'
  BY DEF StreamInv, SessionInv, Stream!TypeOK, Stream!Runs, Stream!McpStreamAssumption,
         Stream!TimersFollowSessions, Stream!InitPlaces
<1>4. ASSUME NEW q \in Requests PROVE RequestInv(q)'
  BY DEF StreamInv, SessionInv, RequestInv, Stream!TypeOK, Stream!McpStreamAssumption
<1> QED BY <1>1, <1>2, <1>3, <1>4 DEF StreamInv

\* A request reaches a worker.
LEMMA ArriveKeeps ==
  ASSUME Stream!McpStreamAssumption, StreamInv, NEW r \in Requests, NEW v \in Workers,
         Stream!Arrive(r, v)
  PROVE  StreamInv'
<1> USE DEF Stream!Arrive, Stream!Scheduled, Stream!agentVars
<1>1. Stream!TypeOK'
  BY DEF StreamInv, Stream!TypeOK, Stream!InitPlaces, Stream!Places, Stream!Ends,
         Stream!McpStreamAssumption
<1>2. Stream!TimersFollowSessions'
  BY DEF StreamInv, Stream!TimersFollowSessions
<1>3. ASSUME NEW z \in Sessions PROVE SessionInv(z)'
  BY DEF StreamInv, SessionInv, Stream!TypeOK, Stream!Runs, Stream!McpStreamAssumption,
         Stream!TimersFollowSessions
<1>4. ASSUME NEW q \in Requests PROVE RequestInv(q)'
  BY DEF StreamInv, SessionInv, RequestInv, Stream!TypeOK, Stream!McpStreamAssumption
<1> QED BY <1>1, <1>2, <1>3, <1>4 DEF StreamInv

\* A request is on its way to the worker the agent names.
LEMMA RouteKeeps ==
  ASSUME Stream!McpStreamAssumption, StreamInv, NEW r \in Requests,
         \/ Stream!AgentAnswers(r) \/ Stream!NotProxied(r) \/ Stream!Forward(r)
         \/ Stream!BodyUnreadable(r) \/ Stream!ForwardFails(r)
  PROVE  StreamInv'
<1> USE DEF Stream!AgentAnswers, Stream!NotProxied, Stream!Forward, Stream!BodyUnreadable,
           Stream!ForwardFails, Stream!sessionVars, Stream!agentVars
<1>1. Stream!TypeOK'
  BY DEF StreamInv, Stream!TypeOK, Stream!InitPlaces, Stream!Places, Stream!Ends,
         Stream!McpStreamAssumption
<1>2. Stream!TimersFollowSessions'
  BY DEF StreamInv, SessionInv, Stream!TypeOK, Stream!TimersFollowSessions
<1>3. ASSUME NEW z \in Sessions PROVE SessionInv(z)'
  BY DEF StreamInv, SessionInv, Stream!TypeOK, Stream!Runs, Stream!McpStreamAssumption,
         Stream!TimersFollowSessions
<1>4. ASSUME NEW q \in Requests PROVE RequestInv(q)'
  <2>1. TargetOf[q] \in Sessions /\ RequestInv(q) /\ SessionInv(TargetOf[q])
    BY DEF StreamInv, Stream!McpStreamAssumption
  <2>2. /\ UNCHANGED <<init, owner, transport, at>>
        /\ q # r => request'[q] = request[q] /\ detail'[q] = detail[q]
    BY DEF StreamInv, Stream!TypeOK
  <2>3. CASE q # r
    BY <2>1, <2>2, <2>3 DEF RequestInv
  <2>4. CASE q = r /\ Stream!AgentAnswers(r)
    <3>1. init[TargetOf[r]] \in {"responding", "over"} /\ TargetOf[r] \in transport =>
            clients[TargetOf[r]] = owner[TargetOf[r]] /\ owner[TargetOf[r]] # None
      BY <2>1, <2>4 DEF StreamInv, SessionInv, Stream!TypeOK, Stream!Runs,
                        Stream!McpStreamAssumption
    <3>2. clients[TargetOf[r]] \in {None, owner[TargetOf[r]]}
      BY <2>1, <2>4 DEF SessionInv
    <3>3. init[TargetOf[r]] \in {"responding", "over"}
      BY <2>1, <2>4 DEF StreamInv, RequestInv, Stream!TypeOK, Stream!InitPlaces
    <3>4. request'[r] = "asked" /\ detail'[r] = clients[TargetOf[r]]
      BY <2>4 DEF StreamInv, Stream!TypeOK
    <3> QED BY <2>1, <2>2, <2>4, <3>1, <3>2, <3>3, <3>4 DEF RequestInv
  <2>5. CASE q = r /\ ~Stream!AgentAnswers(r)
    <3>1. request[r] \in {"asked", "forwarded"} /\ detail' = detail
      BY <2>5
    <3>2. request'[r] \in {"forwarded", "refused", "unanswered"}
      BY <2>5 DEF StreamInv, Stream!TypeOK
    <3>3. request'[r] = "unanswered" => request[r] = "asked" /\ detail[r] \in {None, at[r]}
      BY <2>5 DEF StreamInv, Stream!TypeOK
    <3> QED BY <2>1, <2>2, <2>5, <3>1, <3>2, <3>3 DEF RequestInv
  <2> QED BY <2>3, <2>4, <2>5
<1> QED BY <1>1, <1>2, <1>3, <1>4 DEF StreamInv

\* A forwarded request finds its session or not; a response is over.
LEMMA ProxiedKeeps ==
  ASSUME Stream!McpStreamAssumption, StreamInv, NEW r \in Requests,
         Stream!Proxied(r) \/ Stream!Respond(r)
  PROVE  StreamInv'
<1> USE DEF Stream!Proxied, Stream!Respond, Stream!Scheduled, Stream!agentVars
<1>1. Stream!TypeOK'
  BY DEF StreamInv, Stream!TypeOK, Stream!InitPlaces, Stream!Places, Stream!Ends,
         Stream!McpStreamAssumption
<1>2. Stream!TimersFollowSessions'
  BY DEF StreamInv, Stream!TimersFollowSessions
<1>3. ASSUME NEW z \in Sessions PROVE SessionInv(z)'
  BY DEF StreamInv, SessionInv, Stream!TypeOK, Stream!Runs, Stream!McpStreamAssumption,
         Stream!TimersFollowSessions
<1>4. ASSUME NEW q \in Requests PROVE RequestInv(q)'
  BY DEF StreamInv, SessionInv, RequestInv, Stream!TypeOK, Stream!McpStreamAssumption
<1> QED BY <1>1, <1>2, <1>3, <1>4 DEF StreamInv

\* A request is handled; DELETE closes the session.
LEMMA HandleKeeps ==
  ASSUME Stream!McpStreamAssumption, StreamInv, NEW r \in Requests,
         Stream!Handle(r)
  PROVE  StreamInv'
<1> USE DEF Stream!Handle, Stream!Close, Stream!Clear, Stream!sessionVars, Stream!agentVars
<1>1. Stream!TypeOK'
  BY DEF StreamInv, Stream!TypeOK, Stream!InitPlaces, Stream!Places, Stream!Ends,
         Stream!McpStreamAssumption
<1>2. Stream!TimersFollowSessions'
  BY DEF StreamInv, Stream!TimersFollowSessions
<1>3. ASSUME NEW z \in Sessions PROVE SessionInv(z)'
  BY DEF StreamInv, SessionInv, Stream!TypeOK, Stream!Runs, Stream!McpStreamAssumption,
         Stream!TimersFollowSessions
<1>4. ASSUME NEW q \in Requests PROVE RequestInv(q)'
  BY DEF StreamInv, SessionInv, RequestInv, Stream!TypeOK, Stream!McpStreamAssumption
<1> QED BY <1>1, <1>2, <1>3, <1>4 DEF StreamInv

\* A worker dies, and its sessions with it.
LEMMA CrashKeeps ==
  ASSUME Stream!McpStreamAssumption, StreamInv, NEW v \in Workers,
         Stream!Crash(v)
  PROVE  StreamInv'
<1> USE DEF Stream!Crash
<1>1. Stream!TypeOK'
  BY DEF StreamInv, Stream!TypeOK, Stream!InitPlaces, Stream!Places, Stream!Ends,
         Stream!McpStreamAssumption
<1>2. Stream!TimersFollowSessions'
  BY DEF StreamInv, SessionInv, Stream!TypeOK, Stream!TimersFollowSessions
<1>3. ASSUME NEW z \in Sessions PROVE SessionInv(z)'
  BY DEF StreamInv, SessionInv, Stream!TypeOK, Stream!Runs, Stream!McpStreamAssumption,
         Stream!TimersFollowSessions
<1>4. ASSUME NEW q \in Requests PROVE RequestInv(q)'
  BY DEF StreamInv, SessionInv, RequestInv, Stream!TypeOK, Stream!McpStreamAssumption
<1> QED BY <1>1, <1>2, <1>3, <1>4 DEF StreamInv

LEMMA NextStream ==
  Stream!McpStreamAssumption /\ StreamInv /\ [Stream!Next]_(Stream!vars) => StreamInv'
<1> SUFFICES ASSUME Stream!McpStreamAssumption, StreamInv, [Stream!Next]_(Stream!vars)
             PROVE  StreamInv'
  OBVIOUS
<1>1. CASE \E s \in Sessions, v \in Workers : Stream!Initialize(s, v)
  BY <1>1, InitializeKeeps
<1>2. CASE \E s \in Sessions :
             \/ Stream!Registered(s) \/ Stream!Initialized(s)
             \/ Stream!IdleTimeout(s) \/ Stream!PingGivesUp(s) \/ Stream!Closed(s)
             \/ Stream!AgentRegisters(s) \/ Stream!AgentUnregisters(s)
  BY <1>2, RegisteredKeeps, EndsKeeps, ClosedKeeps, AgentKeeps
<1>3. CASE \E r \in Requests, v \in Workers : Stream!Arrive(r, v)
  BY <1>3, ArriveKeeps
<1>4. CASE \E r \in Requests :
             \/ Stream!AgentAnswers(r) \/ Stream!NotProxied(r) \/ Stream!Forward(r)
             \/ Stream!BodyUnreadable(r) \/ Stream!ForwardFails(r)
             \/ Stream!Proxied(r) \/ Stream!Handle(r) \/ Stream!Respond(r)
  BY <1>4, RouteKeeps, ProxiedKeeps, HandleKeeps
<1>5. CASE \E v \in Workers : Stream!Crash(v)
  BY <1>5, CrashKeeps
<1>6. CASE UNCHANGED Stream!vars
  BY <1>6 DEF StreamInv, SessionInv, RequestInv, Stream!TypeOK, Stream!TimersFollowSessions,
             Stream!Runs, Stream!vars, Stream!sessionVars, Stream!agentVars, Stream!requestVars
<1> QED BY <1>1, <1>2, <1>3, <1>4, <1>5, <1>6 DEF Stream!Next

\* What the run checks of these sessions follows.
LEMMA StreamIsWhole ==
  ASSUME Stream!McpStreamAssumption, StreamInv
  PROVE  Stream!TimersFollowSessions /\ Stream!RoutesAreTrue /\ Stream!UnansweredIsGone
<1>1. ASSUME NEW s \in Sessions
      PROVE  /\ clients[s] # None =>
                  /\ clients[s] = owner[s]
                  /\ \/ ~Stream!Runs(s) \/ s \in transport \cup closing \cup early
                     \/ <<"unregister", s>> \in calls
             /\ init[s] \in {"responding", "over"} /\ s \in transport => clients[s] = owner[s]
  BY DEF StreamInv, SessionInv
<1>2. ASSUME NEW r \in Requests, request[r] = "unanswered" PROVE TargetOf[r] \notin transport
  BY <1>2 DEF StreamInv, RequestInv
<1> QED BY <1>1, <1>2 DEF StreamInv, Stream!RoutesAreTrue, Stream!UnansweredIsGone

-----------------------------------------------------------------------------
(* A session over SSE *)

\* What the worker and the agent keep, by how far the opening is.
OpeningInv ==
  /\ heart = held
  /\ heard <=> proxied /\ conn \in {"preparing", "open"}
  /\ ~proxied => ~client /\ sseCalls = {}
  /\ "register" \in sseCalls => conn = "registering"
  /\ conn = "none" => res = "open" /\ ~held /\ ~client /\ sseCalls = {}
  /\ conn # "open" => ~mapped /\ ~ssePing /\ waiters = {}
  /\ conn = "registering" =>
       /\ proxied /\ ~held /\ "unregister" \notin sseCalls
       /\ client \/ "register" \in sseCalls
       /\ res = "closed" => left

\* Once what was kept is dropped nobody waits, and no context can start to.
ClearedInv ==
  /\ proxied /\ held => client /\ "unregister" \notin sseCalls
  /\ conn # "none" /\ res = "closed" /\ ~left => ~held /\ (client => "unregister" \in sseCalls)
  /\ ~held => waiters = {}
  /\ mapped /\ ~held => \A m \in Messages : message[m] # "context"

MessageInv(m) ==
  /\ conn # "open" => message[m] = "none"
  /\ message[m] = "waiting" => <<IdOf[m], m>> \in waiters \/ m \in overtaken
  /\ message[m] = "refused" => ~held
  /\ message[m] \in {"asking", "forwarded"} => proxied

SseInv ==
  /\ Sse!TypeOK /\ OpeningInv /\ ClearedInv
  /\ \A m \in Messages : MessageInv(m)

LEMMA InitSse ==
  ASSUME Sse!McpSseAssumption, Sse!Init
  PROVE  SseInv
BY DEF Sse!Init, SseInv, Sse!TypeOK, OpeningInv, ClearedInv, MessageInv

\* The session opens.
LEMMA OpenKeeps ==
  ASSUME Sse!McpSseAssumption, SseInv, Sse!Connect \/ Sse!Registered \/ Sse!Open
  PROVE  SseInv'
<1> USE DEF Sse!Connect, Sse!Registered, Sse!Open, Sse!Kept, Sse!agentVars
<1>1. Sse!TypeOK'
  BY DEF SseInv, Sse!TypeOK, Sse!Ids, Sse!McpSseAssumption
<1>2. OpeningInv'
  <2>1. CASE Sse!Connect
    <3>1. ~heard /\ ~mapped /\ ~ssePing /\ waiters = {} /\ ~held /\ ~heart /\ ~client
          /\ sseCalls = {} /\ res = "open"
      BY <2>1 DEF SseInv, OpeningInv, Sse!TypeOK
    <3>2. CASE proxied
      <4>1. /\ conn' = "registering" /\ "register" \in sseCalls' /\ "unregister" \notin sseCalls'
            /\ UNCHANGED <<proxied, held, heart, heard, mapped, ssePing, waiters, client, res>>
        BY <2>1, <3>1, <3>2
      <4>2. ~heard' /\ proxied' /\ ~held' /\ heart' = held' /\ res' # "closed"
        BY <3>1, <3>2, <4>1 DEF SseInv, OpeningInv
      <4> QED BY <3>1, <4>1, <4>2 DEF OpeningInv
    <3>3. CASE ~proxied
      BY <2>1, <3>1, <3>3 DEF OpeningInv
    <3> QED BY <3>2, <3>3
  <2>2. CASE Sse!Registered
    BY <2>2 DEF SseInv, OpeningInv, Sse!TypeOK
  <2>3. CASE Sse!Open
    BY <2>3 DEF SseInv, OpeningInv, Sse!TypeOK
  <2> QED BY <2>1, <2>2, <2>3
<1>3. ClearedInv'
  <2>1. CASE Sse!Connect
    BY <2>1 DEF SseInv, OpeningInv, ClearedInv, MessageInv, Sse!TypeOK
  <2>2. CASE Sse!Registered
    BY <2>2 DEF SseInv, OpeningInv, ClearedInv, MessageInv, Sse!TypeOK
  <2>3. CASE Sse!Open
    BY <2>3 DEF SseInv, OpeningInv, ClearedInv, MessageInv, Sse!TypeOK
  <2> QED BY <2>1, <2>2, <2>3
<1>4. ASSUME NEW m \in Messages PROVE MessageInv(m)'
  BY DEF SseInv, OpeningInv, ClearedInv, MessageInv, Sse!TypeOK
<1> QED BY <1>1, <1>2, <1>3, <1>4 DEF SseInv

\* The response closes, or the pings stop.
LEMMA LeaveKeeps ==
  ASSUME Sse!McpSseAssumption, SseInv, Sse!PeerLeaves \/ Sse!PingGivesUp
  PROVE  SseInv'
<1> USE DEF Sse!PeerLeaves, Sse!PingGivesUp, Sse!Clear, Sse!Unregister, Sse!keptVars
<1>1. Sse!TypeOK'
  BY DEF SseInv, Sse!TypeOK, Sse!Ids, Sse!McpSseAssumption
<1>2. OpeningInv'
  <2>1. CASE Sse!PeerLeaves
    <3>1. OpeningInv /\ UNCHANGED <<proxied, conn, heard, client>>
      BY <2>1 DEF SseInv
    <3>2. CASE heard \/ conn = "open"
      <4>1. ~held' /\ ~heart' /\ ~ssePing' /\ waiters' = {} /\ ~mapped' /\ left' = left
        BY <2>1, <3>2
      <4>2. sseCalls' = IF heard THEN sseCalls \cup {"unregister"} ELSE sseCalls
        BY <2>1, <3>2
      <4> QED BY <3>1, <3>2, <4>1, <4>2 DEF OpeningInv
    <3>3. CASE ~heard /\ conn # "open"
      BY <2>1, <3>1, <3>3 DEF OpeningInv
    <3> QED BY <3>2, <3>3
  <2>2. CASE Sse!PingGivesUp
    BY <2>2 DEF SseInv, OpeningInv, Sse!TypeOK
  <2> QED BY <2>1, <2>2
<1>3. ClearedInv'
  BY DEF SseInv, OpeningInv, ClearedInv, MessageInv, Sse!TypeOK
<1>4. ASSUME NEW m \in Messages PROVE MessageInv(m)'
  BY DEF SseInv, OpeningInv, ClearedInv, MessageInv, Sse!TypeOK
<1> QED BY <1>1, <1>2, <1>3, <1>4 DEF SseInv

\* The agent hears of the session.
LEMMA SseAgentKeeps ==
  ASSUME Sse!McpSseAssumption, SseInv, Sse!AgentRegisters \/ Sse!AgentUnregisters
  PROVE  SseInv'
<1> USE DEF Sse!AgentRegisters, Sse!AgentUnregisters, Sse!connVars, Sse!keptVars
<1>1. Sse!TypeOK'
  BY DEF SseInv, Sse!TypeOK, Sse!Ids, Sse!McpSseAssumption
<1>2. OpeningInv'
  BY DEF SseInv, OpeningInv, ClearedInv, Sse!TypeOK
<1>3. ClearedInv'
  BY DEF SseInv, OpeningInv, ClearedInv, MessageInv, Sse!TypeOK
<1>4. ASSUME NEW m \in Messages PROVE MessageInv(m)'
  BY DEF SseInv, OpeningInv, ClearedInv, MessageInv, Sse!TypeOK
<1> QED BY <1>1, <1>2, <1>3, <1>4 DEF SseInv

\* A message is posted, here or to another worker.
LEMMA PostKeeps ==
  ASSUME Sse!McpSseAssumption, SseInv, NEW k \in Messages,
         \/ Sse!Post(k) \/ Sse!PostElsewhere(k) \/ Sse!AgentAnswers(k) \/ Sse!Proxied(k)
  PROVE  SseInv'
<1> USE DEF Sse!Post, Sse!PostElsewhere, Sse!AgentAnswers, Sse!Proxied, Sse!connVars,
           Sse!keptVars, Sse!agentVars
<1>1. Sse!TypeOK'
  BY DEF SseInv, Sse!TypeOK, Sse!Ids, Sse!McpSseAssumption
<1>2. OpeningInv'
  BY DEF SseInv, OpeningInv
<1>3. ClearedInv'
  BY DEF SseInv, OpeningInv, ClearedInv, MessageInv, Sse!TypeOK
<1>4. ASSUME NEW m \in Messages PROVE MessageInv(m)'
  BY DEF SseInv, OpeningInv, ClearedInv, MessageInv, Sse!TypeOK
<1> QED BY <1>1, <1>2, <1>3, <1>4 DEF SseInv

\* A message waits under its id, maybe in place of another.
LEMMA TrackKeeps ==
  ASSUME Sse!McpSseAssumption, SseInv, NEW k \in Messages,
         Sse!Track(k)
  PROVE  SseInv'
<1> USE DEF Sse!Track, Sse!connVars, Sse!agentVars
<1>1. Sse!TypeOK'
  <2>1. <<IdOf[k], k>> \in Sse!Ids \X Messages
    BY DEF Sse!Ids
  <2> QED BY <2>1 DEF SseInv, Sse!TypeOK
<1>2. OpeningInv'
  BY DEF SseInv, OpeningInv, ClearedInv, Sse!TypeOK
<1>3. ClearedInv'
  BY DEF SseInv, OpeningInv, ClearedInv, MessageInv, Sse!TypeOK
<1>4. ASSUME NEW m \in Messages PROVE MessageInv(m)'
  BY DEF SseInv, OpeningInv, ClearedInv, MessageInv, Sse!TypeOK
<1> QED BY <1>1, <1>2, <1>3, <1>4 DEF SseInv

\* An answer wakes who waits under its id.
LEMMA AnswerKeeps ==
  ASSUME Sse!McpSseAssumption, SseInv, NEW i \in Sse!Ids,
         Sse!Answer(i)
  PROVE  SseInv'
<1> USE DEF Sse!Answer, Sse!connVars, Sse!agentVars
<1>1. Sse!TypeOK'
  BY DEF SseInv, Sse!TypeOK, Sse!Ids, Sse!McpSseAssumption
<1>2. OpeningInv'
  BY DEF SseInv, OpeningInv, ClearedInv, Sse!TypeOK
<1>3. ClearedInv'
  BY DEF SseInv, OpeningInv, ClearedInv, MessageInv, Sse!TypeOK
<1>4. ASSUME NEW m \in Messages PROVE MessageInv(m)'
  BY DEF SseInv, OpeningInv, ClearedInv, MessageInv, Sse!TypeOK
<1> QED BY <1>1, <1>2, <1>3, <1>4 DEF SseInv

LEMMA NextSse ==
  Sse!McpSseAssumption /\ SseInv /\ [Sse!Next]_(Sse!vars) => SseInv'
<1> SUFFICES ASSUME Sse!McpSseAssumption, SseInv, [Sse!Next]_(Sse!vars) PROVE SseInv'
  OBVIOUS
<1>1. CASE Sse!Connect \/ Sse!Registered \/ Sse!Open
  BY <1>1, OpenKeeps
<1>2. CASE Sse!PeerLeaves \/ Sse!PingGivesUp
  BY <1>2, LeaveKeeps
<1>3. CASE Sse!AgentRegisters \/ Sse!AgentUnregisters
  BY <1>3, SseAgentKeeps
<1>4. CASE \E m \in Messages :
             \/ Sse!Post(m) \/ Sse!PostElsewhere(m) \/ Sse!AgentAnswers(m) \/ Sse!Proxied(m)
             \/ Sse!Track(m)
  BY <1>4, PostKeeps, TrackKeeps
<1>5. CASE \E i \in Sse!Ids : Sse!Answer(i)
  BY <1>5, AnswerKeeps
<1>6. CASE UNCHANGED Sse!vars
  BY <1>6 DEF SseInv, Sse!TypeOK, OpeningInv, ClearedInv, MessageInv, Sse!vars, Sse!connVars,
             Sse!keptVars, Sse!agentVars
<1> QED BY <1>1, <1>2, <1>3, <1>4, <1>5, <1>6 DEF Sse!Next

\* A close that somebody hears cleans up.
LEMMA HeardCloses ==
  ASSUME SseInv
  PROVE  Sse!HeardCloseCleansUp
<1>1. res = "closed" => conn # "none"
  BY DEF SseInv, OpeningInv, Sse!TypeOK
<1>2. res = "closed" /\ ~left =>
        ~held /\ ~heart /\ waiters = {} /\ (client => "unregister" \in sseCalls)
  BY <1>1 DEF SseInv, OpeningInv, ClearedInv
<1> QED BY <1>2 DEF SseInv, MessageInv, Sse!HeardCloseCleansUp

-----------------------------------------------------------------------------
(* A WebSocket fetch session *)

PlainTypes == {"connection", "open"}
WaitingIds == {events[i].id : i \in F!Of({"message"})}

\* The messages that the session has taken, those it discarded included.
Taken == Len(given) + F!InHand + discarded

\* Until the close is queued the messages that wait are the last ones of those
\* that came; from then on none waits, and the others were counted.
QueueInv ==
  /\ \E n \in 0 .. 2 : F!Of(PlainTypes) = 1 .. n
  /\ \A i, j \in F!Of({"message"}) : i < j => events[i].id < events[j].id
  /\ ~disposed /\ ~F!Closed =>
       droppedMessages = 0 /\ Taken <= arrived /\ WaitingIds = (Taken + 1) .. arrived
  /\ ~disposed /\ F!Closed => WaitingIds = {} /\ Taken + droppedMessages = arrived

\* Where the session is tells what it has of its socket and of its stream.
PlaceInv ==
  /\ disposed => sessionPc = "done" /\ events = <<>>
  /\ F!Closed => readyState = "closed"
  /\ sessionPc = "waiting" => events = <<>> /\ ~closeYielded
  /\ sessionPc \notin {"answering", "reading", "sending"} => response # "open"
  /\ sessionPc = "answering" => response \in {"open", "destroyed"}
  /\ sessionPc \in {"reading", "sending"} =>
       response = "destroyed" \/ (response = "open" /\ closeListener /\ ~F!Closed)

\* The message in hand is the next one; none is given once one was discarded.
GivenInv ==
  /\ F!GivenInOrder
  /\ sessionPc = "dispatch" /\ F!IsMessage(event) => event.id = Len(given) + discarded + 1
  /\ discarded > 0 => ~acceptingData \/ readyState # "open"

FetchInv == F!TypeOK /\ QueueInv /\ PlaceInv /\ GivenInv

\* The instance counts as its extended module does.
LEMMA CountsAlike == \A S : F!Cardinality(S) = Cardinality(S)
BY DEF F!Cardinality, Cardinality

\* A function that is one to one and onto keeps the number of elements.
LEMMA SameCount ==
  ASSUME NEW S, NEW T, IsFiniteSet(S), NEW fn \in [S -> T],
         \A x, y \in S : fn[x] = fn[y] => x = y,
         \A y \in T : \E x \in S : fn[x] = y
  PROVE  Cardinality(S) = Cardinality(T)
<1>1. fn \in Surjection(S, T)
  BY DEF Surjection
<1>2. fn \in Injection(S, T)
  BY DEF Injection, IsInjective
<1> QED BY <1>1, <1>2, FS_Surjection

LEMMA IndicesAreFinite ==
  ASSUME F!TypeOK, NEW T
  PROVE  F!Of(T) \subseteq 1 .. Len(events) /\ IsFiniteSet(F!Of(T))
<1>1. Len(events) \in Nat /\ F!Of(T) \subseteq 1 .. Len(events)
  BY DEF F!TypeOK, F!Of
<1>2. IsFiniteSet(1 .. Len(events))
  BY <1>1, FS_Interval
<1> QED BY <1>1, <1>2, FS_Subset

\* Every message that waits has an id of its own.
LEMMA WaitingCount ==
  ASSUME F!TypeOK, QueueInv
  PROVE  Cardinality(F!Of({"message"})) = Cardinality(WaitingIds)
<1> DEFINE fn == [i \in F!Of({"message"}) |-> events[i].id]
<1>1. F!Of({"message"}) \subseteq 1 .. Len(events) /\ IsFiniteSet(F!Of({"message"}))
      /\ Len(events) \in Nat
  BY IndicesAreFinite DEF F!TypeOK
<1>2. \A i \in F!Of({"message"}) : events[i].id \in Nat
  BY <1>1 DEF F!TypeOK, F!Event, F!Of
<1>3. fn \in [F!Of({"message"}) -> WaitingIds]
  BY DEF WaitingIds
<1>4. ASSUME NEW x \in F!Of({"message"}), NEW y \in F!Of({"message"}), fn[x] = fn[y]
      PROVE  x = y
  BY <1>1, <1>2, <1>4 DEF QueueInv
<1>5. \A y \in WaitingIds : \E x \in F!Of({"message"}) : fn[x] = y
  BY DEF WaitingIds
<1> HIDE DEF fn
<1> QED BY <1>1, <1>3, <1>4, <1>5, SameCount

\* Hence the account of the messages.
LEMMA Accounted ==
  ASSUME F!SessionAssumption, FetchInv
  PROVE  /\ F!MessagesAreAccounted
         /\ ~disposed /\ ~F!Closed => Cardinality(F!Of({"message"})) = arrived - Taken
<1>1. Cardinality(F!Of({"message"})) = Cardinality(WaitingIds)
  BY WaitingCount DEF FetchInv
<1>2. Len(given) \in Nat /\ F!InHand \in {0, 1} /\ discarded \in Nat /\ arrived \in Nat
      /\ droppedMessages \in Nat
  BY DEF FetchInv, F!TypeOK, F!InHand, F!SessionAssumption
<1>3. Taken \in Nat
  BY <1>2 DEF Taken
<1>4. CASE ~disposed /\ ~F!Closed
  <2>1. Cardinality(WaitingIds) = arrived - Taken
    <3>1. WaitingIds = (Taken + 1) .. arrived /\ Taken <= arrived
      BY <1>4 DEF FetchInv, QueueInv
    <3>2. Cardinality((Taken + 1) .. arrived) =
            IF Taken + 1 > arrived THEN 0 ELSE arrived - (Taken + 1) + 1
      BY <1>2, <1>3, FS_Interval
    <3> QED BY <1>2, <1>3, <3>1, <3>2
  <2>2. droppedMessages = 0
    BY <1>4 DEF FetchInv, QueueInv
  <2>3. Cardinality(F!Of({"message"})) = arrived - Taken
    BY <1>1, <2>1
  <2>4. arrived = Taken + Cardinality(F!Of({"message"})) + droppedMessages
    BY <1>2, <1>3, <2>2, <2>3
  <2> QED BY <1>2, <2>3, <2>4, CountsAlike DEF F!MessagesAreAccounted, Taken
<1>5. CASE ~disposed /\ F!Closed
  <2>1. WaitingIds = {} /\ Taken + droppedMessages = arrived
    BY <1>5 DEF FetchInv, QueueInv
  <2>2. Cardinality(WaitingIds) = 0
    BY <2>1, FS_EmptySet
  <2>3. Cardinality(F!Of({"message"})) = 0
    BY <1>1, <2>2
  <2> QED BY <1>2, <1>5, <2>1, <2>3, CountsAlike DEF F!MessagesAreAccounted, Taken
<1>6. CASE disposed
  BY <1>6 DEF F!MessagesAreAccounted
<1> QED BY <1>4, <1>5, <1>6

LEMMA InitFetch ==
  ASSUME F!SessionAssumption, F!Init
  PROVE  FetchInv
<1>1. events = <<[type |-> "connection", id |-> 0], [type |-> "open", id |-> 0]>>
      /\ ~closeYielded /\ given = <<>> /\ sessionPc = "starting" /\ discarded = 0 /\ arrived = 0
      /\ ~disposed /\ droppedMessages = 0 /\ response = "none" /\ event.type = "connection"
  BY DEF F!Init, F!Plain
<1>2. DOMAIN events = 1 .. 2 /\ events[1].type = "connection" /\ events[2].type = "open"
  BY <1>1
<1>3. F!TypeOK
  <2>1. F!Plain("connection") \in F!Event /\ F!Plain("open") \in F!Event
    BY DEF F!Plain, F!Event
  <2>2. events \in Seq(F!Event) /\ event \in F!Event
    BY <2>1 DEF F!Init
  <2>3. given \in Seq(1 .. MaxMessages)
    BY <1>1
  <2>4. \A i \in DOMAIN events : events[i].type # "close"
    BY <1>2
  <2>5. /\ readyState = "open" /\ arrived = 0 /\ errors = 0 /\ defined \subseteq F!Optional
        /\ ~closeYielded /\ closeYielded \in BOOLEAN /\ disposed \in BOOLEAN
        /\ droppedMessages = 0 /\ closeListener \in BOOLEAN /\ response = "none"
        /\ acceptingData \in BOOLEAN /\ closeAfter \in BOOLEAN /\ sessionPc = "starting"
        /\ discarded = 0
    BY DEF F!Init
  <2> QED BY <2>2, <2>3, <2>4, <2>5 DEF F!TypeOK, F!Pc, F!SessionAssumption
<1>4. F!Of(PlainTypes) = 1 .. 2 /\ F!Of({"message"}) = {} /\ ~F!Closed
  BY <1>1, <1>2 DEF F!Of, PlainTypes, F!Closed
<1>5. WaitingIds = {} /\ Taken = 0
  BY <1>1, <1>4 DEF WaitingIds, Taken, F!InHand
<1>6. QueueInv
  BY <1>1, <1>4, <1>5 DEF QueueInv
<1> QED BY <1>1, <1>3, <1>4, <1>6 DEF F!Init, FetchInv, PlaceInv, GivenInv, F!GivenInOrder

\* A step that neither moves the queue nor takes a message.
LEMMA QuietKeepsQueue ==
  ASSUME QueueInv, UNCHANGED <<events, closeYielded, disposed, droppedMessages, arrived>>,
         Taken' = Taken
  PROVE  QueueInv' /\ (F!Closed' <=> F!Closed)
BY DEF QueueInv, F!Of, F!Closed, WaitingIds

\* A message or an error that nobody waits for is queued.
LEMMA AppendKeepsQueue ==
  ASSUME F!SessionAssumption, FetchInv, NEW e \in F!Event, e.type \in {"message", "error"},
         ~disposed, ~F!Closed, events' = Append(events, e),
         UNCHANGED <<closeYielded, disposed, droppedMessages>>,
         Taken' = Taken,
         arrived' = IF e.type = "message" THEN arrived + 1 ELSE arrived,
         e.type = "message" => e.id = arrived + 1
  PROVE  QueueInv' /\ ~F!Closed' /\ events' \in Seq(F!Event)
         /\ \A i \in DOMAIN events' : events'[i].type # "close"
<1>1. /\ events \in Seq(F!Event) /\ Len(events) \in Nat /\ arrived \in Nat
      /\ Len(events') = Len(events) + 1 /\ events' \in Seq(F!Event)
      /\ events'[Len(events) + 1] = e
      /\ \A i \in 1 .. Len(events) : events'[i] = events[i]
  BY DEF FetchInv, F!TypeOK, F!SessionAssumption
<1>2. DOMAIN events = 1 .. Len(events) /\ DOMAIN events' = 1 .. Len(events) + 1
  BY <1>1
<1>3. Taken \in Nat
  BY DEF FetchInv, F!TypeOK, Taken, F!InHand
<1>4. ~F!Closed' /\ \A i \in DOMAIN events' : events'[i].type # "close"
  BY <1>1, <1>2 DEF F!Closed
<1>5. F!Of(PlainTypes)' = F!Of(PlainTypes)
  BY <1>1, <1>2 DEF F!Of, PlainTypes
<1>6. F!Of({"message"})' = IF e.type = "message" THEN F!Of({"message"}) \cup {Len(events) + 1}
                                                ELSE F!Of({"message"})
  BY <1>1, <1>2 DEF F!Of
<1>7. F!Of({"message"}) \subseteq 1 .. Len(events)
  BY <1>2 DEF F!Of
<1>8. /\ droppedMessages = 0 /\ Taken <= arrived /\ WaitingIds = (Taken + 1) .. arrived
      /\ \A i, j \in F!Of({"message"}) : i < j => events[i].id < events[j].id
  BY DEF FetchInv, QueueInv
<1>9. \A i \in F!Of({"message"}) : events[i].id \in (Taken + 1) .. arrived
  BY <1>8 DEF WaitingIds
<1>10. WaitingIds' = IF e.type = "message" THEN WaitingIds \cup {arrived + 1} ELSE WaitingIds
  BY <1>1, <1>6, <1>7 DEF WaitingIds
<1>11. WaitingIds' = (Taken' + 1) .. arrived' /\ Taken' <= arrived'
  <2>1. CASE e.type = "message"
    <3>1. WaitingIds' = ((Taken + 1) .. arrived) \cup {arrived + 1}
      BY <1>8, <1>10, <2>1
    <3>2. ((Taken + 1) .. arrived) \cup {arrived + 1} = (Taken + 1) .. (arrived + 1)
      BY <1>1, <1>3, <1>8
    <3> QED BY <1>1, <1>3, <1>8, <2>1, <3>1, <3>2
  <2>2. CASE e.type # "message"
    BY <1>8, <1>10, <2>2
  <2> QED BY <2>1, <2>2
<1>12. \A i, j \in F!Of({"message"})' : i < j => events'[i].id < events'[j].id
  BY <1>1, <1>3, <1>6, <1>7, <1>8, <1>9
<1>13. \E n \in 0 .. 2 : F!Of(PlainTypes)' = 1 .. n
  BY <1>5 DEF FetchInv, QueueInv
<1> QED BY <1>1, <1>4, <1>8, <1>11, <1>12, <1>13 DEF QueueInv

\* The first event is taken.
LEMMA ShiftKeepsQueue ==
  ASSUME F!SessionAssumption, FetchInv, ~disposed, ~closeYielded, events # <<>>, F!Shift,
         UNCHANGED <<disposed, droppedMessages, arrived>>,
         Taken' = Taken + (IF F!IsMessage(event') THEN 1 ELSE 0)
  PROVE  /\ QueueInv' /\ (F!Closed' <=> F!Closed)
         /\ events' \in Seq(F!Event) /\ event' \in F!Event
         /\ closeYielded' => events' = <<>>
         /\ \A i \in DOMAIN events' : events'[i].type = "close" => i = Len(events')
         /\ F!IsMessage(event') => event'.id = Taken + 1
<1>1. /\ events \in Seq(F!Event) /\ Len(events) \in Nat /\ Len(events) >= 1 /\ arrived \in Nat
      /\ Len(events') = Len(events) - 1 /\ events' \in Seq(F!Event)
      /\ event' = events[1] /\ event' \in F!Event
      /\ \A i \in 1 .. Len(events) - 1 : events'[i] = events[i + 1]
  BY DEF FetchInv, F!TypeOK, F!SessionAssumption, F!Shift
<1>2. DOMAIN events = 1 .. Len(events) /\ DOMAIN events' = 1 .. Len(events) - 1
  BY <1>1
<1>3. Taken \in Nat /\ droppedMessages \in Nat
  BY DEF FetchInv, F!TypeOK, Taken, F!InHand
<1>4. \A i \in 1 .. Len(events) : events[i].type = "close" => i = Len(events)
  BY <1>2 DEF FetchInv, F!TypeOK
<1>5. closeYielded' = (events[1].type = "close")
  BY DEF F!Shift
<1>6. closeYielded' => events' = <<>>
  <2>1. events[1].type = "close" => Len(events) = 1
    BY <1>1, <1>4
  <2>2. closeYielded' => Len(events') = 0
    <3>1. closeYielded' => events[1].type = "close"
      BY <1>5
    <3> QED BY <1>1, <2>1, <3>1
  <2> QED BY <1>1, <2>2, EmptySeq
<1>7. F!Closed' <=> F!Closed
  <2>1. F!Closed <=> \E i \in 1 .. Len(events) : events[i].type = "close"
    BY <1>2 DEF F!Closed
  <2>2. F!Closed' <=> closeYielded' \/ \E i \in 1 .. Len(events) - 1 : events'[i].type = "close"
    BY <1>2 DEF F!Closed
  <2>3. (\E i \in 1 .. Len(events) : events[i].type = "close") <=>
          events[1].type = "close" \/ \E i \in 1 .. Len(events) - 1 : events[i + 1].type = "close"
    <3>1. \A i \in 1 .. Len(events) : i = 1 \/ (i - 1 \in 1 .. Len(events) - 1 /\ (i - 1) + 1 = i)
      BY <1>1
    <3>2. 1 \in 1 .. Len(events) /\ \A i \in 1 .. Len(events) - 1 : i + 1 \in 1 .. Len(events)
      BY <1>1
    <3> QED BY <3>1, <3>2
  <2> QED BY <1>1, <1>5, <2>1, <2>2, <2>3
<1>8. \A i \in DOMAIN events' : events'[i].type = "close" => i = Len(events')
  BY <1>1, <1>2, <1>4
<1>9. \A T : \A i \in 1 .. Len(events) - 1 : i \in F!Of(T)' <=> i + 1 \in F!Of(T)
  BY <1>1, <1>2 DEF F!Of
<1>10. F!Of({"message"})' \subseteq 1 .. Len(events) - 1
       /\ F!Of({"message"}) \subseteq 1 .. Len(events)
       /\ F!Of(PlainTypes)' \subseteq 1 .. Len(events) - 1
       /\ F!Of(PlainTypes) \subseteq 1 .. Len(events)
  BY <1>2 DEF F!Of
<1>11. \A i, j \in F!Of({"message"})' : i < j => events'[i].id < events'[j].id
  <2> SUFFICES ASSUME NEW i \in F!Of({"message"})', NEW j \in F!Of({"message"})', i < j
               PROVE  events'[i].id < events'[j].id
    OBVIOUS
  <2>1. i \in 1 .. Len(events) - 1 /\ j \in 1 .. Len(events) - 1
    BY <1>10
  <2>2. i + 1 \in F!Of({"message"}) /\ j + 1 \in F!Of({"message"})
    BY <1>9, <2>1
  <2>3. i + 1 < j + 1
    BY <1>1, <2>1
  <2>4. events'[i] = events[i + 1] /\ events'[j] = events[j + 1]
    BY <1>1, <2>1
  <2> QED BY <2>2, <2>3, <2>4 DEF FetchInv, QueueInv
<1>12. \E n \in 0 .. 2 : F!Of(PlainTypes)' = 1 .. n
  <2>1. PICK n \in 0 .. 2 : F!Of(PlainTypes) = 1 .. n
    BY DEF FetchInv, QueueInv
  <2>2. CASE n = 0
    <3>1. F!Of(PlainTypes)' = {}
      BY <1>1, <1>9, <1>10, <2>1, <2>2
    <3> QED BY <3>1
  <2>3. CASE n # 0
    <3>1. \A i \in 1 .. Len(events) - 1 : i \in F!Of(PlainTypes)' <=> i <= n - 1
      BY <1>1, <1>9, <2>1, <2>3
    <3>2. n <= Len(events)
      BY <1>10, <2>1, <2>3
    <3>3. F!Of(PlainTypes)' = 1 .. n - 1
      <4>1. F!Of(PlainTypes)' \subseteq 1 .. n - 1
        BY <1>1, <1>10, <2>1, <3>1
      <4>2. 1 .. n - 1 \subseteq F!Of(PlainTypes)'
        BY <1>1, <2>1, <3>1, <3>2
      <4> QED BY <4>1, <4>2
    <3>4. n - 1 \in 0 .. 2
      BY <2>1, <2>3
    <3> QED BY <3>3, <3>4
  <2> QED BY <2>2, <2>3
<1>13. WaitingIds' = {events[i].id : i \in F!Of({"message"}) \ {1}}
  <2>1. ASSUME NEW x
        PROVE  x \in WaitingIds' <=> x \in {events[i].id : i \in F!Of({"message"}) \ {1}}
    <3>1. ASSUME x \in WaitingIds' PROVE x \in {events[i].id : i \in F!Of({"message"}) \ {1}}
      <4>1. PICK i \in F!Of({"message"})' : x = events'[i].id
        BY <3>1 DEF WaitingIds
      <4>2. i \in 1 .. Len(events) - 1 /\ i + 1 \in F!Of({"message"}) /\ i + 1 # 1
        BY <1>1, <1>9, <1>10
      <4>3. events'[i] = events[i + 1]
        BY <1>1, <4>2
      <4> QED BY <4>1, <4>2, <4>3
    <3>2. ASSUME x \in {events[i].id : i \in F!Of({"message"}) \ {1}} PROVE x \in WaitingIds'
      <4>1. PICK i \in F!Of({"message"}) \ {1} : x = events[i].id
        BY <3>2
      <4>2. i - 1 \in 1 .. Len(events) - 1 /\ (i - 1) + 1 = i
        BY <1>1, <1>10
      <4>3. i - 1 \in F!Of({"message"})' /\ events'[i - 1] = events[i]
        BY <1>1, <1>9, <4>2
      <4> QED BY <4>1, <4>3 DEF WaitingIds
    <3> QED BY <3>1, <3>2
  <2> QED BY <2>1
<1>14. F!IsMessage(event') <=> 1 \in F!Of({"message"})
  BY <1>1, <1>2 DEF F!Of, F!IsMessage
<1>15. CASE ~F!Closed
  <2>1. droppedMessages = 0 /\ Taken <= arrived /\ WaitingIds = (Taken + 1) .. arrived
    BY <1>15 DEF FetchInv, QueueInv
  <2>2. CASE ~F!IsMessage(event')
    <3>1. WaitingIds' = WaitingIds
      BY <1>13, <1>14, <2>2 DEF WaitingIds
    <3> QED BY <1>1, <1>3, <1>6, <1>7, <1>8, <1>11, <1>12, <1>15, <2>1, <2>2, <3>1 DEF QueueInv
  <2>3. CASE F!IsMessage(event')
    <3>1. events[1].id \in (Taken + 1) .. arrived
      BY <1>14, <2>1, <2>3 DEF WaitingIds
    <3>2. \A i \in F!Of({"message"}) \ {1} : events[1].id < events[i].id
      BY <1>1, <1>10, <1>14, <2>3 DEF FetchInv, QueueInv
    <3>3. PICK i \in F!Of({"message"}) : events[i].id = Taken + 1
      BY <1>1, <1>3, <2>1, <3>1 DEF WaitingIds
    <3>4. events[1].id = Taken + 1
      BY <1>1, <1>3, <3>1, <3>2, <3>3
    <3>5. WaitingIds' = WaitingIds \ {Taken + 1}
      <4>1. WaitingIds = {events[1].id} \cup {events[k].id : k \in F!Of({"message"}) \ {1}}
        BY <1>14, <2>3 DEF WaitingIds
      <4>2. events[1].id \notin {events[k].id : k \in F!Of({"message"}) \ {1}}
        BY <1>3, <3>2, <3>4
      <4> QED BY <1>13, <3>4, <4>1, <4>2
    <3>6. WaitingIds' = (Taken' + 1) .. arrived' /\ Taken' <= arrived'
      BY <1>1, <1>3, <2>1, <2>3, <3>1, <3>5
    <3> QED BY <1>1, <1>6, <1>7, <1>8, <1>11, <1>12, <1>15, <2>1, <3>4, <3>6 DEF QueueInv
  <2> QED BY <2>2, <2>3
<1>16. CASE F!Closed
  <2>1. WaitingIds = {} /\ Taken + droppedMessages = arrived
    BY <1>16 DEF FetchInv, QueueInv
  <2>2. ~F!IsMessage(event')
    BY <1>14, <2>1 DEF WaitingIds
  <2>3. WaitingIds' = {}
    BY <1>13, <2>1 DEF WaitingIds
  <2> QED BY <1>1, <1>3, <1>6, <1>7, <1>8, <1>11, <1>12, <1>16, <2>1, <2>2, <2>3 DEF QueueInv
<1> QED BY <1>15, <1>16

\* A step that leaves the queue and the messages alone.
LEMMA QuietKeeps ==
  ASSUME FetchInv,
         UNCHANGED <<events, closeYielded, disposed, droppedMessages, arrived, errors, given,
                     discarded, event, defined>>,
         readyState' = readyState \/ (readyState = "open" /\ readyState' = "closing"),
         acceptingData' \in BOOLEAN, acceptingData' => acceptingData,
         closeAfter' \in BOOLEAN, closeListener' \in BOOLEAN,
         F!InHand' = F!InHand,
         sessionPc' = sessionPc \/ sessionPc' \in F!Pc \ {"dispatch", "waiting", "done"},
         disposed => sessionPc' = sessionPc,
         response' \in {"none", "open", "destroyed", "ended"},
         sessionPc' \notin {"answering", "reading", "sending"} => response' # "open",
         sessionPc' = "answering" => response' \in {"open", "destroyed"},
         sessionPc' \in {"reading", "sending"} =>
           response' = "destroyed" \/ (response' = "open" /\ closeListener' /\ ~F!Closed)
  PROVE  FetchInv'
<1>1. QueueInv' /\ (F!Closed' <=> F!Closed)
  <2>1. Taken' = Taken
    BY DEF Taken
  <2> QED BY <2>1, QuietKeepsQueue DEF FetchInv
<1>2. F!TypeOK'
  BY DEF FetchInv, F!TypeOK
<1>3. PlaceInv'
  BY <1>1 DEF FetchInv, PlaceInv
<1>4. GivenInv'
  BY DEF FetchInv, GivenInv, F!GivenInOrder, F!IsMessage
<1> QED BY <1>1, <1>2, <1>3, <1>4 DEF FetchInv

\* The socket, handleConnection, and the methods of the controller.
LEMMA MethodsKeep ==
  ASSUME FetchInv,
         \/ F!PeerCloses \/ F!MethodCloses \/ F!Start \/ F!ShortCircuit
         \/ F!DispatchLifecycle \/ F!DispatchError \/ F!MethodReturns \/ F!LifecycleFails
         \/ F!MethodFails \/ F!AnswersOther \/ F!ErrorHandled
  PROVE  FetchInv'
<1> USE DEF F!PeerCloses, F!MethodCloses, F!Start, F!ShortCircuit, F!DispatchLifecycle,
           F!DispatchError, F!MethodReturns, F!LifecycleFails, F!MethodFails, F!AnswersOther,
           F!ErrorHandled, F!socketVars, F!streamVars, F!sendVars, F!sessionVars,
           F!HandleError, F!CloseSocket, F!Calls, F!DataFails, F!ThenClose
<1>1. UNCHANGED <<events, closeYielded, disposed, droppedMessages, arrived, errors, given,
                  discarded, event, defined, closeListener, response>>
  OBVIOUS
<1>2. readyState' = readyState \/ (readyState = "open" /\ readyState' = "closing")
  OBVIOUS
<1>3. acceptingData' = acceptingData \/ acceptingData' = FALSE
  OBVIOUS
<1>4. closeAfter' = closeAfter \/ closeAfter' \in BOOLEAN
  OBVIOUS
<1>5. sessionPc' = sessionPc
      \/ (sessionPc' \in {"next", "on", "onError", "unserved"}
          /\ sessionPc \in {"starting", "dispatch", "on", "onError"})
  OBVIOUS
<1>6. sessionPc = "dispatch" /\ sessionPc' # "dispatch" => event.type # "message"
  OBVIOUS
<1> HIDE DEF F!PeerCloses, F!MethodCloses, F!Start, F!ShortCircuit, F!DispatchLifecycle,
           F!DispatchError, F!MethodReturns, F!LifecycleFails, F!MethodFails, F!AnswersOther,
           F!ErrorHandled
<1>7. F!InHand' = F!InHand
  BY <1>1, <1>5, <1>6 DEF F!InHand, F!IsMessage
<1>8. /\ acceptingData' \in BOOLEAN /\ (acceptingData' => acceptingData)
      /\ closeAfter' \in BOOLEAN /\ closeListener' \in BOOLEAN
      /\ response' \in {"none", "open", "destroyed", "ended"}
  <2>1. acceptingData \in BOOLEAN /\ closeAfter \in BOOLEAN /\ closeListener \in BOOLEAN
        /\ response \in {"none", "open", "destroyed", "ended"}
    BY DEF FetchInv, F!TypeOK
  <2>2. acceptingData' \in BOOLEAN
    BY <1>3, <2>1
  <2>3. acceptingData' => acceptingData
    BY <1>3, <2>1
  <2>4. closeAfter' \in BOOLEAN /\ closeListener' \in BOOLEAN /\ response' = response
    BY <1>1, <1>4, <2>1
  <2> QED BY <2>1, <2>2, <2>3, <2>4
<1>9. /\ sessionPc' = sessionPc \/ sessionPc' \in F!Pc \ {"dispatch", "waiting", "done"}
      /\ disposed => sessionPc' = sessionPc
      /\ sessionPc' \notin {"answering", "reading", "sending"} => response' # "open"
      /\ sessionPc' = "answering" => response' \in {"open", "destroyed"}
      /\ sessionPc' \in {"reading", "sending"} =>
           response' = "destroyed" \/ (response' = "open" /\ closeListener' /\ ~F!Closed)
  BY <1>1, <1>5 DEF FetchInv, PlaceInv, F!Pc
<1> QED BY <1>1, <1>2, <1>7, <1>8, <1>9, QuietKeeps

\* sendResponse.
LEMMA SendingKeeps ==
  ASSUME FetchInv,
         \/ F!Answers \/ F!StartSending \/ F!Sent \/ F!SendFails \/ F!ResponseDestroyed
         \/ F!SendChunk \/ F!ResponseEnds \/ F!ResponseThrows
  PROVE  FetchInv'
<1> USE DEF F!Answers, F!StartSending, F!Sent, F!SendFails, F!ResponseDestroyed, F!SendChunk,
           F!ResponseEnds, F!ResponseThrows, F!Release, F!DataFails, F!HandleError,
           F!CloseSocket, F!Calls, F!socketVars, F!streamVars, F!sendVars
<1>1. UNCHANGED <<events, closeYielded, disposed, droppedMessages, arrived, errors, given,
                  discarded, event, defined, acceptingData>>
  OBVIOUS
<1>2. readyState' = readyState \/ (readyState = "open" /\ readyState' = "closing")
  OBVIOUS
<1>3. closeAfter' = closeAfter \/ closeAfter' \in BOOLEAN
  OBVIOUS
<1>4. sessionPc \in {"on", "answering", "reading", "sending"}
      /\ sessionPc' \in {"next", "onError", "answering", "reading", "sending"}
  OBVIOUS
<1>5. /\ response' \in {"none", "open", "destroyed", "ended"} /\ closeListener' \in BOOLEAN
      /\ sessionPc' \notin {"answering", "reading", "sending"} => response' # "open"
      /\ sessionPc' = "answering" => response' \in {"open", "destroyed"}
      /\ sessionPc' \in {"reading", "sending"} =>
           response' = "destroyed" \/ (response' = "open" /\ closeListener' /\ ~F!Closed)
  <2>1. CASE F!Answers
    BY <2>1 DEF FetchInv, F!TypeOK, PlaceInv
  <2>2. CASE F!StartSending
    BY <2>2 DEF FetchInv, F!TypeOK, PlaceInv
  <2>3. CASE F!Sent
    BY <2>3 DEF FetchInv, F!TypeOK, PlaceInv
  <2>4. CASE F!SendFails
    BY <2>4 DEF FetchInv, F!TypeOK, PlaceInv
  <2>5. CASE F!ResponseDestroyed
    BY <2>5 DEF FetchInv, F!TypeOK, PlaceInv
  <2>6. CASE F!SendChunk
    BY <2>6 DEF FetchInv, F!TypeOK, PlaceInv
  <2>7. CASE F!ResponseEnds
    BY <2>7 DEF FetchInv, F!TypeOK, PlaceInv
  <2>8. CASE F!ResponseThrows
    BY <2>8 DEF FetchInv, F!TypeOK, PlaceInv
  <2> QED BY <2>1, <2>2, <2>3, <2>4, <2>5, <2>6, <2>7, <2>8
<1> HIDE DEF F!Answers, F!StartSending, F!Sent, F!SendFails, F!ResponseDestroyed, F!SendChunk,
           F!ResponseEnds, F!ResponseThrows
<1>6. F!InHand' = F!InHand
  BY <1>4 DEF F!InHand
<1>7. acceptingData \in BOOLEAN /\ closeAfter \in BOOLEAN /\ ~disposed
  BY <1>4 DEF FetchInv, F!TypeOK, PlaceInv
<1> QED BY <1>1, <1>2, <1>3, <1>4, <1>5, <1>6, <1>7, QuietKeeps DEF F!Pc

\* Facts about a queue that is empty.
LEMMA EmptyQueue ==
  ASSUME events = <<>>
  PROVE  /\ \A T : F!Of(T) = {}
         /\ WaitingIds = {} /\ (F!Closed <=> closeYielded)
<1>1. DOMAIN events = {}
  OBVIOUS
<1>2. \A T : F!Of(T) = {}
  BY <1>1 DEF F!Of
<1> QED BY <1>1, <1>2 DEF WaitingIds, F!Closed

\* A message or an error is handed to the session that waits for it.
LEMMA HandOverKeeps ==
  ASSUME F!SessionAssumption, FetchInv, NEW e \in F!Event, e.type \in {"message", "error"},
         sessionPc = "waiting", sessionPc' = "dispatch", event' = e, ~disposed,
         events' = events, closeYielded' = closeYielded,
         UNCHANGED <<disposed, droppedMessages, closeListener, response, acceptingData,
                     closeAfter, given, discarded, defined>>,
         arrived' = IF e.type = "message" THEN arrived + 1 ELSE arrived,
         arrived' \in 0 .. MaxMessages, errors' \in 0 .. MaxErrors,
         readyState' \in {readyState, "closing"}, readyState # "closed",
         e.type = "message" => e.id = arrived + 1
  PROVE  FetchInv'
<1>1. events = <<>> /\ ~closeYielded /\ response # "open"
  BY DEF FetchInv, PlaceInv
<1>2. (\A T : F!Of(T) = {}) /\ WaitingIds = {} /\ ~F!Closed
  BY <1>1, EmptyQueue
<1>3. (\A T : F!Of(T)' = {}) /\ WaitingIds' = {} /\ ~F!Closed'
  BY <1>2 DEF F!Of, WaitingIds, F!Closed
<1>4. Len(given) \in Nat /\ discarded \in Nat /\ arrived \in Nat
  BY DEF FetchInv, F!TypeOK, F!SessionAssumption
<1>5. Taken = Len(given) + discarded
      /\ Taken' = Len(given) + discarded + (IF e.type = "message" THEN 1 ELSE 0)
  BY <1>4 DEF Taken, F!InHand, F!IsMessage
<1>6. droppedMessages = 0 /\ Taken = arrived
  <2>1. droppedMessages = 0 /\ Taken <= arrived /\ (Taken + 1) .. arrived = {}
    BY <1>2 DEF FetchInv, QueueInv
  <2>2. Taken < arrived => Taken + 1 \in (Taken + 1) .. arrived
    BY <1>4, <1>5
  <2> QED BY <1>4, <1>5, <2>1, <2>2
<1>7. QueueInv'
  <2>1. Taken' = arrived' /\ arrived' \in Nat
    BY <1>4, <1>5, <1>6
  <2>2. WaitingIds' = (Taken' + 1) .. arrived'
    BY <1>3, <2>1
  <2>3. 1 .. 0 = {} /\ 0 \in 0 .. 2
    OBVIOUS
  <2> QED BY <1>3, <1>6, <2>1, <2>2, <2>3 DEF QueueInv
<1>8. F!TypeOK'
  BY DEF FetchInv, F!TypeOK, F!Pc
<1>9. PlaceInv'
  BY <1>1, <1>3 DEF FetchInv, PlaceInv
<1>10. GivenInv'
  BY <1>4, <1>5, <1>6 DEF FetchInv, F!TypeOK, GivenInv, F!GivenInOrder, F!IsMessage
<1> QED BY <1>7, <1>8, <1>9, <1>10 DEF FetchInv

\* It is queued while the session is busy.
LEMMA QueuedKeeps ==
  ASSUME F!SessionAssumption, FetchInv, NEW e \in F!Event, e.type \in {"message", "error"},
         sessionPc # "waiting", ~disposed, ~F!Closed, events' = Append(events, e),
         UNCHANGED <<sessionPc, event, closeYielded, disposed, droppedMessages, closeListener,
                     response, acceptingData, closeAfter, given, discarded, defined>>,
         arrived' = IF e.type = "message" THEN arrived + 1 ELSE arrived,
         arrived' \in 0 .. MaxMessages, errors' \in 0 .. MaxErrors,
         readyState' \in {readyState, "closing"}, readyState # "closed",
         e.type = "message" => e.id = arrived + 1
  PROVE  FetchInv'
<1>1. Taken' = Taken
  BY DEF Taken, F!InHand
<1>2. QueueInv' /\ ~F!Closed' /\ events' \in Seq(F!Event)
      /\ \A i \in DOMAIN events' : events'[i].type # "close"
  BY <1>1, AppendKeepsQueue
<1>3. ~closeYielded
  BY DEF F!Closed
<1>4. F!TypeOK'
  BY <1>2, <1>3 DEF FetchInv, F!TypeOK
<1>5. PlaceInv'
  BY <1>2 DEF FetchInv, PlaceInv
<1>6. GivenInv'
  BY DEF FetchInv, F!TypeOK, GivenInv, F!GivenInOrder, F!IsMessage
<1> QED BY <1>2, <1>4, <1>5, <1>6 DEF FetchInv

LEMMA PeerKeeps ==
  ASSUME F!SessionAssumption, FetchInv, F!Arrive \/ F!SocketError
  PROVE  FetchInv'
<1>1. arrived \in Nat /\ errors \in Nat /\ closeYielded \in BOOLEAN
  BY DEF FetchInv, F!TypeOK, F!SessionAssumption
<1>2. CASE F!Arrive
  <2> DEFINE e == [type |-> "message", id |-> arrived + 1]
  <2>1. e \in F!Event /\ e.type = "message" /\ e.id = arrived + 1
    BY <1>1, <1>2 DEF F!Event, F!Arrive, F!SessionAssumption
  <2>2. /\ readyState' = readyState /\ readyState # "closed" /\ ~disposed /\ ~F!Closed
        /\ arrived' = arrived + 1 /\ arrived' \in 0 .. MaxMessages
        /\ errors' \in 0 .. MaxErrors /\ F!Enqueue(events, e)
        /\ UNCHANGED <<disposed, droppedMessages, closeListener, response, acceptingData,
                       closeAfter, given, discarded, defined>>
    BY <1>1, <1>2 DEF F!Arrive, F!Listening, F!sendVars, F!SessionAssumption, FetchInv, F!TypeOK
  <2> HIDE DEF e
  <2>3. CASE sessionPc = "waiting"
    <3>1. sessionPc' = "dispatch" /\ event' = e /\ events' = events
          /\ closeYielded' = (closeYielded \/ e.type = "close")
      BY <2>2, <2>3 DEF F!Enqueue
    <3>2. closeYielded' = closeYielded
      BY <1>1, <2>1, <3>1
    <3> QED BY <2>1, <2>2, <2>3, <3>1, <3>2, HandOverKeeps
  <2>4. CASE sessionPc # "waiting"
    <3>1. events' = Append(events, e) /\ UNCHANGED <<sessionPc, event, closeYielded>>
      BY <2>2, <2>4 DEF F!Enqueue
    <3> QED BY <2>1, <2>2, <2>4, <3>1, QueuedKeeps
  <2> QED BY <2>3, <2>4
<1>3. CASE F!SocketError
  <2> DEFINE e == F!Plain("error")
  <2>1. e \in F!Event /\ e.type = "error"
    BY DEF F!Event, F!Plain
  <2>2. /\ readyState' = "closing" /\ readyState # "closed" /\ UNCHANGED arrived
        /\ arrived' \in 0 .. MaxMessages /\ errors' \in 0 .. MaxErrors
        /\ UNCHANGED <<disposed, droppedMessages, closeListener, response, acceptingData,
                       closeAfter, given, discarded, defined>>
    BY <1>1, <1>3 DEF F!SocketError, F!sendVars, F!SessionAssumption, FetchInv, F!TypeOK
  <2>3. CASE ~disposed /\ ~F!Closed
    <3>1. F!Enqueue(events, e)
      BY <1>3, <2>3 DEF F!SocketError, F!Listening
    <3> HIDE DEF e
    <3>2. CASE sessionPc = "waiting"
      <4>1. sessionPc' = "dispatch" /\ event' = e /\ events' = events
            /\ closeYielded' = (closeYielded \/ e.type = "close")
        BY <3>1, <3>2 DEF F!Enqueue
      <4>2. closeYielded' = closeYielded
        BY <1>1, <2>1, <4>1
      <4> QED BY <2>1, <2>2, <2>3, <3>2, <4>1, <4>2, HandOverKeeps
    <3>3. CASE sessionPc # "waiting"
      <4>1. events' = Append(events, e) /\ UNCHANGED <<sessionPc, event, closeYielded>>
        BY <3>1, <3>3 DEF F!Enqueue
      <4> QED BY <2>1, <2>2, <2>3, <3>3, <4>1, QueuedKeeps
    <3> QED BY <3>2, <3>3
  <2>4. CASE disposed \/ F!Closed
    <3>1. UNCHANGED <<events, closeYielded, sessionPc, event>>
      BY <1>3, <2>4 DEF F!SocketError, F!Listening
    <3>2. ~F!Closed /\ disposed
      BY <2>2, <2>4 DEF FetchInv, PlaceInv
    <3>3. Taken' = Taken
      BY <2>2, <3>1 DEF Taken, F!InHand
    <3>4. QueueInv' /\ (F!Closed' <=> F!Closed)
      BY <2>2, <3>1, <3>3, QuietKeepsQueue DEF FetchInv
    <3>5. F!TypeOK'
      BY <2>2, <3>1 DEF FetchInv, F!TypeOK
    <3>6. PlaceInv'
      BY <2>2, <3>1, <3>2, <3>4 DEF FetchInv, PlaceInv
    <3>7. GivenInv'
      BY <2>2, <3>1 DEF FetchInv, GivenInv, F!GivenInOrder, F!IsMessage
    <3> QED BY <3>4, <3>5, <3>6, <3>7 DEF FetchInv
  <2> QED BY <2>3, <2>4
<1> QED BY <1>2, <1>3

\* The stream is disposed of: nothing of the queue is left.
LEMMA DisposeKeeps ==
  ASSUME F!SessionAssumption, FetchInv, F!Dispose, sessionPc \notin {"dispatch"},
         sessionPc' = "done", sessionPc \notin {"answering", "reading", "sending"},
         readyState' = readyState \/ (readyState = "open" /\ readyState' = "closing"),
         UNCHANGED <<closeYielded, droppedMessages, closeListener, response, acceptingData,
                     event, closeAfter, given, discarded, defined, arrived, errors>>
  PROVE  FetchInv'
<1>1. disposed' = TRUE /\ events' = <<>>
  BY DEF F!Dispose
<1>2. DOMAIN events' = {} /\ events' \in Seq(F!Event)
  BY <1>1
<1>3. \A T : F!Of(T)' = {}
  BY <1>2 DEF F!Of
<1>4. QueueInv'
  <2>1. 1 .. 0 = {} /\ 0 \in 0 .. 2
    OBVIOUS
  <2> QED BY <1>1, <1>3, <2>1 DEF QueueInv
<1>5. F!TypeOK'
  BY <1>1, <1>2 DEF FetchInv, F!TypeOK, F!Pc
<1>6. F!Closed' => F!Closed
  BY <1>2 DEF F!Closed
<1>7. PlaceInv'
  BY <1>1, <1>6 DEF FetchInv, PlaceInv
<1>8. GivenInv'
  BY DEF FetchInv, GivenInv, F!GivenInOrder, F!IsMessage
<1> QED BY <1>4, <1>5, <1>7, <1>8 DEF FetchInv

LEMMA OverKeeps ==
  ASSUME F!SessionAssumption, FetchInv, F!StartFails \/ F!Unserved
  PROVE  FetchInv'
<1>1. F!Dispose /\ sessionPc \in {"starting", "unserved"} /\ sessionPc' = "done"
      /\ UNCHANGED <<closeYielded, droppedMessages, closeListener, response, acceptingData,
                     event, closeAfter, given, discarded, defined, arrived, errors>>
  BY DEF F!StartFails, F!Unserved, F!socketVars, F!sendVars
<1>2. readyState' = readyState \/ (readyState = "open" /\ readyState' = "closing")
  BY DEF F!StartFails, F!Unserved, F!CloseSocket, F!socketVars
<1> QED BY <1>1, <1>2, DisposeKeeps

\* The session asks for the next event.
LEMMA TakeNextKeeps ==
  ASSUME F!SessionAssumption, FetchInv, F!TakeNext
  PROVE  FetchInv'
<1>1. /\ sessionPc = "next" /\ ~disposed /\ response # "open"
      /\ UNCHANGED <<readyState, arrived, errors, droppedMessages, closeListener, response,
                     acceptingData, closeAfter, given, discarded, defined>>
  BY DEF F!TakeNext, F!socketVars, F!sendVars, FetchInv, PlaceInv
<1>2. CASE closeYielded
  BY <1>1, <1>2, DisposeKeeps DEF F!TakeNext
<1>3. CASE ~closeYielded /\ events # <<>>
  <2>1. F!Shift /\ sessionPc' = "dispatch" /\ disposed' = disposed
    BY <1>3 DEF F!TakeNext
  <2>2. Len(given) \in Nat /\ discarded \in Nat
    BY DEF FetchInv, F!TypeOK
  <2>3. Taken = Len(given) + discarded
        /\ Taken' = Taken + (IF F!IsMessage(event') THEN 1 ELSE 0)
    <3>1. F!InHand = 0 /\ F!InHand' = IF F!IsMessage(event') THEN 1 ELSE 0
      BY <1>1, <2>1 DEF F!InHand, F!IsMessage
    <3> QED BY <1>1, <2>2, <3>1 DEF Taken
  <2>4. /\ QueueInv' /\ (F!Closed' <=> F!Closed)
        /\ events' \in Seq(F!Event) /\ event' \in F!Event
        /\ closeYielded' => events' = <<>>
        /\ \A i \in DOMAIN events' : events'[i].type = "close" => i = Len(events')
        /\ F!IsMessage(event') => event'.id = Taken + 1
    BY <1>1, <1>3, <2>1, <2>3, ShiftKeepsQueue
  <2>5. closeYielded' \in BOOLEAN
    BY <2>1 DEF F!Shift
  <2>6. F!TypeOK'
    BY <1>1, <2>1, <2>4, <2>5 DEF FetchInv, F!TypeOK, F!Pc
  <2>7. PlaceInv'
    BY <1>1, <2>1, <2>4 DEF FetchInv, PlaceInv
  <2>8. GivenInv'
    BY <1>1, <2>1, <2>2, <2>3, <2>4 DEF FetchInv, GivenInv, F!GivenInOrder, F!IsMessage
  <2> QED BY <2>4, <2>6, <2>7, <2>8 DEF FetchInv
<1>4. CASE ~closeYielded /\ events = <<>>
  <2>1. sessionPc' = "waiting" /\ UNCHANGED <<events, closeYielded, disposed, event>>
    BY <1>4 DEF F!TakeNext
  <2>2. Taken' = Taken
    BY <1>1, <2>1 DEF Taken, F!InHand
  <2>3. QueueInv' /\ (F!Closed' <=> F!Closed)
    BY <1>1, <2>1, <2>2, QuietKeepsQueue DEF FetchInv
  <2>4. F!TypeOK'
    BY <1>1, <2>1 DEF FetchInv, F!TypeOK, F!Pc
  <2>5. PlaceInv'
    BY <1>1, <1>4, <2>1, <2>3 DEF FetchInv, PlaceInv
  <2>6. GivenInv'
    BY <1>1, <2>1 DEF FetchInv, GivenInv, F!GivenInOrder, F!IsMessage
  <2> QED BY <2>3, <2>4, <2>5, <2>6 DEF FetchInv
<1> QED BY <1>2, <1>3, <1>4 DEF F!TakeNext

\* A message is given to the method for data, or discarded.
LEMMA MessageKeeps ==
  ASSUME F!SessionAssumption, FetchInv, F!DispatchMessage
  PROVE  FetchInv'
<1>1. /\ sessionPc = "dispatch" /\ F!IsMessage(event) /\ ~disposed /\ response # "open"
      /\ event.id = Len(given) + discarded + 1
      /\ UNCHANGED <<readyState, arrived, errors, events, closeYielded, disposed,
                     droppedMessages, closeListener, response, acceptingData, event,
                     closeAfter, defined>>
  BY DEF F!DispatchMessage, F!IsData, F!socketVars, F!streamVars, F!sendVars, FetchInv,
         PlaceInv, GivenInv
<1>2. Len(given) \in Nat /\ discarded \in Nat /\ given \in Seq(1 .. MaxMessages)
      /\ event.id \in 1 .. MaxMessages
  BY <1>1 DEF FetchInv, F!TypeOK, F!Event, F!IsMessage
<1>3. CASE F!Open
  <2>1. sessionPc' = "on" /\ given' = Append(given, event.id) /\ discarded' = discarded
    BY <1>3 DEF F!DispatchMessage
  <2>2. discarded = 0
    BY <1>2, <1>3 DEF F!Open, FetchInv, GivenInv
  <2>3. Len(given') = Len(given) + 1 /\ given' \in Seq(1 .. MaxMessages)
        /\ DOMAIN given = 1 .. Len(given) /\ DOMAIN given' = 1 .. Len(given) + 1
        /\ given'[Len(given) + 1] = event.id
        /\ \A i \in 1 .. Len(given) : given'[i] = given[i]
    BY <1>2, <2>1
  <2>4. Taken' = Taken
    BY <1>1, <1>2, <2>1, <2>3 DEF Taken, F!InHand, F!IsMessage
  <2>5. QueueInv' /\ (F!Closed' <=> F!Closed)
    BY <1>1, <2>4, QuietKeepsQueue DEF FetchInv
  <2>6. F!TypeOK'
    BY <1>1, <2>1, <2>3 DEF FetchInv, F!TypeOK, F!Pc
  <2>7. PlaceInv'
    BY <1>1, <2>1, <2>5 DEF FetchInv, PlaceInv
  <2>8. F!GivenInOrder'
    BY <1>1, <1>2, <2>2, <2>3 DEF FetchInv, GivenInv, F!GivenInOrder
  <2>9. GivenInv'
    BY <1>2, <2>1, <2>2, <2>8 DEF GivenInv
  <2> QED BY <2>5, <2>6, <2>7, <2>9 DEF FetchInv
<1>4. CASE ~F!Open
  <2>1. sessionPc' = "next" /\ discarded' = discarded + 1 /\ given' = given
    BY <1>4 DEF F!DispatchMessage
  <2>2. Taken' = Taken
    BY <1>1, <1>2, <2>1 DEF Taken, F!InHand, F!IsMessage
  <2>3. QueueInv' /\ (F!Closed' <=> F!Closed)
    BY <1>1, <2>2, QuietKeepsQueue DEF FetchInv
  <2>4. F!TypeOK'
    BY <1>1, <1>2, <2>1 DEF FetchInv, F!TypeOK, F!Pc
  <2>5. PlaceInv'
    BY <1>1, <2>1, <2>3 DEF FetchInv, PlaceInv
  <2>6. ~acceptingData \/ readyState # "open"
    BY <1>4 DEF F!Open, FetchInv, PlaceInv
  <2>7. GivenInv'
    BY <1>1, <2>1, <2>6 DEF FetchInv, GivenInv, F!GivenInOrder
  <2> QED BY <2>3, <2>4, <2>5, <2>7 DEF FetchInv
<1> QED BY <1>3, <1>4

\* What onClose keeps are the events that stand before those of the peer.
LEMMA KeptEvents ==
  ASSUME F!SessionAssumption, FetchInv
  PROVE  /\ F!Kept \in Seq(F!Event) /\ Len(F!Kept) \in 0 .. 2
         /\ \A i \in 1 .. Len(F!Kept) : F!Kept[i].type \in PlainTypes
<1>1. PICK n \in 0 .. 2 : F!Of(PlainTypes) = 1 .. n
  BY DEF FetchInv, QueueInv
<1>2. events \in Seq(F!Event) /\ Len(events) \in Nat
  BY DEF FetchInv, F!TypeOK
<1>3. \A i \in 1 .. n : i \in 1 .. Len(events) /\ events[i] \in F!Event
                        /\ events[i].type \in PlainTypes
  <2>1. DOMAIN events = 1 .. Len(events)
    BY <1>2
  <2>2. \A i \in 1 .. n : i \in DOMAIN events /\ events[i].type \in PlainTypes
    BY <1>1 DEF F!Of
  <2> QED BY <1>2, <2>1, <2>2
<1>4. F!Cardinality(F!Of(PlainTypes)) = n
  <2>1. Cardinality(1 .. n) = IF 1 > n THEN 0 ELSE n - 1 + 1
    BY <1>1, FS_Interval
  <2> QED BY <1>1, <2>1, CountsAlike
<1>5. F!Kept = SubSeq(events, 1, n)
  BY <1>4 DEF F!Kept, PlainTypes
<1>6. /\ SubSeq(events, 1, n) \in Seq(F!Event) /\ Len(SubSeq(events, 1, n)) = n
      /\ \A i \in 1 .. n : SubSeq(events, 1, n)[i] = events[i]
  <2>1. n \in Int /\ \A i \in 1 .. n : events[i] \in F!Event
    BY <1>1, <1>3
  <2>2. /\ SubSeq(events, 1, n) \in Seq(F!Event)
        /\ Len(SubSeq(events, 1, n)) = IF 1 <= n THEN n - 1 + 1 ELSE 0
        /\ \A i \in 1 .. n - 1 + 1 : SubSeq(events, 1, n)[i] = events[1 + i - 1]
    BY <2>1, SubSeqProperties
  <2> QED BY <1>1, <2>2
<1> QED BY <1>1, <1>3, <1>5, <1>6

\* The socket closes: what waits is counted and dropped, and the stream that is
\* being sent is destroyed.
LEMMA SocketClosesKeeps ==
  ASSUME F!SessionAssumption, FetchInv, F!SocketCloses
  PROVE  FetchInv'
<1>1. /\ readyState = "closing" /\ readyState' = "closed" /\ ~F!Closed
      /\ UNCHANGED <<arrived, errors, disposed, acceptingData, closeAfter, given, discarded,
                     defined>>
  BY DEF F!SocketCloses, FetchInv, PlaceInv
<1>2. CASE disposed
  <2>1. UNCHANGED <<events, closeYielded, sessionPc, event, droppedMessages, closeListener,
                    response>>
    BY <1>2 DEF F!SocketCloses, F!sendVars
  <2>2. Taken' = Taken
    BY <1>1, <2>1 DEF Taken, F!InHand
  <2>3. QueueInv' /\ (F!Closed' <=> F!Closed)
    BY <1>1, <2>1, <2>2, QuietKeepsQueue DEF FetchInv
  <2>4. F!TypeOK'
    BY <1>1, <2>1 DEF FetchInv, F!TypeOK
  <2>5. PlaceInv'
    BY <1>1, <2>1, <2>3 DEF FetchInv, PlaceInv
  <2>6. GivenInv'
    BY <1>1, <2>1 DEF FetchInv, GivenInv, F!GivenInOrder, F!IsMessage
  <2> QED BY <2>3, <2>4, <2>5, <2>6 DEF FetchInv
<1>3. CASE ~disposed
  <2> DEFINE e == F!Plain("close")
  <2>1. e \in F!Event /\ e.type = "close"
    BY DEF F!Event, F!Plain
  <2>2. /\ F!CallListeners /\ droppedMessages' = droppedMessages + F!Dropped
        /\ F!Enqueue(F!Kept, e)
    BY <1>3 DEF F!SocketCloses
  <2> HIDE DEF e
  <2>3. /\ Taken \in Nat /\ arrived \in Nat /\ droppedMessages = 0 /\ Taken <= arrived
        /\ F!Dropped = arrived - Taken
    <3>1. Taken \in Nat /\ arrived \in Nat
      BY DEF FetchInv, F!TypeOK, F!SessionAssumption, Taken, F!InHand
    <3>2. droppedMessages = 0 /\ Taken <= arrived
      BY <1>1, <1>3 DEF FetchInv, QueueInv
    <3>3. F!Dropped = arrived - Taken
      BY <1>1, <1>3, Accounted, CountsAlike DEF F!Dropped
    <3> QED BY <3>1, <3>2, <3>3
  <2>4. droppedMessages' \in Nat /\ Taken + droppedMessages' = arrived'
    BY <1>1, <2>2, <2>3
  <2>5. /\ response' \in {"none", "destroyed", "ended", response} /\ closeListener' = FALSE
        /\ closeListener /\ response = "open" => response' = "destroyed"
    BY <2>2 DEF F!CallListeners
  <2>6. /\ response' \in {"none", "open", "destroyed", "ended"}
        /\ sessionPc \notin {"answering", "reading", "sending"} => response' # "open"
        /\ sessionPc = "answering" => response' \in {"open", "destroyed"}
        /\ sessionPc \in {"reading", "sending"} => response' = "destroyed"
    BY <1>1, <2>2, <2>5 DEF FetchInv, F!TypeOK, PlaceInv, F!CallListeners
  <2>7. CASE sessionPc = "waiting"
    <3>1. /\ sessionPc' = "dispatch" /\ event' = e /\ events' = F!Kept /\ closeYielded' = TRUE
      BY <2>1, <2>2, <2>7 DEF F!Enqueue
    <3>2. events = <<>> /\ response # "open"
      BY <2>7 DEF FetchInv, PlaceInv
    <3>3. events' = <<>>
      <4>1. Len(F!Kept) = 0 /\ F!Kept \in Seq(F!Event)
        <5>1. F!Of(PlainTypes) = {}
          BY <3>2, EmptyQueue
        <5>2. F!Cardinality(F!Of(PlainTypes)) = 0
          BY <5>1, CountsAlike, FS_EmptySet
        <5>3. F!Kept = SubSeq(events, 1, 0)
          BY <5>2 DEF F!Kept, PlainTypes
        <5>4. F!Kept = <<>>
          BY <5>3, SubSeqEmpty
        <5> QED BY <5>4
      <4> QED BY <3>1, <4>1, EmptySeq
    <3>4. (\A T : F!Of(T)' = {}) /\ WaitingIds' = {} /\ F!Closed'
      <4>1. (\A T : F!Of(T) = {}) /\ WaitingIds = {} /\ events' = events
        BY <3>2, <3>3, EmptyQueue
      <4> QED BY <3>1, <4>1 DEF F!Of, WaitingIds, F!Closed
    <3>5. Taken' = Taken
      BY <1>1, <2>1, <2>7, <3>1 DEF Taken, F!InHand, F!IsMessage
    <3>6. QueueInv'
      <4>1. 1 .. 0 = {} /\ 0 \in 0 .. 2
        OBVIOUS
      <4> QED BY <2>4, <3>4, <3>5, <4>1 DEF QueueInv
    <3>7. F!TypeOK'
      BY <1>1, <2>1, <2>4, <2>5, <2>6, <3>1, <3>2, <3>3 DEF FetchInv, F!TypeOK, F!Pc
    <3>8. PlaceInv'
      BY <1>1, <1>3, <2>6, <2>7, <3>1 DEF PlaceInv
    <3>9. GivenInv'
      BY <1>1, <2>1, <3>1 DEF FetchInv, GivenInv, F!GivenInOrder, F!IsMessage
    <3> QED BY <3>6, <3>7, <3>8, <3>9 DEF FetchInv
  <2>8. CASE sessionPc # "waiting"
    <3>1. events' = Append(F!Kept, e) /\ UNCHANGED <<sessionPc, event, closeYielded>>
      BY <2>2, <2>8 DEF F!Enqueue
    <3>2. /\ Len(F!Kept) \in 0 .. 2 /\ events' \in Seq(F!Event)
          /\ DOMAIN events' = 1 .. Len(F!Kept) + 1 /\ Len(events') = Len(F!Kept) + 1
          /\ \A i \in 1 .. Len(F!Kept) : events'[i].type \in PlainTypes
          /\ events'[Len(F!Kept) + 1].type = "close"
      BY <2>1, <3>1, KeptEvents
    <3>3. F!Of(PlainTypes)' = 1 .. Len(F!Kept)
      BY <3>2 DEF F!Of, PlainTypes
    <3>4. F!Of({"message"})' = {} /\ WaitingIds' = {} /\ F!Closed'
      <4>1. F!Of({"message"})' = {}
        BY <3>2 DEF F!Of, PlainTypes
      <4>2. F!Closed'
        BY <3>2 DEF F!Closed
      <4> QED BY <4>1, <4>2 DEF WaitingIds
    <3>5. Taken' = Taken
      BY <1>1, <3>1 DEF Taken, F!InHand
    <3>6. QueueInv'
      BY <2>4, <3>2, <3>3, <3>4, <3>5 DEF QueueInv
    <3>7. ~closeYielded
      BY <1>1 DEF F!Closed
    <3>8. \A i \in DOMAIN events' : events'[i].type = "close" => i = Len(events')
      BY <3>2 DEF PlainTypes
    <3>9. F!TypeOK'
      BY <1>1, <2>4, <2>5, <2>6, <3>1, <3>2, <3>7, <3>8 DEF FetchInv, F!TypeOK
    <3>10. PlaceInv'
      BY <1>1, <1>3, <2>6, <2>8, <3>1 DEF PlaceInv
    <3>11. GivenInv'
      BY <1>1, <3>1 DEF FetchInv, GivenInv, F!GivenInOrder, F!IsMessage
    <3> QED BY <3>6, <3>9, <3>10, <3>11 DEF FetchInv
  <2> QED BY <2>7, <2>8
<1> QED BY <1>2, <1>3

LEMMA NextFetch ==
  F!SessionAssumption /\ FetchInv /\ [F!Next]_(F!vars) => FetchInv'
<1> SUFFICES ASSUME F!SessionAssumption, FetchInv, [F!Next]_(F!vars) PROVE FetchInv'
  OBVIOUS
<1>1. CASE F!Environment
  BY <1>1, PeerKeeps, MethodsKeep, SocketClosesKeeps DEF F!Environment
<1>2. CASE F!Session
  BY <1>2, MethodsKeep, OverKeeps, TakeNextKeeps, MessageKeeps, SendingKeeps DEF F!Session
<1>3. CASE F!Response
  BY <1>3, SendingKeeps DEF F!Response
<1>4. CASE UNCHANGED F!vars
  <2>1. UNCHANGED <<readyState, arrived, errors, events, closeYielded, disposed, droppedMessages,
                    closeListener, response, acceptingData, sessionPc, event, closeAfter, given,
                    discarded, defined>>
    BY <1>4 DEF F!vars, F!socketVars, F!streamVars, F!sendVars, F!sessionVars
  <2>2. Taken' = Taken
    BY <2>1 DEF Taken, F!InHand
  <2>3. QueueInv' /\ (F!Closed' <=> F!Closed)
    BY <2>1, <2>2, QuietKeepsQueue DEF FetchInv
  <2> QED BY <2>1, <2>3 DEF FetchInv, F!TypeOK, PlaceInv, GivenInv, F!GivenInOrder, F!IsMessage
<1> QED BY <1>1, <1>2, <1>3, <1>4 DEF F!Next

\* What the run checks of a fetch session follows.
LEMMA NothingLost ==
  ASSUME F!SessionAssumption, FetchInv
  PROVE  NothingIsLostSilently
<1>1. F!GivenInOrder
  BY DEF FetchInv, GivenInv
<1>2. F!MessagesAreAccounted
  BY Accounted
<1>3. F!ResponseIsReleased
  BY DEF FetchInv, PlaceInv, F!ResponseIsReleased
<1> QED BY <1>1, <1>2, <1>3 DEF NothingIsLostSilently

-----------------------------------------------------------------------------
(* The event stream of an agent run *)
(*                                                                            *)
(* That each client gets the stored events it asked for exactly once and in   *)
(* order, and misses none, is not inductive.  What carries it is where an     *)
(* event a client has not got yet can still be: in the part of the file its   *)
(* read has not reached (Reads), in the queue of its listener once the read   *)
(* met the end of the file (CatchesUp), and in the queue alone after that     *)
(* (Drains).                                                                  *)

\* The file holds ascending numbers, none above lastSeq, and `done' leaves no
\* room for another.
FileInv ==
  /\ Ascending(file)
  /\ 1 <= Len(file) /\ Len(file) <= lastSeq
  /\ \A seq \in Range(file) : seq <= lastSeq
  /\ ~done => lastSeq < MaxEvents
  /\ ~buffered => done

\* What a client got: all there is between after and lastWrittenSeq, in order.
Got(c) ==
  /\ after[c] <= lastWrittenSeq[c]
  /\ lastWrittenSeq[c] <= lastSeq
  /\ Ascending(written[c])
  /\ Range(written[c]) = {seq \in Due(c) : seq <= lastWrittenSeq[c]}

\* A read in progress has handed over every line before readPos.
Reads(c) ==
  Reading(c) =>
    /\ readPos[c] <= Len(file)
    /\ readEnd[c] # NotYet => readPos[c] <= readEnd[c] /\ readEnd[c] <= Len(file)
    /\ \A i \in 1 .. Len(file) : i <= readPos[c] => file[i] <= lastWrittenSeq[c]

\* The file of a run that is over does not grow while it is read.
ReadsStored(c) ==
  pc[c] = "stored" => done /\ readEnd[c] \in {NotYet, Len(file)}

Queued(c) ==
  /\ Ascending(queue[c])
  /\ Range(queue[c]) \subseteq Range(file)

\* The lines beyond the end that the second read met came to the listener.
CatchesUp(c) ==
  pc[c] = "catch_up" /\ readEnd[c] # NotYet =>
    \A i \in 1 .. Len(file) : i > readEnd[c] => file[i] \in Range(queue[c])

Live(c) == pc[c] \in {"catch_up", "drain", "wait"}

\* After the second read an event is written or queued.
Drains(c) ==
  pc[c] \in {"drain", "wait"} =>
    \A seq \in Range(file) : seq <= lastWrittenSeq[c] \/ seq \in Range(queue[c])

Waits(c) == pc[c] = "wait" => queue[c] = <<>> /\ ~done

Listens(c) == Live(c) => listening[c] \/ done

Ended(c) ==
  pc[c] = "ended" => done /\ \A seq \in Range(file) : seq <= lastWrittenSeq[c]

Fresh(c) == pc[c] = "idle" => written[c] = <<>>

ClientInv(c) ==
  /\ Fresh(c) /\ Got(c) /\ Reads(c) /\ ReadsStored(c) /\ Queued(c) /\ CatchesUp(c)
  /\ Drains(c) /\ Waits(c) /\ Listens(c) /\ Ended(c)

EventsInv == TypeOK /\ FileInv /\ \A c \in Clients : ClientInv(c)

(* Sequences *)

\* A number above all others keeps a sequence ascending when appended.
LEMMA AppendAscending ==
  ASSUME NEW s \in Seq(Nat), NEW x \in Nat
  PROVE  /\ Range(Append(s, x)) = Range(s) \cup {x}
         /\ Ascending(s) /\ (\A y \in Range(s) : y < x) => Ascending(Append(s, x))
<1> DEFINE t == Append(s, x)
<1>1. /\ Len(t) = Len(s) + 1 /\ DOMAIN t = 1 .. Len(s) + 1
      /\ \A i \in 1 .. Len(s) : t[i] = s[i]
      /\ t[Len(s) + 1] = x
      /\ DOMAIN s = 1 .. Len(s) /\ Len(s) \in Nat
  OBVIOUS
<1>2. \A i \in 1 .. Len(s) + 1 : i \in 1 .. Len(s) \/ i = Len(s) + 1
  BY <1>1
<1>3. Range(t) = Range(s) \cup {x}
  BY <1>1, <1>2 DEF Range
<1>4. ASSUME Ascending(s), \A y \in Range(s) : y < x
      PROVE  Ascending(t)
  <2> SUFFICES ASSUME NEW i \in 1 .. Len(t), NEW j \in 1 .. Len(t), i < j
               PROVE  t[i] < t[j]
    BY DEF Ascending
  <2>1. i \in 1 .. Len(s)
    BY <1>1
  <2>2. s[i] \in Range(s)
    BY <2>1, <1>1 DEF Range
  <2> QED
    BY <1>1, <1>2, <1>4, <2>1, <2>2 DEF Ascending
<1> QED
  BY <1>3, <1>4

\* The head of an ascending sequence is below the rest.
LEMMA HeadAscending ==
  ASSUME NEW s \in Seq(Nat), s # <<>>, Ascending(s)
  PROVE  /\ Tail(s) \in Seq(Nat) /\ Ascending(Tail(s))
         /\ Head(s) \in Nat
         /\ Range(s) = {Head(s)} \cup Range(Tail(s))
         /\ \A y \in Range(s) : Head(s) <= y
<1> DEFINE t == Tail(s)
<1>1. /\ t \in Seq(Nat) /\ Len(s) \in Nat /\ Len(s) > 0
      /\ Len(t) = Len(s) - 1 /\ DOMAIN t = 1 .. Len(s) - 1
      /\ \A i \in 1 .. Len(s) - 1 : t[i] = s[i + 1]
      /\ Head(s) = s[1]
      /\ DOMAIN s = 1 .. Len(s)
      /\ \A i \in 1 .. Len(s) : s[i] \in Nat
  OBVIOUS
<1>2. Ascending(t)
  BY <1>1 DEF Ascending
<1>3. \A i \in 1 .. Len(s) : i = 1 \/ (i - 1 \in 1 .. Len(s) - 1 /\ s[i] = t[i - 1])
  BY <1>1
<1>4. ASSUME NEW y \in Range(s)
      PROVE  y = Head(s) \/ y \in Range(t)
  <2>1. PICK i \in 1 .. Len(s) : y = s[i]
    BY <1>1 DEF Range
  <2>2. i = 1 \/ (i - 1 \in DOMAIN t /\ y = t[i - 1])
    BY <1>1, <1>3, <2>1
  <2> QED
    BY <1>1, <2>1, <2>2 DEF Range
<1>5. ASSUME NEW y \in Range(t)
      PROVE  y \in Range(s)
  <2>1. PICK i \in 1 .. Len(s) - 1 : y = t[i]
    BY <1>1 DEF Range
  <2>2. i + 1 \in DOMAIN s /\ y = s[i + 1]
    BY <1>1, <2>1
  <2> QED
    BY <2>2 DEF Range
<1>6. Head(s) \in Range(s)
  BY <1>1 DEF Range
<1>7. ASSUME NEW y \in Range(s)
      PROVE  Head(s) <= y
  <2>1. PICK i \in 1 .. Len(s) : y = s[i]
    BY <1>1 DEF Range
  <2> QED
    BY <1>1, <2>1 DEF Ascending
<1>8. Range(s) = {Head(s)} \cup Range(t)
  BY <1>4, <1>5, <1>6
<1>9. Head(s) \in Nat
  BY <1>1
<1> QED
  BY <1>1, <1>2, <1>7, <1>8, <1>9

LEMMA Numbers ==
  ASSUME NEW s \in Seq(1 .. MaxEvents)
  PROVE  s \in Seq(Nat)
<1>1. 1 .. MaxEvents \subseteq Nat
  BY EventsAssumption
<1> QED
  BY <1>1, SeqMonotonic, Zenon

\* A listener's queue with one event more, and with none.
LEMMA Concatenations ==
  ASSUME NEW S, NEW s \in Seq(S), NEW x \in S
  PROVE  /\ s \o <<x>> = Append(s, x) /\ Append(s, x) \in Seq(S)
         /\ s \o <<>> = s
OBVIOUS

-----------------------------------------------------------------------------
(* What one client's step leaves alone *)

SameAt(d) ==
  /\ pc'[d] = pc[d] /\ after'[d] = after[d] /\ written'[d] = written[d]
  /\ lastWrittenSeq'[d] = lastWrittenSeq[d] /\ readPos'[d] = readPos[d]
  /\ readEnd'[d] = readEnd[d] /\ queue'[d] = queue[d]
  /\ listening'[d] = listening[d]

LEMMA Frame ==
  ASSUME NEW d \in Clients, ClientInv(d), SameAt(d), UNCHANGED <<file, lastSeq, done>>
  PROVE  ClientInv(d)'
BY DEF ClientInv, SameAt, Got, Reads, ReadsStored, Queued, CatchesUp, Drains,
       Waits, Listens, Ended, Fresh, Due, Reading, Live, NotYet

-----------------------------------------------------------------------------
(* Types *)

LEMMA EventsTypes ==
  ASSUME EventsInv, [Next]_vars
  PROVE  TypeOK'
<1> USE EventsAssumption DEF TypeOK
<1> TypeOK /\ FileInv
  BY DEF EventsInv
<1>1. CASE pushEvent /\ ~done /\ done' \in BOOLEAN /\ UNCHANGED <<buffered, failing, faults>>
  <2>1. lastSeq' \in 1 .. MaxEvents
    <3>1. lastSeq < MaxEvents /\ lastSeq' = lastSeq + 1
      BY <1>1 DEF FileInv, pushEvent
    <3> QED
      BY <3>1
  <2>2. file' \in Seq(1 .. MaxEvents)
    BY <1>1, <2>1 DEF pushEvent
  <2>3. queue' \in [Clients -> Seq(1 .. MaxEvents)]
    <3>1. \A c \in Clients : queue[c] \o <<lastSeq'>> \in Seq(1 .. MaxEvents)
      BY <2>1, Concatenations
    <3> QED
      BY <1>1, <3>1 DEF pushEvent, Emit
  <2> QED
    BY <1>1, <2>1, <2>2, <2>3 DEF pushEvent, Emit, Pc, Finished
<1>2. CASE PushThrows
  BY <1>2 DEF PushThrows, clientVars
<1>3. CASE LastThrows
  <2>1. queue' \in [Clients -> Seq(1 .. MaxEvents)]
    BY <1>3 DEF LastThrows, Emit
  <2>2. lastSeq' \in 1 .. MaxEvents /\ faults' \in 0 .. MaxFaults
    BY <1>3 DEF LastThrows, FileInv
  <2> QED
    BY <1>3, <2>1, <2>2 DEF LastThrows, Emit, Pc, Finished
<1>4. CASE ReleaseBuffer
  BY <1>4 DEF ReleaseBuffer
<1>5. ASSUME NEW c \in Clients, NEW seq \in 0 .. lastSeq, Connect(c, seq)
      PROVE  TypeOK'
  BY <1>5 DEF Connect, At, Goes, StartRead, runVars, Pc, Finished, NotYet
<1>6. ASSUME NEW c \in Clients, MeetEnd(c)
      PROVE  TypeOK'
  <2>1. Len(file) \in 1 .. NotYet
    BY DEF FileInv, NotYet
  <2>2. readEnd' \in [Clients -> 1 .. NotYet]
    BY <1>6, <2>1 DEF MeetEnd
  <2> QED
    BY <1>6, <2>2 DEF MeetEnd, runVars
<1>7. ASSUME NEW c \in Clients, NEW seq \in 1 .. MaxEvents, Deliver(c, seq)
      PROVE  /\ pc' \in [Clients -> Pc] /\ listening' \in [Clients -> BOOLEAN]
             /\ written' \in [Clients -> Seq(1 .. MaxEvents)]
             /\ lastWrittenSeq' \in [Clients -> 0 .. MaxEvents]
  <2>1. Append(written[c], seq) \in Seq(1 .. MaxEvents)
    BY <1>7
  <2>2. seq \in 0 .. MaxEvents
    BY <1>7
  <2> QED
    BY <1>7, <2>1, <2>2 DEF Deliver, Leave, Goes, Pc, Finished
<1>8. ASSUME NEW c \in Clients, ReadLine(c)
      PROVE  TypeOK'
  <2>1. file[readPos[c] + 1] \in 1 .. MaxEvents
    BY <1>8 DEF ReadLine
  <2>2. readPos' \in [Clients -> 0 .. MaxEvents]
    BY <1>8 DEF ReadLine, FileInv
  <2> QED
    BY <1>8, <1>7, <2>1, <2>2 DEF ReadLine, runVars
<1>9. ASSUME NEW c \in Clients, DrainOne(c)
      PROVE  TypeOK'
  <2>1. Head(queue[c]) \in 1 .. MaxEvents /\ Tail(queue[c]) \in Seq(1 .. MaxEvents)
    BY <1>9 DEF DrainOne
  <2>2. queue' \in [Clients -> Seq(1 .. MaxEvents)]
    BY <1>9, <2>1 DEF DrainOne
  <2> QED
    BY <1>9, <1>7, <2>1, <2>2 DEF DrainOne, runVars
<1>10. ASSUME NEW c \in Clients,
              ReplayedAll(c) \/ Listen(c) \/ CaughtUp(c) \/ Drained(c) \/ Heartbeat(c) \/ Close(c)
       PROVE  TypeOK'
  <2> USE DEF Goes, At, runVars, Pc, Finished
  <2>1. CASE ReplayedAll(c)
    BY <2>1 DEF ReplayedAll
  <2>2. CASE Listen(c)
    BY <2>2 DEF Listen, StartRead, NotYet
  <2>3. CASE CaughtUp(c)
    BY <2>3 DEF CaughtUp
  <2>4. CASE Drained(c)
    BY <2>4 DEF Drained, Ends, Leave
  <2>5. CASE Heartbeat(c)
    BY <2>5 DEF Heartbeat, Leave
  <2>6. CASE Close(c)
    BY <2>6 DEF Close
  <2> QED
    BY <1>10, <2>1, <2>2, <2>3, <2>4, <2>5, <2>6
<1>11. CASE UNCHANGED vars
  BY <1>11 DEF vars, runVars, clientVars
<1> QED
  BY <1>1, <1>2, <1>3, <1>4, <1>5, <1>6, <1>8, <1>9, <1>10, <1>11
     DEF Next, Worker, Client, PushMessage, PushLastAndFinish, Stopped

-----------------------------------------------------------------------------
(* The worker's steps *)

LEMMA FileFacts ==
  ASSUME EventsInv
  PROVE  /\ file \in Seq(Nat) /\ lastSeq \in Nat
         /\ \A seq \in Range(file) : seq \in Nat /\ seq <= lastSeq
<1>1. file \in Seq(Nat) /\ lastSeq \in Nat
  BY Numbers, EventsAssumption DEF EventsInv, TypeOK
<1>2. ASSUME NEW seq \in Range(file)
      PROVE  seq \in Nat
  <2>1. PICK i \in DOMAIN file : seq = file[i]
    BY DEF Range
  <2> QED
    BY <1>1, <2>1
<1> QED
  BY <1>1, <1>2 DEF EventsInv, FileInv

\* The new event is above all others, at the end of the file.
LEMMA PushFacts ==
  ASSUME EventsInv, pushEvent
  PROVE  /\ lastSeq \in Nat /\ lastSeq' = lastSeq + 1 /\ file \in Seq(Nat)
         /\ \A seq \in Range(file) : seq \in Nat /\ seq <= lastSeq
         /\ Len(file) \in Nat /\ Len(file') = Len(file) + 1
         /\ \A i \in 1 .. Len(file) : file'[i] = file[i]
         /\ file'[Len(file) + 1] = lastSeq'
         /\ Range(file') = Range(file) \cup {lastSeq'}
         /\ Ascending(file')
<1>1. /\ lastSeq \in Nat /\ lastSeq' = lastSeq + 1 /\ file' = Append(file, lastSeq')
      /\ file \in Seq(Nat)
  BY FileFacts DEF pushEvent
<1>2. \A seq \in Range(file) : seq \in Nat /\ seq <= lastSeq
  BY FileFacts
<1>3. /\ Range(file') = Range(file) \cup {lastSeq'}
      /\ Ascending(file) /\ (\A seq \in Range(file) : seq < lastSeq') => Ascending(file')
  BY <1>1, AppendAscending
<1>4. \A seq \in Range(file) : seq < lastSeq'
  BY <1>1, <1>2
<1>5. Ascending(file')
  BY <1>3, <1>4 DEF EventsInv, FileInv
<1> QED
  BY <1>1, <1>2, <1>3, <1>5

LEMMA FileStep ==
  ASSUME EventsInv, [Next]_vars
  PROVE  FileInv'
<1> lastSeq \in Nat /\ file \in Seq(Nat) /\ FileInv
  BY FileFacts DEF EventsInv
<1>1. CASE pushEvent /\ buffered' = buffered /\ ~done /\ (~done' => lastSeq' < MaxEvents)
  BY <1>1, PushFacts DEF FileInv
<1>2. CASE UNCHANGED <<file, lastSeq, done, buffered>>
  BY <1>2 DEF FileInv
<1>3. CASE PushThrows \/ LastThrows
  <2>1. file' = file /\ lastSeq' = lastSeq + 1 /\ buffered' = buffered /\ ~done
        /\ (~done' => lastSeq' < MaxEvents)
    BY <1>3 DEF PushThrows, LastThrows
  <2>2. \A seq \in Range(file) : seq \in Nat /\ seq <= lastSeq
    BY FileFacts
  <2>3. Len(file) \in Nat
    BY DEF EventsInv, TypeOK
  <2> QED
    BY <2>1, <2>2, <2>3 DEF FileInv
<1>4. CASE ReleaseBuffer
  BY <1>4 DEF ReleaseBuffer, FileInv
<1>5. CASE PushMessage
  BY <1>5, <1>1 DEF PushMessage, pushEvent
<1>6. CASE PushLastAndFinish
  BY <1>6, <1>1 DEF PushLastAndFinish
<1>7. ASSUME NEW c \in Clients,
             (\E seq \in 0 .. lastSeq : Connect(c, seq)) \/ Client(c) \/ Heartbeat(c) \/ Close(c)
      PROVE  UNCHANGED <<file, lastSeq, done, buffered>>
  BY <1>7 DEF Connect, Client, MeetEnd, ReadLine, ReplayedAll, Listen, CaughtUp,
              DrainOne, Drained, Heartbeat, Close, runVars
<1> QED
  BY <1>2, <1>3, <1>4, <1>5, <1>6, <1>7 DEF Next, Worker, Stopped, vars, runVars

\* An event of the run, the last one included, reaches whoever misses it: the
\* queue of a listener, or a part of the file that is still to be read.
LEMMA PushStep ==
  ASSUME EventsInv, pushEvent, ~done, NEW c \in Clients
  PROVE  ClientInv(c)'
<1> DEFINE x == lastSeq'
<1>1. /\ ClientInv(c) /\ queue[c] \in Seq(1 .. MaxEvents) /\ lastWrittenSeq[c] \in Nat
      /\ after[c] \in Nat /\ readPos[c] \in Nat /\ readEnd[c] \in Nat
  BY DEF EventsInv, TypeOK
<1>2. UNCHANGED <<after, written, lastWrittenSeq, readPos, readEnd, listening>>
  BY DEF pushEvent, Emit
<1>3. /\ pc'[c] = IF listening[c] /\ pc[c] = "wait" THEN "drain" ELSE pc[c]
      /\ queue'[c] = IF listening[c] THEN Append(queue[c], x) ELSE queue[c]
  <2>1. lastSeq' \in 1 .. MaxEvents /\ Emit(<<lastSeq'>>)
    BY EventsAssumption DEF pushEvent, EventsInv, TypeOK
  <2>2. queue[c] \o <<x>> = Append(queue[c], x)
    BY <1>1, <2>1, Concatenations
  <2> QED
    BY <2>1, <2>2 DEF Emit
<1>4. queue[c] \in Seq(Nat)
  BY <1>1, Numbers
<1>5. /\ Range(Append(queue[c], x)) = Range(queue[c]) \cup {x}
      /\ Ascending(queue[c]) /\ (\A y \in Range(queue[c]) : y < x) => Ascending(Append(queue[c], x))
  <2>1. x \in Nat
    BY PushFacts
  <2> QED
    BY <1>4, <2>1, AppendAscending
<1>6. \A y \in Range(queue[c]) : y < x
  BY <1>1, PushFacts, FileFacts DEF ClientInv, Queued
<1>7. Got(c)'
  <2>1. Got(c) /\ lastWrittenSeq[c] < x
    BY <1>1, PushFacts DEF ClientInv, Got
  <2>2. {seq \in Due(c)' : seq <= lastWrittenSeq[c]} = {seq \in Due(c) : seq <= lastWrittenSeq[c]}
    BY <1>1, <1>2, <2>1, PushFacts DEF Due
  <2> QED
    BY <1>1, <1>2, <2>1, <2>2, PushFacts DEF Got
<1>8. Reads(c)' /\ ReadsStored(c)'
  <2>1. Reading(c)' => Reading(c)
    BY <1>3 DEF Reading
  <2>2. ASSUME Reading(c)
        PROVE  \A i \in 1 .. Len(file') : i <= readPos[c] => file'[i] <= lastWrittenSeq[c]
    <3> TAKE i \in 1 .. Len(file')
    <3> HAVE i <= readPos[c]
    <3>1. i \in 1 .. Len(file)
      BY <1>1, <2>2, PushFacts DEF ClientInv, Reads
    <3> QED
      BY <1>1, <2>2, <3>1, PushFacts DEF ClientInv, Reads
  <2>3. Reads(c)'
    BY <1>1, <1>2, <2>1, <2>2, PushFacts DEF ClientInv, Reads, NotYet
  <2> QED
    BY <1>1, <1>3, <2>3 DEF ClientInv, ReadsStored
<1>9. Queued(c)'
  BY <1>1, <1>3, <1>5, <1>6, PushFacts DEF ClientInv, Queued
<1>10. CatchesUp(c)'
  <2> SUFFICES ASSUME pc'[c] = "catch_up", readEnd'[c] # NotYet,
                      NEW i \in 1 .. Len(file'), i > readEnd'[c]
               PROVE  file'[i] \in Range(queue'[c])
    BY DEF CatchesUp, NotYet
  <2>1. pc[c] = "catch_up" /\ readEnd'[c] = readEnd[c]
    BY <1>2, <1>3
  <2>2. Range(queue'[c]) = Range(queue[c]) \cup {x}
    BY <1>1, <1>3, <1>5, <2>1 DEF ClientInv, Listens, Live
  <2>3. CASE i = Len(file) + 1
    BY <2>2, <2>3, PushFacts
  <2>4. CASE i \in 1 .. Len(file)
    BY <1>1, <2>1, <2>2, <2>4, PushFacts DEF ClientInv, CatchesUp
  <2> QED
    BY <2>3, <2>4, PushFacts
<1>11. Drains(c)'
  BY <1>1, <1>2, <1>3, <1>5, PushFacts DEF ClientInv, Drains, Listens, Live
<1>12. Waits(c)'
  BY <1>1, <1>3 DEF ClientInv, Waits, Listens, Live
<1>13. Listens(c)' /\ Ended(c)' /\ Fresh(c)'
  BY <1>1, <1>2, <1>3 DEF ClientInv, Listens, Live, Ended, Fresh
<1> QED
  BY <1>7, <1>8, <1>9, <1>10, <1>11, <1>12, <1>13 DEF ClientInv

\* The steps of the worker that store no event.
LEMMA SilentStep ==
  ASSUME EventsInv, PushThrows \/ LastThrows \/ ReleaseBuffer, NEW c \in Clients
  PROVE  ClientInv(c)'
<1>1. ClientInv(c) /\ queue[c] \in Seq(1 .. MaxEvents) /\ lastSeq \in Nat
      /\ lastWrittenSeq[c] \in Nat
  BY DEF EventsInv, TypeOK
<1>2. CASE PushThrows
  BY <1>1, <1>2 DEF PushThrows, clientVars, ClientInv, Got, Reads, ReadsStored, Queued,
     CatchesUp, Drains, Waits, Listens, Ended, Fresh, Due, Reading, Live
<1>3. CASE LastThrows
  <2>1. /\ pc'[c] = IF listening[c] /\ pc[c] = "wait" THEN "drain" ELSE pc[c]
        /\ queue'[c] = queue[c] /\ done' = TRUE /\ lastSeq' = lastSeq + 1 /\ ~done
        /\ UNCHANGED <<file, after, written, lastWrittenSeq, readPos, readEnd, listening>>
    BY <1>1, <1>3, Concatenations DEF LastThrows, Emit, EventsInv, TypeOK
  <2> QED
    BY <1>1, <2>1 DEF ClientInv, Got, Reads, ReadsStored, Queued, CatchesUp, Drains,
       Waits, Listens, Ended, Fresh, Due, Reading, Live
<1>4. CASE ReleaseBuffer
  BY <1>1, <1>4 DEF ReleaseBuffer, ClientInv, Got, Reads, ReadsStored, Queued,
     CatchesUp, Drains, Waits, Listens, Ended, Fresh, Due, Reading, Live
<1> QED
  BY <1>2, <1>3, <1>4

-----------------------------------------------------------------------------
(* The clients' steps *)

ClientTypes(c) ==
  /\ lastWrittenSeq[c] \in Nat /\ after[c] \in Nat /\ readPos[c] \in Nat
  /\ readEnd[c] \in Nat /\ written[c] \in Seq(Nat) /\ queue[c] \in Seq(Nat)
  /\ pc[c] \in Pc

LEMMA HasTypes ==
  ASSUME EventsInv, NEW c \in Clients
  PROVE  ClientTypes(c) /\ ClientInv(c)
<1>1. written[c] \in Seq(1 .. MaxEvents) /\ queue[c] \in Seq(1 .. MaxEvents)
  BY DEF EventsInv, TypeOK
<1>2. written[c] \in Seq(Nat) /\ queue[c] \in Seq(Nat)
  BY <1>1, Numbers
<1> QED
  BY <1>2, EventsAssumption DEF EventsInv, TypeOK, ClientTypes, NotYet

\* An event with no stored one between it and the last one written is written,
\* skipped, or finds the client gone.
LEMMA DeliverKeeps ==
  ASSUME EventsInv, NEW c \in Clients, NEW seq \in Range(file), Deliver(c, seq),
         UNCHANGED <<file, lastSeq, after>>,
         \A x \in Range(file) : x <= lastWrittenSeq[c] \/ seq <= x
  PROVE  /\ Got(c)'
         /\ \/ /\ pc'[c] = pc[c] /\ listening'[c] = listening[c]
               /\ seq <= lastWrittenSeq'[c] /\ lastWrittenSeq[c] <= lastWrittenSeq'[c]
            \/ pc'[c] = "left"
         /\ lastWrittenSeq'[c] \in Nat
         /\ \A d \in Clients \ {c} :
               /\ pc'[d] = pc[d] /\ written'[d] = written[d]
               /\ lastWrittenSeq'[d] = lastWrittenSeq[d] /\ listening'[d] = listening[d]
<1>1. ClientTypes(c) /\ Got(c) /\ seq \in Nat /\ seq <= lastSeq /\ lastSeq \in Nat
  BY HasTypes, FileFacts DEF ClientInv
<1>2. \A x \in Range(file) : x \in Nat
  BY FileFacts
<1>3. CASE seq <= lastWrittenSeq[c]
  BY <1>1, <1>3 DEF Deliver, Got, Due, ClientTypes
<1>4. CASE ~(seq <= lastWrittenSeq[c]) /\ closed[c]
  <2>1. /\ pc'[c] = "left"
        /\ \A d \in Clients \ {c} : pc'[d] = pc[d] /\ listening'[d] = listening[d]
        /\ UNCHANGED <<written, lastWrittenSeq>>
    BY <1>4 DEF Deliver, Leave, Goes, EventsInv, TypeOK
  <2> QED
    BY <1>1, <2>1 DEF Got, Due, ClientTypes
<1>5. CASE lastWrittenSeq[c] < seq /\ ~closed[c]
  <2>1. /\ UNCHANGED <<pc, listening>>
        /\ written' = [written EXCEPT ![c] = Append(@, seq)]
        /\ lastWrittenSeq' = [lastWrittenSeq EXCEPT ![c] = seq]
    BY <1>1, <1>5 DEF Deliver, ClientTypes
  <2>2. /\ written'[c] = Append(written[c], seq) /\ lastWrittenSeq'[c] = seq
        /\ \A d \in Clients \ {c} :
             written'[d] = written[d] /\ lastWrittenSeq'[d] = lastWrittenSeq[d]
    BY <2>1 DEF EventsInv, TypeOK
  <2>3. ASSUME NEW y \in Range(written[c])
        PROVE  y < seq
    <3>1. y \in Range(file) /\ y <= lastWrittenSeq[c]
      BY <1>1 DEF Got, Due
    <3>2. y \in Nat /\ lastWrittenSeq[c] \in Nat
      BY <1>1, <1>2, <3>1 DEF ClientTypes
    <3> QED
      BY <1>1, <1>5, <3>1, <3>2
  <2>4. Range(written'[c]) = Range(written[c]) \cup {seq} /\ Ascending(written'[c])
    BY <1>1, <2>2, <2>3, AppendAscending DEF Got, ClientTypes
  <2>5. {x \in Due(c)' : x <= seq} = {x \in Due(c) : x <= lastWrittenSeq[c]} \cup {seq}
    <3>1. after[c] < seq
      BY <1>1, <1>5 DEF Got, ClientTypes
    <3>2. ASSUME NEW x \in Range(file)
          PROVE  x <= seq <=> (x <= lastWrittenSeq[c] \/ x = seq)
      <4>1. x \in Nat /\ (x <= lastWrittenSeq[c] \/ seq <= x)
        BY <1>2
      <4> QED
        BY <1>1, <1>5, <4>1 DEF ClientTypes
    <3> QED
      BY <3>1, <3>2 DEF Due
  <2>6. Got(c)'
    BY <1>1, <1>5, <2>2, <2>4, <2>5 DEF Got, ClientTypes
  <2> QED
    BY <1>1, <1>5, <2>1, <2>2, <2>6 DEF ClientTypes
<1> QED
  BY <1>1, <1>3, <1>4, <1>5 DEF ClientTypes

\* The next line is the first one that may be above the last one written.
LEMMA ReadLineStep ==
  ASSUME EventsInv, NEW c \in Clients, ReadLine(c), NEW d \in Clients
  PROVE  ClientInv(d)'
<1> DEFINE n == readPos[c] + 1
<1>1. ClientTypes(c) /\ ClientInv(c) /\ ClientInv(d) /\ FileInv /\ file \in Seq(Nat)
  BY HasTypes, FileFacts DEF EventsInv
<1>2. /\ Reading(c) /\ readPos[c] < Len(file) /\ readPos[c] # readEnd[c]
      /\ Deliver(c, file[n]) /\ UNCHANGED <<runVars, after, readEnd, queue, closed>>
      /\ readPos'[c] = n /\ \A e \in Clients \ {c} : readPos'[e] = readPos[e]
  BY DEF ReadLine, ReadOver, EventsInv, TypeOK
<1>3. n \in 1 .. Len(file) /\ file[n] \in Range(file)
  BY <1>1, <1>2 DEF ClientTypes, Range
<1>4. ASSUME NEW x \in Range(file)
      PROVE  x <= lastWrittenSeq[c] \/ file[n] <= x
  <2>1. PICK i \in 1 .. Len(file) : x = file[i]
    BY <1>1 DEF Range
  <2>2. CASE i <= readPos[c]
    BY <1>1, <1>2, <2>1, <2>2 DEF ClientInv, Reads
  <2>3. CASE i = n
    BY <1>1, <1>3, <2>1, <2>3
  <2>4. CASE n < i
    BY <1>1, <1>3, <2>1, <2>4 DEF FileInv, Ascending
  <2> QED
    BY <1>1, <2>2, <2>3, <2>4 DEF ClientTypes
<1>5. /\ Got(c)'
      /\ \/ /\ pc'[c] = pc[c] /\ listening'[c] = listening[c]
            /\ file[n] <= lastWrittenSeq'[c] /\ lastWrittenSeq[c] <= lastWrittenSeq'[c]
         \/ pc'[c] = "left"
      /\ lastWrittenSeq'[c] \in Nat
      /\ \A e \in Clients \ {c} :
            /\ pc'[e] = pc[e] /\ written'[e] = written[e]
            /\ lastWrittenSeq'[e] = lastWrittenSeq[e] /\ listening'[e] = listening[e]
  BY <1>2, <1>3, <1>4, DeliverKeeps DEF runVars
<1>6. CASE d # c
  BY <1>1, <1>2, <1>5, <1>6, Frame DEF SameAt, runVars
<1>7. CASE d = c /\ pc'[c] = "left"
  BY <1>1, <1>2, <1>5, <1>7 DEF ClientInv, Reads, ReadsStored, Queued, CatchesUp, Drains,
     Waits, Listens, Ended, Fresh, Reading, Live, runVars
<1>8. CASE d = c /\ pc'[c] # "left"
  <2>1. Reads(c)'
    <3>1. ASSUME NEW i \in 1 .. Len(file), i <= n
          PROVE  file[i] <= lastWrittenSeq'[c]
      <4>1. CASE i = n
        BY <1>5, <1>8, <4>1
      <4>2. CASE i <= readPos[c]
        BY <1>1, <1>2, <1>5, <1>8, <4>2 DEF ClientInv, Reads, ClientTypes
      <4> QED
        BY <1>1, <3>1, <4>1, <4>2 DEF ClientTypes
    <3>2. readEnd[c] # NotYet => n <= readEnd[c] /\ readEnd[c] <= Len(file)
      BY <1>1, <1>2 DEF ClientInv, Reads, ClientTypes
    <3> QED
      BY <1>2, <1>3, <3>1, <3>2 DEF Reads, NotYet, runVars
  <2> QED
    BY <1>1, <1>2, <1>5, <1>8, <2>1 DEF ClientInv, ReadsStored, Queued, CatchesUp, Drains,
       Waits, Listens, Ended, Fresh, Reading, Live, runVars, NotYet
<1> QED
  BY <1>6, <1>7, <1>8

\* The head of the queue is the first event the client may not have.
LEMMA DrainOneStep ==
  ASSUME EventsInv, NEW c \in Clients, DrainOne(c), NEW d \in Clients
  PROVE  ClientInv(d)'
<1> DEFINE seq == Head(queue[c])
<1>1. ClientTypes(c) /\ ClientInv(c) /\ ClientInv(d)
  BY HasTypes DEF EventsInv
<1>2. /\ pc[c] = "drain" /\ queue[c] # <<>> /\ Deliver(c, seq)
      /\ UNCHANGED <<runVars, after, readPos, readEnd, closed>>
      /\ queue'[c] = Tail(queue[c]) /\ \A e \in Clients \ {c} : queue'[e] = queue[e]
  BY DEF DrainOne, At, EventsInv, TypeOK
<1>3. /\ Ascending(queue'[c]) /\ seq \in Nat
      /\ Range(queue[c]) = {seq} \cup Range(queue'[c])
      /\ \A y \in Range(queue[c]) : seq <= y
  BY <1>1, <1>2, HeadAscending DEF ClientTypes, ClientInv, Queued
<1>4. seq \in Range(file) /\ \A x \in Range(file) : x <= lastWrittenSeq[c] \/ seq <= x
  BY <1>1, <1>2, <1>3 DEF ClientInv, Queued, Drains
<1>5. /\ Got(c)'
      /\ \/ /\ pc'[c] = pc[c] /\ listening'[c] = listening[c]
            /\ seq <= lastWrittenSeq'[c] /\ lastWrittenSeq[c] <= lastWrittenSeq'[c]
         \/ pc'[c] = "left"
      /\ lastWrittenSeq'[c] \in Nat
      /\ \A e \in Clients \ {c} :
            /\ pc'[e] = pc[e] /\ written'[e] = written[e]
            /\ lastWrittenSeq'[e] = lastWrittenSeq[e] /\ listening'[e] = listening[e]
  BY <1>2, <1>4, DeliverKeeps DEF runVars
<1>6. CASE d # c
  BY <1>1, <1>2, <1>5, <1>6, Frame DEF SameAt, runVars
<1>7. Queued(c)'
  BY <1>1, <1>2, <1>3 DEF ClientInv, Queued, runVars
<1>8. CASE d = c /\ pc'[c] = "left"
  BY <1>1, <1>2, <1>5, <1>7, <1>8 DEF ClientInv, Reads, ReadsStored, CatchesUp, Drains,
     Waits, Listens, Ended, Fresh, Reading, Live
<1>9. CASE d = c /\ pc'[c] # "left"
  <2>1. Drains(c)'
    <3> SUFFICES ASSUME NEW x \in Range(file)
                 PROVE  x <= lastWrittenSeq'[c] \/ x \in Range(queue'[c])
      BY <1>2 DEF Drains, runVars
    <3>1. x \in Nat
      BY FileFacts
    <3> QED
      BY <1>1, <1>2, <1>3, <1>5, <1>9, <3>1 DEF ClientInv, Drains, ClientTypes
  <2> QED
    BY <1>1, <1>2, <1>5, <1>7, <1>9, <2>1 DEF ClientInv, Reads, ReadsStored, CatchesUp,
       Waits, Listens, Ended, Fresh, Reading, Live, runVars
<1> QED
  BY <1>6, <1>8, <1>9

LEMMA WhatWasGotStays ==
  ASSUME NEW c \in Clients, ClientInv(c),
         UNCHANGED <<runVars, after, written, lastWrittenSeq, queue>>
  PROVE  Got(c)' /\ Queued(c)'
BY DEF ClientInv, Got, Queued, Due, runVars

\* The steps that deliver nothing: they move a client from one phase to the next.
LEMMA MoveStep ==
  ASSUME EventsInv, NEW c \in Clients, NEW d \in Clients,
         \/ \E seq \in 0 .. lastSeq : Connect(c, seq)
         \/ MeetEnd(c) \/ ReplayedAll(c) \/ Listen(c) \/ CaughtUp(c)
         \/ Drained(c) \/ Heartbeat(c) \/ Close(c)
  PROVE  ClientInv(d)'
<1>1. /\ ClientTypes(c) /\ ClientInv(c) /\ ClientInv(d) /\ FileInv
      /\ file \in Seq(Nat) /\ lastSeq \in Nat /\ lastSeq <= MaxEvents
  <2>1. lastSeq \in 1 .. MaxEvents /\ FileInv
    BY DEF EventsInv, TypeOK
  <2> QED
    BY <2>1, HasTypes, FileFacts, EventsAssumption
<1> USE DEF Goes, At
<1>2. CASE d # c
  <2>1. SameAt(d) /\ UNCHANGED <<file, lastSeq, done>>
    BY <1>2 DEF Connect, MeetEnd, ReplayedAll, Listen, CaughtUp, Drained, Heartbeat, Close,
       StartRead, Leave, Ends, SameAt, runVars, EventsInv, TypeOK
  <2> QED
    BY <1>1, <2>1, Frame
<1>3. CASE d = c
  <2> SUFFICES ClientInv(c)'
    BY <1>3
  <2>1. ASSUME NEW seq \in 0 .. lastSeq, Connect(c, seq)
        PROVE  ClientInv(c)'
    <3>1. /\ pc[c] = "idle" /\ pc'[c] \in {"replay", "stored"}
          /\ pc'[c] = "stored" => ~buffered
          /\ after'[c] = seq /\ lastWrittenSeq'[c] = seq
          /\ readPos'[c] = 0 /\ readEnd'[c] = NotYet
          /\ UNCHANGED <<runVars, written, queue, listening, closed>>
      BY <2>1 DEF Connect, StartRead, EventsInv, TypeOK
    <3>2. Range(written[c]) = {} /\ Ascending(written[c])
      BY <1>1, <3>1 DEF ClientInv, Fresh, Range, Ascending
    <3>3. \A x \in Range(file) : x \in Nat
      BY FileFacts
    <3>4. Got(c)'
      BY <1>1, <3>1, <3>2, <3>3 DEF Got, Due, runVars
    <3>5. Reads(c)'
      BY <1>1, <3>1 DEF Reads, NotYet, runVars
    <3> QED
      BY <1>1, <3>1, <3>4, <3>5 DEF ClientInv, ReadsStored, Queued, CatchesUp, Drains,
         Waits, Listens, Ended, Fresh, Live, FileInv, runVars
  <2>2. CASE MeetEnd(c)
    <3>1. /\ Reading(c) /\ readEnd[c] = NotYet /\ readEnd'[c] = Len(file)
          /\ UNCHANGED <<runVars, pc, after, written, lastWrittenSeq, readPos, queue,
                         listening, closed>>
      BY <2>2 DEF MeetEnd, EventsInv, TypeOK
    <3>2. Reads(c)'
      <4>1. Reads(c) /\ Reading(c)
        BY <1>1, <3>1 DEF ClientInv
      <4>2. readPos[c] <= Len(file) /\ Len(file) \in Nat
        BY <4>1, FileFacts DEF Reads
      <4> QED BY <3>1, <4>1, <4>2 DEF Reads, runVars
    <3>3. CatchesUp(c)' /\ ReadsStored(c)'
      BY <1>1, <3>1 DEF ClientInv, CatchesUp, ReadsStored, runVars
    <3>4. Got(c)' /\ Queued(c)'
      BY <1>1, <3>1, WhatWasGotStays
    <3> QED
      BY <1>1, <3>1, <3>2, <3>3, <3>4 DEF ClientInv, Drains, Waits, Listens, Ended,
         Fresh, Live, runVars
  <2>3. CASE ReplayedAll(c)
    <3>1. /\ pc[c] \in {"replay", "stored"} /\ done /\ readPos[c] = readEnd[c]
          /\ pc'[c] \in {"left", "ended", "replayed"}
          /\ pc'[c] = "ended" => pc[c] = "stored"
          /\ UNCHANGED <<runVars, after, written, lastWrittenSeq, readPos, readEnd,
                         queue, listening, closed>>
      BY <1>1, <2>3 DEF ReplayedAll, ReadOver, ClientInv, ReadsStored, EventsInv, TypeOK
    <3>2. readEnd[c] # NotYet
      BY <1>1, <3>1, EventsAssumption DEF ClientInv, Reads, Reading, FileInv, NotYet, ClientTypes
    <3>3. ASSUME pc[c] = "stored", NEW x \in Range(file)
          PROVE  x <= lastWrittenSeq[c]
      <4>1. PICK i \in 1 .. Len(file) : x = file[i]
        BY <1>1 DEF Range
      <4> QED
        BY <1>1, <3>1, <3>2, <3>3, <4>1 DEF ClientInv, Reads, Reading, ReadsStored
    <3>4. Got(c)' /\ Queued(c)'
      BY <1>1, <3>1, WhatWasGotStays
    <3> QED
      BY <1>1, <3>1, <3>3, <3>4 DEF ClientInv, Reads, ReadsStored, CatchesUp,
         Drains, Waits, Listens, Ended, Fresh, Reading, Live, runVars
  <2>4. CASE Listen(c)
    <3>1. /\ pc[c] = "replay" /\ pc'[c] = "catch_up" /\ listening'[c] = TRUE
          /\ readPos'[c] = 0 /\ readEnd'[c] = NotYet
          /\ UNCHANGED <<runVars, after, written, lastWrittenSeq, queue, closed>>
      BY <2>4 DEF Listen, StartRead, EventsInv, TypeOK
    <3>4. Got(c)' /\ Queued(c)'
      BY <1>1, <3>1, WhatWasGotStays
    <3> QED
      BY <1>1, <3>1, <3>4 DEF ClientInv, Reads, ReadsStored, CatchesUp,
         Drains, Waits, Listens, Ended, Fresh, Reading, Live, runVars, NotYet
  <2>5. CASE CaughtUp(c)
    <3>1. /\ pc[c] = "catch_up" /\ pc'[c] = "drain" /\ readPos[c] = readEnd[c]
          /\ UNCHANGED <<runVars, after, written, lastWrittenSeq, readPos, readEnd,
                         queue, listening, closed>>
      BY <2>5 DEF CaughtUp, ReadOver, EventsInv, TypeOK
    <3>2. readEnd[c] # NotYet
      BY <1>1, <3>1, EventsAssumption DEF ClientInv, Reads, Reading, FileInv, NotYet, ClientTypes
    <3>3. ASSUME NEW x \in Range(file)
          PROVE  x <= lastWrittenSeq[c] \/ x \in Range(queue[c])
      <4>1. PICK i \in 1 .. Len(file) : x = file[i]
        BY <1>1 DEF Range
      <4>2. CASE i <= readPos[c]
        BY <1>1, <3>1, <4>1, <4>2 DEF ClientInv, Reads, Reading
      <4>3. CASE i > readEnd[c]
        BY <1>1, <3>1, <3>2, <4>1, <4>3 DEF ClientInv, CatchesUp
      <4> QED
        BY <1>1, <3>1, <4>2, <4>3 DEF ClientTypes
    <3>4. Got(c)' /\ Queued(c)'
      BY <1>1, <3>1, WhatWasGotStays
    <3> QED
      BY <1>1, <3>1, <3>3, <3>4 DEF ClientInv, Reads, ReadsStored, CatchesUp,
         Drains, Waits, Listens, Ended, Fresh, Reading, Live, runVars
  <2>6. CASE Drained(c)
    <3>1. /\ pc[c] = "drain" /\ queue[c] = <<>>
          /\ \/ done /\ pc'[c] \in {"ended", "left"}
             \/ pc'[c] = "left"
             \/ ~done /\ pc'[c] = "wait" /\ listening'[c] = listening[c]
          /\ UNCHANGED <<runVars, after, written, lastWrittenSeq, readPos, readEnd,
                         queue, closed>>
      BY <2>6 DEF Drained, Ends, Leave, EventsInv, TypeOK
    <3>2. Range(queue[c]) = {}
      BY <3>1 DEF Range
    <3>4. Got(c)' /\ Queued(c)'
      BY <1>1, <3>1, WhatWasGotStays
    <3> QED
      BY <1>1, <3>1, <3>2, <3>4 DEF ClientInv, Reads, ReadsStored, CatchesUp,
         Drains, Waits, Listens, Ended, Fresh, Reading, Live, runVars
  <2>7. CASE Heartbeat(c)
    <3>1. /\ pc[c] = "wait"
          /\ pc'[c] = "left" \/ (pc'[c] = "drain" /\ listening'[c] = listening[c])
          /\ UNCHANGED <<runVars, after, written, lastWrittenSeq, readPos, readEnd,
                         queue, closed>>
      BY <2>7 DEF Heartbeat, Leave, EventsInv, TypeOK
    <3>4. Got(c)' /\ Queued(c)'
      BY <1>1, <3>1, WhatWasGotStays
    <3> QED
      BY <1>1, <3>1, <3>4 DEF ClientInv, Reads, ReadsStored, CatchesUp,
         Drains, Waits, Listens, Ended, Fresh, Reading, Live, runVars
  <2>8. CASE Close(c)
    BY <1>1, <2>8 DEF Close, ClientInv, Got, Reads, ReadsStored, Queued, CatchesUp,
       Drains, Waits, Listens, Ended, Fresh, Due, Reading, Live, runVars, NotYet
  <2> QED
    BY <1>3, <2>1, <2>2, <2>3, <2>4, <2>5, <2>6, <2>7, <2>8
<1> QED
  BY <1>2, <1>3

-----------------------------------------------------------------------------
(* The event bus: corkedEvents counts the corks of a context under its id, and  *)
(* what it counts are the corks that the flows still hold, each one a pair of a *)
(* flow and a number.  So the uncork that finds a single cork is the last one,  *)
(* and a context without an id has none.                                        *)

\* The corks that the flows of a context hold.
Held(c) == {p \in Flows \X Nat : ContextOf[p[1]] = c /\ p[2] \in 1 .. depth[p[1]]}

\* What a context's id counts are the corks its flows hold.
Counted(c) ==
  /\ IsFiniteSet(Held(c))
  /\ Cardinality(Held(c)) = IF corkId[c] = 0 THEN 0 ELSE times[corkId[c]]

\* An id was taken from the sequence, by one context.
IdsAreTaken == \A c \in Contexts : corkId[c] <= sequence
IdsAreOwn == \A c, d \in Contexts : corkId[c] # 0 /\ corkId[c] = corkId[d] => c = d

\* Nothing is queued under an id that nobody has.
QueuesAreHeld == \A i \in Bus!Ids : (\A c \in Contexts : corkId[c] # i) => corked[i] = <<>>

BusInv ==
  /\ Bus!TypeOK
  /\ \A f \in Flows : depth[f] <= corks[f]
  /\ IdsAreTaken /\ IdsAreOwn /\ QueuesAreHeld
  /\ \A c \in Contexts : Counted(c)
  /\ Bus!StartedInOrder

-----------------------------------------------------------------------------
(* Corks as pairs *)

\* A cork adds a pair to those of its context, and to no other.
LEMMA HeldGrows ==
  ASSUME Bus!BusAssumption, depth \in [Flows -> Nat], NEW f \in Flows,
         depth' = [depth EXCEPT ![f] = @ + 1], NEW c \in Contexts
  PROVE  /\ <<f, depth[f] + 1>> \notin Held(c)
         /\ Held(c)' = IF c = ContextOf[f] THEN Held(c) \cup {<<f, depth[f] + 1>>} ELSE Held(c)
<1>1. \A g \in Flows : depth'[g] = IF g = f THEN depth[g] + 1 ELSE depth[g]
  OBVIOUS
<1>2. \A g \in Flows, n \in Nat :
         n \in 1 .. depth'[g] <=> n \in 1 .. depth[g] \/ (g = f /\ n = depth[f] + 1)
  BY <1>1
<1>3. depth[f] + 1 \in Nat /\ depth[f] + 1 \notin 1 .. depth[f]
  OBVIOUS
<1>4. ASSUME NEW g \in Flows, NEW n \in Nat
      PROVE  <<g, n>> \in Held(c)' <=>
               <<g, n>> \in Held(c) \/ (c = ContextOf[f] /\ <<g, n>> = <<f, depth[f] + 1>>)
  BY <1>2, <1>3 DEF Held
<1>5. Held(c) \subseteq Flows \X Nat /\ Held(c)' \subseteq Flows \X Nat
      /\ <<f, depth[f] + 1>> \in Flows \X Nat
  BY <1>3 DEF Held
<1>6. \A p \in Flows \X Nat : p \in Held(c)' <=>
         p \in Held(c) \/ (c = ContextOf[f] /\ p = <<f, depth[f] + 1>>)
  BY <1>4
<1>7. <<f, depth[f] + 1>> \notin Held(c)
  BY <1>3 DEF Held
<1> QED BY <1>5, <1>6, <1>7

\* An uncork removes one.
LEMMA HeldShrinks ==
  ASSUME Bus!BusAssumption, depth \in [Flows -> Nat], NEW f \in Flows, depth[f] > 0,
         depth' = [depth EXCEPT ![f] = @ - 1], NEW c \in Contexts
  PROVE  /\ c = ContextOf[f] => <<f, depth[f]>> \in Held(c)
         /\ Held(c)' = IF c = ContextOf[f] THEN Held(c) \ {<<f, depth[f]>>} ELSE Held(c)
<1>1. \A g \in Flows : depth'[g] = IF g = f THEN depth[g] - 1 ELSE depth[g]
  OBVIOUS
<1>2. \A g \in Flows, n \in Nat :
         n \in 1 .. depth'[g] <=> n \in 1 .. depth[g] /\ (g = f => n # depth[f])
  BY <1>1
<1>3. depth[f] \in 1 .. depth[f]
  OBVIOUS
<1>4. ASSUME NEW g \in Flows, NEW n \in Nat
      PROVE  <<g, n>> \in Held(c)' <=>
               <<g, n>> \in Held(c) /\ (c = ContextOf[f] => <<g, n>> # <<f, depth[f]>>)
  BY <1>2, <1>3 DEF Held
<1>5. Held(c) \subseteq Flows \X Nat /\ Held(c)' \subseteq Flows \X Nat
  BY DEF Held
<1>6. \A p \in Flows \X Nat : p \in Held(c)' <=>
         p \in Held(c) /\ (c = ContextOf[f] => p # <<f, depth[f]>>)
  BY <1>4
<1>7. c = ContextOf[f] => <<f, depth[f]>> \in Held(c)
  BY <1>3 DEF Held
<1>8. c # ContextOf[f] => <<f, depth[f]>> \notin Held(c)
  BY DEF Held
<1> QED BY <1>5, <1>6, <1>7, <1>8

\* Without a pair no flow holds a cork.
LEMMA NoneHeld ==
  ASSUME depth \in [Flows -> Nat], NEW c \in Contexts, Held(c) = {}
  PROVE  \A f \in Flows : ContextOf[f] = c => depth[f] = 0
<1> SUFFICES ASSUME NEW f \in Flows, ContextOf[f] = c, depth[f] # 0 PROVE FALSE
  OBVIOUS
<1>1. <<f, depth[f]>> \in Held(c)
  BY DEF Held
<1> QED BY <1>1

\* The last uncork of a context finds one cork, its own.
LEMMA LastIsLast ==
  ASSUME Bus!BusAssumption, BusInv, NEW f \in Flows, Bus!Uncork(f),
         Bus!Last(corkId[ContextOf[f]])
  PROVE  Held(ContextOf[f])' = {}
<1> DEFINE c == ContextOf[f]
<1>1. c \in Contexts /\ corkId[c] # 0 /\ depth[f] > 0 /\ times[corkId[c]] = 1
      /\ depth' = [depth EXCEPT ![f] = @ - 1]
  BY DEF Bus!BusAssumption, Bus!Uncork, Bus!Last
<1>2. depth \in [Flows -> Nat]
  BY DEF BusInv, Bus!TypeOK
<1>3. IsFiniteSet(Held(c)) /\ Cardinality(Held(c)) = 1
  BY <1>1 DEF BusInv, Counted
<1>4. \E x : Held(c) = {x}
  BY <1>3, FS_Singleton
<1>5. <<f, depth[f]>> \in Held(c) /\ Held(c)' = Held(c) \ {<<f, depth[f]>>}
  BY <1>1, <1>2, HeldShrinks
<1> QED BY <1>4, <1>5

-----------------------------------------------------------------------------
(* The invariant is inductive *)

LEMMA InitBus ==
  ASSUME Bus!BusAssumption, Bus!Init
  PROVE  BusInv
<1>1. Bus!TypeOK
  BY DEF Bus!BusAssumption, Bus!Init, Bus!TypeOK, Bus!Ids
<1>2. ASSUME NEW c \in Contexts PROVE Counted(c)
  <2>1. \A g \in Flows : 1 .. depth[g] = {}
    BY DEF Bus!Init
  <2>2. Held(c) = {}
    BY <2>1 DEF Held
  <2> QED BY <2>2, FS_EmptySet DEF Bus!Init, Counted
<1>3. Bus!StartedInOrder
  <2>1. <<>> \in Seq(Emissions) /\ <<>> \o <<>> = <<>>
    BY ConcatEmptySeq
  <2> QED BY <2>1 DEF Bus!Init, Bus!StartedInOrder, Bus!Queued
<1>4. \A f \in Flows : depth[f] <= corks[f]
  BY DEF Bus!Init
<1>5. IdsAreTaken /\ IdsAreOwn /\ QueuesAreHeld
  BY DEF Bus!Init, IdsAreTaken, IdsAreOwn, QueuesAreHeld
<1> QED BY <1>1, <1>2, <1>3, <1>4, <1>5 DEF BusInv

\* A cork keeps what the invariant says of the other contexts, too.
LEMMA CorkKeeps ==
  ASSUME Bus!BusAssumption, BusInv, NEW f \in Flows, Bus!Cork(f)
  PROVE  BusInv'
<1> DEFINE c == ContextOf[f]
<1>0. MaxIds \in Nat /\ MaxCorks \in Nat
  BY DEF Bus!BusAssumption
<1>1. /\ c \in Contexts /\ corks[f] < MaxCorks
      /\ corks' = [corks EXCEPT ![f] = @ + 1] /\ depth' = [depth EXCEPT ![f] = @ + 1]
      /\ UNCHANGED <<corked, state, running, waiter, emitted, started, busFaults>>
  BY DEF Bus!BusAssumption, Bus!Cork
<1>2. PICK id \in Bus!Ids :
        /\ times' = [times EXCEPT ![id] = @ + 1] /\ corkId' = [corkId EXCEPT ![c] = id]
        /\ sequence' \in 0 .. MaxIds /\ sequence <= sequence' /\ id <= sequence'
        /\ \/ corkId[c] = id
           \/ /\ corkId[c] = 0 /\ times[id] = 0 /\ corked[id] = <<>>
              /\ \A d \in Contexts : corkId[d] # id
  <2>1. CASE corkId[c] = 0
    <3>1. /\ sequence < MaxIds /\ sequence' = sequence + 1
          /\ corkId' = [corkId EXCEPT ![c] = sequence + 1]
          /\ times' = [times EXCEPT ![sequence + 1] = @ + 1]
      BY <2>1 DEF Bus!Cork
    <3>2. sequence \in Nat /\ sequence + 1 \in Bus!Ids /\ sequence' \in 0 .. MaxIds
      BY <3>1 DEF BusInv, Bus!TypeOK, Bus!BusAssumption, Bus!Ids
    <3>3. \A d \in Contexts : corkId[d] # sequence + 1
      BY <3>2 DEF BusInv, Bus!TypeOK, IdsAreTaken
    <3>4. corked[sequence + 1] = <<>>
      BY <3>2, <3>3 DEF BusInv, QueuesAreHeld
    <3>5. times[sequence + 1] = 0
      <4>1. times[sequence + 1] \in Nat /\ ~(times[sequence + 1] > 0)
        BY <3>2, <3>3 DEF BusInv, Bus!TypeOK
      <4> QED BY <4>1
    <3> USE <3>2
    <3> WITNESS sequence + 1 \in Bus!Ids
    <3> QED BY <2>1, <3>1, <3>2, <3>3, <3>4, <3>5
  <2>2. CASE corkId[c] # 0
    <3>1. /\ times' = [times EXCEPT ![corkId[c]] = @ + 1]
          /\ UNCHANGED <<sequence, corkId>>
      BY <2>2 DEF Bus!Cork
    <3>2. corkId[c] \in Bus!Ids /\ corkId[c] <= sequence /\ sequence \in 0 .. MaxIds
      BY <1>1, <2>2 DEF BusInv, Bus!TypeOK, IdsAreTaken, Bus!Ids
    <3>3. corkId = [corkId EXCEPT ![c] = corkId[c]]
      BY DEF BusInv, Bus!TypeOK
    <3> USE <3>2
    <3> WITNESS corkId[c] \in Bus!Ids
    <3> QED BY <2>2, <3>1, <3>2, <3>3, <1>0
  <2> QED BY <2>1, <2>2
<1>3. \A d \in Contexts : corkId'[d] = IF d = c THEN id ELSE corkId[d]
  BY <1>2 DEF BusInv, Bus!TypeOK
<1>4. \A d \in Contexts : d # c => corkId[d] # id
  BY <1>1, <1>2 DEF BusInv, IdsAreOwn, Bus!Ids
<1>5. Bus!TypeOK'
  <2>1. id \in 0 .. MaxIds
    BY <1>0 DEF Bus!Ids
  <2>2. sequence' \in 0 .. MaxIds /\ corkId' \in [Contexts -> 0 .. MaxIds]
    BY <1>2, <2>1 DEF BusInv, Bus!TypeOK
  <2>3. times' \in [Bus!Ids -> Nat]
    BY <1>2 DEF BusInv, Bus!TypeOK
  <2>4. depth' \in [Flows -> 0 .. MaxCorks] /\ corks' \in [Flows -> 0 .. MaxCorks]
    BY <1>0, <1>1 DEF BusInv, Bus!TypeOK
  <2>5. ASSUME NEW i \in Bus!Ids
        PROVE  times'[i] > 0 <=> \E d \in Contexts : corkId'[d] = i
    <3>1. CASE i = id
      <4>1. times'[id] = times[id] + 1 /\ times[id] \in Nat
        BY <1>2 DEF BusInv, Bus!TypeOK
      <4>2. corkId'[c] = id
        BY <1>1, <1>3
      <4> QED BY <1>1, <3>1, <4>1, <4>2
    <3>2. CASE i # id
      <4>1. times'[i] = times[i]
        BY <1>2, <3>2 DEF BusInv, Bus!TypeOK
      <4>2. \A d \in Contexts : corkId'[d] = i <=> corkId[d] = i
        BY <1>1, <1>2, <1>3, <3>2 DEF Bus!Ids
      <4> QED BY <4>1, <4>2 DEF BusInv, Bus!TypeOK
    <3> QED BY <3>1, <3>2
  <2> QED BY <1>1, <2>2, <2>3, <2>4, <2>5 DEF BusInv, Bus!TypeOK
<1>6. \A g \in Flows : depth'[g] <= corks'[g]
  BY <1>1 DEF BusInv, Bus!TypeOK, Bus!BusAssumption
<1>7. IdsAreTaken' /\ IdsAreOwn'
  <2>1. ASSUME NEW d \in Contexts PROVE corkId'[d] <= sequence'
    <3>1. corkId[d] <= sequence /\ corkId[d] \in 0 .. MaxIds /\ sequence \in 0 .. MaxIds
      BY DEF BusInv, Bus!TypeOK, IdsAreTaken
    <3> QED BY <1>0, <1>2, <1>3, <3>1
  <2>2. ASSUME NEW d \in Contexts, NEW e \in Contexts, corkId'[d] # 0, corkId'[d] = corkId'[e]
        PROVE  d = e
    BY <1>3, <1>4, <2>2 DEF BusInv, IdsAreOwn
  <2> QED BY <2>1, <2>2 DEF IdsAreTaken, IdsAreOwn
<1>8. QueuesAreHeld'
  BY <1>1, <1>2, <1>3 DEF BusInv, QueuesAreHeld, Bus!Ids
<1>9. ASSUME NEW d \in Contexts PROVE Counted(d)'
  <2>1. depth \in [Flows -> Nat]
    BY DEF BusInv, Bus!TypeOK
  <2>2. /\ <<f, depth[f] + 1>> \notin Held(d)
        /\ Held(d)' = IF d = c THEN Held(d) \cup {<<f, depth[f] + 1>>} ELSE Held(d)
    BY <1>1, <2>1, HeldGrows
  <2>3. Counted(d)
    BY DEF BusInv
  <2>4. CASE d = c
    <3>1. IsFiniteSet(Held(d)') /\ Cardinality(Held(d)') = Cardinality(Held(d)) + 1
      <4>1. IsFiniteSet(Held(d))
        BY <2>3 DEF Counted
      <4>2. PICK x : x \notin Held(d) /\ Held(d)' = Held(d) \cup {x}
        BY <2>2, <2>4
      <4> QED BY <4>1, <4>2, FS_AddElement
    <3>2. times'[id] = times[id] + 1 /\ id # 0
      BY <1>2 DEF BusInv, Bus!TypeOK, Bus!Ids
    <3>3. Cardinality(Held(d)) = times[id]
      BY <1>2, <2>3, <2>4 DEF Counted, Bus!Ids
    <3> QED BY <1>3, <2>4, <3>1, <3>2, <3>3 DEF Counted
  <2>5. CASE d # c
    <3>1. corkId'[d] = corkId[d] /\ corkId[d] # id
      BY <1>3, <1>4, <2>5
    <3>2. corkId[d] # 0 => times'[corkId[d]] = times[corkId[d]]
      BY <1>2, <3>1 DEF BusInv, Bus!TypeOK, Bus!Ids
    <3> QED BY <2>2, <2>3, <2>5, <3>1, <3>2 DEF Counted
  <2> QED BY <2>4, <2>5
<1>10. Bus!StartedInOrder'
  <2>1. ASSUME NEW d \in Contexts PROVE Bus!Queued(d)' = Bus!Queued(d)
    <3>1. corkId'[d] = corkId[d] \/ (corkId[d] = 0 /\ corkId'[d] = id /\ corked[id] = <<>>)
      BY <1>2, <1>3
    <3> QED BY <1>1, <3>1 DEF Bus!Queued, Bus!Ids
  <2> QED BY <1>1, <2>1 DEF BusInv, Bus!StartedInOrder
<1> QED BY <1>5, <1>6, <1>7, <1>8, <1>9, <1>10 DEF BusInv

\* An uncork takes one cork of its context; the last one starts what was queued.
LEMMA UncorkKeeps ==
  ASSUME Bus!BusAssumption, BusInv, NEW f \in Flows, Bus!Uncork(f)
  PROVE  BusInv'
<1> DEFINE c == ContextOf[f]
<1>1. PICK id \in Bus!Ids : id = corkId[c]
  BY DEF Bus!BusAssumption, BusInv, Bus!TypeOK, Bus!Uncork, Bus!Ids
<1>2. /\ c \in Contexts /\ id # 0 /\ depth[f] > 0
      /\ depth' = [depth EXCEPT ![f] = @ - 1] /\ times' = [times EXCEPT ![id] = @ - 1]
      /\ UNCHANGED <<sequence, corks, running, waiter, emitted, busFaults>>
  BY <1>1 DEF Bus!BusAssumption, Bus!Uncork
<1>3. times[id] \in Nat /\ times[id] > 0
  BY <1>1, <1>2 DEF BusInv, Bus!TypeOK
<1>4. \A d \in Contexts : d # c => corkId[d] # id
  BY <1>1, <1>2 DEF BusInv, IdsAreOwn
<1>5. depth \in [Flows -> Nat] /\ \A g \in Flows : depth'[g] <= corks'[g]
  BY <1>2 DEF BusInv, Bus!TypeOK, Bus!BusAssumption
<1>6. depth' \in [Flows -> 0 .. MaxCorks] /\ corks' \in [Flows -> 0 .. MaxCorks]
  BY <1>2 DEF BusInv, Bus!TypeOK, Bus!BusAssumption
<1>7. times' \in [Bus!Ids -> Nat] /\ times'[id] = times[id] - 1
      /\ \A i \in Bus!Ids : i # id => times'[i] = times[i]
  BY <1>2, <1>3 DEF BusInv, Bus!TypeOK
<1>8. ASSUME NEW d \in Contexts, d # c, corkId'[d] = corkId[d] PROVE Counted(d)'
  <2>1. Held(d)' = Held(d)
    BY <1>2, <1>5, <1>8, HeldShrinks
  <2>2. corkId[d] # 0 => times'[corkId[d]] = times[corkId[d]]
    BY <1>4, <1>7, <1>8 DEF BusInv, Bus!TypeOK, Bus!Ids
  <2> QED BY <1>8, <2>1, <2>2 DEF BusInv, Counted
<1>9. CASE Bus!Last(id)
  <2>1. /\ state' = [e \in Emissions |->
                       IF \E i \in DOMAIN corked[id] : corked[id][i] = e THEN "started"
                       ELSE state[e]]
        /\ started' = [started EXCEPT ![c] = @ \o corked[id]]
        /\ corked' = [corked EXCEPT ![id] = <<>>]
        /\ corkId' = [corkId EXCEPT ![c] = 0]
    BY <1>1, <1>9 DEF Bus!Uncork
  <2>2. \A d \in Contexts : corkId'[d] = IF d = c THEN 0 ELSE corkId[d]
    BY <2>1 DEF BusInv, Bus!TypeOK
  <2>3. \A i \in Bus!Ids : corked'[i] = IF i = id THEN <<>> ELSE corked[i]
    BY <2>1 DEF BusInv, Bus!TypeOK
  <2>4. started[c] \in Seq(Emissions) /\ corked[id] \in Seq(Emissions)
        /\ emitted[c] = started[c] \o corked[id] /\ started'[c] = started[c] \o corked[id]
    BY <1>1, <1>2, <2>1 DEF BusInv, Bus!TypeOK, Bus!StartedInOrder, Bus!Queued
  <2>5. started'[c] \in Seq(Emissions) /\ started'[c] \o <<>> = started'[c]
    BY <2>4, ConcatProperties, ConcatEmptySeq
  <2>6. Bus!TypeOK'
    <3>1. corked' \in [Bus!Ids -> Seq(Emissions)]
      BY <2>1 DEF BusInv, Bus!TypeOK
    <3>2. started' \in [Contexts -> Seq(Emissions)]
      BY <2>1, <2>5 DEF BusInv, Bus!TypeOK
    <3>3. corkId' \in [Contexts -> 0 .. MaxIds]
      BY <2>1 DEF BusInv, Bus!TypeOK, Bus!BusAssumption
    <3>4. state' \in [Emissions -> {"idle", "queued", "started", "handling", "over", "lost"}]
          /\ \A e \in Emissions : state'[e] = "over" => running'[e] = {}
      BY <1>2, <2>1 DEF BusInv, Bus!TypeOK
    <3>5. ASSUME NEW i \in Bus!Ids
          PROVE  times'[i] > 0 <=> \E d \in Contexts : corkId'[d] = i
      <4>1. CASE i = id
        BY <1>4, <1>7, <1>9, <2>2, <4>1 DEF Bus!Last, Bus!Ids
      <4>2. CASE i # id
        <5>1. \A d \in Contexts : corkId'[d] = i <=> corkId[d] = i
          BY <1>1, <2>2, <4>2 DEF Bus!Ids
        <5> QED BY <1>7, <4>2, <5>1 DEF BusInv, Bus!TypeOK
      <4> QED BY <4>1, <4>2
    <3> QED BY <1>2, <1>6, <1>7, <3>1, <3>2, <3>3, <3>4, <3>5 DEF BusInv, Bus!TypeOK
  <2>7. IdsAreTaken' /\ IdsAreOwn'
    <3>1. sequence \in Nat
      BY DEF Bus!BusAssumption, BusInv, Bus!TypeOK
    <3>2. IdsAreTaken'
      BY <1>2, <2>2, <3>1 DEF BusInv, IdsAreTaken
    <3> QED BY <2>2, <3>2 DEF BusInv, IdsAreOwn
  <2>8. QueuesAreHeld'
    BY <1>1, <2>2, <2>3 DEF BusInv, QueuesAreHeld
  <2>9. ASSUME NEW d \in Contexts PROVE Counted(d)'
    <3>1. CASE d = c
      <4>1. Held(c)' = {}
        BY <1>1, <1>9, LastIsLast
      <4> QED BY <2>2, <3>1, <4>1, FS_EmptySet DEF Counted
    <3>2. CASE d # c
      BY <1>8, <2>2, <3>2
    <3> QED BY <3>1, <3>2
  <2>10. ASSUME NEW d \in Contexts PROVE emitted'[d] = started'[d] \o Bus!Queued(d)'
    <3>1. CASE d = c
      BY <1>2, <2>2, <2>4, <2>5, <3>1 DEF Bus!Queued
    <3>2. CASE d # c
      <4>1. Bus!Queued(d)' = Bus!Queued(d)
        BY <1>4, <2>2, <2>3, <3>2 DEF BusInv, Bus!TypeOK, Bus!Queued, Bus!Ids
      <4>2. started'[d] = started[d]
        BY <2>1, <3>2 DEF BusInv, Bus!TypeOK
      <4> QED BY <1>2, <4>1, <4>2 DEF BusInv, Bus!StartedInOrder
    <3> QED BY <3>1, <3>2
  <2> QED BY <1>5, <2>6, <2>7, <2>8, <2>9, <2>10 DEF BusInv, Bus!StartedInOrder
<1>10. CASE ~Bus!Last(id)
  <2>1. UNCHANGED <<state, started, corked, corkId>>
    BY <1>1, <1>10 DEF Bus!Uncork
  <2>2. times'[id] > 0
    BY <1>3, <1>7, <1>10 DEF Bus!Last
  <2>3. \A i \in Bus!Ids : times'[i] > 0 <=> times[i] > 0
    BY <1>3, <1>7, <2>2
  <2>4. Bus!TypeOK'
    BY <1>2, <1>6, <1>7, <2>1, <2>3 DEF BusInv, Bus!TypeOK
  <2>5. IdsAreTaken' /\ IdsAreOwn' /\ QueuesAreHeld' /\ Bus!StartedInOrder'
    BY <1>2, <2>1 DEF BusInv, IdsAreTaken, IdsAreOwn, QueuesAreHeld,
           Bus!StartedInOrder, Bus!Queued
  <2>6. ASSUME NEW d \in Contexts PROVE Counted(d)'
    <3>1. CASE d = c
      <4>1. PICK x : x \in Held(d) /\ Held(d)' = Held(d) \ {x}
        BY <1>2, <1>5, <3>1, HeldShrinks
      <4>2. IsFiniteSet(Held(d)) /\ Cardinality(Held(d)) = times[id]
        BY <1>1, <1>2, <3>1 DEF BusInv, Counted
      <4>3. IsFiniteSet(Held(d)') /\ Cardinality(Held(d)') = times[id] - 1
        BY <4>1, <4>2, FS_RemoveElement
      <4> QED BY <1>1, <1>2, <1>7, <2>1, <3>1, <4>3 DEF Counted
    <3>2. CASE d # c
      BY <1>8, <2>1, <3>2
    <3> QED BY <3>1, <3>2
  <2> QED BY <1>5, <2>4, <2>5, <2>6 DEF BusInv
<1> QED BY <1>9, <1>10

\* What is emitted is queued behind what waits, or started when nothing may wait.
LEMMA EmitKeeps ==
  ASSUME Bus!BusAssumption, BusInv, NEW e \in Emissions, Bus!Emit(e)
  PROVE  BusInv'
<1> DEFINE c == Bus!ContextOfEmission(e)
<1>1. /\ c \in Contexts /\ emitted' = [emitted EXCEPT ![c] = Append(@, e)]
      /\ UNCHANGED <<sequence, corkId, times, depth, corks, running, waiter, busFaults>>
  BY DEF Bus!BusAssumption, Bus!Emit, Bus!ContextOfEmission
<1>2. emitted[c] \in Seq(Emissions) /\ started[c] \in Seq(Emissions)
      /\ Bus!Queued(c) \in Seq(Emissions) /\ emitted[c] = started[c] \o Bus!Queued(c)
  BY <1>1 DEF BusInv, Bus!TypeOK, Bus!StartedInOrder, Bus!Queued, Bus!Ids
<1>3. Append(emitted[c], e) = started[c] \o Append(Bus!Queued(c), e)
  <2>1. <<e>> \in Seq(Emissions)
    OBVIOUS
  <2>2. Append(emitted[c], e) = (started[c] \o Bus!Queued(c)) \o <<e>>
    BY <1>2, AppendIsConcat
  <2>3. Append(Bus!Queued(c), e) = Bus!Queued(c) \o <<e>>
    BY <1>2, AppendIsConcat
  <2>4. (started[c] \o Bus!Queued(c)) \o <<e>> = started[c] \o (Bus!Queued(c) \o <<e>>)
    <3>1. \A s, t, u \in Seq(Emissions) : (s \o t) \o u = s \o (t \o u)
      BY ConcatAssociative
    <3> QED BY <1>2, <2>1, <3>1
  <2> QED BY <2>2, <2>3, <2>4
<1>4. emitted' \in [Contexts -> Seq(Emissions)]
  BY <1>1, <1>2 DEF BusInv, Bus!TypeOK
<1>5. IdsAreTaken' /\ IdsAreOwn' /\ \A d \in Contexts : Counted(d)'
  BY <1>1 DEF BusInv, IdsAreTaken, IdsAreOwn, Counted, Held
<1>6. CASE corkId[c] # 0
  <2>1. PICK id \in Bus!Ids : id = corkId[c]
    BY <1>1, <1>6 DEF BusInv, Bus!TypeOK, Bus!Ids
  <2>2. /\ state' = [state EXCEPT ![e] = "queued"]
        /\ corked' = [corked EXCEPT ![id] = Append(@, e)] /\ started' = started
    BY <1>6, <2>1 DEF Bus!Emit
  <2>3. Bus!TypeOK'
    BY <1>1, <1>4, <2>2 DEF BusInv, Bus!TypeOK
  <2>4. QueuesAreHeld'
    BY <1>1, <2>1, <2>2 DEF BusInv, Bus!TypeOK, QueuesAreHeld
  <2>5. ASSUME NEW d \in Contexts PROVE emitted'[d] = started'[d] \o Bus!Queued(d)'
    <3>1. CASE d = c
      <4>1. Bus!Queued(d)' = Append(Bus!Queued(c), e)
        BY <1>1, <1>6, <2>1, <2>2, <3>1 DEF BusInv, Bus!TypeOK, Bus!Queued
      <4> QED BY <1>1, <1>3, <2>2, <3>1, <4>1 DEF BusInv, Bus!TypeOK
    <3>2. CASE d # c
      <4>1. corkId[d] # id
        BY <1>1, <1>6, <2>1, <3>2 DEF BusInv, IdsAreOwn
      <4>2. Bus!Queued(d)' = Bus!Queued(d)
        BY <1>1, <2>2, <4>1 DEF BusInv, Bus!TypeOK, Bus!Queued, Bus!Ids
      <4> QED BY <1>1, <2>2, <3>2, <4>2 DEF BusInv, Bus!TypeOK, Bus!StartedInOrder
    <3> QED BY <3>1, <3>2
  <2> QED BY <1>1, <1>5, <2>3, <2>4, <2>5 DEF BusInv, Bus!StartedInOrder
<1>7. CASE corkId[c] = 0
  <2>1. /\ state' = [state EXCEPT ![e] = "started"] /\ corked' = corked
        /\ started' = [started EXCEPT ![c] = Append(@, e)]
    BY <1>7 DEF Bus!Emit
  <2>2. Bus!TypeOK'
    BY <1>1, <1>2, <1>4, <2>1 DEF BusInv, Bus!TypeOK
  <2>3. QueuesAreHeld'
    BY <1>1, <2>1 DEF BusInv, QueuesAreHeld
  <2>4. ASSUME NEW d \in Contexts PROVE emitted'[d] = started'[d] \o Bus!Queued(d)'
    <3>1. Bus!Queued(d)' = Bus!Queued(d)
      BY <1>1, <2>1 DEF Bus!Queued
    <3>2. CASE d = c
      <4>1. Bus!Queued(c) = <<>> /\ emitted[c] = started[c]
        BY <1>2, <1>7, ConcatEmptySeq DEF Bus!Queued
      <4>2. Append(started[c], e) \in Seq(Emissions)
        BY <1>2
      <4>3. emitted'[d] = Append(started[c], e) /\ started'[d] = Append(started[c], e)
        BY <1>1, <2>1, <3>2, <4>1 DEF BusInv, Bus!TypeOK
      <4> QED BY <3>1, <3>2, <4>1, <4>2, <4>3, ConcatEmptySeq
    <3>3. CASE d # c
      BY <1>1, <2>1, <3>1, <3>3 DEF BusInv, Bus!TypeOK, Bus!StartedInOrder
    <3> QED BY <3>2, <3>3
  <2> QED BY <1>1, <1>5, <2>2, <2>3, <2>4 DEF BusInv, Bus!StartedInOrder
<1> QED BY <1>6, <1>7

\* doEmit and await touch neither corks nor queues.
LEMMA HandlingKeeps ==
  ASSUME Bus!BusAssumption, BusInv,
         \/ \E e \in Emissions : Bus!Handle(e) \/ Bus!InitThrows(e) \/ Bus!Settle(e)
         \/ \E e \in Emissions, h \in Handlers : Bus!HandlerEnds(e, h)
         \/ \E w \in Waiters : Bus!Await(w)
         \/ UNCHANGED Bus!vars
  PROVE  BusInv'
<1>1. UNCHANGED <<Bus!corkVars, emitted, started>>
  BY DEF Bus!Handle, Bus!InitThrows, Bus!Settle, Bus!HandlerEnds,
              Bus!Await, Bus!vars
<1>2. /\ state' \in [Emissions -> {"idle", "queued", "started", "handling", "over", "lost"}]
      /\ running' \in [Emissions -> SUBSET Handlers]
      /\ waiter' \in [Waiters -> {"idle", "waiting", "woken"}]
      /\ busFaults' \in 0 .. MaxFaults
      /\ \A e \in Emissions : state'[e] = "over" => running'[e] = {}
  <2>1. CASE \E e \in Emissions : Bus!Handle(e)
    BY <2>1 DEF Bus!Handle, Bus!BusAssumption, BusInv, Bus!TypeOK
  <2>2. CASE \E e \in Emissions : Bus!InitThrows(e)
    BY <2>2 DEF Bus!InitThrows, Bus!BusAssumption, BusInv, Bus!TypeOK
  <2>3. CASE \E e \in Emissions : Bus!Settle(e)
    BY <2>3 DEF Bus!Settle, BusInv, Bus!TypeOK
  <2>4. CASE \E e \in Emissions, h \in Handlers : Bus!HandlerEnds(e, h)
    BY <2>4 DEF Bus!HandlerEnds, BusInv, Bus!TypeOK
  <2>5. CASE \E w \in Waiters : Bus!Await(w)
    BY <2>5 DEF Bus!Await, BusInv, Bus!TypeOK
  <2>6. CASE UNCHANGED Bus!vars
    BY <2>6 DEF Bus!vars, BusInv, Bus!TypeOK
  <2> QED BY <2>1, <2>2, <2>3, <2>4, <2>5, <2>6
<1>3. Bus!TypeOK'
  BY <1>1, <1>2 DEF Bus!corkVars, BusInv, Bus!TypeOK
<1> QED BY <1>1, <1>3 DEF Bus!corkVars, BusInv, IdsAreTaken, IdsAreOwn, QueuesAreHeld, Counted,
           Held, Bus!StartedInOrder, Bus!Queued

LEMMA NextBus == Bus!BusAssumption /\ BusInv /\ [Bus!Next]_(Bus!vars) => BusInv'
<1> SUFFICES ASSUME Bus!BusAssumption, BusInv, [Bus!Next]_(Bus!vars) PROVE BusInv'
  OBVIOUS
<1>1. CASE \E f \in Flows : Bus!Cork(f)
  BY <1>1, CorkKeeps
<1>2. CASE \E f \in Flows : Bus!Uncork(f)
  BY <1>2, UncorkKeeps
<1>3. CASE \E e \in Emissions : Bus!Emit(e)
  BY <1>3, EmitKeeps
<1>4. CASE \/ \E e \in Emissions : Bus!Handle(e) \/ Bus!InitThrows(e) \/ Bus!Settle(e)
           \/ \E e \in Emissions, h \in Handlers : Bus!HandlerEnds(e, h)
           \/ \E w \in Waiters : Bus!Await(w)
           \/ UNCHANGED Bus!vars
  BY <1>4, HandlingKeeps
<1> QED BY <1>1, <1>2, <1>3, <1>4 DEF Bus!Next

\* An event starts only by the last uncork of its context, or outside any cork.
LEMMA CorkStep ==
  ASSUME Bus!BusAssumption, BusInv, [Bus!Next]_(Bus!vars),
         NEW c \in Contexts, started'[c] # started[c]
  PROVE  \A f \in Flows : ContextOf[f] = c => depth'[f] = 0
<1>1. CASE \E f \in Flows : Bus!Uncork(f)
  <2>1. PICK f \in Flows : Bus!Uncork(f)
    BY <1>1
  <2>2. Bus!Last(corkId[ContextOf[f]]) /\ c = ContextOf[f]
    BY <2>1 DEF Bus!Uncork, BusInv, Bus!TypeOK
  <2>3. Held(c)' = {}
    BY <2>1, <2>2, LastIsLast
  <2>4. BusInv'
    BY <2>1, UncorkKeeps
  <2>5. ASSUME NEW g \in Flows, ContextOf[g] = c, depth'[g] # 0 PROVE FALSE
    <3>1. depth'[g] \in Nat
      BY <2>4, <2>5 DEF BusInv, Bus!TypeOK
    <3>2. <<g, depth'[g]>> \in Held(c)'
      BY <2>5, <3>1 DEF Held
    <3> QED BY <2>3, <3>2
  <2> QED BY <2>5
<1>2. CASE \E e \in Emissions : Bus!Emit(e)
  <2>1. PICK e \in Emissions : Bus!Emit(e)
    BY <1>2
  <2>2. corkId[c] = 0 /\ depth' = depth
    BY <2>1 DEF Bus!Emit, BusInv, Bus!TypeOK
  <2>3. Held(c) = {}
    BY <2>2, FS_EmptySet DEF BusInv, Counted
  <2>4. depth \in [Flows -> Nat]
    BY DEF BusInv, Bus!TypeOK
  <2> QED BY <2>2, <2>3, <2>4, NoneHeld
<1>3. CASE \/ \E f \in Flows : Bus!Cork(f)
           \/ \E e \in Emissions : Bus!Handle(e) \/ Bus!InitThrows(e) \/ Bus!Settle(e)
           \/ \E e \in Emissions, h \in Handlers : Bus!HandlerEnds(e, h)
           \/ \E w \in Waiters : Bus!Await(w)
           \/ UNCHANGED Bus!vars
  BY <1>3 DEF Bus!Cork, Bus!Handle, Bus!InitThrows, Bus!Settle, Bus!HandlerEnds,
              Bus!Await, Bus!vars
<1> QED BY <1>1, <1>2, <1>3 DEF Bus!Next

-----------------------------------------------------------------------------
(* A behaviour of the run is one of each instance *)

LEMMA StreamBehaves == MCSpec => Stream!Init /\ [][Stream!Next]_(Stream!vars)
<1>1. MCInit => Stream!Init
  BY DEF MCInit
<1>2. [MCNext]_allVars => [Stream!Next]_(Stream!vars)
  <2>1. UNCHANGED streamVars => UNCHANGED Stream!vars
    BY DEF streamVars, Stream!vars, Stream!sessionVars, Stream!agentVars, Stream!requestVars
  <2> QED BY <2>1 DEF MCNext, allVars
<1> QED BY <1>1, <1>2, PTL DEF MCSpec

LEMMA SseBehaves == MCSpec => Sse!Init /\ [][Sse!Next]_(Sse!vars)
<1>1. MCInit => Sse!Init
  BY DEF MCInit
<1>2. [MCNext]_allVars => [Sse!Next]_(Sse!vars)
  <2>1. UNCHANGED sseVars => UNCHANGED Sse!vars
    BY DEF sseVars, Sse!vars, Sse!connVars, Sse!keptVars, Sse!agentVars
  <2> QED BY <2>1 DEF MCNext, allVars
<1> QED BY <1>1, <1>2, PTL DEF MCSpec

LEMMA FetchBehaves == MCSpec => F!Init /\ [][F!Next]_(F!vars)
<1>1. MCInit => F!Init
  BY DEF MCInit
<1>2. [MCNext]_allVars => [F!Next]_(F!vars)
  <2>1. UNCHANGED fetchVars => UNCHANGED F!vars
    BY DEF fetchVars, F!vars, F!socketVars, F!streamVars, F!sendVars, F!sessionVars
  <2> QED BY <2>1 DEF MCNext, allVars
<1> QED BY <1>1, <1>2, PTL DEF MCSpec

LEMMA RunBehaves == MCSpec => Init /\ [][Next]_vars
<1>1. MCInit => Init
  BY DEF MCInit
<1>2. [MCNext]_allVars => [Next]_vars
  BY DEF MCNext, allVars
<1> QED BY <1>1, <1>2, PTL DEF MCSpec

LEMMA BusBehaves == MCSpec => Bus!Init /\ [][Bus!Next]_(Bus!vars)
<1>1. MCInit => Bus!Init
  BY DEF MCInit
<1>2. [MCNext]_allVars => [Bus!Next]_(Bus!vars)
  <2>1. UNCHANGED busVars => UNCHANGED Bus!vars
    BY DEF busVars, Bus!vars, Bus!corkVars
  <2> QED BY <2>1 DEF MCNext, allVars
<1> QED BY <1>1, <1>2, PTL DEF MCSpec

LEMMA BusHolds == MCSpec => []BusInv
<1>1. Bus!BusAssumption
  BY InstancesAssumption
<1> QED BY <1>1, InitBus, NextBus, BusBehaves, PTL

-----------------------------------------------------------------------------
(* Theorems *)

\* Every reachable state has the types of the bus; the ids that count corks are
\* those the contexts hold, and no handler outlives the context of its event.
THEOREM BusTypes == MCSpec => []Bus!TypeOK
<1>1. BusInv => Bus!TypeOK
  BY DEF BusInv
<1> QED BY <1>1, BusHolds, PTL

\* What the flows of a context emit starts in the order they emitted it, once and
\* without a gap, whichever of them corks and uncorks (emitWithContext, uncork).
THEOREM BusInOrder == MCSpec => []StartedInOrder
<1>1. BusInv => StartedInOrder
  BY DEF BusInv, StartedInOrder
<1> QED BY <1>1, BusHolds, PTL

\* While any flow of a context holds a cork no event of the context starts: the
\* count under its id is that of its flows' corks (cork, uncork).
THEOREM BusCorksHold == MCSpec => CorkHolds
<1>1. Bus!BusAssumption
  BY InstancesAssumption
<1>2. BusInv /\ [Bus!Next]_(Bus!vars) =>
        [\A c \in Contexts : started'[c] # started[c] =>
           \A f \in Flows : ContextOf[f] = c => depth'[f] = 0]_(Bus!vars)
  BY <1>1, CorkStep
<1> QED BY <1>1, <1>2, BusHolds, BusBehaves, PTL DEF CorkHolds, Bus!CorkHolds

\* An MCP session over the cluster is kept, routed and timed as one, and an SSE
\* session whose close is heard is cleaned up, for any workers, sessions,
\* requests and messages (onStreamSessionInitialized, closeStreamMcpServer,
\* checkAndRunProxy, clearSseMcpServer).
THEOREM SessionsAreWhole == MCSpec => []SessionIsWhole
<1>1. Stream!McpStreamAssumption /\ Sse!McpSseAssumption
  BY InstancesAssumption
<1>2. MCSpec => []StreamInv
  BY <1>1, InitStream, NextStream, StreamBehaves, PTL
<1>3. MCSpec => []SseInv
  BY <1>1, InitSse, NextSse, SseBehaves, PTL
<1>4. StreamInv /\ SseInv => SessionIsWhole
  BY <1>1, StreamIsWhole, HeardCloses DEF SessionIsWhole
<1> QED BY <1>2, <1>3, <1>4, PTL

\* Until its socket has gone no message of a peer is lost silently: they are given
\* in order, what is dropped or discarded is counted, and the stream of an answer
\* is released, however many messages and errors there are (onClose, invokeData,
\* sendResponse).
THEOREM NothingGoesLost == MCSpec => []NothingIsLostSilently
<1>1. F!SessionAssumption
  BY InstancesAssumption
<1>2. MCSpec => []FetchInv
  BY <1>1, InitFetch, NextFetch, FetchBehaves, PTL
<1>3. FetchInv => NothingIsLostSilently
  BY <1>1, NothingLost
<1> QED BY <1>2, <1>3, PTL


LEMMA EventsHold == Spec => []EventsInv
<1>1. Init => EventsInv
  <2> SUFFICES ASSUME Init
               PROVE  EventsInv
    OBVIOUS
  <2>1. /\ file = <<1>> /\ Len(file) = 1 /\ file[1] = 1 /\ Range(file) = {1}
        /\ lastSeq = 1 /\ ~done /\ buffered
    BY DEF Init, Range
  <2>2. FileInv
    BY <2>1, EventsAssumption DEF FileInv, Ascending
  <2>3. ASSUME NEW c \in Clients
        PROVE  ClientInv(c)
    <3>1. /\ pc[c] = "idle" /\ after[c] = 0 /\ lastWrittenSeq[c] = 0
          /\ written[c] = <<>> /\ queue[c] = <<>>
      BY DEF Init
    <3>2. Range(<<>>) = {} /\ Ascending(<<>>)
      BY DEF Range, Ascending
    <3> QED
      BY <2>1, <3>1, <3>2 DEF ClientInv, Got, Reads, ReadsStored, Queued, CatchesUp,
         Drains, Waits, Listens, Ended, Fresh, Due, Reading, Live
  <2>4. TypeOK
    <3>1. <<1>> \in Seq(1 .. MaxEvents) /\ <<>> \in Seq(1 .. MaxEvents)
      BY EventsAssumption
    <3>2. 0 \in 0 .. MaxEvents /\ 0 \in 0 .. MaxFaults /\ 1 \in 1 .. MaxEvents
          /\ NotYet \in 1 .. NotYet
      BY EventsAssumption DEF NotYet
    <3> QED
      BY <3>1, <3>2 DEF Init, TypeOK, Pc, Finished, NotYet
  <2> QED
    BY <2>2, <2>3, <2>4 DEF EventsInv
<1>2. EventsInv /\ [Next]_vars => EventsInv'
  <2> SUFFICES ASSUME EventsInv, [Next]_vars
               PROVE  EventsInv'
    OBVIOUS
  <2>1. ASSUME NEW d \in Clients
        PROVE  ClientInv(d)'
    <3>1. CASE PushMessage \/ PushLastAndFinish
      BY <3>1, PushStep DEF PushMessage, PushLastAndFinish
    <3>2. CASE PushThrows \/ LastThrows \/ ReleaseBuffer
      BY <3>2, SilentStep
    <3>3. ASSUME NEW c \in Clients,
                 \/ \E seq \in 0 .. lastSeq : Connect(c, seq)
                 \/ Client(c) \/ Heartbeat(c) \/ Close(c)
          PROVE  ClientInv(d)'
      BY <3>3, ReadLineStep, DrainOneStep, MoveStep DEF Client
    <3>4. CASE UNCHANGED vars
      BY <3>4, HasTypes, Frame DEF SameAt, vars, runVars, clientVars
    <3> QED
      BY <3>1, <3>2, <3>3, <3>4 DEF Next, Worker, Stopped
  <2> QED
    BY <2>1, EventsTypes, FileStep DEF EventsInv
<1> QED
  BY <1>1, <1>2, PTL DEF Spec

\* Every variable keeps its type.
THEOREM StreamTypes == Spec => []TypeOK
<1>1. EventsInv => TypeOK
  BY DEF EventsInv
<1> QED
  BY <1>1, EventsHold, PTL

\* A client gets the stored events it asked for once each, in order and without
\* a gap, however the replay, the catch-up and the live events overlap with the
\* worker's appends and with a disconnect (streamEventsToWriter).
THEOREM ExactlyOnceInOrder == Spec => []DeliveredInOrder
<1>1. EventsInv => DeliveredInOrder
  BY DEF EventsInv, ClientInv, Got, DeliveredInOrder
<1> QED
  BY <1>1, EventsHold, PTL

\* A stream the server ends after the live events, or from the file of a run
\* long over, has delivered every stored event the client asked for.
THEOREM NothingMissedAtTheEnd == Spec => []EndedSawEverything
<1>1. EventsInv => EndedSawEverything
  <2> SUFFICES ASSUME EventsInv, NEW c \in Clients, pc[c] = "ended"
               PROVE  done /\ Range(written[c]) = Due(c)
    BY DEF EndedSawEverything
  <2> QED
    BY DEF EventsInv, ClientInv, Got, Ended, Due
<1> QED
  BY <1>1, EventsHold, PTL

\* A client that waits for the next event listens and has all there is: no
\* event slips between its last look at the queue and its wait.
THEOREM NoLostWakeUp == Spec => []WaitingIsUpToDate
<1>1. EventsInv => WaitingIsUpToDate
  <2> SUFFICES ASSUME EventsInv, NEW c \in Clients, pc[c] = "wait"
               PROVE  ~done /\ listening[c] /\ Range(written[c]) = Due(c)
    BY DEF WaitingIsUpToDate
  <2>1. ClientInv(c)
    BY DEF EventsInv
  <2>2. queue[c] = <<>> /\ ~done /\ listening[c] /\ Range(queue[c]) = {}
    BY <2>1 DEF ClientInv, Waits, Listens, Live, Range
  <2> QED
    BY <2>1, <2>2 DEF ClientInv, Got, Drains, Due
<1> QED
  BY <1>1, EventsHold, PTL

\* Neither the end of a live stream nor a wait leaves an event behind.
THEOREM NoneMissed == Spec => []NothingIsMissed
<1>1. EndedSawEverything /\ WaitingIsUpToDate => NothingIsMissed
  BY DEF NothingIsMissed
<1> QED
  BY <1>1, NothingMissedAtTheEnd, NoLostWakeUp, PTL

\* The same in every behaviour of the run.
THEOREM EventsArriveOnce == MCSpec => [](DeliveredInOrder /\ NothingIsMissed)
<1>1. MCSpec => Spec
  BY RunBehaves, PTL DEF Spec
<1> QED
  BY <1>1, ExactlyOnceInOrder, NoneMissed, PTL
=============================================================================
