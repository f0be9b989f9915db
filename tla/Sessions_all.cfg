SPECIFICATION MCSpec
CONSTANTS
  Parts = {"stream", "sse", "fetch", "run", "bus"}
  None = None
  Workers = {1, 2}
  Sessions = {s1}
  Requests = {req1, req2, req3}
  TargetOf <- OneSession
  Deletes = {req3}
  MaxCrashes = 1
  Messages = {"m1", "m2", "m3"}
  IdOf <- OneIdTwice
  MaxMessages = 3
  MaxErrors = 1
  Clients = {a}
  MaxEvents = 5
  MaxFaults = 1
  Contexts = {"c1", "c2"}
  Flows = {"f1", "f2", "f3"}
  ContextOf <- TwoFlowsAndOne
  Emissions = {"e1", "e2"}
  FlowOf <- OneOfEachFlow
  EventOf <- HelloAndBye
  Events = {"hello", "bye"}
  Handlers = {h1, h2}
  HandlersOf <- HelloIsHandled
  Waiters = {w1}
  WaitsFor <- ForAny
  MaxCorks = 2
  MaxIds = 4
INVARIANTS
  SessionIsWhole
  NothingIsLostSilently
  DeliveredInOrder
  NothingIsMissed
  StartedInOrder
PROPERTIES
  CorkHolds
  PeersAreReleased
