SPECIFICATION MCSpec
CONSTANTS
  Tables <- MCTables
  Values = {v, w}
  v = v
  w = w
  Null = Null
  Undefined = Undefined
  None = None
  MaxRows = 2
  MaxNow = 2
  Fragments <- Pieces
  MaxFragments = 4
  Default = "default"
  Modules <- MCModules
  RetryTimes = 2
  MaxConnectFaults = 2
  MaxBoots = 2
  Designs <- AllDesigns
  MaxThrows = 2
  Tools = {"t1"}
  Nodes = {"n1", "n2"}
  Edges = {"e1"}
  Graphs = {"g1", "g2"}
  Clients = {"m1", "m2"}
  Savers = {"s1"}
  ChatSaver = "chatSaver"
  ToolsOf <- OneTool
  ServersOf <- TwoServers
  ModelsOf <- ModelFields
  NodesOf <- GraphNodes
  EdgesOf <- GraphEdges
  SaverOf <- GraphSavers
  Renamed = {}
  Calls = {"k1", "k2", "k3"}
  GraphOf <- GraphCalls
  ConfigOf <- CallConfigs
  ChatModel = "chatModel"
  Models = {"m1", "m2", "m3"}
  Lists <- ListedOrNot
  Single = "test"
  MaxRealms = 3
  Classes = {"s1", "s2", "s3"}
  Paths = {"p1", "p2"}
  File <- TwoInOneFile
  Disabled = {"s1"}
  MaxFires = 2
  Hosts = {"h1", "h2"}
  Lookups = {"l1", "l2", "l3", "l4"}
  HostOf <- ThreeOfOneHost
  MaxCacheSize = 1
  MaxAddresses = 3
  Processes = {"p1", "p2"}
  Appends = {"a1", "a2", "a3", "a4"}
  WriterOf <- TwoEach
  MaxFaults = 1
  ToolUses = {"t1", "t2", "t3"}
  MaxMessages = 5
INVARIANTS
  DalKeepsItsWord
  HooksSeeTheWhole
  OneOfEach
  ClientsKeepTheTruth
  TraceIsWellFormed
CHECK_DEADLOCK FALSE
