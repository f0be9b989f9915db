SPECIFICATION MCSpec
CONSTANTS
  RunKinds = {"sync", "async", "stream"}
  LocalCancellers = {c1}
  RemoteCancellers = {}
  MaxMessages = 1
  MaxFaults = 0
  ExternalAborts = FALSE
  Crashes = FALSE
  SlowStore = FALSE
  Parts = {"run"}
  None = None
  MaxYields = 0
  MaxRuns = 0
  Runs = {}
  Versions = {"v1"}
  MaxThrows = 0
PROPERTIES
  TerminalIsFinal
