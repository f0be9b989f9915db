SPECIFICATION MCSpec
CONSTANTS
  RunKinds = {"sync", "async", "stream"}
  LocalCancellers = {}
  RemoteCancellers = {}
  MaxMessages = 1
  MaxFaults = 1
  ExternalAborts = FALSE
  Crashes = FALSE
  SlowStore = FALSE
  Parts = {"run"}
  None = None
  MaxYields = 0
  MaxRuns = 0
  Runs = {}
  Versions = {"v1"}
  MaxThrows = 0
INVARIANTS
  FailedCompletionIsMarked
