SPECIFICATION MCFairSpec
CONSTANTS
  RunKinds = {"sync", "async"}
  LocalCancellers = {c1}
  RemoteCancellers = {c2}
  MaxMessages = 1
  MaxFaults = 0
  ExternalAborts = TRUE
  Crashes = FALSE
  SlowStore = FALSE
  Parts = {"run"}
  None = None
  MaxYields = 0
  MaxRuns = 0
  Runs = {}
  Versions = {"v1"}
  MaxThrows = 0
PROPERTIES
  RunsSettle
