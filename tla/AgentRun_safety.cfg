SPECIFICATION MCSpec
CONSTANTS
  RunKinds = {"sync", "async", "stream"}
  LocalCancellers = {c1}
  RemoteCancellers = {}
  MaxMessages = 2
  MaxFaults = 2
  ExternalAborts = TRUE
  Crashes = TRUE
  SlowStore = TRUE
  Parts = {"run", "messages", "controller"}
  None = None
  MaxYields = 2
  MaxRuns = 2
  Runs = {r1, r2}
  Versions = {"v1", "v2"}
  MaxThrows = 2
INVARIANTS
  ThreadUntouchedBeforeCommit
  RecordTellsTheTruth
  TranscriptIsKept
  MessagesAreFaithful
  ControllerOwnsRuntime
PROPERTIES
  CancelledRunIsQuiet
  RefinesLifecycle
