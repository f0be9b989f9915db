SPECIFICATION Spec
CONSTANTS
  a = a
  Clients = {a}
  MaxEvents = 2
  MaxFaults = 0
INVARIANTS
  ReplayedSawEverything
