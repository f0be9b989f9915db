SPECIFICATION Spec
CONSTANTS
  None = None
  Updates = {u1}
  Runs = {r1, r2}
  Appends = {a1, a2}
  Fields = {f}
  FieldOf <- OneField
  ClientKinds = {FALSE}
  MaxFaults = 1
INVARIANTS
  ServedInOrder
  ThreadIsTidy
PROPERTIES
  NoLostUpdate
  RecordedBeforeDown
