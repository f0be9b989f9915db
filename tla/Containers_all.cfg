SPECIFICATION MCSpec
CONSTANTS
  None = None
  Protos = {"a", "b", "c"}
  Deps <- Triangle
  Requests = {r1, r2}
  WantOf <- TopAndBottom
  MaxRounds = 2
  MaxFaults = 1
  Tasks = {t1, t2, t3}
  TimeoutKinds = {TRUE, FALSE}
  CtxProtos = {"controller", "light", "service", "util", "a", "b", "c", "helper"}
  CtxDeps <- Injects
  InContext = {"a", "b", "c", "helper"}
  Helper = "helper"
  Roots = {"controller", "light"}
  Handler = {"service", "util", "controller"}
  Updates = {"u1"}
  Runs = {"run1"}
  Appends = {"a1"}
  Fields = {f}
  FieldOf <- OneField
  ClientKinds = {TRUE}
INVARIANTS
  OneObjectPerScope
  InjectedFirst
  FailureIsShared
  ObjectsAreAccountedFor
  NoTaskIsForgotten
PROPERTIES
  WaitsEnd
