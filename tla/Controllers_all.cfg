SPECIFICATION MCSpec
CONSTANTS
  Undefined = Undefined
  Methods = {"m", "n"}
  Declarations <- MCDeclarations
  MaxIndex = 1
  MaxMethods = 2
  Events = {e1, e2}
  MaxControllers = 3
  MaxFaults = 1
  Nothing = Nothing
  ClassFns <- FnOfClass
  MethodFns <- FnOfMethod
  ClassAdvices <- AdviceOfClass
  MethodAdvices <- AdviceOfMethod
INVARIANTS
  HandlersGetWhatTheyBind
  RoutesAreReached
  EventsFailForACause
  SessionServesItsServer
  AnswersOnce
CHECK_DEADLOCK FALSE
