SPECIFICATION MCSpec
CONSTANTS
  Units <- ThreeModules
  Shapes <- AllShapes
  MaxProtos = 4
  MaxHooks = 1
  Runs = {1, 2}
  UnitCount = 4
  MaxFaults = 2
  d1 = d1
  d2 = d2
  d3 = d3
  Dirs = {d1, d2, d3}
  Trees <- AllTrees
  Listings <- AllListings
  NoName = NoName
  Envs = {"prod", "unit"}
  FileSets <- AllFileSets
  MaxApps = 3
  Names = {"logger", "user", "cache"}
  Contexts = {c1, c2}
  NoContext = NoContext
  NoValue = NoValue
  None = None
  Modules <- ThreeModules
  Home = "m2"
  Present = {"p1", "p2", "p3", "typed", "given"}
INVARIANTS
  GraphForeseesBoot
  BootIsUndone
  ModulesAreWhole
  PropertiesAreObjects
  DeclaredIsInjected
CHECK_DEADLOCK FALSE
