SPECIFICATION CSpec
CONSTANTS
  Suite <- FlatSuite
  Sub <- FlatSub
  Own <- WarnOwn
  Root = "par"
  Parallel = {"par"}
  Method <- Methods
  selectedMethods <- EveryTest
  ContinueOnError = {TRUE}
  AssertsIn = {}
  ThrowMacros = {}
  ThrowsIn = {}
  NestedAborts = FALSE
  DeclinesIn = {}
  MaxAsserts = 0
  OuterChain <- NoWrapper
  Unsigned = 65536
  AsyncFails = FALSE
  NoThread = NoThread
INVARIANT WarningOnly
