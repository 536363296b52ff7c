SPECIFICATION CSpec
CONSTANTS
  Suite <- FlatSuite
  Sub <- FlatSub
  Own <- FlatOwn
  Root = "par"
  Parallel = {"par"}
  Method <- Methods
  selectedMethods <- EveryTest
  ContinueOnError = {TRUE}
  AssertsIn = {"body"}
  ThrowMacros = {}
  ThrowsIn = {}
  NestedAborts = FALSE
  DeclinesIn = {}
  MaxAsserts = 1
  OuterChain <- TestMainWrapper
  Unsigned = 65536
  AsyncFails = FALSE
  NoThread = NoThread
INVARIANT RecordsUnderRunningMethod
