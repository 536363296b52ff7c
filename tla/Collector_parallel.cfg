SPECIFICATION CSpec
CONSTANTS
  Suite <- FlatSuite
  Sub <- FlatSub
  Own <- FlatOwn
  Root = "par"
  Parallel = {"par"}
  Method <- Methods
  selectedMethods <- EveryTest
  ContinueOnError = {FALSE}
  AssertsIn = {"setup", "body"}
  ThrowMacros = {}
  ThrowsIn = {"body"}
  NestedAborts = FALSE
  DeclinesIn = {"setup"}
  MaxAsserts = 1
  OuterChain <- TestMainWrapper
  Unsigned = 65536
  AsyncFails = FALSE
  NoThread = NoThread
INVARIANTS EverySuiteReported
