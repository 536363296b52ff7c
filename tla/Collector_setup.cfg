SPECIFICATION CSpec
CONSTANTS
  Suite <- PlainSuite
  Sub <- PlainSub
  Own <- PlainOwn
  Root = "root"
  Parallel = {}
  Method <- Methods
  selectedMethods <- EveryTest
  ContinueOnError = {TRUE}
  AssertsIn = {"setup"}
  ThrowMacros = {}
  ThrowsIn = {}
  NestedAborts = FALSE
  DeclinesIn = {}
  MaxAsserts = 1
  OuterChain <- NoWrapper
  Unsigned = 65536
  AsyncFails = FALSE
  NoThread = NoThread
INVARIANT MethodPointerValid
