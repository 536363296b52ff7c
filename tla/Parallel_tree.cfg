SPECIFICATION PFairSpec
CONSTANTS
  Suite <- TreeSuite
  Sub <- TreeSub
  Own <- TreeOwn
  Root = "root"
  Parallel = {"p", "q", "inner"}
  Method <- Methods
  selectedMethods <- EveryTest
  ContinueOnError = {FALSE}
  AssertsIn = {"body"}
  ThrowMacros = {"TEST_THROWS"}
  ThrowsIn = {"tear_down"}
  NestedAborts = FALSE
  DeclinesIn = {"setup"}
  MaxAsserts = 1
  OuterChain <- NoWrapper
  AsyncFails = TRUE
  NoThread = NoThread
INVARIANTS PTypeOK FailureEndsBody LocksHeld NoDeadlock MutualExclusion WorkersJoined WorkerExceptionsSurface
PROPERTIES PImplementsProtocol Terminates
