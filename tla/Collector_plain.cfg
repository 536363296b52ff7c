SPECIFICATION CSpec
CONSTANTS
  Suite <- PlainSuite
  Sub <- PlainSub
  Own <- PlainOwn
  Root = "root"
  Parallel = {}
  Method <- Methods
  selectedMethods <- EveryTest
  ContinueOnError = {TRUE}
  AssertsIn = {"body", "after"}
  ThrowMacros = {}
  ThrowsIn = {"body", "tear_down"}
  NestedAborts = FALSE
  DeclinesIn = {"setup", "before"}
  MaxAsserts = 1
  OuterChain <- NoWrapper
  Unsigned = 65536
  AsyncFails = FALSE
  NoThread = NoThread
INVARIANTS CTypeOK HiddenSuitesPassed FailuresAreMarked ResultMatchesReport RecordsUnderRunningMethod ReportAddsUp FailuresHaveElements EverySuiteReported
