SPECIFICATION TSpec
CONSTANTS
  Suite <- PairSuite
  Sub <- PairSub
  Own <- PairOwn
  Root = "root"
  Parallel = {}
  Method <- Methods
  selectedMethods <- EveryTest
  ContinueOnError = {FALSE}
  AssertsIn = {"body", "after", "tear_down"}
  ThrowMacros = {"TEST_THROWS", "TEST_THROWS_ANYTHING"}
  ThrowsIn = {"setup", "before", "body", "after", "tear_down"}
  NestedAborts = FALSE
  DeclinesIn = {"setup", "before"}
  Name <- Names
  argString <- Arguments
  scenarios <- Scenarios
  MaxAsserts = 2
INVARIANT FailureEndsBody

