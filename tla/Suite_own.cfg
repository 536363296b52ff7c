SPECIFICATION TSpec
CONSTANTS
  Suite <- PairSuite
  Sub <- PairSub
  Own <- PairOwn
  Root = "root"
  Parallel = {}
  Method <- Methods
  selectedMethods <- EveryTest
  ContinueOnError = {FALSE}
  AssertsIn = {"setup", "before", "body", "after", "tear_down"}
  ThrowMacros = {"TEST_THROWS"}
  ThrowsIn = {"setup", "before", "body", "after", "tear_down"}
  NestedAborts = FALSE
  DeclinesIn = {"setup", "before"}
  Name <- Names
  argString <- Arguments
  scenarios <- Scenarios
  MaxAsserts = 2
INVARIANT RunsOwnMethods

