SPECIFICATION TFairSpec
CONSTANTS
  Suite <- TwiceSuite
  Sub <- TwiceSub
  Own <- TwiceOwn
  Root = "root"
  Parallel = {}
  Method <- Methods
  selectedMethods <- EveryTest
  ContinueOnError = {FALSE, TRUE}
  AssertsIn = {"setup", "before", "body", "after", "tear_down"}
  ThrowMacros = {"TEST_THROWS", "TEST_THROWS_ANYTHING"}
  ThrowsIn = {"setup", "before", "body", "after", "tear_down"}
  NestedAborts = TRUE
  DeclinesIn = {"setup", "before"}
  Name <- Names
  argString <- Arguments
  scenarios <- Scenarios
  MaxAsserts = 4
INVARIANTS CountInRange SuccessNeedsAllParts VerdictIsTold SuitesAreTold
PROPERTIES ImplementsSuite ImplementsProtocol Terminates
