SPECIFICATION Spec
CONSTANTS
  Entry <- SomeEntries
  Name <- SomeNames
  Test <- SomeTests
  Pattern = {"p1", "p2"}
  Matches <- SomeMatches
  File = {"file"}
  Arg <- AllArgs
  Ignored = {"ignored"}
  Handled = {"handled"}
  MaxSuites = 2
  MaxArgs = 3
INVARIANTS TypeOK DefaultsAreRun ListStreamLives RunsWhatIsAsked ListsWhatIsAsked ReportsWhereAsked ExitCodeTellsFailure
