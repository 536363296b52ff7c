------------------------------- MODULE BDDSuite -------------------------------
(***************************************************************************)
(* BDDSuite::runScenario: the test body that STORY and SCENARIO register,  *)
(* which looks a scenario up by name and runs its GIVEN, WHEN and THEN     *)
(* through TEST_ASSERT_MSG and TEST_THROWS_NOTHING_MSG.  Every step of a   *)
(* scenario is one that module TestSuite allows to a body, so that what    *)
(* holds of suites holds of stories.                                       *)
(*                                                                         *)
(* GIVEN and THEN are conditions: they hold, do not hold or throw.  The    *)
(* statements of a WHEN may pass and fail assertions, abort, throw or      *)
(* return; they use no macro of the TEST_THROWS family of their own.       *)
(***************************************************************************)
EXTENDS TestSuite, FiniteSets

CONSTANTS
  Name,       \* names of scenarios
  argString,  \* the argument bound to every method: a scenario's name
  scenarios   \* the names in the scenarios vector of every story, in order

ASSUME StoryAssumption ==
  /\ argString \in [Method -> Name]
  /\ scenarios \in [Suite -> Seq(Name)]
  /\ "TEST_THROWS" \in ThrowMacros

VARIABLES
  stories,  \* is every suite of the tree a BDDSuite, or none?
  part,     \* the part of the scenario that runScenario of a thread is at
  broken    \* the parts that went wrong since the scenario began

story == <<stories, part, broken>>
bvars == <<vars, story>>

\* Between WHEN and THEN the macro may have an exception to catch ("caught"),
\* or the action may have been left by TEST_ABORT ("aborted").
Part == {"given", "when", "caught", "aborted", "then", "done"}

BInit ==
  /\ Init
  /\ stories \in BOOLEAN
  /\ part = [t \in Thread |-> "given"]
  /\ broken = [t \in Thread |-> {}]

\* The thread runs a scenario; "handler" is where AssertionFailedException,
\* thrown by an assertion of the WHEN, meets the handlers of the macro.
InScenario(t, p) ==
  stories /\ pc[t] \in {"body", "handler"} /\ call[t] = NoCall /\ part[t] = p

\* The lookup by name: the first entry is taken when two are alike.
Found(t) == argString[selectedMethods[next[t]]] \in ToSet(scenarios[Current(t)])

MoveTo(t, p) == part' = [part EXCEPT ![t] = p]
Breaks(t, p) == broken' = [broken EXCEPT ![t] = @ \cup {p}]
NothingBreaks == UNCHANGED broken

\* testRun(success, ...) called by runScenario itself.
ScenarioAsserts(t, success) == IF success THEN AssertHolds(t) ELSE AssertFails(t)

\* MUTANT: the missing scenario is skipped without a word.
NoScenario_Silent(t) ==
  /\ InScenario(t, "given") /\ ~Found(t)
  /\ BodyReturns(t)
  /\ NothingBreaks /\ UNCHANGED part

\* The object has no such scenario: TEST_ABORT in runScenario itself.
NoScenario(t) ==
  /\ InScenario(t, "given") /\ ~Found(t)
  /\ MayAssert(t)
  /\ succeeded' = [succeeded EXCEPT ![Current(t)] = FALSE]
  /\ Report(t, "printFailure", "after")
  /\ NothingBreaks /\ UNCHANGED part

\* MUTANT: a precondition that does not hold is no failure.
Given_Forgiven(t) ==
  /\ InScenario(t, "given") /\ Found(t)
  /\ \/ AssertHolds(t) /\ NothingBreaks
     \/ MayAssert(t) /\ Breaks(t, "given")
        /\ Report(t, "printFailure", WhereFailureGoesOn("body")) /\ UNCHANGED succeeded
  /\ MoveTo(t, "when")

\* TEST_ASSERT_MSG(precondition()): the action follows whenever testRun
\* returns, which it does with continueOnError even if the precondition failed.
Given(t) ==
  /\ InScenario(t, "given") /\ Found(t)
  /\ \E success \in BOOLEAN :
       /\ ScenarioAsserts(t, success)
       /\ IF success THEN NothingBreaks ELSE Breaks(t, "given")
  /\ MoveTo(t, "when")

\* The WHEN makes an assertion (two more are left to the scenario's own), or
\* leaves with AssertionFailedException: a failed assertion or testAbort().
WhenAsserts(t) ==
  /\ InScenario(t, "when") /\ pc[t] = "body" /\ asserts[t] + 2 < MaxAsserts
  /\ \/ AssertHolds(t) /\ NothingBreaks
     \/ continueAfterFail /\ AssertFails(t) /\ Breaks(t, "when")
  /\ UNCHANGED part

WhenThrowsFailure(t) ==
  /\ InScenario(t, "when") /\ pc[t] = "body" /\ asserts[t] + 2 < MaxAsserts
  /\ ExpectThrowFails(t)
  /\ Breaks(t, "when") /\ MoveTo(t, "caught")

\* TEST_ABORT returns from the lambda of the WHEN only, which counts as an
\* action that threw nothing.
WhenAborts(t) ==
  /\ InScenario(t, "when") /\ pc[t] = "body" /\ asserts[t] + 2 < MaxAsserts
  /\ NestedAborts /\ MayAssert(t)
  /\ succeeded' = [succeeded EXCEPT ![Current(t)] = FALSE]
  /\ Report(t, "printFailure", "body")
  /\ Breaks(t, "when") /\ MoveTo(t, "aborted")

\* TEST_THROWS_NOTHING_MSG(action()): the action has returned, or another
\* exception than AssertionFailedException was caught and reported.
WhenEnds(t) ==
  /\ \/ InScenario(t, "when") \/ InScenario(t, "aborted")
  /\ \/ AssertHolds(t) /\ NothingBreaks
     \/ part[t] = "when" /\ AssertFails(t) /\ Breaks(t, "when")
  /\ MoveTo(t, "then")

\* The macro catches the AssertionFailedException and reports a failure.
WhenCaught(t) ==
  /\ InScenario(t, "caught")
  /\ \/ AssertFails(t)
     \/ /\ pc[t] = "handler"
        /\ Report(t, "printFailure", WhereFailureGoesOn("body"))
        /\ UNCHANGED succeeded
  /\ NothingBreaks /\ MoveTo(t, "then")

\* TEST_ASSERT_MSG(postcondition()).
Then(t) ==
  /\ InScenario(t, "then")
  /\ \E success \in BOOLEAN :
       /\ ScenarioAsserts(t, success)
       /\ IF success THEN NothingBreaks ELSE Breaks(t, "then")
  /\ MoveTo(t, "done")

\* An exception thrown by a condition leaves runScenario.
ConditionThrows(t) ==
  /\ \/ InScenario(t, "given") /\ Found(t)
     \/ InScenario(t, "then")
  /\ BodyThrows(t)
  /\ Breaks(t, part[t]) /\ UNCHANGED part

ScenarioEnds(t) ==
  /\ InScenario(t, "done")
  /\ BodyReturns(t)
  /\ NothingBreaks /\ UNCHANGED part

ScenarioStep(t) ==
  /\ \/ NoScenario(t) \/ Given(t) \/ WhenAsserts(t) \/ WhenThrowsFailure(t)
     \/ WhenAborts(t) \/ WhenEnds(t) \/ WhenCaught(t) \/ Then(t)
     \/ ConditionThrows(t) \/ ScenarioEnds(t)
  /\ UNCHANGED stories

\* All that is not a scenario; what is left of one is forgotten after after().
OtherStep(t) ==
  /\ ~(stories /\ pc[t] \in {"body", "handler"})
  /\ SuiteStep(t)
  /\ IF pc[t] = "after"
       THEN UNCHANGED story
       ELSE /\ MoveTo(t, "given")
            /\ broken' = [broken EXCEPT ![t] = {}]
            /\ UNCHANGED stories

BNext ==
  \/ Finished /\ UNCHANGED story
  \/ \E t \in Thread : \/ ScenarioStep(t) \/ OtherStep(t)
                       \/ CallReturns(t) /\ UNCHANGED story

BSpec == BInit /\ [][BNext]_bvars

-----------------------------------------------------------------------------
\* runScenario is a test body: whatever the parts of a scenario do, the suite
\* takes a step it may also take with a body written by hand.  (The macros run
\* inside runScenario, so their throws must not be caught one level too early
\* and no part may fail without the failure being recorded and printed.)
ImplementsSuite == Spec

\* A scenario is counted as a success only if its precondition, action and
\* postcondition all ran and none of them went wrong, also when the suite goes
\* on after failures, when the action is left early, and when the method runs
\* on a story that does not know the scenario.
SuccessNeedsAllParts ==
  \A t \in Thread :
    stories /\ At(t, "counted") /\ succeeded[Current(t)] =>
      part[t] = "done" /\ broken[t] = {}
==============================================================================
