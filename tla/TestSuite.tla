------------------------------ MODULE TestSuite ------------------------------
(***************************************************************************)
(* Suite::run and everything it calls: the loop over the selected test     *)
(* methods, the setup/before/after/tear_down hooks, the assertion          *)
(* functions, the exception handlers of runTestMethod and the sub-suites.  *)
(*                                                                         *)
(* A thread is named for the suite object its run() was called on.  Plain  *)
(* suites run their sub-suites on their own thread; ParallelSuite, which   *)
(* overrides run(), is added by module ParallelSuite.  User code (hooks    *)
(* and test bodies) is nondeterministic: it may pass or fail assertions,   *)
(* abort, throw, or return.                                                *)
(***************************************************************************)
EXTENDS Integers, Sequences, SequencesExt

CONSTANTS
  Suite,            \* the Suite objects
  Root,             \* the suite run() is first called on
  Parallel,         \* the suites whose class is ParallelSuite
  Sub,              \* subSuites of every suite, in order of add()
  Own,              \* testMethods of every suite, in order of addTest()
  Method,           \* the TestMethod objects
  selectedMethods,  \* the vector handed to run() by the caller
  ContinueOnError,  \* the values that run() may be given for continueOnError
  AssertsIn,        \* the places of user code that evaluate assertions
  ThrowMacros,      \* the macros of the TEST_THROWS family that bodies use
  ThrowsIn,         \* the places of user code that may throw
  NestedAborts,     \* may functions that a body calls use TEST_ABORT?
  DeclinesIn,       \* the hooks that may return false
  MaxAsserts        \* BOUND: assertions evaluated per visit of a place

UserPlace == {"setup", "before", "body", "after", "tear_down"}

ASSUME SuiteAssumption ==
  /\ Root \in Suite
  /\ Parallel \subseteq Suite
  /\ Sub \in [Suite -> Seq(Suite)]
  /\ Own \in [Suite -> Seq(Method)]
  /\ selectedMethods \in Seq(Method)
  /\ ContinueOnError \subseteq BOOLEAN
  /\ AssertsIn \subseteq UserPlace
  /\ ThrowMacros \subseteq {"TEST_THROWS", "TEST_THROWS_ANYTHING"}
  /\ ThrowsIn \subseteq UserPlace
  /\ NestedAborts \in BOOLEAN
  /\ DeclinesIn \subseteq {"setup", "before"}
  /\ MaxAsserts \in Nat

\* No suite is below itself: run() and listTests(), which call themselves for
\* every sub-suite, come to an end.
ASSUME TreeAssumption ==
  /\ IsFiniteSet(Suite)
  /\ \E rank \in [Suite -> 0 .. Cardinality(Suite)] :
       \A s \in Suite : \A i \in DOMAIN Sub[s] : rank[Sub[s][i]] < rank[s]

\* One thread for the caller of run() and one per sub-suite of a ParallelSuite.
Thread == {Root} \cup UNION {{Sub[p][i] : i \in DOMAIN Sub[p]} : p \in Parallel}

\* Suite::listTests: the own methods, then those of every sub-suite.
listTests[s \in Suite] ==
  Own[s] \o FlattenSeq([i \in DOMAIN Sub[s] |-> listTests[Sub[s][i]]])

\* Suite::filterTests turns every selected reference back into a method,
\* whichever suite it was registered with.
filterTests(selected) == selected

numTests == Len(filterTests(selectedMethods))

VARIABLES
  pending,    \* suites a thread has still to run; the head is running
  pc,         \* where a thread is in Suite::run / runTestMethod
  next,       \* the index of the loop over the selected methods
  asserts,    \* assertions evaluated since the current place was entered
  thrown,     \* exceptionThrown of runTestMethod
  positive,   \* positiveTestMethods of every suite
  succeeded,  \* currentTestSucceeded of every suite
  continueAfterFail,  \* the member of that name: run() hands its argument on to
              \* every suite of the tree, so that it is the same in all of them
  call        \* the Output member function a thread is calling

locals == <<pending, next, asserts, thrown>>
members == <<positive, succeeded, continueAfterFail>>
vars == <<pending, pc, next, asserts, thrown, members, call>>

OutputOp == {"initializeSuite", "finishSuite", "initializeTestMethod",
             "finishTestMethod", "printException", "printSuccess", "printFailure"}

SuitePC == UserPlace \cup {"idle", "run", "loop", "handler", "catch", "counted",
                           "subs", "returned", "unwound"}
\* Where ParallelSuite::run and its workers are.
ParallelPC == {"warn", "spawn", "join", "unwinding"}
PC == SuitePC \cup ParallelPC

\* A call of the Output: num is numTests or numPositiveTests, ok is
\* withSuccess, then is where the thread goes on when the call returns.
OutputCall == [op : OutputOp \cup {"none"}, num : Nat, ok : BOOLEAN,
               then : PC \ {"idle", "returned"}]
NoCall == [op |-> "none", num |-> 0, ok |-> FALSE, then |-> "run"]

Current(t) == Head(pending[t])
At(t, p) == pc[t] = p /\ call[t] = NoCall
Goto(t, p) == pc' = [pc EXCEPT ![t] = p]
Issue(t, op, num, ok, then) ==
  call' = [call EXCEPT ![t] = [op |-> op, num |-> num, ok |-> ok, then |-> then]]

Init ==
  /\ pending = [t \in Thread |-> IF t = Root THEN <<Root>> ELSE <<>>]
  /\ pc = [t \in Thread |-> IF t = Root THEN "run" ELSE "idle"]
  /\ next = [t \in Thread |-> 1]
  /\ asserts = [t \in Thread |-> 0]
  /\ thrown = [t \in Thread |-> FALSE]
  /\ positive = [s \in Suite |-> 0]
  /\ succeeded = [s \in Suite |-> FALSE]
  /\ continueAfterFail \in ContinueOnError
  /\ call = [t \in Thread |-> NoCall]

-----------------------------------------------------------------------------
\* User code: what a hook or a test body may do at the place p = pc[t].

InUserCode(t) == pc[t] \in UserPlace /\ call[t] = NoCall

\* A failed or passed assertion: what it reports and where it leaves the thread.
Report(t, op, then) ==
  /\ asserts' = [asserts EXCEPT ![t] = IF then \in {pc[t], "handler", "body"}
                                            THEN @ + 1 ELSE 0]
  /\ Issue(t, op, 0, op = "printSuccess", then)
  /\ UNCHANGED <<pending, pc, next, thrown, positive, continueAfterFail>>

\* An assertion macro or function is evaluated: each of them, however it
\* compares its values, comes down to one testRun or testFailed.
MayAssert(t) == pc[t] \in AssertsIn /\ asserts[t] < MaxAsserts

\* MUTANT: the throw after a failed assertion is forgotten.
WhereFailureGoesOn_Always(p) == p

\* Where testRun/testFailed leave the thread after a failed assertion: they
\* return, or throw AssertionFailedException, which only a body catches.
WhereFailureGoesOn(p) ==
  IF continueAfterFail THEN p ELSE IF p = "body" THEN "after" ELSE "unwound"

\* testRun(true, ...), testSucceeded.
AssertHolds(t) ==
  /\ InUserCode(t) /\ MayAssert(t)
  /\ Report(t, "printSuccess", pc[t])
  /\ UNCHANGED succeeded

\* testRun(false, ...), testFailed.
AssertFails(t) ==
  /\ InUserCode(t) /\ MayAssert(t)
  /\ succeeded' = [succeeded EXCEPT ![Current(t)] = FALSE]
  /\ Report(t, "printFailure", WhereFailureGoesOn(pc[t]))

\* TEST_ABORT (report and return) and testAbort (report and throw
\* AssertionFailedException) both end a body, whatever continueAfterFail is,
\* except that TEST_ABORT in a function or lambda that the body calls ends only
\* that one.  A hook goes on after the former and is left by the latter.
WhereAbortGoesOn(p) ==
  IF p # "body" THEN {p, "unwound"}
  ELSE IF NestedAborts THEN {"after", "body"} ELSE {"after"}

Aborts(t) ==
  /\ InUserCode(t) /\ MayAssert(t)
  /\ succeeded' = [succeeded EXCEPT ![Current(t)] = FALSE]
  /\ \E then \in WhereAbortGoesOn(pc[t]) : Report(t, "printFailure", then)

\* TEST_THROWS and its relatives in a body, when they do not see what they
\* expect: the expression did not throw (or a nested assertion failed) and
\* testFailed is called inside the macro's own try block, whose handlers
\* catch the AssertionFailedException it throws.
ExpectThrowFails(t) ==
  /\ At(t, "body") /\ ThrowMacros # {} /\ MayAssert(t)
  /\ succeeded' = [succeeded EXCEPT ![Current(t)] = FALSE]
  /\ Report(t, "printFailure", IF continueAfterFail THEN "body" ELSE "handler")

\* The handlers of the macro: TEST_THROWS and TEST_THROWS_NOTHING report a second
\* failure, which leaves the body; TEST_THROWS_ANYTHING reports a success and goes
\* on, and so does a TEST_THROWS that expects std::exception or std::runtime_error,
\* base classes of AssertionFailedException: it is of the kind ANYTHING here.
MacroCatches(t) ==
  /\ At(t, "handler")
  /\ \E macro \in ThrowMacros :
       IF macro = "TEST_THROWS"
         THEN Report(t, "printFailure", WhereFailureGoesOn("body"))
         ELSE Report(t, "printSuccess", "body")
  /\ UNCHANGED succeeded

\* An exception in a body is caught by runTestMethod and printed; one in a
\* hook has no handler and leaves run().
BodyThrows(t) ==
  /\ At(t, "body") /\ "body" \in ThrowsIn
  /\ asserts' = [asserts EXCEPT ![t] = 0]
  /\ thrown' = [thrown EXCEPT ![t] = TRUE]
  /\ succeeded' = [succeeded EXCEPT ![Current(t)] = FALSE]
  /\ Goto(t, "catch")
  /\ Issue(t, "printException", 0, FALSE, "after")
  /\ UNCHANGED <<pending, next, positive, continueAfterFail>>

HookThrows(t) ==
  /\ InUserCode(t) /\ pc[t] # "body" /\ pc[t] \in ThrowsIn
  /\ Goto(t, "unwound")
  /\ UNCHANGED <<locals, members, call>>

UserCode(t) ==
  \/ AssertHolds(t) \/ AssertFails(t) \/ Aborts(t)
  \/ ExpectThrowFails(t) \/ MacroCatches(t)
  \/ BodyThrows(t) \/ HookThrows(t)

-----------------------------------------------------------------------------
\* Suite::run.

IsPlain(t) == Current(t) \notin Parallel

\* MUTANT: positiveTestMethods keeps the value of an earlier run.
StartRun_NoReset(t) ==
  /\ At(t, "run") /\ IsPlain(t)
  /\ next' = [next EXCEPT ![t] = 1]
  /\ Issue(t, "initializeSuite", numTests, FALSE, "setup")
  /\ UNCHANGED <<pending, pc, asserts, thrown, members>>

\* filterTests, initializeSuite and the reset of the counters (the code
\* resets them when initializeSuite has returned; setup() cannot see them).
StartRun(t) ==
  /\ At(t, "run") /\ IsPlain(t)
  /\ positive' = [positive EXCEPT ![Current(t)] = 0]
  /\ next' = [next EXCEPT ![t] = 1]
  /\ Issue(t, "initializeSuite", numTests, FALSE, "setup")
  /\ UNCHANGED <<pending, pc, asserts, thrown, succeeded, continueAfterFail>>

\* setup() returned: run the methods, or skip them and tear_down().
SetupReturns(t) ==
  /\ At(t, "setup") /\ IsPlain(t)
  /\ asserts' = [asserts EXCEPT ![t] = 0]
  /\ \/ Goto(t, "loop") /\ UNCHANGED call
     \/ /\ "setup" \in DeclinesIn
        /\ Issue(t, "finishSuite", positive[Current(t)], FALSE, "subs")
        /\ UNCHANGED pc
  /\ UNCHANGED <<pending, next, thrown, members>>

\* runTestMethod up to the call of before().
StartMethod(t) ==
  /\ At(t, "loop") /\ next[t] <= numTests
  /\ succeeded' = [succeeded EXCEPT ![Current(t)] = TRUE]
  /\ thrown' = [thrown EXCEPT ![t] = FALSE]
  /\ Issue(t, "initializeTestMethod", 0, FALSE, "before")
  /\ UNCHANGED <<pending, pc, next, asserts, positive, continueAfterFail>>

\* MUTANT: the loop does not move past a skipped method.
BeforeReturns_Repeats(t) ==
  /\ At(t, "before")
  /\ asserts' = [asserts EXCEPT ![t] = 0]
  /\ \/ Goto(t, "body")
     \/ "before" \in DeclinesIn /\ Goto(t, "loop")
  /\ UNCHANGED <<pending, next, thrown, members, call>>

\* before() returned: run the body, or leave runTestMethod with false, in
\* which case nothing tells the Output that the method is over.
BeforeReturns(t) ==
  /\ At(t, "before")
  /\ asserts' = [asserts EXCEPT ![t] = 0]
  /\ \/ Goto(t, "body") /\ UNCHANGED next
     \/ /\ "before" \in DeclinesIn
        /\ next' = [next EXCEPT ![t] = @ + 1]
        /\ Goto(t, "loop")
  /\ UNCHANGED <<pending, thrown, members, call>>

BodyReturns(t) ==
  /\ At(t, "body")
  /\ asserts' = [asserts EXCEPT ![t] = 0]
  /\ Goto(t, "after")
  /\ UNCHANGED <<pending, next, thrown, members, call>>

\* MUTANT: the method is finished although its exception was printed.
AfterReturns_PrintsTwice(t) ==
  /\ At(t, "after")
  /\ asserts' = [asserts EXCEPT ![t] = 0]
  /\ Issue(t, "finishTestMethod", 0, succeeded[Current(t)], "counted")
  /\ UNCHANGED <<pending, pc, next, thrown, members>>

\* after() returned: finishTestMethod, unless an exception was printed.
AfterReturns(t) ==
  /\ At(t, "after")
  /\ asserts' = [asserts EXCEPT ![t] = 0]
  /\ IF thrown[t]
       THEN Goto(t, "counted") /\ UNCHANGED call
       ELSE /\ Issue(t, "finishTestMethod", 0, succeeded[Current(t)], "counted")
            /\ UNCHANGED pc
  /\ UNCHANGED <<pending, next, thrown, members>>

\* MUTANT: every method that ran is counted.
CountMethod_Always(t) ==
  /\ At(t, "counted")
  /\ positive' = [positive EXCEPT ![Current(t)] = @ + 1]
  /\ next' = [next EXCEPT ![t] = @ + 1]
  /\ Goto(t, "loop")
  /\ UNCHANGED <<pending, asserts, thrown, succeeded, continueAfterFail, call>>

\* The result of runTestMethod, counted by the loop of run().
CountMethod(t) ==
  /\ At(t, "counted")
  /\ positive' = [positive EXCEPT ![Current(t)] =
                    IF succeeded[Current(t)] THEN @ + 1 ELSE @]
  /\ next' = [next EXCEPT ![t] = @ + 1]
  /\ Goto(t, "loop")
  /\ UNCHANGED <<pending, asserts, thrown, succeeded, continueAfterFail, call>>

EndLoop(t) ==
  /\ At(t, "loop") /\ next[t] > numTests
  /\ Goto(t, "tear_down")
  /\ UNCHANGED <<locals, members, call>>

TearDownReturns(t) ==
  /\ At(t, "tear_down") /\ IsPlain(t)
  /\ asserts' = [asserts EXCEPT ![t] = 0]
  /\ Issue(t, "finishSuite", positive[Current(t)], FALSE, "subs")
  /\ UNCHANGED <<pending, pc, next, thrown, members>>

\* MUTANT: the suite that is done is not taken off the worklist at the end.
FinishHead_Stays(t, more) ==
  LET rest == more \o Tail(pending[t]) IN
  /\ pending' = [pending EXCEPT ![t] = IF rest = <<>> THEN @ ELSE rest]
  /\ Goto(t, IF rest = <<>> THEN "returned" ELSE "run")

\* What is left once the head of the worklist is done.
FinishHead(t, more) ==
  LET rest == more \o Tail(pending[t]) IN
  /\ pending' = [pending EXCEPT ![t] = rest]
  /\ Goto(t, IF rest = <<>> THEN "returned" ELSE "run")

\* MUTANT: the sub-suites run after the siblings.
RunSubSuites_Breadth(t) ==
  /\ At(t, "subs")
  /\ LET rest == Tail(pending[t]) \o Sub[Current(t)] IN
       /\ pending' = [pending EXCEPT ![t] = rest]
       /\ Goto(t, IF rest = <<>> THEN "returned" ELSE "run")
  /\ UNCHANGED <<next, asserts, thrown, members, call>>

\* run() of every sub-suite in order, depth first; their results are dropped.
RunSubSuites(t) ==
  /\ At(t, "subs")
  /\ FinishHead(t, Sub[Current(t)])
  /\ UNCHANGED <<next, asserts, thrown, members, call>>

\* What run() returns, read when the sub-suites have been run, too.
RunResult(s) == positive[s] = numTests

SuiteStep(t) ==
  \/ UserCode(t)
  \/ StartRun(t) \/ SetupReturns(t) \/ StartMethod(t) \/ BeforeReturns(t)
  \/ BodyReturns(t) \/ AfterReturns(t) \/ CountMethod(t) \/ EndLoop(t)
  \/ TearDownReturns(t) \/ RunSubSuites(t)

-----------------------------------------------------------------------------
\* An Output that only prints: the call has its effect and returns.
CallReturns(t) ==
  /\ call[t] # NoCall
  /\ Goto(t, call[t].then)
  /\ call' = [call EXCEPT ![t] = NoCall]
  /\ UNCHANGED <<locals, members>>

Ended == {"returned", "unwound"}
\* The caller of run() has its result: nothing is left to do.
Finished == pc[Root] \in Ended /\ UNCHANGED vars

Next == Finished \/ \E t \in Thread : SuiteStep(t) \/ CallReturns(t)

Spec == Init /\ [][Next]_vars

-----------------------------------------------------------------------------
\* Type correctness of the members of Suite and of the locals of its run();
\* a thread has a suite at hand exactly while its run() has not returned.
TypeOK ==
  /\ pending \in [Thread -> Seq(Suite)]
  /\ pc \in [Thread -> PC]
  /\ next \in [Thread -> Nat \ {0}]
  /\ asserts \in [Thread -> Nat]
  /\ thrown \in [Thread -> BOOLEAN]
  /\ positive \in [Suite -> Nat]
  /\ succeeded \in [Suite -> BOOLEAN]
  /\ continueAfterFail \in BOOLEAN
  /\ call \in [Thread -> OutputCall]
  /\ \A t \in Thread : pc[t] \in {"idle", "returned"} <=> pending[t] = <<>>

\* finishSuite never claims more successful methods than methods: every output
\* computes numTests - numPositiveTests on unsigned numbers, which would wrap.
\* A suite that is run again must not carry its count over.
CountInRange ==
  \A t \in Thread : call[t].op = "finishSuite" => call[t].num <= numTests

\* With continueOnError = false no statement of a body runs once one of its
\* assertions has failed: testRun and testFailed throw.  (A body inherits the
\* verdict of a failed before(), so before() makes no assertions here;
\* TEST_ABORT does not end the body from a function that it calls; and the macros
\* of the kind TEST_THROWS_ANYTHING, where it fails, have a run of their own.)
FailureEndsBody ==
  ~continueAfterFail /\ ~NestedAborts /\ "before" \notin AssertsIn =>
    \A t \in Thread : At(t, "body") => succeeded[Current(t)]

\* run() of a suite runs the methods registered in that suite, on the object
\* they were registered for.
RunsOwnMethods ==
  \A t \in Thread : At(t, "body") =>
    selectedMethods[next[t]] \in ToSet(Own[Current(t)])

\* Every run() comes to an end, with or without an exception.
Terminates == <>(pc[Root] \in Ended)

\* What the Output has been told about the thread's suite so far.
PhaseOf(t) ==
  CASE pc[t] \in {"before", "body", "handler", "catch"} -> "method"
    [] pc[t] = "after" -> IF thrown[t] THEN "suite" ELSE "method"
    [] pc[t] \in {"setup", "loop", "counted", "tear_down", "warn"} -> "suite"
    [] pc[t] \in {"unwinding", "unwound"} -> "aborted"
    [] OTHER -> "outside"

\* Suite::run uses its Output as the protocol says: every initializeSuite is
\* matched by a finishSuite unless an exception escapes, methods lie within
\* suites, and a method that threw is printed once and not finished as well.
Protocol == INSTANCE OutputProtocol WITH
  calling <- [t \in Thread |-> call[t].op],
  phase <- [t \in Thread |-> PhaseOf(t)]
ImplementsProtocol == Protocol!Spec
============================================================================
