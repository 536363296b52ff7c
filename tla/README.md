# A formal model of cpptest-lite

cpptest-lite is a small C++ unit-test library. User code derives from `Test::Suite`, registers
methods and sub-suites, and calls `Suite::run(Output&, continueOnError)`; the library runs the
hooks and methods, catches what they throw, and tells an `Output` object about everything that
happens. `ParallelSuite` runs its sub-suites on threads of their own behind a
`SynchronizedOutput`; `CollectorOutput` gathers records for XML and HTML reports; `TestMain.cpp` is
the command line around it.

This directory holds TLA+ modules of these parts, TLC configurations that check them on small
instances, and TLAPS proofs. Source references are relative to the repository's root
(`src/TestSuite.cpp`, `include/asserts.h`, ...); every definition that models code is paired with its lines in
`PROJECT.json` under `map`.

Run things in this directory: `tlc -config Suite_run.cfg MCTestSuite`,
`tlapm` on `TestSuiteProofs.tla`, `ParallelSuiteProofs.tla`, `ProtocolProofs.tla`, `StoryProofs.tla`,
`TestMainProofs.tla`, `CollectorProofs.tla`, `AlgorithmProofs.tla` and `Induction.tla`.

## 1. Inventory

| Component | State | Operations | Talks to |
|---|---|---|---|
| **Suite** (`src/TestSuite.cpp`, `include/TestSuite.h`) | `subSuites`, `testMethods`, `positiveTestMethods`, `currentTestSucceeded`, `continueAfterFail`; locals of `run()` and `runTestMethod()` | `run`, `runTestMethod`, `filterTests`, `listTests`, `testRun`, `testSucceeded`, `testFailed`, the four hooks | the Output (calls), user code (virtual hooks, functors), its sub-suites (calls) |
| **Assertion macros and functions** (`include/asserts.h`, `include/TestSuite.h:170-305`) | none | `TEST_ASSERT...`, `TEST_THROWS...`, `TEST_ABORT`; `testAssert`, `testThrows`, `testAbort`, ... | the suite they are evaluated in; leave by return or `AssertionFailedException` |
| **ParallelSuite** (`src/ParallelSuite.cpp`) | the owned `SynchronizedOutput`, the futures of a `run()` | `run`, `runSuite` (in a `std::async` thread) | its sub-suites (threads, futures), the Output |
| **SynchronizedOutput** (`src/SynchronizedOutput.cpp`) | `outputMutex`, the wrapped Output | the seven Output functions, each lock / forward / unlock | the wrapped Output, often another wrapper |
| **Output** (`include/Output.h`, `src/Output.cpp`) | none; text helpers | `initializeSuite`, `finishSuite`, `initializeTestMethod`, `finishTestMethod`, `printException`, `printSuccess`, `printFailure` | - |
| **CollectorOutput** (`src/CollectorOutput.cpp`) | `suites`, `currentSuite`, `currentMethod` (two raw pointers into vectors) | the seven Output functions | read by the reports |
| **XMLOutput, HTMLOutput** | the collected records | `finishSuite`, `escapeXML`; `generate`, `getCssClass` | the records, a stream |
| **TextOutput, ConsoleOutput, CompilerOutput** | a mode or a format string, constant | the seven Output functions, printing or not; filling in the format | a stream |
| **TestMain** (`src/TestMain.cpp`) | `availableSuites`; the locals of `runSuites` | `registerSuite`, `runSuites`, `matchesPattern`, option parsing | suites, Output, files, the callback |
| **BDDSuite** (`src/BDDSuite.cpp`, `include/cpptest-bdd.h`) | `scenarios`, filled by the constructor | `runScenario`: lookup by name, precondition, action, postcondition | Suite, through its assertion macros |
| **Comparisons, Formats** (`include/comparisons.h`, `include/formatting.h`, `src/formatting.cpp`) | none | `isSame`, `inMaxDistance`, `to_string` | - |
| **CMake integration** | none | builds, test discovery through `--list-tests` | TestMain |

### What is hard here

* **Control flow by exception.** `testRun(false)` may throw `AssertionFailedException`. Only a
  test body is inside a handler; hooks are not, and the `TEST_THROWS` macros have handlers of
  their own around the very call that throws. A count, a verdict, an Output call can be lost or
  doubled on any of these paths.
* **Members that outlive a run.** `positiveTestMethods` and `currentTestSucceeded` belong to the
  suite object, which may be run again; they feed unsigned subtractions in every Output.
* **Threads.** Workers share one real Output through nested wrappers with different mutexes. A
  worker may throw, `std::async` may throw, and the joining loop may be left early while other
  workers still use objects the `ParallelSuite` owns.
* **A protocol assumed, not checked.** `CollectorOutput` finds the record to update through a pointer that an
  earlier call set. The caller's order of calls, and in parallel the order of *all* callers' calls,
  decides where a result goes.
* **Order of options.** `runSuites` keeps a dozen locals that each argument may set; what is run,
  listed and reported is decided afterwards, and some arguments end the program early.
* **Macros inside a macro's lambda.** A scenario's parts are lambdas run from `runScenario`; what a macro in one of
  them does to its control flow (return, throw, be caught) is not what it does in a test method.
* **The same news seven times.** Every printing Output decides per function, by mode and outcome, whether to print and
  how; a verdict can fall through.
* **Boundaries.** Fixed-width distances, surrogate pairs, UTF-8 lengths, escaping, greedy pattern search.

The full list, at the line where each bites and with the properties that would notice, is in
`PROJECT.json` under `hazards`.

### What makes each part correct

* *Suite*: a count never exceeds the number of methods (`CountInRange`); a failed assertion ends the body when
  it should (`FailureEndsBody`); the Output sees a well-formed story (`ImplementsProtocol`); `run()` ends
  (`Terminates`); a suite runs its own methods (`RunsOwnMethods`, violated).
* *BDDSuite*: a scenario is a test body (`ImplementsSuite`) and succeeds only if all its parts do (`SuccessNeedsAllParts`).
* *Text, console and compiler output*: whatever the mode, the reader learns the verdict of every method
  (`VerdictIsTold`) and of every suite (`SuitesAreTold`); formats are filled in (`TemplateIsFilled`).
* *ParallelSuite and SynchronizedOutput*: one thread at a time in the real Output (`MutualExclusion`), lock
  ownership (`LocksHeld`), no orphaned worker (`WorkersJoined`), no lost exception
  (`WorkerExceptionsSurface`), the protocol per thread (`PImplementsProtocol`), no circle of threads that
  wait for each other (`NoDeadlock`) and progress (`Terminates`).
* *CollectorOutput, XMLOutput, HTMLOutput*: results are filed under the method they are about
  (`RecordsUnderRunningMethod`), totals agree with records (`ReportAddsUp`, `FailuresHaveElements`) and with the result
  of `run()` (`ResultMatchesReport`), nothing is missing (`EverySuiteReported`), the page hides no failure and marks
  all (`HiddenSuitesPassed`, `FailuresAreMarked`), pointers are valid (`MethodPointerValid`, violated).
* *TestMain*: what is run, listed and reported is what the arguments ask for, whatever their
  order (`RunsWhatIsAsked`, but for command lines on which code and help disagree, `ListsWhatIsAsked`, `ReportsWhereAsked`), what the help marks as default is run by default
  (`DefaultsAreRun`), the exit code tells of every failure (`ExitCodeTellsFailure`), lists go to streams that still
  exist (`ListStreamLives`, with one exception that it names).
* *Algorithms*: they compute what their reference definition says; where the code and its documentation disagree (partial matches of a
  pattern in `FullMatchesAreFound`, NaNs that are no doubles in `SameMeansEqual`) the properties require neither.

## 2. Modules

```
OutputProtocol            what an Output is promised (abstract specification)
      ^ INSTANCE ... WITH (refinement)
TestSuite                 Suite::run, hooks, bodies, assertions         -- TestSuiteProofs
      ^ EXTENDS             ^ EXTENDS
      |                   BDDSuite     + runScenario                    -- StoryProofs
      |                     ^ EXTENDS
      |                   TextOutput   + text, console, compiler output -- StoryProofs
ParallelSuite             + ParallelSuite::run, SynchronizedOutput      -- ParallelSuiteProofs,
                                                                           ProtocolProofs
      ^ EXTENDS
CollectorOutput           + its records and pointers                    -- CollectorProofs
      ^ EXTENDS
XMLOutput, HTMLOutput     + the counts and elements, the page

TestMain                  registerSuite, runSuites                      -- TestMainProofs
Patterns, Comparisons, Formats, ValueText, XMLText, CompilerFormat
                          pure functions and their references
      ^ EXTENDS
Algorithms                any input of these; what they promise         -- AlgorithmProofs
      ^ EXTENDS
MC*.tla                   values of the constants for TLC
Induction                 natural numbers, ranks, joined sequences and functions defined by recursion,
                          for TestMainProofs, CollectorProofs and AlgorithmProofs
```

**TestSuite.** A thread is named for the suite its `run()` was called on. `pending[t]` is the call stack of
nested `run()`s flattened into a worklist: the head is the suite that is running, behind it the siblings that its callers still
have to run (sub-suites are run *after* their parent's `finishSuite`, so no frame of a parent has anything left to do but its loop
over the remaining siblings). `pc`, `next`, `asserts` and
`thrown` are the locals, `positive` and `succeeded` the members. One action per stretch of code between
two calls that somebody else can see: `StartRun` (reset the count, `initializeSuite`), `SetupReturns` (the test
on `setup()`), `StartMethod` (reset the verdict, `initializeTestMethod`), `BeforeReturns`, `BodyReturns`, `AfterReturns`
(`after()` is called on every path, `finishTestMethod` only if nothing was thrown), `CountMethod`,
`EndLoop`, `TearDownReturns`, `RunSubSuites`. A call of the Output is two steps, `Issue` and
`CallReturns`, so that other threads can come between. User code is nondeterministic: at a place
listed in `AssertsIn` it evaluates up to `MaxAsserts` assertions that hold, fail or abort; at a place in
`ThrowsIn` it throws; hooks in `DeclinesIn` may return false; bodies may use the macros in
`ThrowMacros` and, with `NestedAborts`, call functions or lambdas that use `TEST_ABORT`, which leaves only these.
`continueAfterFail` starts with any value in `ContinueOnError`.

**BDDSuite.** With `stories` all suites of the tree are `BDDSuite`s, without it none is; both are explored.
`runScenario` is the body: `part[t]` is the part of the scenario it is at, and each part is conjoined with the action of TestSuite that its
macro amounts to (`Given` with `AssertHolds`/`AssertFails`, and so on), so that the counts and verdicts are the suite's own. A `WHEN` may
assert, abort (which returns from the lambda only), throw or return; `TEST_THROWS_NOTHING_MSG` around it
reports a success or catches. `broken[t]` is a history variable: the parts that went wrong.

**TextOutput.** All printers listen to one run: the two text classes in three modes each, and `CompilerOutput`. Of a line only
two bits are kept: does it tell of a failure, is it red. `told[t]` is a history variable, the printers that told
of a failure since the current method (or suite) was announced.

**ParallelSuite.** Overrides `run()` for the suites in `Parallel` and gives each sub-suite of one a thread. `chain[t]`
is the sequence of `SynchronizedOutput`s between thread `t` and the real Output, `mutex[l]` the owner of
each wrapper's mutex, `held[t]` how many of its route `t` has locked. A call acquires the mutexes
one by one, is `Inside` the real Output once it has all, and releases them when it returns or throws.
`Spawn`/`SpawnThrows` are `std::async`, `Join` is `future.get()`, `Unwind` the destructors of the futures, which
block until their thread is done.

**OutputProtocol.** Two variables, `calling` and `phase`, and the grammar of calls in its header comment. The
refinement mapping takes `calling` from `call[t].op` (for ParallelSuite: only while `Inside`) and
`phase` from `pc` (`PhaseOf`).

**CollectorOutput** adds the vector `suites` and the two pointers, as indices plus one bit for
"dangling", and replaces the printing Output's return by the seven functions. **XMLOutput** adds what `finishSuite`
prints for the records, **HTMLOutput** the page that `generate` makes of them after the run, as an operator of the final
state (`generate` changes nothing): which suites have a row and a table, the class of each cell, the number of messages. Assertions
are kept only as far as counts depend on them (was there a failed one, a passed one); both kinds are counted as one each.

**TestMain** reads `argv` one argument per step, chosen freely, so all command lines up to `MaxArgs`
are covered; between the loops it selects suites (one per step: of those with one name the first that may be selected) and the Output;
then it runs or lists. A stream pointer remembers the argument its stream was opened for, so that one that was
destroyed can be told from the one that replaced it. A suite's `run()` is one step with a
free outcome here, because the other modules are about its inside. Pattern matching is
a constant relation `Matches`; module `Patterns` models how it is computed.

**Patterns, Comparisons, Formats, ValueText, XMLText, CompilerFormat** are functions; `Algorithms` has one
initial state per input. A loop is a recursive function of the number of rounds (`Splits`, `Search`,
`Rounds`, `Printed16`), its value the locals after them, so that proofs can be made about it. The instantiations of
`Formats::to_string` for nested types are a function of the type: `to_string` applies `TextFrom` to itself, and `OperandAssumption` says what the C++
types guarantee, that the arguments of a template are nested less deep (`Nesting`) and a value is made of values of them. (The recursion goes
through an operator because this version of the prover misreads a recursive function that refers to itself inside a `CASE`.) The loop of `escapeXML` is given as many rounds as the text has characters, and `EscapeEnds`, part of
`EscapedOnce`, says that it is over by then. `Comparisons` has the overloads of `isSame` chosen by operand type, with `NaN` as a value
that compares with nothing; `ValueText` the overloads of `Formats::to_string` for integers, truth values, strings, tuples, optionals, variants and
ranges; `CompilerFormat` the three replacements of `CompilerOutput::printFailure`.

## 3. Runs

| Run | Question | Instance | Distinct states |
|---|---|---|---|
| `suite_run` | Is a run of plain suites or stories correct, whatever hooks, bodies and scenarios do, does it end, and do the printing outputs tell? | root, a sub-suite added twice, a leaf below it; one method or scenario; 4 assertions per place; all hooks throw or decline; both values of `continueOnError` | 247 198 |
| `parallel_tree` | Is the Output used exclusively and legally, are workers joined, are exceptions kept, does everything end? | plain root, then ParallelSuites `p` (workers: `a` and a nested ParallelSuite `inner` with `b`) and `q` (worker `c`) | 26 854 |
| `collector_plain` | Do the report, its XML and HTML forms and the result of `run()` say what happened? | four suites in three levels | 136 738 |
| `collector_parallel` | Is every suite in the report of a parallel run? | a ParallelSuite with two workers below TestMain's own wrapper | 232 984 |
| `main_run` | Does `runSuites` do what its arguments ask? | up to 2 of 3 suites, up to 3 of 17 arguments | 599 268 |
| `algorithms` | Do the pure functions agree with their references? | see below | 65 517 |
| `suite_own`, `suite_throws`, `collector_mixed`, `collector_setup`, `collector_warn`, `main_callback` | Six statements of the repository's comments that the code does not keep (section 6) | the smallest instance that shows it | - |

Each property of a passing run comes with a mutant in `PROJECT.json`: the definition `of`, replaced by the
definition `as` (marked `MUTANT` in the modules), breaks it. This shows that the run can notice that
bug. The type invariant of TestSuite, `TypeOK`, is the first conjunct of `PTypeOK` and `CTypeOK` and has no run of its own.

### Bounds, and why they are enough

* `MaxAsserts`: assertions per visit of a hook or body. The code keeps one bit about earlier assertions
  (`currentTestSucceeded`), so two in a row meet all combinations (fail then pass, pass then fail). A scenario makes three of its
  own, so `suite_run` has four and leaves one to the statements of the `WHEN`. The runs about reports and threads make one:
  a record keeps whether there was a failed and a passed one.
* Trees. A suite run twice is what makes stale members matter; three levels and a sibling are needed to tell depth-first from
  breadth-first order; two ParallelSuites one inside the other are needed for two mutexes on one
  route, one beside the other for routes that share only nothing but the real Output. Selected
  methods are shared by all suites (see `filterTests`), so one or two of them already
  run in every suite.
* `MaxArgs = 3`, `MaxSuites = 2`: an option, an option that overrides it and a name; two suites under one name or two names.
* `Algorithms`: patterns and names up to 5 characters over two letters and the wildcard; all values of
  4-bit integers, signed and unsigned; UTF-16 strings of up to 3 units from both sides of every boundary at which the
  encoding changes; XML texts of up to 4 characters over all special ones and two plain ones (an entity
  is at most six characters long and the search skips four, so a neighbour on either side is what matters); `NaN` and three
  numbers for comparisons; operands of 27 types nested up to two deep (a template is an argument of another only where the overload is declared early enough
  to be found), integers of one and two digits and a negative one, with strings over a digit, a comma and a blank (the characters of the separators
  that a text could be mistaken for); formats with every placeholder at most once, messages that look like placeholders.
* `suite_run` gives every story the same two scenarios, all but the root, which is handed one it does not know.
* `Unsigned`: the modulus of `unsigned int`, 65536 instead of 2^32: any value larger than the counts involved is the same.

The state spaces are finite without further constraints. `CHECK_DEADLOCK` is on everywhere: the only
states without a successor would be ones the code does not have, and the end of a program is
an explicit stuttering action (`Finished`, `PFinished`, `CFinished`, `Ended`).

### Fairness

`TFairness` (module TextOutput) and `PFairness` (ParallelSuite) are weak fairness of every thread's steps as a whole: the
operating system schedules every runnable thread eventually. Nothing is assumed about *which* step of user code is taken except
that hooks and bodies end: `MaxAsserts` bounds how often they assert before they return or throw. A
`std::mutex` is not fair; weak fairness of a thread that waits in `Acquire` does not promise the lock to one that
finds it taken again and again. `Terminates` holds all the same, because the competitors
make finitely many calls. `Terminates` is checked with assertions and with exceptions, so it also says that no exception
path blocks the join.

## 4. Proofs

`TestSuiteProofs` (TestSuite's `Spec`, every tree of suites, every number of methods, hooks and bodies
of any behaviour). `SuiteAssumption` only says what type the constants have. `TreeAssumption` says that there are finitely many suites and
that no suite is below itself, because `run()` and `listTests()` would not come back from one that is; only
`CollectorProofs` needs it. A suite may still be added in several places, or several times in one.

* **`TypeCorrect`**: `Spec => []TypeOK`. `TypeOK` is not inductive: `CallReturns` moves `pc[t]` to
  where the call goes on, so the step needs that only a running thread has a call
  outstanding. `SuiteInv` adds this (`CallersRun`). Three lemmas carry the steps by shape and not one by one: `StayInv` (the thread stays on
  its suite), `IssueInv` (it calls the Output), `FinishHeadInv` (it takes the finished suite off the worklist).
* **`CountsInRange`**: `Spec => []CountInRange`. The invariant `CountInv` relates the count to the
  loop: `positive < next` once the run has begun, `next <= numTests` while a method is running. It is
  about the suite at the head of `pending` only; the members of the others are arbitrary, which is why it also covers a
  suite that is run again: `StartRun` resets the count before the invariant begins to hold for it.
* **`FailuresEndBodies`**: `Spec => []FailureEndsBody` where no body uses `TEST_THROWS_ANYTHING` or, which the model counts as the same kind,
  `TEST_THROWS` with `std::exception` or `std::runtime_error`: these are base classes of `AssertionFailedException`, so that the macro catches its own
  failure too (`include/asserts.h:92`). The strengthening `FailInv`
  carries the verdict through the calls of the Output: who will return into a body has an
  untouched verdict. The assumption is necessary: run `suite_throws` is the counterexample without it.

`ParallelSuiteProofs` (ParallelSuite's `PSpec`, every tree with ParallelSuites nested in any way, every behaviour
of user code, with or without a failing `std::async`). `ParallelAssumption` says that the wrappers are distinct
objects and that no suite object is reached by two threads: the mapping `home` gives every suite its
thread, a sub-suite of a ParallelSuite one of its own.

The strengthening is `TreeInv` (TLC finds it to hold on the instance of `parallel_tree`). Its parts:

* `SuiteInv` and `PTypeOK`, the types, with `CallersRun` as before;
* `KindInv`: a thread is at a place of `ParallelSuite::run` only with a ParallelSuite at hand, also when it is
  about to return there from a call; one that waits for workers makes no call;
* `HomeInv`: the worklist of a thread holds only suites at home on it, so threads never meet in a suite object;
* `WorkersInv`: a worker that was started and has not returned belongs to a `run()` that is still in its spawning, joining or unwinding
  part; it lies before the loop index while spawning and not before it while joining; and it has ended by an exception if that
  `run()` was left by one;
* `WalkInv`: `chain[t]` is a path up the tree. Each wrapper on it is for a ParallelSuite that waits, the first for the one
  that started `t`, the next for the one that started the first one's thread, and so on to a wrapper of Root's.

Steps are handled by what they do to the threads, not one by one: every step but `Spawn` is *quiet* (`QuietStep`: one thread moves, and one that
waits keeps waiting, unwinds, or has joined everybody), and `Spawn` adds one worker. From `TreeInv`:

* **`PTypeCorrect`**: `PSpec => []PTypeOK`.
* **`LocksAreHeld`**: `PSpec => []LocksHeld`. A thread owns exactly the first `held[t]` mutexes of its route,
  which is inductive together with `TreeInv`: the route of a call in progress does not change under it.
* **`OutputIsExclusive`**: `PSpec => []MutualExclusion`. Two threads inside the real Output have locked their whole routes. Every
  calling worker's route ends, by `WalkInv`, with the wrapper of the ParallelSuite that Root is waiting in, and Root itself makes no call
  meanwhile (`CallersShareLock`), so there is one mutex both own. `chain[t]` records the path, so no induction on the depth of the tree is needed.
* **`WorkersAreJoined`**: `PSpec => []WorkersJoined`, and **`WorkersAreHeard`**: `PSpec => []WorkerExceptionsSurface`,
  both from `WorkersInv`; for the second, a worker that has thrown keeps every `run()` above it from returning.

`ProtocolProofs` shows that the suites implement `OutputProtocol`:

* **`SuiteImplements`**: `Spec => ImplementsProtocol`, and **`ParallelImplements`**: `PSpec => PImplementsProtocol`. The
  invariant `StoryInv` says of each thread that the call it is making is legal in its phase and will lead it where the protocol says (or, for a
  report, out of `run()`), and that `exceptionThrown` is unset until a body has thrown: `PhaseOf` looks at
  it after the body, so a stale `TRUE` would put the thread into the wrong phase. A step of a thread then maps to `Call`, `Return`, `Skip`, `Abort` or to a stutter.
  In the parallel case a call begins when the last mutex of its route is locked; that nobody else is inside is
  `MutualExclusion` of the state after the step.

`StoryProofs` (BDDSuite's `BSpec` and TextOutput's `TSpec`; any names, scenarios and trees of plain suites):

* **`StoriesAreSuites`**: `BSpec => ImplementsSuite`. `ScenarioIsBody` shows of each action of a scenario which action of user code it is; so
  all that `TestSuiteProofs` and `SuiteImplements` say of suites holds of stories.
* **`ScenariosSucceedWhole`**: `BSpec => []SuccessNeedsAllParts`. The invariant `StoryInv` says that a part in `broken` has cost the
  verdict, that `part` is as far as `pc` allows, and that a body left early has lost the verdict too.
* **`VerdictsAreTold`** and **`UnsuccessfulSuitesAreTold`**: `TSpec => []VerdictIsTold`, `TSpec => []SuitesAreTold`. The invariant `TellInv` is
  that in a method `told` is all printers or none, as the verdict is, where a failure that is just being reported (the verdict is
  lost when the call is made, and told when it returns) is the one exception.

`TestMainProofs` (TestMain's `Spec`, any registered suites, any number of arguments, any patterns):

* **`MainTypes`**: `Spec => []TypeOK`; `StartInv` adds what is untouched before the loops.
* **`ExitCodesTellFailures`**: `Spec => []ExitCodeTellsFailure`. `ExitInv` relates `failures` to `broken` and an early exit to the argument that
  caused it, which is the last one read.
* **`ReportsGoWhereAsked`**: `Spec => []ReportsWhereAsked`. `ReportInv` says of the three locals that each is the value of the *last* argument for
  it with a legal value. That this last argument exists is carried in the invariant (`HasLast`): with every argument that is read, it is either the new one or the one
  there was.
* **`ListStreamsLive`**: `Spec => []ListStreamLives`. `StreamInv` says which argument the owned stream and each pointer stem from.

`CollectorProofs` (CollectorOutput's `CSpec`; it EXTENDS `ParallelSuiteProofs`, whose lemmas speak of quiet steps and so also hold of a
call that ends in an exception of the Output):

* **`CollectorIsExclusive`**: `CSpec => []MutualExclusion`: no two threads are inside the collector, so that its functions can be looked at one by one.
* **`CollectorTypes`**: `CSpec => []CTypeOK`, for trees with ParallelSuites too: however the calls of the workers are mixed, the
  pointers stay within the vectors.
* **`NobodyWaitsInVain`** and **`CollectorNeverDeadlocks`**: `PSpec => []NoDeadlock` and `CSpec => []NoDeadlock`, for every tree. A thread is `Blocked` if it waits
  for a mutex that is taken or for a worker that has not ended; as long as `run()` is not over, some thread is under way and is not. The invariant `WaitInv` has
  the two orders that forbid a circle. `RouteOK`: a mutex has the same number of others behind it on every route, so a thread that waits for
  one waits for a call that has come nearer to the real Output (`OwnerNearer`), and of all calls the nearest is not blocked. `StartedOK` and `BelowOK`: a
  `run()` waits only for workers that it has started, and these run suites of lower rank (`WorkerBelow`), so if there is no call, the thread that
  runs the lowest suite is not blocked. That the unblocked thread then takes its step and that all of this ends is `Terminates`, which stays with TLC.
* **`RecordsAreFiled`**: `Parallel = {}` implies `CSpec => []RecordsUnderRunningMethod`. The invariant `PlainInv` says that the last record is for the
  suite at hand and has as many methods as the loop has begun (`FiledAt`), and where which call returns to (`CallPlace`). Without the
  assumption it is false: run `collector_mixed`.
* **`PointerLives`**: `Parallel = {}` and `"setup" \notin AssertsIn` imply `CSpec => []MethodPointerValid`; **`QuietRunsReturn`**: if no ParallelSuite has methods of its
  own, `CSpec => []WarningOnly`. These are the statements that `collector_setup` and `collector_warn` refute, and the theorems say that what the runs
  find is the only way for them to fail in such trees. For the first, `PointerInv` says that from the first method of a suite on (in `tear_down()` too) the pointer is to one of its
  records, and that before it nothing is reported; if no method is selected there never is a pointer. For the second,
  `Unwarned` says of each thread that the only call about a method is `finishTestMethod`, made in a method after `initializeTestMethod`, and the collector
  never forgets that it has seen one (`MethodStaysKnown`).

And of the reports made from the records (on top of `PlainInv`):

* **`ReportsAddUp`**: `Parallel = {}` and `"tear_down" \notin AssertsIn` imply `CSpec => []ReportAddsUp`. `positiveTestMethods` and the flags
  `withSuccess` of the records are kept apart from each other, by `run()` and by the collector; the invariant `SumInv` relates
  them at every step: the counter is the number of *earlier* records marked successful (`CountedWell`), and the record of the running method is as
  far as the thread's place and call allow (`RunningOK`: no mark before the verdict is told, no failure or exception noted
  or on its way while `currentTestSucceeded` holds, none of the macros' handlers reached with the verdict intact). Both assumptions are needed:
  an assertion that fails in `tear_down()` is filed on the last method, whose verdict is in. `SumInv` itself holds without the second one,
  which only bears on what it says of the records that are over (`Over`), so that the next two theorems need not assume it.
* **`HiddenSuitesHavePassed`** and **`FailuresAreOnThePage`**: `Parallel = {}` implies `CSpec => []HiddenSuitesPassed` and
  `CSpec => []FailuresAreMarked`. `KeptInv` says of every record but that of the suite at hand that it is complete: `numPositive` is the number of
  methods marked successful, and there are no more methods than the suite was to run. A suite is off the page if the two totals
  are equal; by `CompleteCount` that is so exactly if all methods ran and all are marked.
* **`XMLFailuresAddUp`**: `CSpec => []FailuresHaveElements`, with `{"before", "tear_down"} \cap AssertsIn = {}` (`before()` may decline, and the
  record then has an assertion without a verdict) and `numTests < Unsigned`. The attribute is a subtraction of `unsigned int`s; that it does not wrap and
  counts what it should follows from a partition of the methods into successful, failed, thrown and skipped ones.
* **`SuitesAreReported`**: `CSpec => []EverySuiteReported`, for every tree, with ParallelSuites nested in any way. `RunOrder` is defined by recursion over the tree, as the
  code is; `RunOrderIs` derives its equation from the well-founded order of `TreeAssumption`, and `FlattenConcat` (module Induction) that joining lists of lists
  is compatible with putting them one behind the other. Without ParallelSuites (`PlainSuitesReported`) `OrderInv` is then: what is reported, followed by the
  orders of the suites on the worklist, is the order of the root. With them the order is lost, and `SharedInv` counts: as long as no exception is on its way, the records there
  are of a suite and its places in what is left to all the threads (`Left`: the orders of what each thread's `Worklist` still has to begin)
  add up to the places it has in the order of the root. A record takes one place from one list; `Spawn` moves the head of a list to
  the list of the worker. `PlacesInv` says where the call that adds a record is made, and that the loop over the workers begins with the first.
  When Root's `run()` has returned no thread is under way (`NothingLeft`, from `WalkInv`), so nothing is left; and if an exception was on its way, `run()` was left by it and has not returned.
* **`ResultAgrees`**: `Parallel = {}` implies `CSpec => []ResultMatchesReport`. `run()` reads `positiveTestMethods` after its sub-suites have run. `FirstInv`
  says that nobody has reset it since: every suite still to come has a lower rank than the root, so none of them *is* the root.

`TestMainProofs` has the loops of `runSuites` as well:

* **`RunsAreAsked`**: `Spec => []RunsWhatIsAsked`. What the code runs is known for every command line (`RunTests`); the property leaves open what a
  `Disputed` one should run (section 6). `SelectInv` says that `selectedSuites` has no suite twice and what it has so far: the first suites
  of the names read; of the defaults, those looked at; in the end `Meant`. `RunInv` says that the runs so far are those of the
  suites looked at that are to be run. That a suite is "the first of its name that may be selected" on either
  path needs that every set of indices has a least one (`LeastNatural`).
* **`DefaultsRun`**: `Spec => []DefaultsAreRun`, from the same invariants.
* **`ListsAreAsked`**: `Spec => []ListsWhatIsAsked`. `ListInv`: the stream that the last list option names holds the lines of the suites looked at. The
  list pointer is that stream by `StreamInv`; that it is intact, and that no other stream is written, makes the loop's step `ListAdds`.

`AlgorithmProofs` (Algorithms' `Spec`: any input of any length, over any alphabet):

* **`DistancesAreAbsolute`**: `Spec => []DistanceIsAbsolute`, for every width `Bits`. In an unsigned type the factor -1 is the greatest value;
  `WrappedBack` shows that the product, taken modulo the width, turns the wrapped difference back into the distance.
* **`RangesEitherOrder`** and **`SamenessMeansEquality`**: `Spec => []RangeEitherOrder` and `Spec => []SameMeansEqual`, by cases.
* **`TemplatesAreFilled`**: `Spec => []TemplateIsFilled`. `FillOne` is one replacement: it fills in its placeholder as `Filled` does,
  if what earlier replacements have put in does not hold it. That is so of file and line by `FormatAssumption`, and of the text because it comes last.
* **`CharactersAreEscaped`**: `Spec => []EscapedOnce`. The invariant of the loop, `Processed`, cuts the original text in two: the first
  part is escaped, the second untouched, and nothing that is left to search of the first part is special. A round keeps that because no entity is shorter than the
  four characters that are skipped, and none has a special character behind its fourth (`EntityIs`). Every round moves at least one character into the first part, unless there is
  no special one left, so that there are no more rounds than characters.
* **`FullMatchesFound`**: `Spec => []FullMatchesAreFound`. `SearchFinds` says what the search finds: the names of which a part is the pattern with the
  wildcards filled in. `BetweenGlobs` says that a full match is one of these, and that for a pattern between wildcards there are no others. `Reach` is where a part may end that begins where the search stands or
  later. `GreedyReaches` shows, by induction over the characters of the pattern, that these are the places where some way of filling in the wildcards may
  end; taking the first occurrence loses none of them when the next wildcard comes.
* **`TextsAreKept`**: `Spec => []TextIsKept`. `CharacterDecoded` says that the bytes of a code point, behind any text, are decoded to that code point: by
  the four lengths, from what the first byte says of the number that follow (`Following`, `LeadBits`) and what each of those adds. `UnitsDecoded` is
  the invariant of the loop over the UTF-16 units: what is printed is the text of the units so far, except a high surrogate, whose part of the code
  point `code` holds (`HighCode`); `PairIs` is the arithmetic of the two halves. `TextDecoded` is the same for UTF-32. Strings that are not well-formed are not in it.
* **`TextsTellApart`**: `Spec => []TextTellsApart`, for any types of `OperandAssumption` that meet `DistinctAssumption`: strings hold no quote, an optional's values do not print
  `(empty)` themselves, and alternatives of a variant begin differently (`Opening`). Different texts of components do not make different texts of
  the whole: `{1, 2}` could be cut in other ways. What is proved is therefore stronger than the property (`IsApart`): two texts of one type stay apart *whatever follows them*, as long as what
  follows begins with a comma, a closing bracket or nothing at all (`Behind`), which is what the overloads write behind a component. `DecimalsApart` is that for numerals, whose
  digits none of those is; `StringsApart` for strings, which end at the next quote; `Elements` for a list, by induction over its length: the first elements are
  equal and so is the rest. `TextsApart` puts them together by induction over `Nesting`.

`Induction` has what these need beyond the library: the library's induction theorems take operators as parameters, but its `WFMin` (every
set has a minimal element in a well-founded order) takes sets. From it come `LeastNatural`, induction for a *set* of
natural numbers (`SetInduction`), and with it what `FlattenSeq` of the community modules returns, which is defined by
recursion (`FlatteningExists`, `FlatteningUnique`, `FlattenLast`, `FlattenOne`, `FlattenConcat`). `RecursionExists` says for any *set* of
values that a function defined by recursion over the natural numbers up to a bound exists, with the step as a function of number and
value (`IsRecursion`); each recursive function of a module takes its equation from it (`SplitsAre`, `SearchIs`, `RoundsAre`, ...). `RankInduction` and
`RankRecursion` are the same for a set whose elements have ranks, where a value may depend on all those of lower rank: `to_string` and `Opening` over the types.

Every invariant and action property that the runs check of `Spec`, `BSpec`, `TSpec`, `PSpec`, `CSpec` and TestMain's `Spec` is thus stated by a
theorem, with the assumptions named above, and so are four of the six statements that a run refutes, with the assumption that is missing
(`RunsOwnMethods` and `CallbackArgumentsAreValid` fail as soon as there are two suites with different methods or a callback that handles an argument). Left to TLC is `Terminates`: liveness is out of the prover's reach.

## 5. What is not modelled

* Durations, names of tests, the wording of messages and lines, the text of floating point numbers and pointers (`printf`), streams that fail. Nothing else depends on them.
* Registration: `add`, `addTest`, `setSuiteName`, the `TEST_ADD` macros, `STORY` and `SCENARIO` run before `run()` and only build the constants `Sub`, `Own`,
  `scenarios` and `argString`; adding to a suite while it runs is not considered.
* `src/Output.cpp`: percentages, truncation, stripping of names. (`stripMethodName` starts at `size() - 1`, which is out of range for
  an empty name; the `TEST_ADD` macros never pass one.)
* Overload selection: which `to_string` or `isSame` an operand gets is the compiler's choice; the modules take it as the type of the
  value. Nested vectors and vectors of vectors have no `to_string` that compiles and are left out.
* Object lifetimes: a second `run()` of a `ParallelSuite` leaks its first `SynchronizedOutput`, and a moved-from one
  deletes it twice (`include/ParallelSuite.h`).
* A suite object shared by two workers: excluded by `ParallelAssumption`; its members would be
  written by two threads without synchronisation.
* Exceptions thrown by an Output other than `CollectorOutput`, and `bad_alloc`.
* In a scenario, macros of the `TEST_THROWS` family among the statements of the `WHEN` itself.
* CMake scripts (they only call the executable).
* Assertions in `tear_down()` and in a declining `before()` as far as *reports* go (`ReportAddsUp`,
  `FailuresHaveElements`, `FailuresAreMarked`): they are filed on the last method after its verdict, and nothing in the repository says where they
  belong. In `suite_run` they are made.

## 6. Where the code and what is said about it differ

| Run | Statement | Code |
|---|---|---|
| `suite_own` | `include/TestSuite.h:53`: run() "Runs all the registered test-methods in this suite" | `filterTests` (`src/TestSuite.cpp:145`) filters nothing: every suite of a tree runs the methods of all of them, on its own object |
| `suite_throws` | `include/TestSuite.h:56`: "whether to continue running after a test failed" | `TEST_THROWS_ANYTHING` (`include/asserts.h:123`), and `TEST_THROWS` with `std::exception` or `std::runtime_error` (line 92), catch the exception their own failure throws, report a success and go on |
| `collector_mixed` | `include/SynchronizedOutput.h:10`: "synchronizes all access ... making it safe for usage in a multi-threaded environment" | calls are serialised, sequences of calls are not: results are filed under another worker's method |
| `collector_setup` | `include/CollectorOutput.h:63`: "pointers to the current suite/test-method" | `suites.emplace_back` may leave `currentMethod` dangling; an assertion in `setup()` writes through it |
| `collector_warn` | `src/ParallelSuite.cpp:13`: "warn if test-methods are directly added" | with a CollectorOutput the warning throws out of `run()` |
| `main_callback` | `include/cpptest-main.h:52`: the callback "returns whether the argument is handled by it (and therefore is a valid argument)" | a handled argument goes on to dereference `end()` (`src/TestMain.cpp:190`) |

Seen while reading, not the subject of a run:

* `include/Output.h:122` says `printSuccess` depends on the macro `CPPTEST_LITE_LOG_SUCCESS`, which exists nowhere.
* With `--test-pattern` the list options run tests although the help says "Does not actually run any tests" (`src/TestMain.cpp:69`), and a pattern makes the
  default selection look at `OMIT_LIST_TESTS`, which `include/cpptest-main.h:33` says is about "listing tests". `RunsWhatIsAsked` leaves these command lines
  (`Disputed`) open.
* Patterns are not anchored although the help says "Only full matches and wildcard (via '*') matching is supported" (`src/TestMain.cpp:73`): the pattern `b`
  runs a test named `abc`. `FullMatchesAreFound` requires full matches to be found and leaves such partial ones open.
* `Readme.md:41`: "`TEST_ASSERT_EQUALS(_MSG)` now also supports string equality as well as comparison of *NaNs*", but the overload for it takes doubles only
  (`include/comparisons.h:51`): `TEST_ASSERT_EQUALS` of two float NaNs fails, and so does one of two spans that hold NaNs. `SameMeansEqual` leaves both open.
* A list option with a file after another one destroys the stream the first one points to (`src/TestMain.cpp:145-158`); `ListStreamLives` says when this is harmless.
* An exception whose `what()` is empty is not counted as an error (`src/XMLOutput.cpp:47`).
* The results of sub-suites do not reach the result of `run()` (`src/TestSuite.cpp:46`), nor those of workers (`ParallelSuite::run` returns true).
* `GIVEN` is described as "a precondition for a scenario to run" (`include/cpptest-bdd.h:35`), but with `continueOnError` the action runs after it failed
  (`src/BDDSuite.cpp:18`); a `TEST_ABORT` in a `WHEN` leaves only the lambda, so a success is reported for the action (the
  scenario still counts as failed, see `SuccessNeedsAllParts`); of two scenarios with one name the first runs twice (`src/BDDSuite.cpp:9`).
* A sub-suite below a story aborts scenarios of the others that it does not have, and runs its own in place of those with the same name; this follows from `suite_own`.
* `include/CompilerOutput.h:13` says "%file Prints the file-name of the failed test method"; for an exception the suite's name and line 0 are printed (`src/CompilerOutput.cpp:37`).
  A file or suite whose name contains `%line` or `%text` garbles the line.
* In the HTML page the row of a method that threw shows nothing of the exception and may be green; a total of one with none passed is classed
  `mostPassed` by integer division (`src/HTMLOutput.cpp:49`); `includePassed` is not looked at for methods (`src/HTMLOutput.cpp:83`).

## 7. What could follow

The lifetime of the Outputs of a `ParallelSuite`, if it should ever be run twice.
