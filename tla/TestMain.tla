------------------------------ MODULE TestMain ------------------------------
(***************************************************************************)
(* The main program of a test executable (TestMain.cpp): registerSuite,    *)
(* the argument loop of runSuites, the choice of suites and of the Output, *)
(* and the loop that runs or lists the suites and computes the exit code.  *)
(*                                                                         *)
(* A suite's run() is one step here, with the outcomes modules TestSuite   *)
(* and ParallelSuite give it; what matches a pattern is given by Matches.  *)
(***************************************************************************)
EXTENDS Integers, Sequences, SequencesExt, FiniteSetsExt

CONSTANTS
  Entry,      \* what may be registered, see SuiteEntry
  Name,       \* command line arguments without a meaning of their own
  Test,       \* the full names of test methods
  Pattern,    \* values of --test-pattern
  Matches,    \* the pairs <<pattern, test>> for which matchesPattern holds
  File,       \* values of --output-file and of --list-tests=, --list-suites=
  Arg,        \* the arguments a command line is made of
  Ignored,    \* ignoredArguments
  Handled,    \* the arguments for which the callback, if any, returns true
  MaxSuites,  \* BOUND: suites registered
  MaxArgs     \* BOUND: arguments on the command line

Flag == {"OMIT_FROM_DEFAULT", "OMIT_LIST_TESTS"}

\* name stands for "--" and the parameter name; tests for listTests() of the
\* suite; the run() of a parallel one always returns true.
SuiteEntry == [name : Name, flags : SUBSET Flag, tests : Seq(Test), parallel : BOOLEAN]

Cout == "cout"
Sink == File \cup {Cout}
OutputType == {"plain", "colored", "compiler", "junit", "unrecognized"}
Mode == {"debug", "verbose", "terse"}

Argument == [option : {"help"}, value : {""}]
  \cup [option : {"list-tests", "list-suites"}, value : Sink]
  \cup [option : {"test-pattern"}, value : Pattern]
  \cup [option : {"output-file"}, value : File]
  \cup [option : {"output"}, value : OutputType]
  \cup [option : {"mode"}, value : Mode \cup {"unrecognized"}]
  \cup [option : {"name"}, value : Name]

ASSUME MainAssumption ==
  /\ Entry \subseteq SuiteEntry
  /\ Matches \subseteq Pattern \X Test
  /\ Cout \notin File /\ "" \notin File
  /\ Arg \subseteq Argument
  /\ Ignored \subseteq Name /\ Handled \subseteq Name
  /\ MaxSuites \in Nat /\ MaxArgs \in Nat

VARIABLES
  pc,               \* where runSuites is
  availableSuites,  \* the registered suites, in order of registration
  callback,         \* was runSuites given a callback?
  argv,             \* the arguments read so far
  selectedSuites,   \* the suites to run, as indices of availableSuites
  opts,             \* the other locals that the arguments set, see Options
  realOutput,       \* the Output that is reported to
  next,             \* the loop over selectedSuites
  ran,              \* the calls of run(): the suite and the tests it was given
  broken,           \* the suites of which a test failed
  failures,         \* failures of runSuites
  written,          \* the lists that were written to every sink
  exit              \* the exit code

results == <<next, ran, broken, failures>>
vars == <<pc, availableSuites, callback, argv, selectedSuites, opts, realOutput,
          results, written, exit>>

\* A stream pointer: the stream opened for the at-th argument, 0 for std::cout.
NullStream == [sink |-> "", at |-> 0]
Stream(a) == [sink |-> a.value, at |-> IF a.value = Cout THEN 0 ELSE Len(argv) + 1]

\* listOutputFile is the argument its stream was opened for; of the patterns
\* any may match, so their order does not matter.
Options == [listOutputFile : Nat,
            listTestsOutput : [sink : Sink \cup {""}, at : Nat],
            listSuitesOutput : [sink : Sink \cup {""}, at : Nat],
            testPatterns : SUBSET Pattern, outputFile : File \cup {""},
            outputMode : OutputType, mode : Mode]
NoOptions == [listOutputFile |-> 0, listTestsOutput |-> NullStream,
              listSuitesOutput |-> NullStream, testPatterns |-> {},
              outputFile |-> "", outputMode |-> "plain", mode |-> "terse"]

RealOutput == [type : OutputType \ {"unrecognized"}, mode : Mode, sink : Sink]
NoOutput == [type |-> "none", mode |-> "none", sink |-> ""]

Init ==
  /\ pc = "main"
  /\ availableSuites = <<>>
  /\ callback \in BOOLEAN
  /\ argv = <<>>
  /\ selectedSuites = <<>>
  /\ opts = NoOptions
  /\ realOutput = NoOutput
  /\ next = 1
  /\ ran = <<>>
  /\ broken = {}
  /\ failures = FALSE
  /\ written = [s \in Sink |-> <<>>]
  /\ exit = "none"

\* A suite with a valid name, for any other std::invalid_argument is thrown;
\* the names of two suites need not differ.
registerSuite(e) ==
  /\ pc = "main" /\ Len(availableSuites) < MaxSuites
  /\ availableSuites' = Append(availableSuites, e)
  /\ UNCHANGED <<pc, callback, argv, selectedSuites, opts, realOutput, results,
                 written, exit>>

CallRunSuites ==
  /\ pc = "main"
  /\ pc' = "args"
  /\ UNCHANGED <<availableSuites, callback, argv, selectedSuites, opts, realOutput,
                 results, written, exit>>

-----------------------------------------------------------------------------
\* The argument loop.

Read(a) ==
  /\ pc = "args" /\ Len(argv) < MaxArgs
  /\ argv' = Append(argv, a)
  /\ UNCHANGED <<availableSuites, callback, realOutput, results>>

Return(code) == pc' = "done" /\ exit' = code
GoOn == UNCHANGED <<pc, exit>>

Help(a) ==
  /\ Read(a) /\ a.option = "help"
  /\ Return("success")
  /\ UNCHANGED <<selectedSuites, opts, written>>

\* MUTANT: the owned stream is reset for every list option.
OpenList_Resets(a, option) ==
  /\ opts' = [opts EXCEPT ![option] = Stream(a), !.listOutputFile = Stream(a).at]
  /\ written' = [written EXCEPT ![a.value] = <<>>]

\* listOutputFile.reset(new std::ofstream(...)) destroys the stream it owned.
OpenList(a, option) ==
  IF a.value = Cout
    THEN /\ opts' = [opts EXCEPT ![option] = Stream(a)]
         /\ UNCHANGED written
    ELSE /\ opts' = [opts EXCEPT ![option] = Stream(a), !.listOutputFile = Stream(a).at]
         /\ written' = [written EXCEPT ![a.value] = <<>>]

ListTests(a) ==
  /\ Read(a) /\ GoOn /\ a.option = "list-tests"
  /\ OpenList(a, "listTestsOutput")
  /\ UNCHANGED selectedSuites

ListSuites(a) ==
  /\ Read(a) /\ GoOn /\ a.option = "list-suites"
  /\ OpenList(a, "listSuitesOutput")
  /\ UNCHANGED selectedSuites

TestPattern(a) ==
  /\ Read(a) /\ GoOn /\ a.option = "test-pattern"
  /\ opts' = [opts EXCEPT !.testPatterns = @ \cup {a.value}]
  /\ UNCHANGED <<selectedSuites, written>>

\* MUTANT: an unrecognized mode falls back to the default.
ReportOption_Resets(a) ==
  /\ Read(a) /\ GoOn /\ a.option \in {"output-file", "output", "mode"}
  /\ opts' = CASE a.option = "output-file" -> [opts EXCEPT !.outputFile = a.value]
              [] a.option = "output" -> [opts EXCEPT !.outputMode = a.value]
              [] a.option = "mode" ->
                   [opts EXCEPT !.mode = IF a.value \in Mode THEN a.value ELSE "terse"]
  /\ UNCHANGED <<selectedSuites, written>>

\* --output-file, --output and --mode; of the last a value that is not
\* recognized is ignored at once.
ReportOption(a) ==
  /\ Read(a) /\ GoOn /\ a.option \in {"output-file", "output", "mode"}
  /\ opts' = CASE a.option = "output-file" -> [opts EXCEPT !.outputFile = a.value]
              [] a.option = "output" -> [opts EXCEPT !.outputMode = a.value]
              [] a.option = "mode" ->
                   [opts EXCEPT !.mode = IF a.value \in Mode THEN a.value ELSE @]
  /\ UNCHANGED <<selectedSuites, written>>

Registered == {availableSuites[k].name : k \in DOMAIN availableSuites}

\* Names need not be unique: std::find_if stops at the first one.
IsFirst(k, name) ==
  /\ availableSuites[k].name = name
  /\ \A j \in 1 .. k - 1 : availableSuites[j].name # name

selectedSuiteNames == {availableSuites[k].name : k \in ToSet(selectedSuites)}

IgnoredArgument(a) ==
  /\ Read(a) /\ GoOn /\ a.option = "name" /\ a.value \in Ignored
  /\ UNCHANGED <<selectedSuites, opts, written>>

\* MUTANT: it is not checked that there is such a suite.
SuiteArgument_Unchecked(a) ==
  /\ Read(a) /\ GoOn /\ a.option = "name" /\ a.value \notin Ignored
  /\ \E k \in 0 .. Len(availableSuites) :
       /\ IF k = 0 THEN a.value \notin Registered ELSE IsFirst(k, a.value)
       /\ selectedSuites' = Append(selectedSuites, k)
  /\ UNCHANGED <<opts, written>>

SuiteArgument(a) ==
  /\ Read(a) /\ GoOn /\ a.option = "name" /\ a.value \notin Ignored
  /\ \E k \in DOMAIN availableSuites :
       /\ IsFirst(k, a.value)
       /\ selectedSuites' = IF a.value \in selectedSuiteNames THEN selectedSuites
                            ELSE Append(selectedSuites, k)
  /\ UNCHANGED <<opts, written>>

\* An argument nobody knows ends the program, unless there is a callback.  One
\* that the callback handles goes on to it->supplier(), where it is end().
UnknownArgument(a) ==
  /\ Read(a) /\ a.option = "name" /\ a.value \notin Ignored
  /\ a.value \notin Registered
  /\ CASE ~callback -> Return("failure")
       [] callback /\ a.value \in Handled -> pc' = "undefined" /\ UNCHANGED exit
       [] callback /\ a.value \notin Handled -> GoOn
  /\ UNCHANGED <<selectedSuites, opts, written>>

ReadArgument(a) ==
  \/ Help(a) \/ ListTests(a) \/ ListSuites(a) \/ TestPattern(a) \/ ReportOption(a)
  \/ IgnoredArgument(a) \/ SuiteArgument(a) \/ UnknownArgument(a)

-----------------------------------------------------------------------------
\* Between the loops.

Listing == NullStream # opts.listTestsOutput \/ NullStream # opts.listSuitesOutput

\* MUTANT: the option --test-pattern does not count as listing.
OmitFlag_NoPattern == IF Listing THEN "OMIT_LIST_TESTS" ELSE "OMIT_FROM_DEFAULT"

\* MUTANT: the flag about lists is looked at when nothing is listed, too.
OmitFlag_Either == "OMIT_LIST_TESTS"

\* What keeps a suite from being selected by default; patterns set
\* listTestsOutput "just as marker to select all correct suites".
OmitFlag ==
  IF Listing \/ opts.testPatterns # {} THEN "OMIT_LIST_TESTS" ELSE "OMIT_FROM_DEFAULT"

\* No argument named a suite: select from all of them.
EndOfArguments ==
  /\ pc = "args"
  /\ pc' = IF selectedSuites = <<>> THEN "defaults" ELSE "output"
  /\ UNCHANGED <<availableSuites, callback, argv, selectedSuites, opts, realOutput,
                 results, written, exit>>

\* One round of the loop over availableSuites: one suite of every name.
SelectDefault ==
  LET entry == availableSuites[next] IN
  /\ pc = "defaults" /\ next <= Len(availableSuites)
  /\ selectedSuites' = IF OmitFlag \in entry.flags \/ entry.name \in selectedSuiteNames
                         THEN selectedSuites ELSE Append(selectedSuites, next)
  /\ next' = next + 1
  /\ UNCHANGED <<pc, availableSuites, callback, argv, opts, realOutput, ran, broken,
                 failures, written, exit>>

ChosenOutput ==
  [type |-> IF opts.outputMode = "unrecognized" THEN "plain" ELSE opts.outputMode,
   mode |-> opts.mode,
   sink |-> IF opts.outputFile = "" \/ opts.outputMode = "colored" THEN Cout
            ELSE opts.outputFile]

\* The output file (it is truncated) and the Output.
OpenOutput ==
  /\ pc = "output" \/ (pc = "defaults" /\ next > Len(availableSuites))
  /\ written' = IF opts.outputFile = "" THEN written
                ELSE [written EXCEPT ![opts.outputFile] = <<>>]
  /\ realOutput' = ChosenOutput
  /\ next' = 1
  /\ IF selectedSuites = <<>> THEN Return("success") ELSE pc' = "suites" /\ UNCHANGED exit
  /\ UNCHANGED <<availableSuites, callback, argv, selectedSuites, opts, ran, broken,
                 failures>>

-----------------------------------------------------------------------------
\* The loop over the selected suites.

Suite == availableSuites[selectedSuites[next]]
InLoop == pc = "suites" /\ next <= Len(selectedSuites)

\* What run() is given: the positions in listTests() that filterTests keeps.
SelectedTests ==
  {i \in DOMAIN Suite.tests :
     opts.testPatterns = {} \/
       \E p \in opts.testPatterns : <<p, Suite.tests[i]>> \in Matches}

Runs == InLoop /\ IF opts.testPatterns = {} THEN ~Listing ELSE SelectedTests # {}

\* MUTANT: only the last suite counts.
Failures_Last(failed) == failed /\ ~Suite.parallel

\* failures = !run(...) || failures
Failures(failed) == (failed /\ ~Suite.parallel) \/ failures

RunSuite ==
  /\ Runs
  /\ ran' = Append(ran, [suite |-> selectedSuites[next], tests |-> SelectedTests])
  /\ \E failed \in IF SelectedTests = {} THEN {FALSE} ELSE BOOLEAN :
       /\ broken' = IF failed THEN broken \cup {selectedSuites[next]} ELSE broken
       /\ failures' = Failures(failed)
  /\ next' = next + 1
  /\ UNCHANGED <<pc, availableSuites, callback, argv, selectedSuites, opts,
                 realOutput, written, exit>>

\* Nothing catches an exception that leaves run().
RunThrows ==
  /\ Runs
  /\ pc' = "thrown"
  /\ UNCHANGED <<availableSuites, callback, argv, selectedSuites, opts, realOutput,
                 results, written, exit>>

\* No test of the suite matches.
SkipSuite ==
  /\ InLoop /\ opts.testPatterns # {} /\ SelectedTests = {}
  /\ next' = next + 1
  /\ UNCHANGED <<pc, availableSuites, callback, argv, selectedSuites, opts,
                 realOutput, ran, broken, failures, written, exit>>

\* MUTANT: the list of suites wins over the list of tests.
ListEntry_SuitesFirst ==
  IF opts.listSuitesOutput = NullStream
    THEN [stream |-> opts.listTestsOutput, lines |-> Suite.tests]
    ELSE [stream |-> opts.listSuitesOutput, lines |-> <<Suite.name>>]

\* What is written about a suite and where; the list of tests wins.
ListEntry ==
  IF opts.listTestsOutput # NullStream
    THEN [stream |-> opts.listTestsOutput, lines |-> Suite.tests]
    ELSE [stream |-> opts.listSuitesOutput, lines |-> <<Suite.name>>]

Dangling(stream) == stream.at \notin {0, opts.listOutputFile}

ListSuite ==
  /\ InLoop /\ opts.testPatterns = {} /\ Listing
  /\ IF Dangling(ListEntry.stream) /\ ListEntry.lines # <<>>
       THEN pc' = "undefined" /\ UNCHANGED written
       ELSE /\ written' = [written EXCEPT ![ListEntry.stream.sink] = @ \o ListEntry.lines]
            /\ UNCHANGED pc
  /\ next' = next + 1
  /\ UNCHANGED <<availableSuites, callback, argv, selectedSuites, opts, realOutput,
                 ran, broken, failures, exit>>

Finish ==
  /\ pc = "suites" /\ next > Len(selectedSuites)
  /\ Return(IF failures THEN "failure" ELSE "success")
  /\ UNCHANGED <<availableSuites, callback, argv, selectedSuites, opts, realOutput,
                 results, written>>

\* The program has ended, one way or another.
Ended == pc \in {"done", "thrown", "undefined"} /\ UNCHANGED vars

Next ==
  \/ \E e \in Entry : registerSuite(e)
  \/ CallRunSuites
  \/ \E a \in Arg : ReadArgument(a)
  \/ EndOfArguments \/ SelectDefault \/ OpenOutput
  \/ RunSuite \/ RunThrows \/ SkipSuite \/ ListSuite \/ Finish
  \/ Ended

Spec == Init /\ [][Next]_vars

-----------------------------------------------------------------------------
\* Type correctness.
TypeOK ==
  /\ pc \in {"main", "args", "defaults", "output", "suites", "done", "thrown", "undefined"}
  /\ availableSuites \in Seq(SuiteEntry)
  /\ callback \in BOOLEAN
  /\ argv \in Seq(Argument)
  /\ selectedSuites \in Seq(DOMAIN availableSuites)
  /\ opts \in Options
  /\ realOutput \in RealOutput \cup {NoOutput}
  /\ next \in 1 .. (IF pc = "defaults" THEN Len(availableSuites)
                    ELSE Len(selectedSuites)) + 1
  /\ ran \in Seq([suite : DOMAIN availableSuites, tests : SUBSET Nat])
  /\ broken \subseteq DOMAIN availableSuites
  /\ failures \in BOOLEAN
  /\ written \in [Sink -> Seq(Test \cup Name)]
  /\ exit \in {"none", "success", "failure"}

\* What the command line asks for, in terms of its arguments only.

Given(option) == {i \in DOMAIN argv : argv[i].option = option}
Values(option) == {argv[i].value : i \in Given(option)}
LastValue(option, legal, default) ==
  LET given == {i \in Given(option) : argv[i].value \in legal}
  IN  IF given = {} THEN default ELSE argv[Max(given)].value

Unknown == Values("name") \ (Registered \cup Ignored)
Completed == pc = "done" /\ Given("help") = {} /\ (Unknown # {} => callback)

ListsAsked == Values("list-tests") \cup Values("list-suites") # {}
PatternsAsked == Values("test-pattern")

Asked(k) ==
  LET e == availableSuites[k]
      named == (Values("name") \cap Registered) \ Ignored
  IN  CASE named # {} -> e.name \in named
        [] named = {} /\ (ListsAsked \/ PatternsAsked # {}) ->
             "OMIT_LIST_TESTS" \notin e.flags
        [] OTHER -> "OMIT_FROM_DEFAULT" \notin e.flags

\* Of several suites with one name the first is meant.
Meant ==
  {k \in DOMAIN availableSuites :
     Asked(k) /\ \A j \in 1 .. k - 1 :
                   availableSuites[j].name = availableSuites[k].name => ~Asked(j)}

TestsMeant(k) ==
  {t \in ToSet(availableSuites[k].tests) :
     PatternsAsked = {} \/ \E p \in PatternsAsked : <<p, t>> \in Matches}

\* Where the code does other than what is said of it: with a pattern, the options
\* that list tests (of which the help says "Does not actually run any tests",
\* TestMain.cpp:69) do run them, and OMIT_LIST_TESTS (which is about "listing
\* tests", cpptest-main.h:33) keeps a suite that is not named from running.
Disputed ==
  /\ PatternsAsked # {}
  /\ \/ ListsAsked
     \/ /\ Values("name") \cap Registered \subseteq Ignored
        /\ \E e \in ToSet(availableSuites) : "OMIT_LIST_TESTS" \in e.flags

\* Whatever the order of its arguments, runSuites runs exactly the tests that
\* they ask for and none when it lists or gives up; and every suite in at most
\* one run().  Which tests a disputed command line should run is left open.
RunsWhatIsAsked ==
  /\ Completed /\ ~Disputed =>
       UNION {{<<r.suite, availableSuites[r.suite].tests[i]>> : i \in r.tests} :
                r \in ToSet(ran)}
       = IF ListsAsked THEN {} ELSE UNION {{<<k, t>> : t \in TestsMeant(k)} : k \in Meant}
  /\ pc = "done" /\ ~Completed => ran = <<>>
  /\ \A i, j \in DOMAIN ran : ran[i].suite = ran[j].suite => i = j

\* A list has everything it should have and nothing else and ends up where the
\* last option for it said; if both are asked for, the tests are listed.
ListsWhatIsAsked ==
  Completed /\ ListsAsked /\ PatternsAsked = {} =>
    LET option == IF Values("list-tests") # {} THEN "list-tests" ELSE "list-suites"
        lines == IF option = "list-tests"
                   THEN UNION {ToSet(availableSuites[k].tests) : k \in Meant}
                   ELSE {availableSuites[k].name : k \in Meant}
        list == written[LastValue(option, Sink, Cout)]
    IN  ToSet(list) = lines

\* printHelp: "(default)" is put behind a suite, the first one of its name, that
\* is not registered with OMIT_FROM_DEFAULT.
MarkedDefault ==
  {k \in DOMAIN availableSuites :
     /\ IsFirst(k, availableSuites[k].name)
     /\ "OMIT_FROM_DEFAULT" \notin availableSuites[k].flags}

\* "Passing no argument runs all suites marked with '(default)'", however many
\* suites share a name, and so does a command line that names no suite and asks
\* for no list and no pattern.
DefaultsAreRun ==
  (/\ Completed /\ ~ListsAsked /\ PatternsAsked = {}
   /\ Values("name") \subseteq Ignored \cup Unknown) =>
    MarkedDefault \subseteq {ran[i].suite : i \in DOMAIN ran}

\* One stream serves both lists: a list is written through a stream that was
\* destroyed at most if a file for the tests was asked for and then one for the
\* suites, and no pattern was given.  (Otherwise only a handled argument leads
\* into undefined behaviour.)
ListStreamLives ==
  pc = "undefined" =>
    \/ callback /\ argv[Len(argv)].value \in Handled
    \/ /\ PatternsAsked = {} /\ Given("list-tests") # {}
       /\ LET i == Max(Given("list-tests")) IN
          /\ argv[i].value \in File
          /\ \E j \in i + 1 .. Len(argv) :
               argv[j].option = "list-suites" /\ argv[j].value \in File

\* The report goes where the last --output, --mode and --output-file say, and
\* colours only to the console.
ReportsWhereAsked ==
  Completed =>
    LET type == LastValue("output", OutputType, "plain") IN
    /\ realOutput.type = IF type = "unrecognized" THEN "plain" ELSE type
    /\ realOutput.mode = LastValue("mode", Mode, "terse")
    /\ realOutput.sink = IF type = "colored" THEN Cout
                         ELSE LastValue("output-file", File, Cout)

\* The exit code is a failure exactly if an argument was refused or a test of a
\* suite that was run failed, whichever suite and however many came after it.
\* (The run() of a ParallelSuite always returns true: its tests do not count.)
ExitCodeTellsFailure ==
  pc = "done" =>
    (exit = "failure" <=>
       \/ Given("help") = {} /\ Unknown # {} /\ ~callback
       \/ \E k \in broken : ~availableSuites[k].parallel)

\* cpptest-main.h: "The callback returns whether the argument is handled by it
\* (and therefore is a valid argument)": runSuites goes on after such a one.
CallbackArgumentsAreValid ==
  pc = "undefined" => argv[Len(argv)].value \notin Handled
==============================================================================
