---------------------------- MODULE TestMainProofs ----------------------------
(***************************************************************************)
(* Proofs about module TestMain, for every set of suites that may be       *)
(* registered and every command line.                                      *)
(***************************************************************************)
EXTENDS TestMain, Induction, TLAPS

-----------------------------------------------------------------------------
\* Types.

\* Before the arguments are read there is nothing to refer to a suite.
StartInv ==
  /\ pc = "main" => argv = <<>> /\ selectedSuites = <<>> /\ ran = <<>>
  /\ pc \in {"main", "args"} => next = 1
  /\ pc = "defaults" => next <= Len(availableSuites) + 1

MainInv == TypeOK /\ StartInv

LEMMA InitMainInv == Init => MainInv
<1> SUFFICES ASSUME Init PROVE MainInv
  OBVIOUS
<1>1. NoOptions \in Options
  BY DEF NoOptions, Options, NullStream, OutputType, Mode
<1>2. /\ pc \in {"main", "args", "defaults", "output", "suites", "done", "thrown", "undefined"}
      /\ availableSuites \in Seq(SuiteEntry) /\ callback \in BOOLEAN /\ argv \in Seq(Argument)
      /\ selectedSuites \in Seq(DOMAIN availableSuites)
  BY DEF Init
<1>3. /\ opts \in Options /\ realOutput \in RealOutput \cup {NoOutput}
      /\ broken \subseteq DOMAIN availableSuites /\ failures \in BOOLEAN
  BY <1>1 DEF Init
<1>7. ran \in Seq([suite : DOMAIN availableSuites, tests : SUBSET Nat])
  <2>1. \A S : <<>> \in Seq(S)
    OBVIOUS
  <2> QED BY <2>1 DEF Init
<1>4. next \in 1 .. (IF pc = "defaults" THEN Len(availableSuites) ELSE Len(selectedSuites)) + 1
  BY DEF Init
<1>5. written \in [Sink -> Seq(Test \cup Name)] /\ exit \in {"none", "success", "failure"}
  BY DEF Init
<1>6. TypeOK
  BY <1>2, <1>3, <1>4, <1>5, <1>7 DEF TypeOK
<1> QED BY <1>6 DEF Init, MainInv, StartInv

\* A stream that an argument of a list option opens.
LEMMA StreamType ==
  ASSUME TypeOK, NEW a, a.value \in Sink
  PROVE  Stream(a) \in [sink : Sink \cup {""}, at : Nat] /\ Stream(a).at \in Nat
<1>1. Len(argv) \in Nat
  BY DEF TypeOK
<1>2. (IF a.value = Cout THEN 0 ELSE Len(argv) + 1) \in Nat
  BY <1>1
<1> QED BY <1>2 DEF Stream

LEMMA OpenListType ==
  ASSUME TypeOK, NEW a, a.value \in Sink,
         NEW option \in {"listTestsOutput", "listSuitesOutput"}, OpenList(a, option)
  PROVE  opts' \in Options /\ written' \in [Sink -> Seq(Test \cup Name)]
<1>1. Stream(a) \in [sink : Sink \cup {""}, at : Nat] /\ Stream(a).at \in Nat
  BY StreamType
<1>2. opts \in Options /\ written \in [Sink -> Seq(Test \cup Name)]
  BY DEF TypeOK
<1>3. written' \in [Sink -> Seq(Test \cup Name)]
  <2>1. written' = written \/ written' = [written EXCEPT ![a.value] = <<>>]
    BY DEF OpenList
  <2>2. <<>> \in Seq(Test \cup Name)
    OBVIOUS
  <2> HIDE DEF Sink
  <2> QED BY <1>2, <2>1, <2>2
<1>4. CASE a.value = Cout
  BY <1>1, <1>2, <1>3, <1>4 DEF OpenList, Options
<1>5. CASE a.value # Cout
  BY <1>1, <1>2, <1>3, <1>5, ZenonT(60) DEF OpenList, Options
<1> QED BY <1>4, <1>5

LEMMA ReportOptionType ==
  ASSUME TypeOK, NEW a \in Arg, ReportOption(a)
  PROVE  opts' \in Options
<1>1. a \in Argument /\ opts \in Options
  BY MainAssumption DEF TypeOK
<1>2. CASE a.option = "output-file"
  <2>1. a.value \in File /\ opts' = [opts EXCEPT !.outputFile = a.value]
    BY <1>1, <1>2 DEF ReportOption, Argument
  <2> QED BY <1>1, <2>1 DEF Options
<1>3. CASE a.option = "output"
  <2>1. a.value \in OutputType /\ opts' = [opts EXCEPT !.outputMode = a.value]
    BY <1>1, <1>3 DEF ReportOption, Argument
  <2> QED BY <1>1, <2>1 DEF Options
<1>4. CASE a.option = "mode"
  <2>1. opts' = [opts EXCEPT !.mode = IF a.value \in Mode THEN a.value ELSE @]
    BY <1>4 DEF ReportOption
  <2> QED BY <1>1, <2>1 DEF Options
<1> QED BY <1>2, <1>3, <1>4 DEF ReportOption

\* Reading an argument.
LEMMA ReadArgumentType ==
  ASSUME MainInv, NEW a \in Arg, ReadArgument(a)
  PROVE  MainInv'
<1>1. a \in Argument /\ TypeOK
  BY MainAssumption DEF MainInv
<1>2. Read(a)
  BY DEF ReadArgument, Help, ListTests, ListSuites, TestPattern, ReportOption,
     IgnoredArgument, SuiteArgument, UnknownArgument
<1>3. /\ argv' \in Seq(Argument) /\ pc = "args" /\ next = 1
      /\ UNCHANGED <<availableSuites, callback, realOutput, next, ran, broken, failures>>
  BY <1>1, <1>2 DEF Read, TypeOK, results, MainInv, StartInv
<1>4. ASSUME pc' \in {"args", "done", "undefined"}, exit' \in {"none", "success", "failure"},
             opts' \in Options, written' \in [Sink -> Seq(Test \cup Name)],
             selectedSuites' \in Seq(DOMAIN availableSuites)
      PROVE  MainInv'
  BY <1>1, <1>3, <1>4 DEF MainInv, StartInv, TypeOK
<1>5. CASE Help(a)
  BY <1>1, <1>4, <1>5 DEF Help, Return, TypeOK
<1>6. CASE ListTests(a)
  <2>1. a.value \in Sink
    BY <1>1, <1>6 DEF ListTests, Argument
  <2>2. opts' \in Options /\ written' \in [Sink -> Seq(Test \cup Name)]
    BY <1>1, <1>6, <2>1, OpenListType DEF ListTests
  <2> QED BY <1>1, <1>3, <1>4, <1>6, <2>2 DEF ListTests, GoOn, TypeOK
<1>7. CASE ListSuites(a)
  <2>1. a.value \in Sink
    BY <1>1, <1>7 DEF ListSuites, Argument
  <2>2. opts' \in Options /\ written' \in [Sink -> Seq(Test \cup Name)]
    BY <1>1, <1>7, <2>1, OpenListType DEF ListSuites
  <2> QED BY <1>1, <1>3, <1>4, <1>7, <2>2 DEF ListSuites, GoOn, TypeOK
<1>8. CASE TestPattern(a)
  <2>1. a.value \in Pattern
    BY <1>1, <1>8 DEF TestPattern, Argument
  <2>2. opts' \in Options
    BY <1>1, <1>8, <2>1 DEF TestPattern, TypeOK, Options
  <2> QED BY <1>1, <1>3, <1>4, <1>8, <2>2 DEF TestPattern, GoOn, TypeOK
<1>9. CASE ReportOption(a)
  <2>1. opts' \in Options
    BY <1>1, <1>9, ReportOptionType
  <2> QED BY <1>1, <1>3, <1>4, <1>9, <2>1 DEF ReportOption, GoOn, TypeOK
<1>10. CASE IgnoredArgument(a)
  BY <1>1, <1>3, <1>4, <1>10 DEF IgnoredArgument, GoOn, TypeOK
<1>11. CASE SuiteArgument(a)
  <2>1. selectedSuites' \in Seq(DOMAIN availableSuites)
    <3>1. PICK k \in DOMAIN availableSuites :
             selectedSuites' = IF a.value \in selectedSuiteNames THEN selectedSuites
                               ELSE Append(selectedSuites, k)
      BY <1>11 DEF SuiteArgument
    <3>2. selectedSuites \in Seq(DOMAIN availableSuites)
      BY <1>1 DEF TypeOK
    <3>3. Append(selectedSuites, k) \in Seq(DOMAIN availableSuites)
      BY <3>1, <3>2
    <3> QED BY <3>1, <3>2, <3>3
  <2> QED BY <1>1, <1>3, <1>4, <1>11, <2>1 DEF SuiteArgument, GoOn, TypeOK
<1>12. CASE UnknownArgument(a)
  <2>1. pc' \in {"args", "done", "undefined"} /\ exit' \in {"none", "success", "failure"}
    <3>1. CASE ~callback
      BY <1>12, <3>1 DEF UnknownArgument, Return
    <3>2. CASE callback /\ a.value \in Handled
      BY <1>1, <1>12, <3>2 DEF UnknownArgument, TypeOK
    <3>3. CASE callback /\ a.value \notin Handled
      BY <1>1, <1>3, <1>12, <3>3 DEF UnknownArgument, GoOn, TypeOK
    <3> QED BY <1>1, <3>1, <3>2, <3>3 DEF TypeOK
  <2> QED BY <1>1, <1>4, <1>12, <2>1 DEF UnknownArgument, TypeOK
<1> QED
  BY <1>5, <1>6, <1>7, <1>8, <1>9, <1>10, <1>11, <1>12 DEF ReadArgument

\* The suite that the loop is at.
LEMMA SuiteType ==
  ASSUME TypeOK, InLoop
  PROVE  /\ selectedSuites[next] \in DOMAIN availableSuites
         /\ next \in DOMAIN selectedSuites /\ Suite \in SuiteEntry
<1>1. next \in Nat /\ next >= 1 /\ next <= Len(selectedSuites)
  BY DEF TypeOK, InLoop
<1>2. next \in DOMAIN selectedSuites /\ selectedSuites[next] \in DOMAIN availableSuites
  BY <1>1 DEF TypeOK
<1> QED BY <1>2 DEF TypeOK, Suite

LEMMA ChosenOutputType == TypeOK => ChosenOutput \in RealOutput
<1> SUFFICES ASSUME TypeOK PROVE ChosenOutput \in RealOutput
  OBVIOUS
<1>1. /\ opts.outputMode \in OutputType /\ opts.mode \in Mode
      /\ opts.outputFile \in File \cup {""}
  BY DEF TypeOK, Options
<1>2. (IF opts.outputMode = "unrecognized" THEN "plain" ELSE opts.outputMode)
        \in OutputType \ {"unrecognized"}
  BY <1>1 DEF OutputType
<1>3. (IF opts.outputFile = "" \/ opts.outputMode = "colored" THEN Cout ELSE opts.outputFile)
        \in Sink
  BY <1>1 DEF Sink
<1> QED BY <1>1, <1>2, <1>3 DEF ChosenOutput, RealOutput

LEMMA ListSuiteType ==
  ASSUME TypeOK, ListSuite
  PROVE  written' \in [Sink -> Seq(Test \cup Name)]
<1>1. CASE written' = written
  BY <1>1 DEF TypeOK
<1>2. CASE written' = [written EXCEPT ![ListEntry.stream.sink] = @ \o ListEntry.lines]
  <2>1. Suite.tests \in Seq(Test) /\ Suite.name \in Name
    BY SuiteType DEF ListSuite, SuiteEntry
  <2>2. ListEntry.lines \in Seq(Test \cup Name)
    <3>1. Suite.tests \in Seq(Test \cup Name) /\ <<Suite.name>> \in Seq(Test \cup Name)
      BY <2>1
    <3> QED BY <3>1 DEF ListEntry
  <2>3. PICK sink : sink = ListEntry.stream.sink
    OBVIOUS
  <2>4. PICK lines \in Seq(Test \cup Name) : lines = ListEntry.lines
    BY <2>2
  <2>5. written' = [written EXCEPT ![sink] = @ \o lines]
    BY <1>2, <2>3, <2>4
  <2>6. written \in [Sink -> Seq(Test \cup Name)]
    BY DEF TypeOK
  <2>7. sink \in Sink => written[sink] \o lines \in Seq(Test \cup Name)
    BY <2>4, <2>6
  <2> HIDE DEF Sink
  <2> QED BY <2>5, <2>6, <2>7
<1> QED BY <1>1, <1>2 DEF ListSuite

\* Everything but the arguments.
LEMMA OtherStepType ==
  ASSUME MainInv,
         \/ \E e \in Entry : registerSuite(e)
         \/ CallRunSuites \/ EndOfArguments \/ SelectDefault \/ OpenOutput
         \/ RunSuite \/ RunThrows \/ SkipSuite \/ ListSuite \/ Finish
  PROVE  MainInv'
<1> USE DEF MainInv, StartInv
<1>0. TypeOK
  OBVIOUS
<1>1. ASSUME NEW e \in Entry, registerSuite(e) PROVE MainInv'
  <2>1. e \in SuiteEntry /\ availableSuites \in Seq(SuiteEntry)
    BY MainAssumption DEF TypeOK
  <2>2. availableSuites' \in Seq(SuiteEntry) /\ DOMAIN availableSuites \subseteq DOMAIN availableSuites'
    BY <1>1, <2>1 DEF registerSuite
  <2>3. \A S : <<>> \in Seq(S)
    OBVIOUS
  <2> QED BY <1>1, <2>2, <2>3 DEF registerSuite, TypeOK, results
<1>2. CASE CallRunSuites
  BY <1>2 DEF CallRunSuites, TypeOK, results
<1>3. CASE EndOfArguments
  <2>1. Len(availableSuites) \in Nat /\ Len(selectedSuites) \in Nat /\ next = 1
    BY <1>3 DEF EndOfArguments, TypeOK
  <2> QED BY <1>3, <2>1 DEF EndOfArguments, TypeOK, results
<1>4. CASE SelectDefault
  <2>1. next \in DOMAIN availableSuites /\ next \in Nat /\ Len(availableSuites) \in Nat
    BY <1>4 DEF SelectDefault, TypeOK
  <2>2. selectedSuites' \in Seq(DOMAIN availableSuites)
    <3>1. selectedSuites' = selectedSuites \/ selectedSuites' = Append(selectedSuites, next)
      BY <1>4 DEF SelectDefault
    <3>2. selectedSuites \in Seq(DOMAIN availableSuites)
      BY DEF TypeOK
    <3> QED BY <2>1, <3>1, <3>2
  <2> QED BY <1>4, <2>1, <2>2 DEF SelectDefault, TypeOK
<1>5. CASE OpenOutput
  <2>1. pc' \in {"suites", "done"} /\ exit' \in {"none", "success", "failure"}
    BY <1>5 DEF OpenOutput, Return, TypeOK
  <2>2. written' \in [Sink -> Seq(Test \cup Name)]
    <3>1. written' = written \/ written' = [written EXCEPT ![opts.outputFile] = <<>>]
      BY <1>5 DEF OpenOutput
    <3>2. written \in [Sink -> Seq(Test \cup Name)] /\ <<>> \in Seq(Test \cup Name)
      BY DEF TypeOK
    <3> HIDE DEF Sink
    <3> QED BY <3>1, <3>2
  <2>3. realOutput' \in RealOutput
    BY <1>5, ChosenOutputType DEF OpenOutput
  <2>4. Len(selectedSuites) \in Nat
    BY DEF TypeOK
  <2>5. /\ next' = 1
        /\ UNCHANGED <<availableSuites, callback, argv, selectedSuites, opts, ran, broken,
                       failures>>
    BY <1>5 DEF OpenOutput
  <2> QED BY <2>1, <2>2, <2>3, <2>4, <2>5 DEF TypeOK
<1>6. CASE RunSuite
  <2>1. InLoop
    BY <1>6 DEF RunSuite, Runs
  <2>2. selectedSuites[next] \in DOMAIN availableSuites /\ next \in DOMAIN selectedSuites
    BY <2>1, SuiteType
  <2>3. SelectedTests \subseteq Nat
    <3>1. Suite.tests \in Seq(Test)
      BY <2>1, SuiteType DEF SuiteEntry
    <3> QED BY <3>1 DEF SelectedTests
  <2>4. ran' \in Seq([suite : DOMAIN availableSuites, tests : SUBSET Nat])
    <3>1. PICK r : r = [suite |-> selectedSuites[next], tests |-> SelectedTests]
      OBVIOUS
    <3>2. r \in [suite : DOMAIN availableSuites, tests : SUBSET Nat]
      BY <2>2, <2>3, <3>1
    <3>3. ran' = Append(ran, r)
      BY <1>6, <3>1 DEF RunSuite
    <3>4. ran \in Seq([suite : DOMAIN availableSuites, tests : SUBSET Nat])
      BY DEF TypeOK
    <3> QED BY <3>2, <3>3, <3>4
  <2>5. broken' \subseteq DOMAIN availableSuites
    BY <1>6, <2>2 DEF RunSuite, TypeOK
  <2>6. failures' \in BOOLEAN
    BY <1>6 DEF RunSuite, Failures, TypeOK
  <2>7. next' \in 1 .. Len(selectedSuites) + 1 /\ pc = "suites"
    BY <1>6, <2>1 DEF RunSuite, InLoop, TypeOK
  <2> QED BY <1>6, <2>4, <2>5, <2>6, <2>7 DEF RunSuite, TypeOK
<1>7. CASE RunThrows
  BY <1>7 DEF RunThrows, Runs, InLoop, TypeOK, results
<1>8. CASE SkipSuite
  BY <1>8, SMTT(40) DEF SkipSuite, InLoop, TypeOK
<1>9. CASE ListSuite
  <2>1. written' \in [Sink -> Seq(Test \cup Name)]
    BY <1>9, ListSuiteType
  <2>2. pc' \in {"suites", "undefined"} /\ next' \in 1 .. Len(selectedSuites) + 1
    <3>1. pc' = "undefined" \/ pc' = pc
      BY <1>9 DEF ListSuite
    <3>2. pc = "suites" /\ next <= Len(selectedSuites) /\ next' = next + 1
      BY <1>9 DEF ListSuite, InLoop
    <3>3. next \in Nat /\ next >= 1 /\ Len(selectedSuites) \in Nat
      BY <3>2 DEF TypeOK
    <3> QED BY <3>1, <3>2, <3>3
  <2> QED BY <1>9, <2>1, <2>2, SMTT(40) DEF ListSuite, TypeOK
<1>10. CASE Finish
  BY <1>10 DEF Finish, Return, TypeOK, results
<1> QED BY <1>1, <1>2, <1>3, <1>4, <1>5, <1>6, <1>7, <1>8, <1>9, <1>10

LEMMA MainInvHolds == Spec => []MainInv
<1>1. MainInv /\ UNCHANGED vars => MainInv'
  BY DEF MainInv, StartInv, TypeOK, vars, results
<1>2. MainInv /\ [Next]_vars => MainInv'
  BY <1>1, ReadArgumentType, OtherStepType DEF Next, Ended
<1> QED BY <1>2, InitMainInv, PTL DEF Spec

\* The locals of runSuites have their types: the indices of selected and of run
\* suites are those of registered ones and the loops stay within the vectors.
THEOREM MainTypes == Spec => []TypeOK
BY MainInvHolds, PTL DEF MainInv

-----------------------------------------------------------------------------
\* What an argument adds to the command line.

LEMMA ReadArgs ==
  ASSUME TypeOK, NEW a \in Arg, Read(a)
  PROVE  /\ Len(argv) \in Nat /\ DOMAIN argv = 1 .. Len(argv)
         /\ DOMAIN argv' = DOMAIN argv \cup {Len(argv) + 1}
         /\ argv'[Len(argv) + 1] = a
         /\ \A i \in DOMAIN argv : argv'[i] = argv[i]
<1>1. argv \in Seq(Argument) /\ a \in Argument /\ argv' = Append(argv, a)
  BY MainAssumption DEF TypeOK, Read
<1> QED BY <1>1

LEMMA ReadGiven ==
  ASSUME TypeOK, NEW a \in Arg, Read(a), NEW CONSTANT option
  PROVE  Given(option)' = IF a.option = option THEN Given(option) \cup {Len(argv) + 1}
                          ELSE Given(option)
BY ReadArgs DEF Given

LEMMA ReadValues ==
  ASSUME TypeOK, NEW a \in Arg, Read(a), NEW CONSTANT option
  PROVE  Values(option)' = IF a.option = option THEN Values(option) \cup {a.value}
                           ELSE Values(option)
<1>1. \A i \in Given(option) : i \in DOMAIN argv /\ argv'[i] = argv[i]
  BY ReadArgs DEF Given
<1>2. argv'[Len(argv) + 1] = a
  BY ReadArgs
<1> QED BY <1>1, <1>2, ReadGiven DEF Values

\* No command line has been read in the beginning.
LEMMA NothingGiven ==
  ASSUME argv = <<>>, NEW CONSTANT option
  PROVE  Given(option) = {} /\ Values(option) = {}
BY DEF Given, Values

-----------------------------------------------------------------------------
\* The exit code.

\* Only a command line that is accepted goes on, and failures has the verdict
\* on the suites that were run.
ExitInv ==
  /\ pc # "done" => exit = "none"
  /\ pc \notin {"done", "undefined"} => Given("help") = {} /\ (Unknown = {} \/ callback)
  /\ pc \in {"main", "args", "defaults", "output"} => broken = {}
  /\ failures <=> \E k \in broken : ~availableSuites[k].parallel
  /\ ExitCodeTellsFailure

LEMMA ReadArgumentExits ==
  ASSUME MainInv, ExitInv, NEW a \in Arg, ReadArgument(a)
  PROVE  ExitInv'
<1>1. TypeOK /\ Read(a) /\ pc = "args"
  BY DEF MainInv, ReadArgument, Help, ListTests, ListSuites, TestPattern, ReportOption,
     IgnoredArgument, SuiteArgument, UnknownArgument, Read
<1>2. /\ UNCHANGED <<availableSuites, callback, broken, failures>> /\ Registered' = Registered
      /\ broken = {} /\ ~failures /\ exit = "none"
      /\ Given("help") = {} /\ (Unknown = {} \/ callback)
  BY <1>1 DEF Read, results, Registered, ExitInv
<1>3. Given("help")' = IF a.option = "help" THEN Given("help") \cup {Len(argv) + 1}
                       ELSE Given("help")
  BY <1>1, ReadGiven
<1>4. Values("name")' = IF a.option = "name" THEN Values("name") \cup {a.value}
                        ELSE Values("name")
  BY <1>1, ReadValues
<1>5. ASSUME GoOn, a.option # "help", a.option = "name" => a.value \in Registered \cup Ignored
      PROVE  ExitInv'
  <2>1. pc' = "args" /\ exit' = "none"
    BY <1>1, <1>2, <1>5 DEF GoOn
  <2>2. Unknown' = Unknown
    BY <1>2, <1>4, <1>5 DEF Unknown
  <2> QED BY <1>2, <1>3, <1>5, <2>1, <2>2 DEF ExitInv, ExitCodeTellsFailure
<1>6. CASE Help(a)
  <2>1. pc' = "done" /\ exit' = "success" /\ a.option = "help"
    BY <1>6 DEF Help, Return
  <2> QED BY <1>2, <1>3, <2>1 DEF ExitInv, ExitCodeTellsFailure
<1>7. CASE ListTests(a) \/ ListSuites(a) \/ TestPattern(a) \/ ReportOption(a)
  BY <1>5, <1>7 DEF ListTests, ListSuites, TestPattern, ReportOption
<1>8. CASE IgnoredArgument(a)
  BY <1>5, <1>8 DEF IgnoredArgument
<1>9. CASE SuiteArgument(a)
  <2>1. a.value \in Registered
    BY <1>9 DEF SuiteArgument, IsFirst, Registered
  <2> QED BY <1>5, <1>9, <2>1 DEF SuiteArgument
<1>10. CASE UnknownArgument(a)
  <2>1. a.option = "name" /\ a.value \notin Registered \cup Ignored
    BY <1>10 DEF UnknownArgument
  <2>2. a.value \in Unknown'
    BY <1>2, <1>4, <2>1 DEF Unknown
  <2>3. CASE ~callback
    <3>1. pc' = "done" /\ exit' = "failure"
      BY <1>10, <2>3 DEF UnknownArgument, Return
    <3> QED BY <1>2, <1>3, <2>1, <2>2, <2>3, <3>1 DEF ExitInv, ExitCodeTellsFailure
  <2>4. CASE callback /\ a.value \in Handled
    <3>1. pc' = "undefined" /\ exit' = "none"
      BY <1>2, <1>10, <2>4 DEF UnknownArgument
    <3> QED BY <1>2, <3>1 DEF ExitInv, ExitCodeTellsFailure
  <2>5. CASE callback /\ a.value \notin Handled
    <3>1. pc' = "args" /\ exit' = "none"
      BY <1>1, <1>2, <1>10, <2>5 DEF UnknownArgument, GoOn
    <3> QED BY <1>2, <1>3, <2>1, <2>5, <3>1 DEF ExitInv, ExitCodeTellsFailure
  <2>6. callback \in BOOLEAN
    BY <1>1 DEF TypeOK
  <2> QED BY <2>3, <2>4, <2>5, <2>6
<1> QED
  BY <1>6, <1>7, <1>8, <1>9, <1>10 DEF ReadArgument

\* What is known of the command line does not change once it has been read.
LEMMA LineKept ==
  ASSUME UNCHANGED <<availableSuites, argv>>
  PROVE  Given("help")' = Given("help") /\ Unknown' = Unknown
BY DEF Given, Unknown, Values, Registered

LEMMA OtherStepExits ==
  ASSUME MainInv, ExitInv,
         \/ \E e \in Entry : registerSuite(e)
         \/ CallRunSuites \/ EndOfArguments \/ SelectDefault \/ OpenOutput
         \/ RunSuite \/ RunThrows \/ SkipSuite \/ ListSuite \/ Finish
  PROVE  ExitInv'
<1>0. TypeOK
  BY DEF MainInv
<1>1. ASSUME NEW e \in Entry, registerSuite(e) PROVE ExitInv'
  <2>1. argv = <<>> /\ UNCHANGED <<pc, argv, broken, failures, exit>> /\ pc = "main"
    BY <1>1 DEF registerSuite, MainInv, StartInv, results
  <2>2. argv' = <<>>
    BY <2>1
  <2>3. Given("help")' = {} /\ Values("name")' = {}
    BY <2>2 DEF Given, Values
  <2> QED BY <2>1, <2>3 DEF ExitInv, ExitCodeTellsFailure, Unknown
<1>2. CASE CallRunSuites \/ EndOfArguments
  <2>1. /\ UNCHANGED <<availableSuites, argv, callback, broken, failures, exit>>
        /\ pc \in {"main", "args"} /\ pc' \in {"args", "defaults", "output"}
    BY <1>2 DEF CallRunSuites, EndOfArguments, results
  <2> QED BY <2>1, LineKept DEF ExitInv, ExitCodeTellsFailure
<1>3. CASE SelectDefault
  <2>1. UNCHANGED <<pc, availableSuites, argv, callback, broken, failures, exit>>
    BY <1>3 DEF SelectDefault
  <2> QED BY <2>1, LineKept DEF ExitInv, ExitCodeTellsFailure
<1>4. CASE OpenOutput
  <2>1. /\ UNCHANGED <<availableSuites, argv, callback, broken, failures>>
        /\ pc \in {"defaults", "output"} /\ pc' \in {"done", "suites"}
        /\ exit' = IF pc' = "done" THEN "success" ELSE exit
    BY <1>4 DEF OpenOutput, Return
  <2> QED BY <2>1, LineKept DEF ExitInv, ExitCodeTellsFailure
<1>5. CASE RunSuite
  <2>1. /\ UNCHANGED <<pc, availableSuites, argv, callback, exit>> /\ pc = "suites"
    BY <1>5 DEF RunSuite, Runs, InLoop
  <2>2. PICK failed \in BOOLEAN :
          /\ broken' = IF failed THEN broken \cup {selectedSuites[next]} ELSE broken
          /\ failures' = ((failed /\ ~Suite.parallel) \/ failures)
    BY <1>5 DEF RunSuite, Failures
  <2>3. failures' <=> \E k \in broken' : ~availableSuites'[k].parallel
    BY <2>1, <2>2 DEF ExitInv, Suite
  <2> QED BY <2>1, <2>3, LineKept DEF ExitInv, ExitCodeTellsFailure
<1>6. CASE RunThrows
  <2>1. /\ UNCHANGED <<availableSuites, argv, callback, broken, failures, exit>>
        /\ pc = "suites" /\ pc' = "thrown"
    BY <1>6 DEF RunThrows, Runs, InLoop, results
  <2> QED BY <2>1, LineKept DEF ExitInv, ExitCodeTellsFailure
<1>7. CASE SkipSuite
  <2>1. UNCHANGED <<pc, availableSuites, argv, callback, broken, failures, exit>>
    BY <1>7 DEF SkipSuite
  <2> QED BY <2>1, LineKept DEF ExitInv, ExitCodeTellsFailure
<1>8. CASE ListSuite
  <2>1. /\ UNCHANGED <<availableSuites, argv, callback, broken, failures, exit>>
        /\ pc = "suites" /\ pc' \in {pc, "undefined"}
    BY <1>8 DEF ListSuite, InLoop
  <2> QED BY <2>1, LineKept DEF ExitInv, ExitCodeTellsFailure
<1>9. CASE Finish
  <2>1. /\ UNCHANGED <<availableSuites, argv, callback, broken, failures>>
        /\ pc = "suites" /\ pc' = "done" /\ exit' = IF failures THEN "failure" ELSE "success"
    BY <1>9 DEF Finish, Return, results
  <2> QED BY <2>1, LineKept DEF ExitInv, ExitCodeTellsFailure
<1> QED BY <1>1, <1>2, <1>3, <1>4, <1>5, <1>6, <1>7, <1>8, <1>9

LEMMA ExitInvHolds == Spec => []ExitInv
<1>1. Init => ExitInv
  <2> SUFFICES ASSUME Init PROVE ExitInv
    OBVIOUS
  <2>1. Given("help") = {} /\ Values("name") = {}
    BY NothingGiven DEF Init
  <2> QED BY <2>1 DEF Init, ExitInv, ExitCodeTellsFailure, Unknown
<1>2. MainInv /\ ExitInv /\ UNCHANGED vars => ExitInv'
  BY LineKept DEF ExitInv, ExitCodeTellsFailure, vars, results
<1>3. MainInv /\ ExitInv /\ [Next]_vars => ExitInv'
  BY <1>2, ReadArgumentExits, OtherStepExits DEF Next, Ended
<1> QED BY <1>1, <1>3, MainInvHolds, PTL DEF Spec

\* The exit code is a failure exactly if an argument was refused or a test of a
\* suite (but for the parallel ones, whose run() returns true whatever happens)
\* failed, for every set of suites and every command line.
THEOREM ExitCodesTellFailures == Spec => []ExitCodeTellsFailure
BY ExitInvHolds, PTL DEF ExitInv

-----------------------------------------------------------------------------
\* The options of the report.

LEMMA MaxIs ==
  ASSUME NEW S \in SUBSET Nat, NEW m \in S, \A y \in S : m >= y
  PROVE  Max(S) = m
<1>1. \A x \in S : (\A y \in S : x >= y) => x = m
  OBVIOUS
<1>2. PICK x \in S : x = (CHOOSE z \in S : \A y \in S : z >= y) /\ \A y \in S : x >= y
  OBVIOUS
<1> QED BY <1>1, <1>2 DEF Max

GivenLegal(option, legal) == {i \in Given(option) : argv[i].value \in legal}

\* Of the arguments that give an option one is the last.
HasLast(option, legal) ==
  GivenLegal(option, legal) = {} \/
    \E m \in GivenLegal(option, legal) : \A y \in GivenLegal(option, legal) : m >= y

\* Reading an argument replaces the value if it gives this option.
LEMMA LastValueRead ==
  ASSUME TypeOK, NEW a \in Arg, Read(a),
         NEW CONSTANT option, NEW CONSTANT legal, NEW CONSTANT default, HasLast(option, legal)
  PROVE  /\ HasLast(option, legal)'
         /\ LastValue(option, legal, default)' =
              IF a.option = option /\ a.value \in legal THEN a.value
              ELSE LastValue(option, legal, default)
<1>1. PICK n \in Nat : n = Len(argv)
  BY ReadArgs
<1>2. /\ DOMAIN argv = 1 .. n /\ argv'[n + 1] = a
      /\ \A i \in DOMAIN argv : argv'[i] = argv[i]
  BY <1>1, ReadArgs
<1>3. PICK S \in SUBSET (1 .. n) : S = GivenLegal(option, legal)
  BY <1>2 DEF GivenLegal, Given
<1>6. PICK G \in SUBSET (1 .. n) : G = Given(option)
  BY <1>2 DEF Given
<1>7. S = {i \in G : argv[i].value \in legal} /\ \A i \in G : argv'[i] = argv[i]
  BY <1>2, <1>3, <1>6 DEF GivenLegal
<1>8. Given(option)' = IF a.option = option THEN G \cup {n + 1} ELSE G
  BY <1>1, <1>6, ReadGiven
<1>4. CASE a.option = option /\ a.value \in legal
  <2>1. GivenLegal(option, legal)' = S \cup {n + 1}
    BY <1>2, <1>4, <1>7, <1>8 DEF GivenLegal
  <2>2. \A y \in S \cup {n + 1} : n + 1 >= y
    OBVIOUS
  <2>3. Max(S \cup {n + 1}) = n + 1
    BY <2>2, MaxIs
  <2>4. HasLast(option, legal)'
    BY <2>1, <2>2 DEF HasLast
  <2>5. LastValue(option, legal, default)' = argv'[n + 1].value
    BY <2>1, <2>3 DEF LastValue, GivenLegal
  <2> QED BY <1>2, <1>4, <2>4, <2>5
<1>5. CASE ~(a.option = option /\ a.value \in legal)
  <2>1. GivenLegal(option, legal)' = S
    BY <1>2, <1>5, <1>7, <1>8 DEF GivenLegal
  <2>2. S # {} => Max(S) \in S
    BY <1>3, MaxIs DEF HasLast
  <2>3. HasLast(option, legal)'
    BY <1>3, <2>1 DEF HasLast
  <2>4. LastValue(option, legal, default)' = IF S = {} THEN default ELSE argv'[Max(S)].value
    BY <2>1 DEF LastValue, GivenLegal
  <2>5. LastValue(option, legal, default) = IF S = {} THEN default ELSE argv[Max(S)].value
    BY <1>3 DEF LastValue, GivenLegal
  <2>6. S # {} => argv'[Max(S)] = argv[Max(S)]
    BY <1>2, <2>2
  <2> QED BY <1>5, <2>3, <2>4, <2>5, <2>6
<1> QED BY <1>4, <1>5

\* The locals have the last values that were given; the Output is made of them.
ReportInv ==
  /\ HasLast("output", OutputType) /\ HasLast("mode", Mode) /\ HasLast("output-file", File)
  /\ opts.outputMode = LastValue("output", OutputType, "plain")
  /\ opts.mode = LastValue("mode", Mode, "terse")
  /\ LastValue("output-file", File, Cout) = IF opts.outputFile = "" THEN Cout ELSE opts.outputFile
  /\ pc = "suites" \/ Completed => realOutput = ChosenOutput

\* An argument that is none of the three leaves the three locals alone.
LEMMA OptionsKept ==
  ASSUME TypeOK, NEW a \in Arg, ReadArgument(a), ~ReportOption(a)
  PROVE  /\ a.option \notin {"output", "mode", "output-file"}
         /\ opts'.outputMode = opts.outputMode /\ opts'.mode = opts.mode
         /\ opts'.outputFile = opts.outputFile
<1>1. opts \in Options
  BY DEF TypeOK
<1>2. CASE Help(a) \/ IgnoredArgument(a) \/ SuiteArgument(a) \/ UnknownArgument(a)
  BY <1>2 DEF Help, IgnoredArgument, SuiteArgument, UnknownArgument
<1>3. CASE ListTests(a)
  BY <1>1, <1>3 DEF ListTests, OpenList, Options
<1>4. CASE ListSuites(a)
  BY <1>1, <1>4 DEF ListSuites, OpenList, Options
<1>5. CASE TestPattern(a)
  BY <1>1, <1>5 DEF TestPattern, Options
<1> QED BY <1>2, <1>3, <1>4, <1>5 DEF ReadArgument

\* While arguments are read nothing is completed: those that end the program
\* are --help and one that nobody knows.
LEMMA NotCompletedYet ==
  ASSUME TypeOK, NEW a \in Arg, ReadArgument(a)
  PROVE  pc' # "suites" /\ ~Completed'
<1>0. Read(a)
  BY DEF ReadArgument, Help, ListTests, ListSuites, TestPattern, ReportOption,
     IgnoredArgument, SuiteArgument, UnknownArgument
<1>1. pc = "args" /\ UNCHANGED <<availableSuites, callback>> /\ Registered' = Registered
  BY <1>0 DEF Read, Registered
<1>2. CASE pc' = pc \/ pc' = "undefined"
  BY <1>1, <1>2 DEF Completed
<1>3. CASE Help(a)
  <2>1. Given("help")' # {} /\ pc' = "done"
    BY <1>0, <1>3, ReadGiven DEF Help, Return
  <2> QED BY <2>1 DEF Completed
<1>4. CASE UnknownArgument(a) /\ ~callback
  <2>1. a.value \in Values("name")' /\ a.value \notin Registered \cup Ignored
    BY <1>0, <1>4, ReadValues DEF UnknownArgument
  <2>2. Unknown' # {} /\ ~callback' /\ pc' = "done"
    BY <1>1, <1>4, <2>1 DEF Unknown, UnknownArgument, Return
  <2> QED BY <2>2 DEF Completed
<1>5. pc' = pc \/ pc' = "undefined" \/ Help(a) \/ (UnknownArgument(a) /\ ~callback)
  <2>1. CASE UnknownArgument(a) /\ callback
    <3>1. CASE a.value \in Handled
      BY <2>1, <3>1 DEF UnknownArgument
    <3>2. CASE a.value \notin Handled
      BY <2>1, <3>2 DEF UnknownArgument, GoOn
    <3> QED BY <3>1, <3>2
  <2>2. callback \in BOOLEAN
    BY <1>0 DEF TypeOK
  <2> QED
    BY <2>1, <2>2 DEF ReadArgument, ListTests, ListSuites, TestPattern, ReportOption,
       IgnoredArgument, SuiteArgument, GoOn
<1> QED BY <1>2, <1>3, <1>4, <1>5

LEMMA ReadArgumentReports ==
  ASSUME MainInv, ExitInv, ReportInv, NEW a \in Arg, ReadArgument(a)
  PROVE  ReportInv'
<1>1. TypeOK /\ Read(a) /\ a \in Argument /\ opts \in Options
  <2>1. TypeOK /\ opts \in Options
    BY DEF MainInv, TypeOK
  <2>2. Read(a)
    BY DEF ReadArgument, Help, ListTests, ListSuites, TestPattern, ReportOption,
       IgnoredArgument, SuiteArgument, UnknownArgument
  <2> QED BY <2>1, <2>2, MainAssumption
<1>2. /\ HasLast("output", OutputType)' /\ HasLast("mode", Mode)'
      /\ HasLast("output-file", File)'
      /\ LastValue("output", OutputType, "plain")' =
           IF a.option = "output" /\ a.value \in OutputType THEN a.value ELSE opts.outputMode
      /\ LastValue("mode", Mode, "terse")' =
           IF a.option = "mode" /\ a.value \in Mode THEN a.value ELSE opts.mode
      /\ LastValue("output-file", File, Cout)' =
           IF a.option = "output-file" /\ a.value \in File THEN a.value
           ELSE IF opts.outputFile = "" THEN Cout ELSE opts.outputFile
  <2>4. /\ HasLast("output", OutputType) /\ HasLast("mode", Mode)
        /\ HasLast("output-file", File)
    BY DEF ReportInv
  <2>1. /\ HasLast("output", OutputType)'
        /\ LastValue("output", OutputType, "plain")' =
             IF a.option = "output" /\ a.value \in OutputType THEN a.value
             ELSE LastValue("output", OutputType, "plain")
    BY <1>1, <2>4, LastValueRead
  <2>2. /\ HasLast("mode", Mode)'
        /\ LastValue("mode", Mode, "terse")' =
             IF a.option = "mode" /\ a.value \in Mode THEN a.value
             ELSE LastValue("mode", Mode, "terse")
    BY <1>1, <2>4, LastValueRead
  <2>3. /\ HasLast("output-file", File)'
        /\ LastValue("output-file", File, Cout)' =
             IF a.option = "output-file" /\ a.value \in File THEN a.value
             ELSE LastValue("output-file", File, Cout)
    BY <1>1, <2>4, LastValueRead
  <2> QED BY <2>1, <2>2, <2>3 DEF ReportInv
<1>3. pc' # "suites" /\ ~Completed'
  BY <1>1, NotCompletedYet
<1>4. CASE ReportOption(a)
  <2>1. CASE a.option = "output-file"
    <3>1. a.value \in File /\ a.value # "" /\ opts' = [opts EXCEPT !.outputFile = a.value]
      BY <1>1, <1>4, <2>1, MainAssumption DEF ReportOption, Argument
    <3> QED BY <1>1, <1>2, <1>3, <2>1, <3>1 DEF ReportInv, Options
  <2>2. CASE a.option = "output"
    <3>1. a.value \in OutputType /\ opts' = [opts EXCEPT !.outputMode = a.value]
      BY <1>1, <1>4, <2>2 DEF ReportOption, Argument
    <3> QED BY <1>1, <1>2, <1>3, <2>2, <3>1 DEF ReportInv, Options
  <2>3. CASE a.option = "mode"
    <3>1. opts' = [opts EXCEPT !.mode = IF a.value \in Mode THEN a.value ELSE @]
      BY <1>4, <2>3 DEF ReportOption
    <3> QED BY <1>1, <1>2, <1>3, <2>3, <3>1 DEF ReportInv, Options
  <2> QED BY <1>4, <2>1, <2>2, <2>3 DEF ReportOption
<1>5. CASE ~ReportOption(a)
  <2>1. /\ a.option \notin {"output", "mode", "output-file"}
        /\ opts'.outputMode = opts.outputMode /\ opts'.mode = opts.mode
        /\ opts'.outputFile = opts.outputFile
    BY <1>1, <1>5, OptionsKept
  <2> QED BY <1>2, <1>3, <2>1 DEF ReportInv
<1> QED BY <1>4, <1>5

LEMMA LastKept ==
  ASSUME UNCHANGED argv, NEW CONSTANT option, NEW CONSTANT legal, NEW CONSTANT default
  PROVE  /\ HasLast(option, legal)' = HasLast(option, legal)
         /\ LastValue(option, legal, default)' = LastValue(option, legal, default)
<1>1. Given(option)' = Given(option)
  BY DEF Given
<1>2. GivenLegal(option, legal)' = GivenLegal(option, legal)
  BY <1>1 DEF GivenLegal
<1> QED BY <1>1, <1>2 DEF HasLast, LastValue

LEMMA ReportKept ==
  ASSUME ReportInv, UNCHANGED <<argv, opts>>,
         (pc = "suites" \/ Completed => realOutput = ChosenOutput)'
  PROVE  ReportInv'
<1>1. /\ HasLast("output", OutputType)' = HasLast("output", OutputType)
      /\ LastValue("output", OutputType, "plain")' = LastValue("output", OutputType, "plain")
  BY LastKept
<1>2. /\ HasLast("mode", Mode)' = HasLast("mode", Mode)
      /\ LastValue("mode", Mode, "terse")' = LastValue("mode", Mode, "terse")
  BY LastKept
<1>3. /\ HasLast("output-file", File)' = HasLast("output-file", File)
      /\ LastValue("output-file", File, Cout)' = LastValue("output-file", File, Cout)
  BY LastKept
<1> QED BY <1>1, <1>2, <1>3 DEF ReportInv

LEMMA OtherStepReports ==
  ASSUME MainInv, ReportInv,
         \/ \E e \in Entry : registerSuite(e)
         \/ CallRunSuites \/ EndOfArguments \/ SelectDefault \/ OpenOutput
         \/ RunSuite \/ RunThrows \/ SkipSuite \/ ListSuite \/ Finish \/ UNCHANGED vars
  PROVE  ReportInv'
<1>1. UNCHANGED <<argv, opts>>
  BY DEF registerSuite, CallRunSuites, EndOfArguments, SelectDefault, OpenOutput, RunSuite,
     RunThrows, SkipSuite, ListSuite, Finish, vars, results
<1>2. ChosenOutput' = ChosenOutput
  BY <1>1 DEF ChosenOutput
<1>3. CASE pc' \notin {"suites", "done"}
  BY <1>1, <1>3, ReportKept DEF Completed
<1>4. CASE OpenOutput
  <2>1. realOutput' = ChosenOutput
    BY <1>4 DEF OpenOutput
  <2> QED BY <1>1, <1>2, <2>1, ReportKept
<1>5. CASE pc = "suites" /\ UNCHANGED realOutput
  BY <1>1, <1>2, <1>5, ReportKept DEF ReportInv
<1>6. CASE UNCHANGED vars
  <2>1. Given("help")' = Given("help") /\ Unknown' = Unknown /\ UNCHANGED <<pc, callback, realOutput>>
    BY <1>6 DEF vars, Given, Unknown, Values, Registered
  <2>2. Completed' = Completed
    BY <2>1, SMTT(40) DEF Completed
  <2> QED BY <1>1, <1>2, <2>1, <2>2, ReportKept DEF ReportInv
<1>7. CASE RunSuite \/ RunThrows \/ SkipSuite \/ ListSuite \/ Finish
  BY <1>5, <1>7 DEF RunSuite, RunThrows, SkipSuite, ListSuite, Finish, Runs, InLoop, results
<1>8. CASE (\E e \in Entry : registerSuite(e)) \/ CallRunSuites \/ EndOfArguments \/ SelectDefault
  <2>1. pc' \notin {"suites", "done"}
    BY <1>8 DEF registerSuite, CallRunSuites, EndOfArguments, SelectDefault
  <2> QED BY <1>3, <2>1
<1> QED BY <1>4, <1>6, <1>7, <1>8

LEMMA InitReports == Init => ReportInv
<1> SUFFICES ASSUME Init PROVE ReportInv
  OBVIOUS
<1>1. \A option : Given(option) = {}
  BY DEF Init, Given
<1>2. \A option, legal : GivenLegal(option, legal) = {}
  BY <1>1 DEF GivenLegal
<1>3. \A option, legal, default :
        HasLast(option, legal) /\ LastValue(option, legal, default) = default
  BY <1>1, <1>2 DEF HasLast, LastValue
<1>4. /\ opts.outputMode = "plain" /\ opts.mode = "terse" /\ opts.outputFile = ""
      /\ pc = "main"
  BY DEF Init, NoOptions
<1> QED BY <1>3, <1>4, ZenonT(60) DEF ReportInv, Completed

\* Whatever the order of the arguments, and whatever comes between them, the
\* report goes where the last of the options about it say.
THEOREM ReportsGoWhereAsked == Spec => []ReportsWhereAsked
<1>1. MainInv /\ ExitInv /\ ReportInv /\ [Next]_vars => ReportInv'
  BY ReadArgumentReports, OtherStepReports DEF Next, Ended
<1>2. MainInv /\ ReportInv => ReportsWhereAsked
  <2> SUFFICES ASSUME MainInv, ReportInv, Completed PROVE ReportsWhereAsked
    BY DEF ReportsWhereAsked
  <2>1. realOutput = ChosenOutput
    BY DEF ReportInv
  <2>2. /\ realOutput.type = IF opts.outputMode = "unrecognized" THEN "plain" ELSE opts.outputMode
        /\ realOutput.mode = opts.mode
        /\ realOutput.sink = IF opts.outputFile = "" \/ opts.outputMode = "colored" THEN Cout
                             ELSE opts.outputFile
    BY <2>1 DEF ChosenOutput
  <2> QED BY <2>2 DEF ReportInv, ReportsWhereAsked
<1> QED BY <1>1, <1>2, InitReports, MainInvHolds, ExitInvHolds, PTL DEF Spec

-----------------------------------------------------------------------------
\* The streams of the lists.

ListFiles == {i \in Given("list-tests") \cup Given("list-suites") : argv[i].value # Cout}

\* The stream of a list is that of the last argument that asks for this list.
LastStream(option, stream) ==
  \/ Given(option) = {} /\ stream = NullStream
  \/ \E m \in Given(option) :
       /\ \A i \in Given(option) : m >= i
       /\ stream = [sink |-> argv[m].value, at |-> IF argv[m].value = Cout THEN 0 ELSE m]

\* The owned one is that of the last argument that asks for a list in a file.
OwnsLast(owner) ==
  \/ ListFiles = {} /\ owner = 0
  \/ owner \in ListFiles /\ \A i \in ListFiles : owner >= i

StreamInv ==
  /\ opts.testPatterns = PatternsAsked
  /\ LastStream("list-tests", opts.listTestsOutput)
  /\ LastStream("list-suites", opts.listSuitesOutput)
  /\ OwnsLast(opts.listOutputFile)
  /\ ListStreamLives

LEMMA LastStreamRead ==
  ASSUME TypeOK, NEW a \in Arg, Read(a), NEW CONSTANT option, NEW CONSTANT stream,
         NEW CONSTANT new, LastStream(option, stream),
         new = IF a.option = option THEN Stream(a) ELSE stream
  PROVE  LastStream(option, new)'
<1>1. PICK n \in Nat : n = Len(argv)
  BY ReadArgs
<1>2. /\ DOMAIN argv = 1 .. n /\ argv'[n + 1] = a
      /\ \A i \in DOMAIN argv : argv'[i] = argv[i]
  BY <1>1, ReadArgs
<1>3. PICK G \in SUBSET (1 .. n) : G = Given(option)
  BY <1>2 DEF Given
<1>4. Given(option)' = IF a.option = option THEN G \cup {n + 1} ELSE G
  BY <1>1, <1>3, ReadGiven
<1>5. CASE a.option = option
  <2>1. new = [sink |-> a.value, at |-> IF a.value = Cout THEN 0 ELSE n + 1]
    BY <1>1, <1>5 DEF Stream
  <2>2. Given(option)' = G \cup {n + 1}
    BY <1>4, <1>5
  <2>3. \A i \in G \cup {n + 1} : n + 1 >= i
    OBVIOUS
  <2> QED BY <1>2, <2>1, <2>2, <2>3 DEF LastStream
<1>6. CASE a.option # option
  <2>1. G = {} => new = NullStream
    BY <1>3, <1>6 DEF LastStream
  <2>2. ASSUME G # {}
        PROVE  \E m \in G : /\ \A i \in G : m >= i
                            /\ new = [sink |-> argv[m].value,
                                      at |-> IF argv[m].value = Cout THEN 0 ELSE m]
    BY <1>3, <1>6, <2>2 DEF LastStream
  <2>3. \A m \in G : argv'[m] = argv[m]
    BY <1>2
  <2> QED BY <1>4, <1>6, <2>1, <2>2, <2>3 DEF LastStream, NullStream
<1> QED BY <1>5, <1>6

LEMMA OwnsLastRead ==
  ASSUME TypeOK, NEW a \in Arg, Read(a), NEW CONSTANT owner, NEW CONSTANT new,
         OwnsLast(owner),
         new = IF a.option \in {"list-tests", "list-suites"} /\ a.value # Cout
               THEN Len(argv) + 1 ELSE owner
  PROVE  OwnsLast(new)'
<1>1. PICK n \in Nat : n = Len(argv)
  BY ReadArgs
<1>2. /\ DOMAIN argv = 1 .. n /\ argv'[n + 1] = a
      /\ \A i \in DOMAIN argv : argv'[i] = argv[i]
  BY <1>1, ReadArgs
<1>3. PICK G \in SUBSET (1 .. n) : G = Given("list-tests") \cup Given("list-suites")
  BY <1>2 DEF Given
<1>4. (Given("list-tests") \cup Given("list-suites"))' =
        IF a.option \in {"list-tests", "list-suites"} THEN G \cup {n + 1} ELSE G
  <2>1. Given("list-tests")' = IF a.option = "list-tests" THEN Given("list-tests") \cup {n + 1}
                               ELSE Given("list-tests")
    BY <1>1, ReadGiven
  <2>2. Given("list-suites")' = IF a.option = "list-suites" THEN Given("list-suites") \cup {n + 1}
                                ELSE Given("list-suites")
    BY <1>1, ReadGiven
  <2> QED BY <1>3, <2>1, <2>2
<1>5. PICK L \in SUBSET (1 .. n) : L = ListFiles /\ L = {i \in G : argv[i].value # Cout}
  BY <1>3 DEF ListFiles
<1>6. ListFiles' = IF a.option \in {"list-tests", "list-suites"} /\ a.value # Cout
                   THEN L \cup {n + 1} ELSE L
  <2>1. ListFiles' = {i \in (Given("list-tests") \cup Given("list-suites"))' : argv'[i].value # Cout}
    BY DEF ListFiles
  <2>2. \A i \in G : argv'[i] = argv[i]
    BY <1>2
  <2> QED BY <1>2, <1>4, <1>5, <2>1, <2>2
<1> QED BY <1>1, <1>5, <1>6 DEF OwnsLast

\* What an argument does to the locals that the lists depend on.
LEMMA StreamsSet ==
  ASSUME TypeOK, NEW a \in Arg, ReadArgument(a)
  PROVE  /\ opts'.listTestsOutput = IF a.option = "list-tests" THEN Stream(a)
                                    ELSE opts.listTestsOutput
         /\ opts'.listSuitesOutput = IF a.option = "list-suites" THEN Stream(a)
                                     ELSE opts.listSuitesOutput
         /\ opts'.listOutputFile =
              IF a.option \in {"list-tests", "list-suites"} /\ a.value # Cout
              THEN Len(argv) + 1 ELSE opts.listOutputFile
         /\ opts'.testPatterns = IF a.option = "test-pattern"
                                 THEN opts.testPatterns \cup {a.value} ELSE opts.testPatterns
<1>1. opts \in Options
  BY DEF TypeOK
<1>2. CASE Help(a) \/ IgnoredArgument(a) \/ SuiteArgument(a) \/ UnknownArgument(a)
  BY <1>2 DEF Help, IgnoredArgument, SuiteArgument, UnknownArgument
<1>3. CASE ListTests(a)
  BY <1>1, <1>3 DEF ListTests, OpenList, Options, Stream
<1>4. CASE ListSuites(a)
  BY <1>1, <1>4 DEF ListSuites, OpenList, Options, Stream
<1>5. CASE TestPattern(a)
  BY <1>1, <1>5 DEF TestPattern, Options
<1>6. CASE ReportOption(a)
  BY <1>1, <1>6 DEF ReportOption, Options
<1> QED BY <1>2, <1>3, <1>4, <1>5, <1>6 DEF ReadArgument

LEMMA ReadArgumentStreams ==
  ASSUME MainInv, StreamInv, NEW a \in Arg, ReadArgument(a)
  PROVE  StreamInv'
<1>1. TypeOK /\ Read(a)
  BY DEF MainInv, ReadArgument, Help, ListTests, ListSuites, TestPattern, ReportOption,
     IgnoredArgument, SuiteArgument, UnknownArgument
<1>2. /\ LastStream("list-tests", opts.listTestsOutput)
      /\ LastStream("list-suites", opts.listSuitesOutput)
      /\ OwnsLast(opts.listOutputFile) /\ opts.testPatterns = PatternsAsked
  BY DEF StreamInv
<1>3. PICK o : o = opts'
  OBVIOUS
<1>4. LastStream("list-tests", o.listTestsOutput)'
  BY <1>1, <1>2, <1>3, LastStreamRead, StreamsSet
<1>5. LastStream("list-suites", o.listSuitesOutput)'
  BY <1>1, <1>2, <1>3, LastStreamRead, StreamsSet
<1>6. OwnsLast(o.listOutputFile)'
  BY <1>1, <1>2, <1>3, OwnsLastRead, StreamsSet
<1>7. opts'.testPatterns = PatternsAsked'
  <2>1. PatternsAsked' = IF a.option = "test-pattern" THEN Values("test-pattern") \cup {a.value}
                         ELSE Values("test-pattern")
    BY <1>1, ReadValues DEF PatternsAsked
  <2> QED BY <1>1, <1>2, <2>1, StreamsSet DEF PatternsAsked
<1>8. ListStreamLives'
  <2>1. CASE pc' # "undefined"
    BY <2>1 DEF ListStreamLives
  <2>2. CASE pc' = "undefined"
    <3>1. pc = "args"
      BY <1>1 DEF Read
    <3>2. UnknownArgument(a)
      BY <2>2, <3>1 DEF ReadArgument, Help, ListTests, ListSuites, TestPattern, ReportOption,
         IgnoredArgument, SuiteArgument, GoOn, Return
    <3>3. callback \in BOOLEAN
      BY <1>1 DEF TypeOK
    <3>4. callback /\ a.value \in Handled
      <4>1. CASE ~callback
        BY <2>2, <3>2, <4>1 DEF UnknownArgument, Return
      <4>2. CASE callback /\ a.value \notin Handled
        BY <2>2, <3>1, <3>2, <4>2 DEF UnknownArgument, GoOn
      <4> QED BY <3>3, <4>1, <4>2
    <3>5. callback' = callback /\ argv'[Len(argv')] = a
      <4>1. argv \in Seq(Argument) /\ a \in Argument /\ argv' = Append(argv, a) /\ callback' = callback
        BY <1>1, MainAssumption DEF TypeOK, Read
      <4> QED BY <4>1
    <3> QED BY <3>4, <3>5 DEF ListStreamLives
  <2> QED BY <2>1, <2>2
<1> QED BY <1>3, <1>4, <1>5, <1>6, <1>7, <1>8 DEF StreamInv

\* The command line and the locals stay as they are.
LEMMA StreamsKept ==
  ASSUME StreamInv, UNCHANGED <<argv, opts>>, ListStreamLives'
  PROVE  StreamInv'
<1>1. \A option \in {"list-tests", "list-suites", "test-pattern"} : Given(option)' = Given(option)
  BY DEF Given
<1>2. ListFiles' = ListFiles /\ PatternsAsked' = PatternsAsked
  BY <1>1 DEF ListFiles, PatternsAsked, Values
<1> QED BY <1>1, <1>2 DEF StreamInv, LastStream, OwnsLast, NullStream

\* A destroyed stream is one of the tests, with a file for the suites after it.
LEMMA DanglingStream ==
  ASSUME MainInv, StreamInv, ListSuite, pc' = "undefined"
  PROVE  ListStreamLives'
<1>1. /\ Listing /\ opts.testPatterns = {} /\ Dangling(ListEntry.stream)
      /\ UNCHANGED <<argv, callback>>
  BY DEF ListSuite, InLoop
<1>2. PICK n \in Nat : DOMAIN argv = 1 .. n /\ n = Len(argv) /\ argv \in Seq(Argument)
  BY DEF MainInv, TypeOK
<1>3. Given("list-tests") \subseteq 1 .. n /\ Given("list-suites") \subseteq 1 .. n
  BY <1>2 DEF Given
<1>4. \A i \in Given("list-tests") \cup Given("list-suites") : argv[i].value \in Sink
  <2>1. \A i \in 1 .. n : argv[i] \in Argument
    BY <1>2
  <2>2. \A b \in Argument : b.option \in {"list-tests", "list-suites"} => b.value \in Sink
    BY DEF Argument
  <2> QED BY <1>2, <2>1, <2>2 DEF Given
<1>5. PICK owner : owner = opts.listOutputFile /\ OwnsLast(owner)
  BY DEF StreamInv
<1>6. CASE opts.listTestsOutput # NullStream
  <2>1. PICK m \in Given("list-tests") :
          /\ \A i \in Given("list-tests") : m >= i
          /\ opts.listTestsOutput = [sink |-> argv[m].value,
                                     at |-> IF argv[m].value = Cout THEN 0 ELSE m]
    BY <1>6 DEF StreamInv, LastStream
  <2>2. argv[m].value # Cout /\ m # owner
    BY <1>1, <1>5, <1>6, <2>1 DEF Dangling, ListEntry
  <2>3. m \in ListFiles /\ m \in 1 .. n
    BY <1>3, <2>1, <2>2 DEF ListFiles
  <2>4. owner \in ListFiles /\ owner >= m /\ owner \in 1 .. n
    BY <1>3, <1>5, <2>3 DEF OwnsLast, ListFiles
  <2>5. owner \in m + 1 .. n /\ owner \notin Given("list-tests")
    BY <1>3, <2>1, <2>2, <2>3, <2>4
  <2>6. argv[owner].option = "list-suites" /\ argv[owner].value \in File
    BY <1>4, <2>4, <2>5 DEF ListFiles, Given, Sink
  <2>7. argv[m].value \in File
    BY <1>4, <2>1, <2>2 DEF Sink
  <2>8. Max(Given("list-tests")) = m
    <3>1. Given("list-tests") \in SUBSET Nat
      BY <1>3
    <3> QED BY <2>1, <3>1, MaxIs
  <2>9. PatternsAsked = {} /\ Given("list-tests") # {}
    BY <1>1, <2>1 DEF StreamInv
  <2>10. /\ Given("list-tests")' = Given("list-tests") /\ PatternsAsked' = PatternsAsked
    BY <1>1 DEF Given, PatternsAsked, Values
  <2> QED BY <1>1, <1>2, <2>5, <2>6, <2>7, <2>8, <2>9, <2>10 DEF ListStreamLives
<1>7. CASE opts.listTestsOutput = NullStream
  <2>1. Given("list-tests") = {}
    <3>1. NullStream.sink = "" /\ LastStream("list-tests", NullStream)
      BY <1>7 DEF NullStream, StreamInv
    <3>2. "" \notin Sink
      BY MainAssumption DEF Sink, Cout
    <3>3. \A m \in Given("list-tests") : argv[m].value # ""
      BY <1>4, <3>2
    <3>4. \A m \in Given("list-tests") :
            NullStream # [sink |-> argv[m].value, at |-> IF argv[m].value = Cout THEN 0 ELSE m]
      <4>1. \A sink, at : NullStream = [sink |-> sink, at |-> at] => sink = ""
        BY DEF NullStream
      <4> QED BY <3>3, <4>1
    <3> QED BY <3>1, <3>4 DEF LastStream
  <2>2. opts.listSuitesOutput # NullStream
    BY <1>1, <1>7 DEF Listing
  <2>3. PICK m \in Given("list-suites") :
          /\ \A i \in Given("list-suites") : m >= i
          /\ opts.listSuitesOutput = [sink |-> argv[m].value,
                                     at |-> IF argv[m].value = Cout THEN 0 ELSE m]
    BY <2>2 DEF StreamInv, LastStream
  <2>4. argv[m].value # Cout /\ m # owner
    BY <1>1, <1>5, <1>7, <2>3 DEF Dangling, ListEntry
  <2>5. m \in ListFiles /\ ListFiles \subseteq Given("list-suites")
    BY <2>1, <2>3, <2>4 DEF ListFiles
  <2>6. owner \in Given("list-suites") /\ owner >= m
    BY <1>5, <2>5 DEF OwnsLast
  <2> QED BY <1>3, <2>3, <2>4, <2>6
<1> QED BY <1>6, <1>7

LEMMA OtherStepStreams ==
  ASSUME MainInv, StreamInv,
         \/ \E e \in Entry : registerSuite(e)
         \/ CallRunSuites \/ EndOfArguments \/ SelectDefault \/ OpenOutput
         \/ RunSuite \/ RunThrows \/ SkipSuite \/ ListSuite \/ Finish \/ UNCHANGED vars
  PROVE  StreamInv'
<1>1. UNCHANGED <<argv, opts>>
  BY DEF registerSuite, CallRunSuites, EndOfArguments, SelectDefault, OpenOutput, RunSuite,
     RunThrows, SkipSuite, ListSuite, Finish, vars, results
<1>2. CASE pc' # "undefined"
  BY <1>1, <1>2, StreamsKept DEF ListStreamLives
<1>3. CASE pc' = "undefined" /\ ListSuite
  BY <1>1, <1>3, StreamsKept, DanglingStream
<1>4. CASE UNCHANGED vars
  <2>1. /\ UNCHANGED <<pc, callback>> /\ PatternsAsked' = PatternsAsked
        /\ Given("list-tests")' = Given("list-tests")
    BY <1>4 DEF vars, PatternsAsked, Values, Given
  <2>2. ListStreamLives'
    BY <1>1, <2>1 DEF StreamInv, ListStreamLives
  <2> QED BY <1>1, <2>2, StreamsKept
<1>5. CASE (\E e \in Entry : registerSuite(e)) \/ CallRunSuites \/ EndOfArguments \/ SelectDefault
           \/ OpenOutput \/ RunSuite \/ RunThrows \/ SkipSuite \/ Finish
  <2>1. pc' # "undefined"
    BY <1>5 DEF registerSuite, CallRunSuites, EndOfArguments, SelectDefault, OpenOutput, RunSuite,
       RunThrows, SkipSuite, Finish, Runs, InLoop, Return
  <2> QED BY <1>2, <2>1
<1> QED BY <1>2, <1>3, <1>4, <1>5

LEMMA InitStreams == Init => StreamInv
<1> SUFFICES ASSUME Init PROVE StreamInv
  OBVIOUS
<1>1. \A option : Given(option) = {}
  BY DEF Init, Given
<1>2. \A option : Values(option) = {}
  BY <1>1 DEF Values
<1>3. ListFiles = {} /\ PatternsAsked = {} /\ pc = "main" /\ opts = NoOptions
  BY <1>1, <1>2 DEF ListFiles, PatternsAsked, Init
<1> QED BY <1>1, <1>3 DEF StreamInv, LastStream, OwnsLast, ListStreamLives, NoOptions

LEMMA StreamInvHolds == Spec => []StreamInv
<1>1. MainInv /\ StreamInv /\ [Next]_vars => StreamInv'
  BY ReadArgumentStreams, OtherStepStreams DEF Next, Ended
<1> QED BY <1>1, InitStreams, MainInvHolds, PTL DEF Spec

\* Nothing is ever written through a destroyed stream but in the one case: a
\* file for the list of tests, then one for the list of suites, and no pattern.
THEOREM ListStreamsLive == Spec => []ListStreamLives
<1>1. StreamInv => ListStreamLives
  BY DEF StreamInv
<1> QED BY <1>1, StreamInvHolds, PTL

-----------------------------------------------------------------------------
\* The suites that are selected.

Distinct(seq) == \A i, j \in DOMAIN seq : seq[i] = seq[j] => i = j

\* The names that select a suite, and the suites they select.
Named == (Values("name") \cap Registered) \ Ignored
FirstNamed ==
  {k \in DOMAIN availableSuites : IsFirst(k, availableSuites[k].name) /\ availableSuites[k].name \in Named}

SelectInv ==
  /\ Distinct(selectedSuites)
  /\ pc \in {"main", "args"} => ToSet(selectedSuites) = FirstNamed
  /\ pc = "defaults" => Named = {} /\ ToSet(selectedSuites) = {k \in Meant : k < next}
  /\ pc \in {"output", "suites"} => ToSet(selectedSuites) = Meant

\* The run() of a suite that is asked for, and the suites whose run() there is.
RunOf(k) ==
  [suite |-> k,
   tests |-> {i \in DOMAIN availableSuites[k].tests :
                PatternsAsked = {} \/
                  \E p \in PatternsAsked : <<p, availableSuites[k].tests[i]>> \in Matches}]
ToRun(k) == IF PatternsAsked = {} THEN ~ListsAsked ELSE RunOf(k).tests # {}

Seen == {selectedSuites[i] : i \in 1 .. next - 1}

RunInv ==
  /\ \A i, j \in DOMAIN ran : ran[i].suite = ran[j].suite => i = j
  /\ pc \in {"main", "args", "defaults", "output"} => ran = <<>>
  /\ pc = "suites" => ToSet(ran) = {RunOf(k) : k \in {k \in Seen : ToRun(k)}}
  /\ pc = "done" => IF Completed THEN ToSet(ran) = {RunOf(k) : k \in {k \in Meant : ToRun(k)}}
                    ELSE ran = <<>>

\* The list, where it is written to, and what it has of the suites K.
ListOption == IF Values("list-tests") # {} THEN "list-tests" ELSE "list-suites"
ListSink == LastValue(ListOption, Sink, Cout)
LinesOf(K) ==
  IF ListOption = "list-tests" THEN UNION {ToSet(availableSuites[k].tests) : k \in K}
  ELSE {availableSuites[k].name : k \in K}

ListInv ==
  /\ pc \in {"main", "args", "defaults", "output"} => \A sink \in Sink : written[sink] = <<>>
  /\ ListsAsked /\ PatternsAsked = {} =>
       /\ pc = "suites" => ToSet(written[ListSink]) = LinesOf(Seen)
       /\ Completed => ToSet(written[ListSink]) = LinesOf(Meant)

\* All of this depends on the suites and the command line only.
LEMMA LineSame ==
  ASSUME UNCHANGED <<availableSuites, argv>>
  PROVE  /\ \A option : Values(option)' = Values(option)
         /\ Named' = Named /\ FirstNamed' = FirstNamed /\ Meant' = Meant
         /\ PatternsAsked' = PatternsAsked /\ ListsAsked' = ListsAsked
         /\ \A k : RunOf(k)' = RunOf(k) /\ (ToRun(k)' <=> ToRun(k))
<1>1. \A option : Values(option)' = Values(option)
  <2>1. \A option : Given(option)' = Given(option)
    BY DEF Given
  <2> QED BY <2>1 DEF Values
<1>2. Registered' = Registered /\ DOMAIN availableSuites' = DOMAIN availableSuites
  BY DEF Registered
<1>3. Named' = Named
  BY <1>1, <1>2 DEF Named
<1>4. FirstNamed' = FirstNamed
  BY <1>3 DEF FirstNamed, IsFirst
<1>5. PatternsAsked' = PatternsAsked /\ (ListsAsked' <=> ListsAsked)
  BY <1>1 DEF PatternsAsked, ListsAsked
<1>6. \A k : Asked(k)' <=> Asked(k)
  BY <1>3, <1>5 DEF Asked, Named
<1>7. Meant' = Meant
  BY <1>6 DEF Meant
<1>8. \A k : RunOf(k)' = RunOf(k)
  BY <1>5 DEF RunOf
<1> QED BY <1>1, <1>3, <1>4, <1>5, <1>7, <1>8 DEF ToRun, ListsAsked

LEMMA AppendSet ==
  ASSUME NEW S, NEW seq \in Seq(S), NEW x \in S
  PROVE  /\ ToSet(Append(seq, x)) = ToSet(seq) \cup {x}
         /\ Distinct(seq) /\ x \notin ToSet(seq) => Distinct(Append(seq, x))
<1>1. PICK n : n = Len(seq)
  OBVIOUS
<1>2. n \in Nat /\ DOMAIN seq = 1 .. n
  BY <1>1
<1>3. PICK more : more = Append(seq, x)
  OBVIOUS
<1>4. /\ DOMAIN more = 1 .. n + 1 /\ more[n + 1] = x
      /\ \A i \in 1 .. n : more[i] = seq[i]
  BY <1>1, <1>2, <1>3
<1>5. ToSet(more) = ToSet(seq) \cup {x}
  <2>1. \A i \in 1 .. n + 1 : i \in 1 .. n \/ i = n + 1
    BY <1>2
  <2> QED BY <1>2, <1>4, <2>1 DEF ToSet
<1>6. ASSUME Distinct(seq), x \notin ToSet(seq)
      PROVE  Distinct(more)
  <2> SUFFICES ASSUME NEW i \in 1 .. n + 1, NEW j \in 1 .. n + 1, more[i] = more[j]
               PROVE  i = j
    BY <1>4 DEF Distinct
  <2>1. (i \in 1 .. n \/ i = n + 1) /\ (j \in 1 .. n \/ j = n + 1)
    BY <1>2
  <2>2. \A l \in 1 .. n : seq[l] # x
    BY <1>2, <1>6 DEF ToSet
  <2> QED BY <1>2, <1>4, <1>6, <2>1, <2>2 DEF Distinct
<1> QED BY <1>3, <1>5, <1>6

\* A name that selects a suite selects the first one of that name.
LEMMA NameSelects ==
  ASSUME TypeOK
  PROVE  /\ \A name \in Registered : \E k \in DOMAIN availableSuites : IsFirst(k, name)
         /\ \A name : \A k, l \in DOMAIN availableSuites :
              IsFirst(k, name) /\ IsFirst(l, name) => k = l
         /\ {availableSuites[k].name : k \in FirstNamed} = Named
<1>1. PICK n : n = Len(availableSuites)
  OBVIOUS
<1>2. n \in Nat /\ DOMAIN availableSuites = 1 .. n
  BY <1>1 DEF TypeOK
<1>3. ASSUME NEW name \in Registered
      PROVE  \E k \in 1 .. n : IsFirst(k, name)
  <2> DEFINE T == {k \in 1 .. n : availableSuites[k].name = name}
  <2>1. T # {} /\ T \in SUBSET Nat
    BY <1>2 DEF Registered
  <2>2. PICK k \in T : \A j \in T : k <= j
    <3> HIDE DEF T
    <3> QED BY <2>1, LeastNatural
  <2>3. \A j \in 1 .. k - 1 : j \in 1 .. n /\ ~(k <= j)
    BY <1>2
  <2>4. \A j \in 1 .. k - 1 : availableSuites[j].name # name
    BY <2>2, <2>3
  <2> QED BY <2>4 DEF IsFirst
<1>4. ASSUME NEW name, NEW k \in 1 .. n, NEW l \in 1 .. n, IsFirst(k, name), IsFirst(l, name)
      PROVE  k = l
  <2>1. ~(k \in 1 .. l - 1) /\ ~(l \in 1 .. k - 1)
    BY <1>4 DEF IsFirst
  <2> QED BY <1>2, <2>1
<1>5. ASSUME NEW name \in Named
      PROVE  \E k \in FirstNamed : availableSuites[k].name = name
  <2>1. PICK k \in 1 .. n : IsFirst(k, name)
    BY <1>3 DEF Named
  <2>2. availableSuites[k].name = name
    BY <2>1 DEF IsFirst
  <2> QED BY <1>2, <2>1, <2>2 DEF FirstNamed
<1>6. {availableSuites[k].name : k \in FirstNamed} = Named
  BY <1>5 DEF FirstNamed
<1> QED BY <1>2, <1>3, <1>4, <1>6

\* What is asked for, if suites are named and if none is.
LEMMA AskedFor ==
  ASSUME TypeOK
  PROVE  /\ Named # {} => Meant = FirstNamed
         /\ Named = {} => \A k \in DOMAIN availableSuites :
              Asked(k) <=> (IF ListsAsked \/ PatternsAsked # {} THEN "OMIT_LIST_TESTS"
                            ELSE "OMIT_FROM_DEFAULT") \notin availableSuites[k].flags
         /\ \A k \in DOMAIN availableSuites : Asked(k) =>
              \E j \in Meant : j <= k /\ availableSuites[j].name = availableSuites[k].name
<1>1. PICK n : n = Len(availableSuites)
  OBVIOUS
<1>2. n \in Nat /\ DOMAIN availableSuites = 1 .. n
  BY <1>1 DEF TypeOK
<1>3. ASSUME Named # {}
      PROVE  Meant = FirstNamed
  <2>1. \A k : Asked(k) <=> availableSuites[k].name \in Named
    BY <1>3 DEF Asked, Named
  <2> QED BY <2>1 DEF Meant, FirstNamed, IsFirst
<1>4. ASSUME Named = {}, NEW k \in DOMAIN availableSuites
      PROVE  Asked(k) <=> (IF ListsAsked \/ PatternsAsked # {} THEN "OMIT_LIST_TESTS"
                           ELSE "OMIT_FROM_DEFAULT") \notin availableSuites[k].flags
  BY <1>4 DEF Asked, Named
<1>5. ASSUME NEW k \in 1 .. n, Asked(k)
      PROVE  \E j \in Meant : j <= k /\ availableSuites[j].name = availableSuites[k].name
  <2> DEFINE T == {j \in 1 .. k : Asked(j) /\ availableSuites[j].name = availableSuites[k].name}
  <2>1. T # {} /\ T \in SUBSET Nat
    BY <1>2, <1>5
  <2>2. PICK j \in T : \A i \in T : j <= i
    <3> HIDE DEF T
    <3> QED BY <2>1, LeastNatural
  <2>3. \A i \in 1 .. j - 1 : i \in 1 .. k /\ ~(j <= i)
    BY <1>2
  <2>4. \A i \in 1 .. j - 1 : availableSuites[i].name = availableSuites[j].name => ~Asked(i)
    BY <2>2, <2>3
  <2>5. j \in 1 .. n /\ j <= k
    BY <1>2
  <2> QED BY <1>2, <2>4, <2>5 DEF Meant
<1> QED BY <1>2, <1>3, <1>4, <1>5

\* The streams tell whether a list is asked for.
LEMMA StreamsTell ==
  ASSUME MainInv, StreamInv
  PROVE  /\ opts.listTestsOutput # NullStream <=> Values("list-tests") # {}
         /\ opts.listSuitesOutput # NullStream <=> Values("list-suites") # {}
         /\ opts.testPatterns = PatternsAsked /\ (Listing <=> ListsAsked)
<1>1. ASSUME NEW option \in {"list-tests", "list-suites"}, NEW stream, LastStream(option, stream)
      PROVE  stream # NullStream <=> Values(option) # {}
  <2>1. \A i \in DOMAIN argv : argv[i] \in Argument
    BY DEF MainInv, TypeOK
  <2>2. \A b \in Argument : b.option \in {"list-tests", "list-suites"} => b.value # ""
    <3>1. "" \notin Sink
      BY MainAssumption DEF Sink, Cout
    <3> QED BY <3>1 DEF Argument
  <2>3. \A m \in Given(option) : argv[m].value # ""
    BY <2>1, <2>2 DEF Given
  <2>4. \A sink, at : [sink |-> sink, at |-> at] = NullStream => sink = ""
    BY DEF NullStream
  <2>5. Given(option) # {} => stream # NullStream
    BY <1>1, <2>3, <2>4 DEF LastStream
  <2>6. Given(option) = {} => stream = NullStream
    BY <1>1 DEF LastStream
  <2>7. Given(option) = {} <=> Values(option) = {}
    BY DEF Values
  <2> QED BY <2>5, <2>6, <2>7
<1>2. /\ opts.listTestsOutput # NullStream <=> Values("list-tests") # {}
      /\ opts.listSuitesOutput # NullStream <=> Values("list-suites") # {}
  BY <1>1 DEF StreamInv
<1> QED BY <1>2 DEF StreamInv, Listing, ListsAsked

LEMMA ReadingReads ==
  ASSUME NEW a \in Arg, ReadArgument(a)
  PROVE  Read(a) /\ pc = "args" /\ UNCHANGED availableSuites
BY DEF ReadArgument, Help, ListTests, ListSuites, TestPattern, ReportOption,
   IgnoredArgument, SuiteArgument, UnknownArgument, Read

\* The suites that arguments name.
LEMMA ReadArgumentSelects ==
  ASSUME MainInv, SelectInv, NEW a \in Arg, ReadArgument(a)
  PROVE  SelectInv'
<1>1. /\ TypeOK /\ Read(a) /\ pc = "args" /\ UNCHANGED availableSuites
      /\ selectedSuites \in Seq(DOMAIN availableSuites)
      /\ ToSet(selectedSuites) = FirstNamed /\ Distinct(selectedSuites)
  BY ReadingReads DEF MainInv, TypeOK, SelectInv
<1>2. pc' \in {"args", "done", "undefined"}
  BY <1>1, ReadArgumentType DEF ReadArgument, Help, ListTests, ListSuites, TestPattern,
     ReportOption, IgnoredArgument, SuiteArgument, UnknownArgument, GoOn, Return, MainInv, TypeOK
<1>3. SUFFICES Distinct(selectedSuites') /\ ToSet(selectedSuites') = FirstNamed'
  BY <1>2 DEF SelectInv
<1>4. /\ Registered' = Registered
      /\ Named' = IF a.option = "name" /\ a.value \in Registered \ Ignored
                  THEN Named \cup {a.value} ELSE Named
  <2>1. Values("name")' = IF a.option = "name" THEN Values("name") \cup {a.value}
                          ELSE Values("name")
    BY <1>1, ReadValues
  <2>2. Registered' = Registered
    BY <1>1 DEF Registered
  <2> QED BY <2>1, <2>2 DEF Named
<1>5. FirstNamed' = {k \in DOMAIN availableSuites :
                       /\ IsFirst(k, availableSuites[k].name)
                       /\ availableSuites[k].name \in Named'}
  BY <1>1 DEF FirstNamed, IsFirst
<1>6. CASE ~SuiteArgument(a)
  <2>1. selectedSuites' = selectedSuites
    BY <1>6 DEF ReadArgument, Help, ListTests, ListSuites, TestPattern, ReportOption,
       IgnoredArgument, UnknownArgument
  <2>2. ~(a.option = "name" /\ a.value \in Registered \ Ignored)
    BY <1>6 DEF ReadArgument, Help, ListTests, ListSuites, TestPattern, ReportOption,
       IgnoredArgument, UnknownArgument
  <2>3. FirstNamed' = FirstNamed
    BY <1>4, <1>5, <2>2 DEF FirstNamed
  <2> QED BY <1>1, <2>1, <2>3
<1>7. CASE SuiteArgument(a)
  <2>1. PICK k \in DOMAIN availableSuites :
          /\ IsFirst(k, a.value)
          /\ selectedSuites' = IF a.value \in selectedSuiteNames THEN selectedSuites
                               ELSE Append(selectedSuites, k)
    BY <1>7 DEF SuiteArgument
  <2>2. a.option = "name" /\ a.value \notin Ignored /\ availableSuites[k].name = a.value
    BY <1>7, <2>1 DEF SuiteArgument, IsFirst
  <2>3. Named' = Named \cup {a.value}
    BY <1>4, <2>2 DEF Registered
  <2>4. selectedSuiteNames = Named
    BY <1>1, NameSelects DEF selectedSuiteNames
  <2>5. CASE a.value \in selectedSuiteNames
    <3>1. FirstNamed' = FirstNamed
      BY <1>5, <2>3, <2>4, <2>5 DEF FirstNamed
    <3> QED BY <1>1, <2>1, <2>5, <3>1
  <2>6. CASE a.value \notin selectedSuiteNames
    <3>1. k \notin FirstNamed
      BY <2>2, <2>4, <2>6 DEF FirstNamed
    <3>2. FirstNamed' = FirstNamed \cup {k}
      <4>1. \A l \in DOMAIN availableSuites :
              IsFirst(l, availableSuites[l].name) /\ availableSuites[l].name = a.value <=> l = k
        BY <1>1, <2>1, <2>2, NameSelects
      <4> QED BY <1>5, <2>3, <4>1 DEF FirstNamed
    <3> QED BY <1>1, <2>1, <2>6, <3>1, <3>2, AppendSet
  <2> QED BY <2>5, <2>6
<1> QED BY <1>6, <1>7

\* The suites that are selected because none is named.
LEMMA DefaultsSelect ==
  ASSUME MainInv, StreamInv, SelectInv, SelectDefault
  PROVE  SelectInv'
<1>1. /\ TypeOK /\ pc = "defaults" /\ pc' = "defaults" /\ next' = next + 1
      /\ next \in DOMAIN availableSuites /\ next \in Nat
      /\ UNCHANGED <<availableSuites, argv>>
      /\ selectedSuites \in Seq(DOMAIN availableSuites)
  BY DEF MainInv, TypeOK, SelectDefault
<1>2. /\ Named = {} /\ Distinct(selectedSuites)
      /\ ToSet(selectedSuites) = {k \in Meant : k < next}
  BY <1>1 DEF SelectInv
<1>3. Meant \in SUBSET Nat
  BY <1>1 DEF Meant, TypeOK
<1>4. OmitFlag = IF ListsAsked \/ PatternsAsked # {} THEN "OMIT_LIST_TESTS"
                 ELSE "OMIT_FROM_DEFAULT"
  BY StreamsTell DEF OmitFlag
<1>5. Asked(next) <=> OmitFlag \notin availableSuites[next].flags
  BY <1>1, <1>2, <1>4, AskedFor
<1>6. next \in Meant <=> /\ OmitFlag \notin availableSuites[next].flags
                         /\ availableSuites[next].name \notin selectedSuiteNames
  <2>1. ASSUME next \in Meant, NEW k \in Meant, k < next
        PROVE  availableSuites[k].name # availableSuites[next].name
    <3>1. k \in 1 .. next - 1
      <4>1. k \in DOMAIN availableSuites /\ DOMAIN availableSuites \subseteq Nat \ {0}
        BY <1>1 DEF Meant, TypeOK
      <4> QED BY <1>1, <2>1, <4>1
    <3> QED BY <2>1, <3>1 DEF Meant
  <2>2. ASSUME next \notin Meant, Asked(next)
        PROVE  \E k \in Meant : k < next /\ availableSuites[k].name = availableSuites[next].name
    <3>1. PICK k \in Meant : k <= next /\ availableSuites[k].name = availableSuites[next].name
      BY <1>1, <2>2, AskedFor
    <3> QED BY <1>1, <1>3, <2>2, <3>1
  <2>3. next \in Meant => Asked(next)
    BY DEF Meant
  <2> QED BY <1>2, <1>5, <2>1, <2>2, <2>3 DEF selectedSuiteNames
<1>7. {k \in Meant : k < next + 1} =
        IF next \in Meant THEN {k \in Meant : k < next} \cup {next} ELSE {k \in Meant : k < next}
  <2>1. \A k \in Meant : k < next + 1 <=> k < next \/ k = next
    BY <1>1, <1>3
  <2> QED BY <1>1, <2>1
<1>8. selectedSuites' = IF next \in Meant THEN Append(selectedSuites, next) ELSE selectedSuites
  BY <1>6 DEF SelectDefault
<1>9. next \notin ToSet(selectedSuites)
  BY <1>1, <1>2
<1>10. Distinct(selectedSuites') /\ ToSet(selectedSuites') = {k \in Meant : k < next + 1}
  <2>1. CASE next \in Meant
    BY <1>1, <1>2, <1>7, <1>8, <1>9, <2>1, AppendSet
  <2>2. CASE next \notin Meant
    BY <1>2, <1>7, <1>8, <2>2
  <2> QED BY <2>1, <2>2
<1>11. Meant' = Meant /\ Named' = Named
  BY <1>1, LineSame
<1> QED BY <1>1, <1>2, <1>10, <1>11 DEF SelectInv

\* When the output is opened all suites that are asked for are selected.
LEMMA AllSelected ==
  ASSUME TypeOK, SelectInv, pc = "output" \/ (pc = "defaults" /\ next > Len(availableSuites))
  PROVE  ToSet(selectedSuites) = Meant
<1>1. CASE pc = "defaults" /\ next > Len(availableSuites)
  <2>1. PICK n : n = Len(availableSuites)
    OBVIOUS
  <2>2. n \in Nat /\ DOMAIN availableSuites = 1 .. n /\ next > n /\ next \in Nat
    BY <1>1, <2>1 DEF TypeOK
  <2>3. \A k \in Meant : k < next
    BY <2>2 DEF Meant
  <2> QED BY <1>1, <2>3 DEF SelectInv
<1> QED BY <1>1 DEF SelectInv

LEMMA OtherStepSelects ==
  ASSUME MainInv, StreamInv, SelectInv,
         \/ \E e \in Entry : registerSuite(e)
         \/ CallRunSuites \/ EndOfArguments \/ SelectDefault \/ OpenOutput
         \/ RunSuite \/ RunThrows \/ SkipSuite \/ ListSuite \/ Finish
  PROVE  SelectInv'
<1>0. TypeOK /\ Distinct(selectedSuites)
  BY DEF MainInv, SelectInv
<1>1. ASSUME NEW e \in Entry, registerSuite(e) PROVE SelectInv'
  <2>1. /\ pc = "main" /\ pc' = "main" /\ argv' = <<>>
        /\ selectedSuites = <<>> /\ selectedSuites' = <<>>
    BY <1>1 DEF registerSuite, MainInv, StartInv
  <2>2. Named' = {}
    BY <2>1 DEF Named, Values, Given
  <2>3. FirstNamed' = {} /\ ToSet(selectedSuites') = {}
    BY <2>1, <2>2 DEF FirstNamed, ToSet
  <2> QED BY <1>0, <2>1, <2>3 DEF SelectInv
<1>2. CASE CallRunSuites
  <2>1. /\ UNCHANGED <<availableSuites, argv, selectedSuites>>
        /\ pc = "main" /\ pc' = "args"
    BY <1>2 DEF CallRunSuites
  <2> QED BY <1>0, <2>1, LineSame DEF SelectInv
<1>3. CASE EndOfArguments
  <2>1. /\ UNCHANGED <<availableSuites, argv, selectedSuites, next>>
        /\ pc = "args" /\ pc' = IF selectedSuites = <<>> THEN "defaults" ELSE "output"
        /\ ToSet(selectedSuites) = FirstNamed /\ next = 1
    BY <1>3 DEF EndOfArguments, SelectInv, results, MainInv, StartInv
  <2>2. {availableSuites[k].name : k \in ToSet(selectedSuites)} = Named
    BY <1>0, <2>1, NameSelects
  <2>3. CASE selectedSuites = <<>>
    <3>1. ToSet(selectedSuites) = {}
      BY <2>3 DEF ToSet
    <3>2. Named = {}
      BY <2>2, <3>1
    <3>3. {k \in Meant : k < 1} = {}
      BY <1>0 DEF Meant, TypeOK
    <3> QED BY <1>0, <2>1, <2>3, <3>1, <3>2, <3>3, LineSame DEF SelectInv
  <2>4. CASE selectedSuites # <<>>
    <3>1. ToSet(selectedSuites) # {}
      <4>1. 1 \in DOMAIN selectedSuites
        BY <1>0, <2>4 DEF TypeOK
      <4> QED BY <4>1 DEF ToSet
    <3>2. Meant = FirstNamed
      BY <1>0, <2>2, <3>1, AskedFor
    <3> QED BY <1>0, <2>1, <2>4, <3>2, LineSame DEF SelectInv
  <2> QED BY <2>3, <2>4
<1>4. CASE SelectDefault
  BY <1>4, DefaultsSelect
<1>5. CASE OpenOutput
  <2>1. /\ UNCHANGED <<availableSuites, argv, selectedSuites>>
        /\ pc' \in {"done", "suites"}
        /\ pc = "output" \/ (pc = "defaults" /\ next > Len(availableSuites))
    BY <1>5 DEF OpenOutput, Return
  <2>2. ToSet(selectedSuites) = Meant
    BY <1>0, <2>1, AllSelected
  <2> QED BY <1>0, <2>1, <2>2, LineSame DEF SelectInv
<1>6. CASE RunSuite \/ RunThrows \/ SkipSuite \/ ListSuite \/ Finish
  <2>1. /\ UNCHANGED <<availableSuites, argv, selectedSuites>>
        /\ pc = "suites" /\ pc' \in {"suites", "thrown", "undefined", "done"}
    BY <1>6 DEF RunSuite, RunThrows, SkipSuite, ListSuite, Finish, Runs, InLoop, Return
  <2> QED BY <1>0, <2>1, LineSame, SMTT(40) DEF SelectInv
<1> QED BY <1>1, <1>2, <1>3, <1>4, <1>5, <1>6

LEMMA SelectInvHolds == Spec => []SelectInv
<1>1. Init => SelectInv
  <2> SUFFICES ASSUME Init PROVE SelectInv
    OBVIOUS
  <2>1. argv = <<>> /\ availableSuites = <<>> /\ selectedSuites = <<>> /\ pc = "main"
    BY DEF Init
  <2>2. FirstNamed = {} /\ ToSet(selectedSuites) = {} /\ Distinct(selectedSuites)
    BY <2>1 DEF FirstNamed, ToSet, Distinct
  <2> QED BY <2>1, <2>2 DEF SelectInv
<1>2. SelectInv /\ UNCHANGED vars => SelectInv'
  BY LineSame DEF SelectInv, vars, results
<1>3. MainInv /\ StreamInv /\ SelectInv /\ [Next]_vars => SelectInv'
  BY <1>2, ReadArgumentSelects, OtherStepSelects DEF Next, Ended
<1> QED BY <1>1, <1>3, MainInvHolds, StreamInvHolds, PTL DEF Spec

-----------------------------------------------------------------------------
\* The suites that are run.

\* The suite that the loop is at is a new one.
LEMMA SeenNext ==
  ASSUME MainInv, SelectInv, InLoop, next' = next + 1, UNCHANGED selectedSuites
  PROVE  /\ Seen' = Seen \cup {selectedSuites[next]}
         /\ selectedSuites[next] \notin Seen
<1>1. next \in DOMAIN selectedSuites /\ next \in Nat \ {0}
  BY SuiteType DEF MainInv, TypeOK
<1>2. (next + 1) - 1 = next
  BY <1>1
<1>3. 1 .. next = (1 .. next - 1) \cup {next} /\ next \notin 1 .. next - 1
  BY <1>1
<1>4. Seen' = {selectedSuites[i] : i \in 1 .. next}
  BY <1>2 DEF Seen
<1>5. 1 .. next - 1 \subseteq DOMAIN selectedSuites
  BY <1>1 DEF MainInv, TypeOK
<1> QED BY <1>1, <1>3, <1>4, <1>5 DEF Seen, SelectInv, Distinct

\* In the end all suites that are asked for have been seen.
LEMMA AllSeen ==
  ASSUME TypeOK, SelectInv, pc = "suites", next > Len(selectedSuites)
  PROVE  Seen = Meant
<1>1. PICK n : n = Len(selectedSuites)
  OBVIOUS
<1>2. n \in Nat /\ DOMAIN selectedSuites = 1 .. n /\ next \in 1 .. n + 1 /\ next > n
  BY <1>1 DEF TypeOK
<1>3. next - 1 = n
  BY <1>2
<1> QED BY <1>2, <1>3 DEF Seen, ToSet, SelectInv

\* It is run with the tests that are asked for, if it is to be run.
LEMMA SuiteRun ==
  ASSUME MainInv, StreamInv, InLoop
  PROVE  /\ [suite |-> selectedSuites[next], tests |-> SelectedTests] = RunOf(selectedSuites[next])
         /\ Runs <=> ToRun(selectedSuites[next])
<1>1. opts.testPatterns = PatternsAsked /\ (Listing <=> ListsAsked)
  BY StreamsTell
<1>2. SelectedTests = RunOf(selectedSuites[next]).tests
  BY <1>1 DEF SelectedTests, Suite, RunOf
<1>3. RunOf(selectedSuites[next]) =
        [suite |-> selectedSuites[next], tests |-> RunOf(selectedSuites[next]).tests]
  BY DEF RunOf
<1> QED BY <1>1, <1>2, <1>3 DEF Runs, ToRun

LEMMA OtherStepRuns ==
  ASSUME MainInv, ExitInv, StreamInv, SelectInv, RunInv,
         \/ \E e \in Entry : registerSuite(e)
         \/ CallRunSuites \/ EndOfArguments \/ SelectDefault \/ OpenOutput
         \/ RunSuite \/ RunThrows \/ SkipSuite \/ ListSuite \/ Finish
  PROVE  RunInv'
<1>0. TypeOK /\ \A i, j \in DOMAIN ran : ran[i].suite = ran[j].suite => i = j
  BY DEF MainInv, RunInv
<1>1. CASE (\E e \in Entry : registerSuite(e)) \/ CallRunSuites \/ EndOfArguments \/ SelectDefault
  <2>1. /\ ran' = ran /\ pc \in {"main", "args", "defaults", "output"}
        /\ pc' \in {"main", "args", "defaults", "output"}
    BY <1>1 DEF registerSuite, CallRunSuites, EndOfArguments, SelectDefault, results
  <2> QED BY <1>0, <2>1 DEF RunInv
<1>2. CASE OpenOutput
  <2>1. /\ ran' = ran /\ ran = <<>> /\ next' = 1 /\ UNCHANGED <<availableSuites, argv>>
        /\ pc' = IF selectedSuites = <<>> THEN "done" ELSE "suites"
    BY <1>2 DEF OpenOutput, Return, RunInv
  <2>2. ToSet(ran') = {} /\ Seen' = {}
    BY <2>1 DEF ToSet, Seen
  <2>3. ASSUME selectedSuites = <<>>
        PROVE  Meant' = {}
    <3>2. ToSet(selectedSuites) = Meant
      BY <1>0, <1>2, AllSelected DEF OpenOutput
    <3>3. ToSet(selectedSuites) = {}
      BY <2>3 DEF ToSet
    <3> QED BY <2>1, <3>2, <3>3, LineSame
  <2> QED BY <1>0, <2>1, <2>2, <2>3 DEF RunInv
<1>3. CASE RunSuite
  <2>1. PICK k : k = selectedSuites[next]
    OBVIOUS
  <2>2. /\ InLoop /\ Runs /\ next' = next + 1 /\ pc = "suites" /\ pc' = "suites"
        /\ ran' = Append(ran, [suite |-> selectedSuites[next], tests |-> SelectedTests])
        /\ UNCHANGED <<availableSuites, argv, selectedSuites>>
    BY <1>3 DEF RunSuite, Runs, InLoop
  <2>3. ran' = Append(ran, RunOf(k)) /\ ToRun(k) /\ Seen' = Seen \cup {k} /\ k \notin Seen
    BY <2>1, <2>2, SuiteRun, SeenNext
  <2>4. ToSet(ran) = {RunOf(l) : l \in {l \in Seen : ToRun(l)}}
    BY <2>2 DEF RunInv
  <2>5. PICK n \in Nat : n = Len(ran) /\ DOMAIN ran = 1 .. n
    BY <1>0 DEF TypeOK
  <2>6. /\ DOMAIN ran' = 1 .. n + 1 /\ ran'[n + 1] = RunOf(k)
        /\ \A i \in 1 .. n : ran'[i] = ran[i]
    <3>1. PICK r : r = RunOf(k)
      OBVIOUS
    <3>2. ran \in Seq([suite : DOMAIN availableSuites, tests : SUBSET Nat]) /\ ran' = Append(ran, r)
      BY <1>0, <2>3, <3>1 DEF TypeOK
    <3> QED BY <2>5, <3>1, <3>2
  <2>7. ToSet(ran') = ToSet(ran) \cup {RunOf(k)}
    <3>1. 1 .. n + 1 = 1 .. n \cup {n + 1}
      BY <2>5
    <3> QED BY <2>5, <2>6, <3>1 DEF ToSet
  <2>8. \A i \in 1 .. n : ran[i].suite \in Seen
    <3>1. \A l : RunOf(l).suite = l
      BY DEF RunOf
    <3> QED BY <2>4, <2>5, <3>1, SMTT(40) DEF ToSet
  <2>9. \A i, j \in 1 .. n + 1 : ran'[i].suite = ran'[j].suite => i = j
    <3>1. RunOf(k).suite = k
      BY DEF RunOf
    <3>2. \A i \in 1 .. n + 1 : i \in 1 .. n \/ i = n + 1
      BY <2>5
    <3> QED BY <1>0, <2>3, <2>5, <2>6, <2>8, <3>1, <3>2
  <2>10. \A l : RunOf(l)' = RunOf(l) /\ (ToRun(l)' <=> ToRun(l))
    BY <2>2, LineSame
  <2>11. ToSet(ran') = {RunOf(l) : l \in {l \in Seen' : ToRun(l)}}
    BY <2>3, <2>4, <2>7
  <2> QED BY <2>2, <2>6, <2>9, <2>10, <2>11 DEF RunInv
<1>4. CASE RunThrows
  <2>1. ran' = ran /\ pc' = "thrown"
    BY <1>4 DEF RunThrows, results
  <2> QED BY <1>0, <2>1 DEF RunInv
<1>5. CASE SkipSuite \/ ListSuite
  <2>1. PICK k : k = selectedSuites[next]
    OBVIOUS
  <2>2. /\ InLoop /\ next' = next + 1 /\ pc = "suites" /\ pc' \in {"suites", "undefined"}
        /\ ran' = ran /\ UNCHANGED <<availableSuites, argv, selectedSuites>>
    BY <1>5 DEF SkipSuite, ListSuite, InLoop
  <2>3. ~Runs
    BY <1>5 DEF SkipSuite, ListSuite, Runs
  <2>4. ~ToRun(k) /\ Seen' = Seen \cup {k}
    BY <2>1, <2>2, <2>3, SuiteRun, SeenNext
  <2>5. \A l : RunOf(l)' = RunOf(l) /\ (ToRun(l)' <=> ToRun(l))
    BY <2>2, LineSame
  <2>6. {l \in Seen' : ToRun(l)} = {l \in Seen : ToRun(l)}
    BY <2>4
  <2>7. ToSet(ran) = {RunOf(l) : l \in {l \in Seen : ToRun(l)}}
    BY <2>2 DEF RunInv
  <2> QED BY <1>0, <2>2, <2>5, <2>6, <2>7, SMTT(40) DEF RunInv
<1>6. CASE Finish
  <2>1. /\ pc = "suites" /\ pc' = "done" /\ ran' = ran /\ next > Len(selectedSuites)
        /\ UNCHANGED <<availableSuites, argv, selectedSuites, callback>>
    BY <1>6 DEF Finish, Return, results
  <2>2. Completed'
    <3>1. Given("help")' = Given("help") /\ Unknown' = Unknown
      BY <2>1, LineKept
    <3> QED BY <2>1, <3>1 DEF Completed, ExitInv
  <2>3. Seen = Meant
    BY <1>0, <2>1, AllSeen
  <2>4. Meant' = Meant /\ \A l : RunOf(l)' = RunOf(l) /\ (ToRun(l)' <=> ToRun(l))
    BY <2>1, LineSame
  <2>5. ToSet(ran) = {RunOf(l) : l \in {l \in Meant : ToRun(l)}}
    BY <2>1, <2>3 DEF RunInv
  <2> QED BY <1>0, <2>1, <2>2, <2>4, <2>5 DEF RunInv
<1> QED BY <1>1, <1>2, <1>3, <1>4, <1>5, <1>6

LEMMA RunInvHolds == Spec => []RunInv
<1>1. Init => RunInv
  BY DEF Init, RunInv
<1>2. ASSUME MainInv, RunInv, NEW a \in Arg, ReadArgument(a)
      PROVE  RunInv'
  <2>1. ran' = ran /\ ran = <<>>
    BY <1>2, ReadingReads DEF Read, results, RunInv
  <2>2. pc' # "suites" /\ ~Completed'
    BY <1>2, NotCompletedYet DEF MainInv
  <2> QED BY <2>1, <2>2 DEF RunInv
<1>3. RunInv /\ UNCHANGED vars => RunInv'
  <2> SUFFICES ASSUME RunInv, UNCHANGED vars PROVE RunInv'
    OBVIOUS
  <2>1. UNCHANGED <<pc, availableSuites, argv, callback, selectedSuites, next, ran>>
    BY DEF vars, results
  <2>2. /\ Meant' = Meant /\ (Completed' <=> Completed) /\ Seen' = Seen
        /\ \A k : RunOf(k)' = RunOf(k) /\ (ToRun(k)' <=> ToRun(k))
    BY <2>1, LineSame, LineKept DEF Completed, Seen
  <2> QED BY <2>1, <2>2 DEF RunInv
<1>4. MainInv /\ ExitInv /\ StreamInv /\ SelectInv /\ RunInv /\ [Next]_vars => RunInv'
  BY <1>2, <1>3, OtherStepRuns DEF Next, Ended
<1> QED
  BY <1>1, <1>4, MainInvHolds, ExitInvHolds, StreamInvHolds, SelectInvHolds, PTL DEF Spec

\* What a completed program ran: the tests of RunOf(k) for the suites to run.
LEMMA RunTests ==
  ASSUME TypeOK, RunInv, Completed
  PROVE  UNION {{<<r.suite, availableSuites[r.suite].tests[i]>> : i \in r.tests} :
                  r \in ToSet(ran)}
         = IF ListsAsked /\ PatternsAsked = {} THEN {}
           ELSE UNION {{<<k, t>> : t \in TestsMeant(k)} : k \in Meant}
<1> DEFINE Done == UNION {{<<r.suite, availableSuites[r.suite].tests[i]>> : i \in r.tests} :
                            r \in ToSet(ran)}
           Wanted == IF ListsAsked /\ PatternsAsked = {} THEN {}
                     ELSE UNION {{<<k, t>> : t \in TestsMeant(k)} : k \in Meant}
<1>1. ToSet(ran) = {RunOf(k) : k \in {k \in Meant : ToRun(k)}}
  BY DEF RunInv, Completed
<1>2. ASSUME NEW k
      PROVE  /\ RunOf(k).suite = k
             /\ \A i : i \in RunOf(k).tests <=>
                  /\ i \in DOMAIN availableSuites[k].tests
                  /\ PatternsAsked = {} \/
                       \E p \in PatternsAsked : <<p, availableSuites[k].tests[i]>> \in Matches
  BY DEF RunOf
<1>3. ASSUME NEW k, NEW t
      PROVE  t \in TestsMeant(k) <=>
               \E i \in RunOf(k).tests : t = availableSuites[k].tests[i]
  BY <1>2 DEF TestsMeant, ToSet
<1>4. ASSUME NEW x \in Done
      PROVE  x \in Wanted
  <2>1. PICK r \in ToSet(ran) :
          x \in {<<r.suite, availableSuites[r.suite].tests[i]>> : i \in r.tests}
    BY <1>4
  <2>2. PICK k \in Meant : ToRun(k) /\ r = RunOf(k)
    BY <1>1, <2>1
  <2>3. PICK i \in RunOf(k).tests : x = <<k, availableSuites[k].tests[i]>>
    BY <1>2, <2>1, <2>2
  <2>4. availableSuites[k].tests[i] \in TestsMeant(k)
    BY <1>3, <2>3
  <2>5. ~(ListsAsked /\ PatternsAsked = {})
    BY <2>2 DEF ToRun
  <2> QED BY <2>3, <2>4, <2>5
<1>5. ASSUME NEW x \in Wanted
      PROVE  x \in Done
  <2>1. ~(ListsAsked /\ PatternsAsked = {})
    BY <1>5
  <2>2. PICK k \in Meant : x \in {<<k, t>> : t \in TestsMeant(k)}
    BY <1>5, <2>1
  <2>3. PICK t \in TestsMeant(k) : x = <<k, t>>
    BY <2>2
  <2>4. PICK i \in RunOf(k).tests : t = availableSuites[k].tests[i]
    BY <1>3, <2>3
  <2>5. ToRun(k)
    BY <2>1, <2>4 DEF ToRun
  <2>6. RunOf(k) \in ToSet(ran)
    BY <1>1, <2>2, <2>5
  <2>7. PICK r \in ToSet(ran) : r = RunOf(k)
    BY <2>6
  <2>8. r.suite = k /\ i \in r.tests
    BY <1>2, <2>4, <2>7
  <2>9. x = <<r.suite, availableSuites[r.suite].tests[i]>>
    BY <2>3, <2>4, <2>8
  <2> QED BY <2>7, <2>8, <2>9
<1> HIDE DEF Done, Wanted
<1>6. Done = Wanted
  BY <1>4, <1>5
<1> QED BY <1>6 DEF Done, Wanted

\* Whatever the order of its arguments and whatever is registered, runSuites
\* runs exactly the tests that they ask for and none when it lists or gives up;
\* and every suite in at most one run().  Which tests a command line should run
\* on which the code and its help disagree is left open.
THEOREM RunsAreAsked == Spec => []RunsWhatIsAsked
<1>1. ASSUME MainInv, RunInv PROVE RunsWhatIsAsked
  <2>1. TypeOK
    BY <1>1 DEF MainInv
  <2>2. pc = "done" /\ ~Completed => ran = <<>>
    BY <1>1 DEF RunInv
  <2>3. \A i, j \in DOMAIN ran : ran[i].suite = ran[j].suite => i = j
    BY <1>1 DEF RunInv
  <2>4. ~Disputed /\ ListsAsked => PatternsAsked = {}
    BY DEF Disputed
  <2> QED BY <1>1, <2>1, <2>2, <2>3, <2>4, RunTests DEF RunsWhatIsAsked
<1> QED BY <1>1, MainInvHolds, RunInvHolds, PTL

\* A command line that names no suite and asks for no list and no pattern runs
\* every suite that --help marks with "(default)", however many share a name.
THEOREM DefaultsRun == Spec => []DefaultsAreRun
<1>1. ASSUME MainInv, RunInv, Completed, ~ListsAsked, PatternsAsked = {},
             Values("name") \subseteq Ignored \cup Unknown, NEW k \in MarkedDefault
      PROVE  k \in {ran[i].suite : i \in DOMAIN ran}
  <2>1. Named = {}
    BY <1>1 DEF Named, Unknown
  <2>2. /\ k \in DOMAIN availableSuites /\ IsFirst(k, availableSuites[k].name)
        /\ "OMIT_FROM_DEFAULT" \notin availableSuites[k].flags
    BY <1>1 DEF MarkedDefault
  <2>3. Asked(k)
    BY <1>1, <2>1, <2>2, AskedFor DEF MainInv
  <2>4. k \in Meant
    BY <2>2, <2>3 DEF Meant, IsFirst
  <2>5. ToRun(k)
    BY <1>1 DEF ToRun
  <2>6. RunOf(k) \in ToSet(ran) /\ RunOf(k).suite = k
    BY <1>1, <2>4, <2>5 DEF RunInv, Completed, RunOf
  <2> QED BY <2>6 DEF ToSet
<1>2. MainInv /\ RunInv => DefaultsAreRun
  BY <1>1 DEF DefaultsAreRun
<1> QED BY <1>2, MainInvHolds, RunInvHolds, PTL

-----------------------------------------------------------------------------
\* The suites and tests that are listed.

\* Where the list goes and what is in it depends on the suites and the command
\* line only.
LEMMA ListSame ==
  ASSUME UNCHANGED <<availableSuites, argv>>
  PROVE  ListSink' = ListSink /\ \A K : LinesOf(K)' = LinesOf(K)
<1>1. ListOption' = ListOption
  BY LineSame DEF ListOption
<1>2. \A option : Given(option)' = Given(option)
  BY DEF Given
<1>3. ListSink' = ListSink
  BY <1>1, <1>2 DEF ListSink, LastValue
<1> QED BY <1>1, <1>3 DEF LinesOf

\* The list goes to the sink of the stream that the last option for it opened.
LEMMA ListGoes ==
  ASSUME MainInv, StreamInv, ListsAsked
  PROVE  ListSink \in Sink /\ ListEntry.stream.sink = ListSink
<1>1. PICK n \in Nat : DOMAIN argv = 1 .. n
  <2>1. argv \in Seq(Argument) /\ Len(argv) \in Nat
    BY DEF MainInv, TypeOK
  <2> QED BY <2>1
<1>2. PICK option \in {"list-tests", "list-suites"} : option = ListOption
  BY DEF ListOption
<1>3. PICK G \in SUBSET (1 .. n) : G = Given(option)
  BY <1>1 DEF Given
<1>4. G # {}
  BY <1>2, <1>3 DEF ListsAsked, ListOption, Values
<1>5. \A i \in G : argv[i].value \in Sink
  <2>1. \A i \in DOMAIN argv : argv[i] \in Argument
    BY DEF MainInv, TypeOK
  <2>2. \A b \in Argument : b.option \in {"list-tests", "list-suites"} => b.value \in Sink
    BY DEF Argument
  <2> QED BY <1>3, <2>1, <2>2 DEF Given
<1>6. ListEntry.stream = IF option = "list-tests" THEN opts.listTestsOutput
                         ELSE opts.listSuitesOutput
  BY <1>2, StreamsTell DEF ListEntry, ListOption
<1>7. LastStream(option, ListEntry.stream)
  <2>1. LastStream("list-tests", opts.listTestsOutput)
        /\ LastStream("list-suites", opts.listSuitesOutput)
    BY DEF StreamInv
  <2> QED BY <1>2, <1>6, <2>1
<1>8. PICK m \in G : /\ \A i \in G : m >= i
                     /\ ListEntry.stream = [sink |-> argv[m].value,
                                            at |-> IF argv[m].value = Cout THEN 0 ELSE m]
  BY <1>3, <1>4, <1>7 DEF LastStream
<1>9. {i \in Given(option) : argv[i].value \in Sink} = G
  BY <1>3, <1>5
<1>10. Max(G) = m
  BY <1>8, MaxIs
<1>11. ListSink = argv[m].value
  BY <1>2, <1>4, <1>9, <1>10 DEF ListSink, LastValue
<1>12. ListEntry.stream.sink = argv[m].value
  <2> DEFINE at == IF argv[m].value = Cout THEN 0 ELSE m
  <2>1. ListEntry.stream = [sink |-> argv[m].value, at |-> at]
    BY <1>8
  <2> HIDE DEF at
  <2>2. PICK stream : stream = ListEntry.stream
    OBVIOUS
  <2>3. stream.sink = argv[m].value
    BY <2>1, <2>2
  <2> QED BY <2>2, <2>3
<1>13. argv[m].value \in Sink
  BY <1>5, <1>8
<1> QED BY <1>11, <1>12, <1>13

\* What the suite that the loop is at adds to it.
LEMMA ListAdds ==
  ASSUME MainInv, StreamInv, ListsAsked, InLoop, NEW K
  PROVE  /\ ListEntry.lines \in Seq(Test \cup Name)
         /\ LinesOf(K \cup {selectedSuites[next]}) = LinesOf(K) \cup ToSet(ListEntry.lines)
<1>1. PICK k : k = selectedSuites[next]
  OBVIOUS
<1>2. Suite = availableSuites[k] /\ Suite.tests \in Seq(Test) /\ Suite.name \in Name
  BY <1>1, SuiteType DEF MainInv, Suite, SuiteEntry
<1>3. ListEntry.lines = IF ListOption = "list-tests" THEN Suite.tests ELSE <<Suite.name>>
  BY StreamsTell DEF ListEntry, ListOption
<1>4. ListEntry.lines \in Seq(Test \cup Name)
  <2>1. Suite.tests \in Seq(Test \cup Name) /\ <<Suite.name>> \in Seq(Test \cup Name)
    BY <1>2
  <2> QED BY <1>3, <2>1
<1>5. ToSet(ListEntry.lines) = IF ListOption = "list-tests" THEN ToSet(availableSuites[k].tests)
                               ELSE {availableSuites[k].name}
  <2>1. ToSet(<<Suite.name>>) = {Suite.name}
    BY DEF ToSet
  <2> QED BY <1>2, <1>3, <2>1
<1>6. LinesOf(K \cup {k}) = LinesOf(K) \cup ToSet(ListEntry.lines)
  BY <1>5 DEF LinesOf
<1> QED BY <1>1, <1>4, <1>6

LEMMA ConcatSet ==
  ASSUME NEW S, NEW a \in Seq(S), NEW b \in Seq(S)
  PROVE  ToSet(a \o b) = ToSet(a) \cup ToSet(b)
<1>1. PICK m, n : m = Len(a) /\ n = Len(b)
  OBVIOUS
<1>2. m \in Nat /\ n \in Nat /\ DOMAIN a = 1 .. m /\ DOMAIN b = 1 .. n
  BY <1>1
<1>3. PICK c : c = a \o b
  OBVIOUS
<1>4. /\ DOMAIN c = 1 .. m + n
      /\ \A i \in 1 .. m : c[i] = a[i] /\ i \in 1 .. m + n
      /\ \A i \in 1 .. n : c[m + i] = b[i] /\ m + i \in 1 .. m + n
  BY <1>1, <1>2, <1>3
<1>5. ASSUME NEW i \in 1 .. m + n
      PROVE  c[i] \in ToSet(a) \cup ToSet(b)
  <2>1. CASE i \in 1 .. m
    BY <1>2, <1>4, <2>1 DEF ToSet
  <2>2. CASE i \notin 1 .. m
    <3>1. PICK j \in 1 .. n : i = m + j
      <4>1. i - m \in 1 .. n /\ i = m + (i - m)
        BY <1>2, <2>2
      <4> QED BY <4>1
    <3> QED BY <1>2, <1>4, <3>1 DEF ToSet
  <2> QED BY <2>1, <2>2
<1>6. ToSet(c) \subseteq ToSet(a) \cup ToSet(b)
  BY <1>4, <1>5 DEF ToSet
<1>7. ToSet(a) \cup ToSet(b) \subseteq ToSet(c)
  BY <1>2, <1>4 DEF ToSet
<1> QED BY <1>3, <1>6, <1>7

LEMMA ReadArgumentLists ==
  ASSUME MainInv, ListInv, NEW a \in Arg, ReadArgument(a)
  PROVE  ListInv'
<1>1. TypeOK /\ pc = "args" /\ a \in Argument
  BY ReadingReads, MainAssumption DEF MainInv
<1>2. pc' # "suites" /\ ~Completed'
  BY <1>1, NotCompletedYet
<1>3. written \in [Sink -> Seq(Test \cup Name)] /\ \A sink \in Sink : written[sink] = <<>>
  BY <1>1 DEF TypeOK, ListInv
<1>4. written' = written \/ written' = [written EXCEPT ![a.value] = <<>>]
  BY DEF ReadArgument, Help, ListTests, ListSuites, TestPattern, ReportOption,
     IgnoredArgument, SuiteArgument, UnknownArgument, OpenList
<1>5. \A sink \in Sink : written'[sink] = <<>>
  <2> HIDE DEF Sink
  <2> QED BY <1>3, <1>4
<1> QED BY <1>2, <1>5 DEF ListInv

LEMMA ListSuiteLists ==
  ASSUME MainInv, StreamInv, SelectInv, ListInv, ListSuite
  PROVE  ListInv'
<1>1. /\ InLoop /\ next' = next + 1 /\ pc = "suites" /\ ListsAsked /\ PatternsAsked = {}
      /\ UNCHANGED <<availableSuites, argv, selectedSuites>>
  BY StreamsTell DEF ListSuite, InLoop
<1>2. CASE pc' = "undefined"
  BY <1>2 DEF ListInv, Completed
<1>3. CASE pc' # "undefined"
  <2>1. /\ pc' = "suites"
        /\ written' = [written EXCEPT ![ListEntry.stream.sink] = @ \o ListEntry.lines]
    BY <1>1, <1>3 DEF ListSuite
  <2>2. PICK lines \in Seq(Test \cup Name) :
          /\ lines = ListEntry.lines
          /\ LinesOf(Seen \cup {selectedSuites[next]}) = LinesOf(Seen) \cup ToSet(lines)
    BY <1>1, ListAdds
  <2>3. PICK sink \in Sink : sink = ListSink /\ sink = ListEntry.stream.sink
    BY <1>1, ListGoes
  <2>4. written \in [Sink -> Seq(Test \cup Name)]
    BY DEF MainInv, TypeOK
  <2>5. written' = [written EXCEPT ![sink] = @ \o lines]
    BY <2>1, <2>2, <2>3
  <2>6. written'[sink] = written[sink] \o lines /\ written[sink] \in Seq(Test \cup Name)
    <3> HIDE DEF Sink
    <3> QED BY <2>4, <2>5
  <2>7. ToSet(written'[sink]) = ToSet(written[sink]) \cup ToSet(lines)
    BY <2>2, <2>6, ConcatSet
  <2>8. ToSet(written[sink]) = LinesOf(Seen)
    BY <1>1, <2>3 DEF ListInv
  <2>9. Seen' = Seen \cup {selectedSuites[next]}
    BY <1>1, SeenNext
  <2>10. ListSink' = sink /\ LinesOf(Seen)' = LinesOf(Seen \cup {selectedSuites[next]})
    BY <1>1, <2>3, <2>9, ListSame
  <2>11. ToSet(written[ListSink])' = LinesOf(Seen)'
    BY <2>2, <2>7, <2>8, <2>10
  <2> QED BY <2>1, <2>11 DEF ListInv, Completed
<1> QED BY <1>2, <1>3

LEMMA OtherStepLists ==
  ASSUME MainInv, StreamInv, SelectInv, ListInv,
         \/ \E e \in Entry : registerSuite(e)
         \/ CallRunSuites \/ EndOfArguments \/ SelectDefault \/ OpenOutput
         \/ RunSuite \/ RunThrows \/ SkipSuite \/ ListSuite \/ Finish
  PROVE  ListInv'
<1>0. TypeOK
  BY DEF MainInv
<1>1. CASE (\E e \in Entry : registerSuite(e)) \/ CallRunSuites \/ EndOfArguments \/ SelectDefault
  <2>1. /\ written' = written /\ pc \in {"main", "args", "defaults", "output"}
        /\ pc' \in {"main", "args", "defaults", "output"}
    BY <1>1 DEF registerSuite, CallRunSuites, EndOfArguments, SelectDefault
  <2> QED BY <2>1 DEF ListInv, Completed
<1>2. CASE OpenOutput
  <2>1. /\ UNCHANGED <<availableSuites, argv, selectedSuites, opts>> /\ next' = 1
        /\ pc' = (IF selectedSuites = <<>> THEN "done" ELSE "suites")
        /\ pc \in {"defaults", "output"}
        /\ written' = written \/ written' = [written EXCEPT ![opts.outputFile] = <<>>]
    BY <1>2 DEF OpenOutput, Return
  <2>2. \A sink \in Sink : written'[sink] = <<>>
    <3>1. written \in [Sink -> Seq(Test \cup Name)] /\ \A sink \in Sink : written[sink] = <<>>
      BY <1>0, <2>1 DEF TypeOK, ListInv
    <3> HIDE DEF Sink
    <3> QED BY <2>1, <3>1
  <2>3. selectedSuites = <<>> => Meant' = {}
    <3>1. ToSet(selectedSuites) = Meant
      BY <1>0, <1>2, AllSelected DEF OpenOutput
    <3>2. selectedSuites = <<>> => ToSet(selectedSuites) = {}
      BY DEF ToSet
    <3> QED BY <2>1, <3>1, <3>2, LineSame
  <2>4. LinesOf({})' = {} /\ Seen' = {}
    BY <2>1 DEF LinesOf, Seen
  <2>5. ListsAsked => ToSet(written'[ListSink']) = {}
    <3>1. ListsAsked => ListSink \in Sink
      BY ListGoes
    <3> QED BY <2>1, <2>2, <3>1, ListSame DEF ToSet
  <2>6. ListsAsked' = ListsAsked
    BY <2>1, LineSame
  <2> QED BY <2>1, <2>3, <2>4, <2>5, <2>6 DEF ListInv, Completed
<1>3. CASE RunSuite \/ SkipSuite
  <2>1. /\ InLoop /\ pc = "suites" /\ pc' = "suites" /\ UNCHANGED <<availableSuites, argv>>
        /\ ~(Listing /\ opts.testPatterns = {})
    BY <1>3 DEF RunSuite, SkipSuite, Runs, InLoop
  <2>2. ~(ListsAsked /\ PatternsAsked = {})'
    BY <2>1, StreamsTell, LineSame
  <2> QED BY <2>1, <2>2 DEF ListInv
<1>4. CASE RunThrows
  BY <1>4 DEF RunThrows, ListInv, Completed
<1>5. CASE ListSuite
  BY <1>5, ListSuiteLists
<1>6. CASE Finish
  <2>1. /\ pc = "suites" /\ pc' = "done" /\ written' = written /\ next > Len(selectedSuites)
        /\ UNCHANGED <<availableSuites, argv>>
    BY <1>6 DEF Finish, Return
  <2>2. Seen = Meant
    BY <1>0, <2>1, AllSeen
  <2>3. /\ Meant' = Meant /\ ListsAsked' = ListsAsked /\ PatternsAsked' = PatternsAsked
        /\ ListSink' = ListSink /\ LinesOf(Meant)' = LinesOf(Meant)
    BY <2>1, LineSame, ListSame
  <2>4. ListsAsked /\ PatternsAsked = {} => ToSet(written[ListSink]) = LinesOf(Meant)
    BY <2>1, <2>2 DEF ListInv
  <2> QED BY <2>1, <2>3, <2>4 DEF ListInv
<1> QED BY <1>1, <1>2, <1>3, <1>4, <1>5, <1>6

LEMMA ListInvHolds == Spec => []ListInv
<1>1. Init => ListInv
  BY DEF Init, ListInv, Completed
<1>2. ListInv /\ UNCHANGED vars => ListInv'
  <2> SUFFICES ASSUME ListInv, UNCHANGED vars PROVE ListInv'
    OBVIOUS
  <2>1. UNCHANGED <<pc, availableSuites, argv, callback, selectedSuites, next, written>>
    BY DEF vars, results
  <2>2. /\ Meant' = Meant /\ ListsAsked' = ListsAsked /\ PatternsAsked' = PatternsAsked
        /\ (Completed' <=> Completed) /\ Seen' = Seen
        /\ ListSink' = ListSink /\ LinesOf(Meant)' = LinesOf(Meant) /\ LinesOf(Seen)' = LinesOf(Seen)
    BY <2>1, LineSame, LineKept, ListSame DEF Completed, Seen
  <2> QED BY <2>1, <2>2 DEF ListInv
<1>3. MainInv /\ StreamInv /\ SelectInv /\ ListInv /\ [Next]_vars => ListInv'
  BY <1>2, ReadArgumentLists, OtherStepLists DEF Next, Ended
<1> QED
  BY <1>1, <1>3, MainInvHolds, StreamInvHolds, SelectInvHolds, PTL DEF Spec

\* A list has the tests or the names of exactly the suites it should have, and
\* it is where the last option for it said, whatever options surround it.
THEOREM ListsAreAsked == Spec => []ListsWhatIsAsked
<1>1. ListInv => ListsWhatIsAsked
  <2> SUFFICES ASSUME ListInv, Completed, ListsAsked, PatternsAsked = {}
               PROVE  ListsWhatIsAsked
    BY DEF ListsWhatIsAsked
  <2>1. ToSet(written[ListSink]) = LinesOf(Meant)
    BY DEF ListInv
  <2> QED BY <2>1 DEF ListsWhatIsAsked, ListSink, ListOption, LinesOf
<1> QED BY <1>1, ListInvHolds, PTL
==============================================================================
