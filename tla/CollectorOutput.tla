--------------------------- MODULE CollectorOutput ---------------------------
(***************************************************************************)
(* CollectorOutput, the Output behind the XML and HTML reports: it gathers *)
(* a record per suite and per method and finds the one to update through   *)
(* two pointers.  Its calls arrive as modules TestSuite and ParallelSuite  *)
(* make them.                                                              *)
(***************************************************************************)
EXTENDS ParallelSuite

VARIABLES
  suites,         \* the vector of SuiteInfo
  currentSuite,   \* which element the pointer currentSuite is for, 0: nullptr
  currentMethod   \* likewise, and whether a reallocation left it dangling

collector == <<suites, currentSuite, currentMethod>>
cvars == <<pvars, collector>>

\* TestMethodInfo and SuiteInfo; of the assertions only whether there are any.
TestMethodInfo == [failed : BOOLEAN, passed : BOOLEAN, exception : BOOLEAN,
                   withSuccess : BOOLEAN]
SuiteInfo == [suite : Suite, numTests : Nat, numPositive : Nat,
              methods : Seq(TestMethodInfo)]
MethodPointer == [suite : Nat, method : Nat, dangling : BOOLEAN]

NewMethod == [failed |-> FALSE, passed |-> FALSE, exception |-> FALSE,
              withSuccess |-> FALSE]
NullMethod == [suite |-> 0, method |-> 0, dangling |-> FALSE]

CInit ==
  /\ PInit
  /\ suites = <<>>
  /\ currentSuite = 0
  /\ currentMethod = NullMethod

MethodOp == {"finishTestMethod", "printException", "printSuccess", "printFailure"}

\* MUTANT: the pointer is only set for the first suite.
InitializeSuite_KeepsPointer(t) ==
  /\ call[t].op = "initializeSuite"
  /\ suites' = Append(suites, [suite |-> Current(t), numTests |-> call[t].num,
                               numPositive |-> 0, methods |-> <<>>])
  /\ currentSuite' = IF currentSuite = 0 THEN 1 ELSE currentSuite
  /\ UNCHANGED currentMethod

\* emplace_back may reallocate; the elements are copied then (a SuiteInfo has
\* const members), methods and all, and currentMethod points to the old copy.
InitializeSuite(t) ==
  /\ call[t].op = "initializeSuite"
  /\ suites' = Append(suites, [suite |-> Current(t), numTests |-> call[t].num,
                               numPositive |-> 0, methods |-> <<>>])
  /\ currentSuite' = Len(suites) + 1
  /\ \/ UNCHANGED currentMethod
     \/ /\ currentMethod # NullMethod
        /\ currentMethod' = [currentMethod EXCEPT !.dangling = TRUE]

FinishSuite(t) ==
  /\ call[t].op = "finishSuite" /\ currentSuite # 0
  /\ suites' = [suites EXCEPT ![currentSuite].numPositive = call[t].num]
  /\ UNCHANGED <<currentSuite, currentMethod>>

\* MUTANT: currentMethod stays where it was.
InitializeTestMethod_KeepsPointer(t) ==
  /\ call[t].op = "initializeTestMethod" /\ currentSuite # 0
  /\ suites' = [suites EXCEPT ![currentSuite].methods = Append(@, NewMethod)]
  /\ currentMethod' = IF currentMethod = NullMethod
                        THEN [suite |-> currentSuite, method |-> 1, dangling |-> FALSE]
                        ELSE currentMethod
  /\ UNCHANGED currentSuite

InitializeTestMethod(t) ==
  /\ call[t].op = "initializeTestMethod" /\ currentSuite # 0
  /\ suites' = [suites EXCEPT ![currentSuite].methods = Append(@, NewMethod)]
  /\ currentMethod' = [suite |-> currentSuite,
                       method |-> Len(suites[currentSuite].methods) + 1,
                       dangling |-> FALSE]
  /\ UNCHANGED currentSuite

\* MUTANT: an exception leaves withSuccess alone and is not noted.
MethodRecord_ForgetsException(m, op, ok) ==
  CASE op = "finishTestMethod" -> [m EXCEPT !.withSuccess = ok]
    [] op = "printException" -> [m EXCEPT !.withSuccess = TRUE]
    [] op = "printSuccess" -> [m EXCEPT !.passed = TRUE]
    [] op = "printFailure" -> [m EXCEPT !.failed = TRUE]

\* What the four calls about a method do to its record.
MethodRecord(m, op, ok) ==
  CASE op = "finishTestMethod" -> [m EXCEPT !.withSuccess = ok]
    [] op = "printException" -> [m EXCEPT !.withSuccess = FALSE, !.exception = TRUE]
    [] op = "printSuccess" -> [m EXCEPT !.passed = TRUE]
    [] op = "printFailure" -> [m EXCEPT !.failed = TRUE]

\* A write through a dangling pointer is undefined; here it is lost.
RecordOnMethod(t) ==
  /\ call[t].op \in MethodOp /\ currentMethod # NullMethod
  /\ suites' =
       IF currentMethod.dangling THEN suites
       ELSE [suites EXCEPT ![currentMethod.suite].methods[currentMethod.method] =
               MethodRecord(@, call[t].op, call[t].ok)]
  /\ UNCHANGED <<currentSuite, currentMethod>>

\* throw std::runtime_error("Invalid Test-Method!"): no method was initialised
\* yet, so the caller is a hook or run() itself and nothing catches it.
InvalidTestMethod(t) ==
  /\ Inside(t)
  /\ call[t].op \in MethodOp /\ currentMethod = NullMethod
  /\ Goto(t, "unwound")
  /\ call' = [call EXCEPT ![t] = NoCall]
  /\ Release(t)
  /\ UNCHANGED <<locals, members, collector>>

Record(t) ==
  \/ InitializeSuite(t) \/ FinishSuite(t) \/ InitializeTestMethod(t)
  \/ RecordOnMethod(t)

CStep(t) ==
  \/ PLocalStep(t) /\ UNCHANGED collector
  \/ PCallReturns(t) /\ Record(t)
  \/ InvalidTestMethod(t)

CFinished == pc[Root] \in Ended /\ UNCHANGED cvars
CNext == CFinished \/ \E t \in Thread : CStep(t)
CSpec == CInit /\ [][CNext]_cvars

-----------------------------------------------------------------------------
\* Type correctness, and the pointers stay within the vectors.
CTypeOK ==
  /\ PTypeOK
  /\ suites \in Seq(SuiteInfo)
  /\ currentSuite = Len(suites)
  /\ currentMethod \in MethodPointer
  /\ currentMethod # NullMethod =>
       /\ currentMethod.suite \in DOMAIN suites
       /\ currentMethod.method \in DOMAIN suites[currentMethod.suite].methods

InMethod(t) == pc[t] \in {"before", "body", "handler", "catch", "after"}

\* While a thread runs a test method, currentMethod is for the record of that
\* method, the next[t]-th of that suite: its assertions and its verdict are
\* filed under the method that made them.
RecordsUnderRunningMethod ==
  \A t \in Thread : InMethod(t) =>
    /\ currentMethod = [suite |-> Len(suites), method |-> next[t], dangling |-> FALSE]
    /\ suites[Len(suites)].suite = Current(t)

Successful(info) == {i \in DOMAIN info.methods : info.methods[i].withSuccess}

\* A finished report adds up: the count handed to finishSuite is the number of
\* records marked successful, none of which has a failure or an exception.
\* (The assertions of setup() and tear_down() belong to no method; not made here.)
ReportAddsUp ==
  \A t \in Thread : pc[t] = "subs" =>
    LET info == suites[Len(suites)] IN
    /\ info.numPositive = Cardinality(Successful(info))
    /\ \A i \in Successful(info) : ~info.methods[i].failed /\ ~info.methods[i].exception

\* The result of run() agrees with the report: it is true exactly if the record
\* of the suite run() was called on has every selected method, each of them
\* successful.  (The members it is computed from are still those of this run
\* after the sub-suites have run.)
ResultMatchesReport ==
  pc[Root] = "returned" /\ Root \notin Parallel =>
    (RunResult(Root) <=> Cardinality(Successful(suites[1])) = numTests)

\* The suites of a tree in the order of their run()s.
RunOrder[s \in Suite] ==
  <<s>> \o FlattenSeq([i \in DOMAIN Sub[s] |-> RunOrder[Sub[s][i]]])

Count(seq, x) == Cardinality({i \in DOMAIN seq : seq[i] = x})

\* "All associated suites will be run after this suite has finished": when
\* run() returns, every suite has its record, as often as it was added, and
\* after the record of the suite it was added to.
EverySuiteReported ==
  pc[Root] = "returned" =>
    LET reported == [i \in DOMAIN suites |-> suites[i].suite] IN
    /\ \A s \in Suite : Count(reported, s) = Count(RunOrder[Root], s)
    /\ Parallel = {} => reported = RunOrder[Root]

\* CollectorOutput.h: "we need pointers to the current suite/test-method": what
\* is reported about a method is written to a record that still exists.
MethodPointerValid ==
  \A t \in Thread : Inside(t) /\ call[t].op \in MethodOp => ~currentMethod.dangling

\* ParallelSuite only warns about methods of its own: where no user code
\* asserts or throws and every thread starts, run() does not throw.
WarningOnly ==
  AssertsIn = {} /\ ThrowsIn = {} /\ ~AsyncFails =>
    \A t \in Thread : pc[t] # "unwound"
==============================================================================
