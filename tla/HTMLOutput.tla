------------------------------ MODULE HTMLOutput ------------------------------
(***************************************************************************)
(* HTMLOutput::generate: the tables it prints for the records that its     *)
(* base class CollectorOutput has gathered, called when run() has returned.*)
(***************************************************************************)
EXTENDS XMLOutput

\* MUTANT: the methods that were run are compared, not those to be run.
ShowsSuite_OfRun(info, includePassed) ==
  includePassed \/ Len(info.methods) # info.numPositive

\* Is there a row, and a table of methods, for the suite?
ShowsSuite(info, includePassed) ==
  includePassed \/ info.numTests # info.numPositive

\* MUTANT: a share that rounds to all of them is taken for all of them.
CssClass_ByShare(total, passed) ==
  IF passed >= (total * 3) \div 4 THEN "allPassed"
  ELSE IF passed >= (total * 2) \div 4 THEN "manyPassed"
  ELSE IF passed >= total \div 4 THEN "somePassed"
  ELSE "fewPassed"

\* getCssClass: how the share of passed tests or assertions is coloured.
CssClass(total, passed) ==
  IF total = passed THEN "allPassed"
  ELSE IF passed >= (total * 3) \div 4 THEN "mostPassed"
  ELSE IF passed >= (total * 2) \div 4 THEN "manyPassed"
  ELSE IF passed >= total \div 4 THEN "somePassed"
  ELSE "fewPassed"

\* The row of a method: its assertions are counted (here as one of each kind
\* there is), the failed ones are listed; of an exception it says nothing.
Passed(method) == IF method.passed THEN 1 ELSE 0
Failed(method) == IF method.failed THEN 1 ELSE 0
MethodRow(method) ==
  [class |-> CssClass(Passed(method) + Failed(method), Passed(method)),
   messages |-> Failed(method)]

\* The generated page: the suites table and the table of every suite in it.
Page(includePassed) ==
  LET shown == {i \in DOMAIN suites : ShowsSuite(suites[i], includePassed)} IN
  [i \in shown |->
     [class |-> CssClass(suites[i].numTests, suites[i].numPositive),
      rows |-> [j \in DOMAIN suites[i].methods |-> MethodRow(suites[i].methods[j])]]]

AllRunAndPassed(info) ==
  Len(info.methods) = info.numTests /\ Successful(info) = DOMAIN info.methods

\* generate(stream, false) leaves out a suite exactly if every method it was to
\* run did run and was successful: a suite is not left out because setup() or
\* before() kept its methods from being run, and none is shown without a reason.
HiddenSuitesPassed ==
  pc[Root] = "returned" =>
    \A i \in DOMAIN suites :
      i \notin DOMAIN Page(FALSE) <=> AllRunAndPassed(suites[i])

\* The page marks failed methods: the row of a method whose assertions failed
\* is not green and names them, and the suite of a method that is not successful
\* is in the page and not green.  (The row of a method that threw may be green.)
FailuresAreMarked ==
  pc[Root] = "returned" =>
    \A i \in DOMAIN suites : \A j \in DOMAIN suites[i].methods :
      LET method == suites[i].methods[j] IN
      ~method.withSuccess =>
        /\ i \in DOMAIN Page(FALSE)
        /\ Page(FALSE)[i].class # "allPassed"
        /\ method.failed => /\ Page(FALSE)[i].rows[j].class # "allPassed"
                            /\ Page(FALSE)[i].rows[j].messages > 0
==============================================================================
