------------------------------ MODULE XMLOutput ------------------------------
(***************************************************************************)
(* XMLOutput::finishSuite: the testsuite element it prints for the records *)
(* that its base class CollectorOutput has gathered.                       *)
(***************************************************************************)
EXTENDS CollectorOutput

CONSTANT Unsigned  \* BOUND: unsigned numbers are taken modulo this (2^32)

ASSUME UnsignedAssumption == Unsigned \in Nat \ {0}

\* What the testcase element of a method contains.  An exception is one with a
\* message: the code looks whether exceptionMessage is empty.
TestCase(method) ==
  CASE method.exception -> "error"
    [] ~method.exception /\ ~method.failed /\ ~method.passed -> "skipped"
    [] ~method.exception /\ method.failed -> "failure"
    [] OTHER -> "empty"

Cases(info, kind) == {i \in DOMAIN info.methods : TestCase(info.methods[i]) = kind}

\* MUTANT: the errors are counted as failures, too.
Failures_WithErrors(info) == (info.numTests - info.numPositive) % Unsigned

\* The attribute failures: numTests - numPositiveTests - numErrors.
Failures(info) ==
  (info.numTests - info.numPositive - Cardinality(Cases(info, "error"))) % Unsigned

\* The methods nobody ran: setup() declined, or before() did.
NotRun(info) ==
  (info.numTests - Len(info.methods))
  + Cardinality({i \in Cases(info, "skipped") : ~info.methods[i].withSuccess})

\* The attributes of a printed testsuite agree with its testcase elements: what
\* is counted as a failure has a failure element or was not run, and the number
\* has not wrapped.  (Assertions of setup() and tear_down() are filed under no
\* method of their suite, those of a declining before() under no verdict; they
\* are not made here.)
FailuresHaveElements ==
  \A t \in Thread : pc[t] = "subs" =>
    LET info == suites[Len(suites)] IN
    Failures(info) = Cardinality(Cases(info, "failure")) + NotRun(info)
==============================================================================
