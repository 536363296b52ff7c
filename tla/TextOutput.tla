------------------------------ MODULE TextOutput ------------------------------
(***************************************************************************)
(* The outputs that print while the tests run: TextOutput and the          *)
(* ConsoleOutput derived from it, in their three modes, and CompilerOutput.*)
(* All of them listen to the same run.  What matters of a line is whether  *)
(* it tells of a failure, and for the console whether it is red.           *)
(***************************************************************************)
EXTENDS BDDSuite

Debug == 1
Verbose == 2
Terse == 3

\* One output object of every class and mode; CompilerOutput has no modes.
Printer == [class : {"TextOutput", "ConsoleOutput"}, mode : {Debug, Verbose, Terse}]
             \cup {[class |-> "CompilerOutput", mode |-> Terse]}

VARIABLE told  \* the printers that told of a failure since the current method
               \* (or the suite, before its first method) was announced

tvars == <<bvars, told>>

\* MUTANT: a terse output says nothing at the end of a suite.
TextPrints_TerseSuite(mode, c) ==
  CASE c.op \in {"initializeSuite", "finishSuite"} -> mode <= Verbose
    [] c.op \in {"initializeTestMethod", "printSuccess"} -> mode <= Debug
    [] c.op = "finishTestMethod" -> mode <= Debug \/ (mode <= Verbose /\ ~c.ok)
    [] c.op \in {"printFailure", "printException"} -> TRUE

\* Does a TextOutput of this mode write a line when c is called?
TextPrints(mode, c) ==
  CASE c.op = "initializeSuite" -> mode <= Verbose
    [] c.op = "finishSuite" -> mode <= Verbose \/ c.num # numTests
    [] c.op \in {"initializeTestMethod", "printSuccess"} -> mode <= Debug
    [] c.op = "finishTestMethod" -> mode <= Debug \/ (mode <= Verbose /\ ~c.ok)
    [] c.op \in {"printFailure", "printException"} -> TRUE

\* What the line says: a failure, an exception, "errors!" or n of m successful.
SaysFailure(c) ==
  \/ c.op \in {"printFailure", "printException"}
  \/ c.op = "finishTestMethod" /\ ~c.ok
  \/ c.op = "finishSuite" /\ c.num # numTests

\* MUTANT: exceptions are not coloured.
ConsoleIsRed_NoException(c) ==
  \/ c.op = "printFailure"
  \/ c.op = "finishTestMethod" /\ ~c.ok
  \/ c.op = "finishSuite" /\ c.num # numTests

\* ConsoleOutput writes errorColor before the line and resetColors after it.
ConsoleIsRed(c) ==
  \/ c.op \in {"printFailure", "printException"}
  \/ c.op = "finishTestMethod" /\ ~c.ok
  \/ c.op = "finishSuite" /\ c.num # numTests

\* CompilerOutput prints failures, and exceptions as failures, and no more.
CompilerPrints(c) == c.op \in {"printFailure", "printException"}

Tells(p, c) ==
  CASE p.class = "TextOutput" -> TextPrints(p.mode, c) /\ SaysFailure(c)
    [] p.class = "ConsoleOutput" ->
         TextPrints(p.mode, c) /\ SaysFailure(c) /\ ConsoleIsRed(c)
    [] p.class = "CompilerOutput" -> CompilerPrints(c)

Announces(c) == c.op \in {"initializeSuite", "initializeTestMethod"}

TInit == BInit /\ told = [t \in Thread |-> {}]

\* The call returns once every output has printed what it has to say.
TCallReturns(t) ==
  /\ CallReturns(t) /\ UNCHANGED story
  /\ told' = [told EXCEPT ![t] =
       IF Announces(call[t]) THEN {} ELSE @ \cup {p \in Printer : Tells(p, call[t])}]

TStep(t) == (ScenarioStep(t) \/ OtherStep(t)) /\ UNCHANGED told

TNext ==
  \/ Finished /\ UNCHANGED <<story, told>>
  \/ \E t \in Thread : TStep(t) \/ TCallReturns(t)

\* Every thread is scheduled, and hooks and bodies come to an end.
TFairness == \A t \in Thread : WF_tvars(TStep(t) \/ TCallReturns(t))

TSpec == TInit /\ [][TNext]_tvars
TFairSpec == TSpec /\ TFairness

-----------------------------------------------------------------------------
\* Whatever the mode, a reader of any of the outputs can tell the verdict of a
\* method when it is counted: a failed method has made every output print a
\* failure since it was announced (a red one on the console), a successful one
\* has not made any output do so.
VerdictIsTold ==
  \A t \in Thread : At(t, "counted") =>
    told[t] = IF succeeded[Current(t)] THEN {} ELSE Printer

\* A suite that is reported with fewer successful methods than it has makes
\* every text and console output, also a terse one, tell so, even when nothing
\* was printed because before() or setup() declined.  (CompilerOutput prints
\* failures only and is silent about those.)
SuitesAreTold ==
  \A t \in Thread : At(t, "subs") /\ positive[Current(t)] # numTests =>
    {p \in Printer : p.class # "CompilerOutput"} \subseteq told[t]
==============================================================================
