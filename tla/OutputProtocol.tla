--------------------------- MODULE OutputProtocol ---------------------------
(***************************************************************************)
(* What the suites promise to an Output (include/Output.h), whatever       *)
(* threads they run on: its member functions are never entered by two      *)
(* threads at once, and each thread calls them in the order                *)
(*                                                                         *)
(*   initializeSuite                                                       *)
(*     ( initializeTestMethod  printSuccess | printFailure ...             *)
(*       ( finishTestMethod | printException | nothing: before() declined  *)
(*       ) ) ...                                                           *)
(*   finishSuite                                                           *)
(*                                                                         *)
(* printSuccess and printFailure may also come between methods (from the   *)
(* hooks), and an exception may end the sequence anywhere, for good.       *)
(***************************************************************************)
CONSTANT Thread

VARIABLES
  calling,  \* the member function a thread is executing, "none" outside
  phase     \* how far the thread has told its story

vars == <<calling, phase>>

Reports == {"printSuccess", "printFailure"}
Op == Reports \cup {"initializeSuite", "finishSuite", "initializeTestMethod",
                    "finishTestMethod", "printException"}
Phase == {"outside", "suite", "method", "aborted"}

\* The phases a member function may be called in, and the one it leads to.
Legal(op, ph) ==
  \/ op = "initializeSuite" /\ ph = "outside"
  \/ op \in {"initializeTestMethod", "finishSuite"} /\ ph = "suite"
  \/ op \in {"finishTestMethod", "printException"} /\ ph = "method"
  \/ op \in Reports /\ ph \in {"suite", "method"}

After(op, ph) ==
  CASE op \in {"initializeSuite", "finishTestMethod", "printException"} -> "suite"
    [] op = "initializeTestMethod" -> "method"
    [] op = "finishSuite" -> "outside"
    [] OTHER -> ph

Init ==
  /\ calling = [t \in Thread |-> "none"]
  /\ phase = [t \in Thread |-> "outside"]

Call(t, op) ==
  /\ \A u \in Thread : calling[u] = "none"
  /\ Legal(op, phase[t])
  /\ calling' = [calling EXCEPT ![t] = op]
  /\ UNCHANGED phase

\* The call returns; a report may be that of an assertion that throws.
Return(t) ==
  /\ calling[t] # "none"
  /\ calling' = [calling EXCEPT ![t] = "none"]
  /\ \/ phase' = [phase EXCEPT ![t] = After(calling[t], phase[t])]
     \/ calling[t] \in Reports /\ phase' = [phase EXCEPT ![t] = "aborted"]

\* before() declined: the method is over and nobody tells the Output.
Skip(t) ==
  /\ calling[t] = "none" /\ phase[t] = "method"
  /\ phase' = [phase EXCEPT ![t] = "suite"]
  /\ UNCHANGED calling

\* An exception leaves run().
Abort(t) ==
  /\ calling[t] = "none"
  /\ phase' = [phase EXCEPT ![t] = "aborted"]
  /\ UNCHANGED calling

Next == \E t \in Thread :
  Return(t) \/ Skip(t) \/ Abort(t) \/ \E op \in Op : Call(t, op)

Spec == Init /\ [][Next]_vars
=============================================================================
