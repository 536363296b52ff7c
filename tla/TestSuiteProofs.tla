--------------------------- MODULE TestSuiteProofs ---------------------------
(***************************************************************************)
(* Proofs about module TestSuite, for every tree of suites, every list of  *)
(* selected methods and every behaviour of the hooks and bodies.           *)
(***************************************************************************)
EXTENDS TestSuite, TLAPS

\* A thread that calls the Output is running a suite.
CallersRun == \A t \in Thread : call[t] # NoCall => pending[t] # <<>>

SuiteInv == TypeOK /\ CallersRun

\* The constants and derived values have the types one expects.
LEMMA ConstantTypes ==
  /\ Root \in Thread /\ Thread \subseteq Suite
  /\ numTests \in Nat
  /\ NoCall \in OutputCall
<1>1. Root \in Thread
  BY DEF Thread
<1>2. Thread \subseteq Suite
  BY SuiteAssumption DEF Thread
<1>3. numTests \in Nat
  BY SuiteAssumption DEF numTests, filterTests
<1>4. NoCall \in OutputCall
  BY DEF NoCall, OutputCall, PC, SuitePC
<1> QED BY <1>1, <1>2, <1>3, <1>4

\* The initial state.
LEMMA InitSuiteInv == Init => SuiteInv
<1> SUFFICES ASSUME Init PROVE SuiteInv
  OBVIOUS
<1> USE ConstantTypes
<1>1. pending \in [Thread -> Seq(Suite)] /\ pc \in [Thread -> PC]
  BY SuiteAssumption DEF Init, PC, SuitePC
<1>2. /\ next \in [Thread -> Nat \ {0}] /\ asserts \in [Thread -> Nat]
      /\ thrown \in [Thread -> BOOLEAN] /\ positive \in [Suite -> Nat]
      /\ succeeded \in [Suite -> BOOLEAN] /\ call \in [Thread -> OutputCall]
      /\ continueAfterFail \in BOOLEAN
  BY SuiteAssumption DEF Init
<1>3. \A t \in Thread : pc[t] \in {"idle", "returned"} <=> pending[t] = <<>>
  BY DEF Init
<1>4. CallersRun
  BY DEF Init, CallersRun
<1> QED BY <1>1, <1>2, <1>3, <1>4 DEF SuiteInv, TypeOK

\* The variables whose types no other variable bears on.
PlainTypes ==
  /\ next \in [Thread -> Nat \ {0}]
  /\ asserts \in [Thread -> Nat]
  /\ thrown \in [Thread -> BOOLEAN]
  /\ positive \in [Suite -> Nat]
  /\ succeeded \in [Suite -> BOOLEAN]
  /\ continueAfterFail \in BOOLEAN

Active(t) == pc[t] \notin {"idle", "returned"}
ActivePC == PC \ {"idle", "returned"}

\* A running thread has a suite at hand.
LEMMA ActiveRuns ==
  ASSUME SuiteInv, NEW t \in Thread, Active(t)
  PROVE  pending[t] # <<>> /\ pending[t] \in Seq(Suite) /\ Current(t) \in Suite
BY DEF SuiteInv, TypeOK, Active, Current

\* A step of a running thread that stays on its suite.
LEMMA StayInv ==
  ASSUME SuiteInv, NEW t \in Thread, Active(t), PlainTypes',
         pending' = pending,
         pc' = pc \/ \E p \in ActivePC : Goto(t, p),
         call' = call \/ \E c \in OutputCall : call' = [call EXCEPT ![t] = c]
  PROVE  SuiteInv'
<1>1. pc' \in [Thread -> PC]
  BY DEF SuiteInv, TypeOK, Goto, ActivePC
<1>2. call' \in [Thread -> OutputCall]
  BY DEF SuiteInv, TypeOK
<1>3. \A u \in Thread : pc'[u] \in {"idle", "returned"} <=> pending'[u] = <<>>
  BY DEF SuiteInv, TypeOK, Goto, ActivePC, Active
<1>4. CallersRun'
  <2> SUFFICES ASSUME NEW u \in Thread, call'[u] # NoCall PROVE pending'[u] # <<>>
    BY DEF CallersRun
  <2>1. CASE u = t
    BY <2>1, ActiveRuns
  <2>2. CASE u # t
    BY <2>2 DEF SuiteInv, TypeOK, CallersRun
  <2> QED BY <2>1, <2>2
<1> QED BY <1>1, <1>2, <1>3, <1>4 DEF SuiteInv, TypeOK, PlainTypes

\* The same for a step that issues a call.
LEMMA IssueInv ==
  ASSUME SuiteInv, NEW t \in Thread, Active(t), PlainTypes',
         pending' = pending,
         pc' = pc \/ \E p \in ActivePC : Goto(t, p),
         NEW op \in OutputOp, NEW num \in Nat, NEW ok \in BOOLEAN,
         NEW then \in ActivePC, Issue(t, op, num, ok, then)
  PROVE  SuiteInv'
<1>1. [op |-> op, num |-> num, ok |-> ok, then |-> then] \in OutputCall
  BY DEF OutputCall, ActivePC
<1> QED BY <1>1, StayInv DEF Issue

\* The same for an assertion.
LEMMA ReportInv ==
  ASSUME SuiteInv, NEW t \in Thread, Active(t), succeeded' \in [Suite -> BOOLEAN],
         NEW op \in OutputOp, NEW then \in ActivePC, Report(t, op, then)
  PROVE  SuiteInv'
<1>1. PlainTypes'
  BY DEF PlainTypes, SuiteInv, TypeOK, Report
<1>2. Issue(t, op, 0, op = "printSuccess", then) /\ pending' = pending /\ pc' = pc
  BY DEF Report
<1> QED BY <1>1, <1>2, IssueInv

\* A step that takes the finished suite off the worklist.
LEMMA FinishHeadInv ==
  ASSUME SuiteInv, NEW t \in Thread, Active(t), NEW more \in Seq(Suite),
         FinishHead(t, more), call[t] = NoCall,
         UNCHANGED <<asserts, thrown, members, call>>, next' = next
  PROVE  SuiteInv'
<1> DEFINE rest == more \o Tail(pending[t])
<1>1. rest \in Seq(Suite)
  BY ActiveRuns
<1>2. pending' = [pending EXCEPT ![t] = rest] /\ pending' \in [Thread -> Seq(Suite)]
  BY <1>1 DEF FinishHead, SuiteInv, TypeOK
<1>3. /\ pc' = [pc EXCEPT ![t] = IF rest = <<>> THEN "returned" ELSE "run"]
      /\ pc' \in [Thread -> PC]
  BY DEF FinishHead, Goto, SuiteInv, TypeOK, PC, SuitePC
<1>4. \A u \in Thread : pc'[u] \in {"idle", "returned"} <=> pending'[u] = <<>>
  BY <1>2, <1>3 DEF SuiteInv, TypeOK
<1>5. CallersRun'
  BY <1>2 DEF SuiteInv, TypeOK, CallersRun
<1> QED BY <1>2, <1>3, <1>4, <1>5 DEF SuiteInv, TypeOK, members

\* Every step of user code keeps the types.
LEMMA UserCodeInv ==
  ASSUME SuiteInv, NEW t \in Thread, UserCode(t)
  PROVE  SuiteInv'
<1> USE DEF PC, SuitePC, ParallelPC, UserPlace, OutputOp, ActivePC
<1>0. Active(t)
  BY DEF UserCode, AssertHolds, AssertFails, Aborts, ExpectThrowFails, MacroCatches,
         BodyThrows, HookThrows, InUserCode, At, Active
<1>1. Current(t) \in Suite
  BY <1>0, ActiveRuns
<1>2. ASSUME succeeded' = [succeeded EXCEPT ![Current(t)] = FALSE] \/ UNCHANGED succeeded
      PROVE  succeeded' \in [Suite -> BOOLEAN]
  BY <1>2 DEF SuiteInv, TypeOK
<1>3. pc[t] \in UserPlace => WhereFailureGoesOn(pc[t]) \in ActivePC
  BY DEF WhereFailureGoesOn
<1>4. CASE AssertHolds(t)
  BY <1>0, <1>2, <1>4, ReportInv DEF AssertHolds, InUserCode
<1>5. CASE AssertFails(t)
  BY <1>0, <1>2, <1>3, <1>5, ReportInv DEF AssertFails, InUserCode
<1>6. CASE Aborts(t)
  <2>1. PICK then \in ActivePC : Report(t, "printFailure", then)
    BY <1>6 DEF Aborts, WhereAbortGoesOn, InUserCode
  <2> QED BY <1>0, <1>2, <1>6, <2>1, ReportInv DEF Aborts
<1>7. CASE ExpectThrowFails(t)
  <2>1. PICK then \in ActivePC : Report(t, "printFailure", then)
    BY <1>7 DEF ExpectThrowFails
  <2> QED BY <1>0, <1>2, <1>7, <2>1, ReportInv DEF ExpectThrowFails
<1>8. CASE MacroCatches(t)
  <2>1. WhereFailureGoesOn("body") \in ActivePC
    BY DEF WhereFailureGoesOn
  <2>2. PICK op \in OutputOp, then \in ActivePC : Report(t, op, then)
    BY <1>8, <2>1 DEF MacroCatches
  <2> QED BY <1>0, <1>2, <1>8, <2>2, ReportInv DEF MacroCatches
<1>9. CASE BodyThrows(t)
  <2>1. PlainTypes'
    BY <1>2, <1>9 DEF BodyThrows, PlainTypes, SuiteInv, TypeOK
  <2>2. /\ pending' = pending /\ Goto(t, "catch")
        /\ Issue(t, "printException", 0, FALSE, "after")
    BY <1>9 DEF BodyThrows
  <2> QED BY <1>0, <2>1, <2>2, IssueInv
<1>10. CASE HookThrows(t)
  <2>1. PlainTypes'
    BY <1>10 DEF HookThrows, PlainTypes, SuiteInv, TypeOK, locals, members
  <2>2. pending' = pending /\ Goto(t, "unwound") /\ call' = call
    BY <1>10 DEF HookThrows, locals
  <2> QED BY <1>0, <2>1, <2>2, StayInv
<1> QED BY <1>4, <1>5, <1>6, <1>7, <1>8, <1>9, <1>10 DEF UserCode

\* Every step of a suite's own keeps the types.
LEMMA SuiteStepInv ==
  ASSUME SuiteInv, NEW t \in Thread, SuiteStep(t)
  PROVE  SuiteInv'
<1> USE DEF PC, SuitePC, ParallelPC, UserPlace, OutputOp, ActivePC
<1>0. CASE UserCode(t)
  BY <1>0, UserCodeInv
<1>a. ASSUME ~UserCode(t)
      PROVE  Active(t) /\ call[t] = NoCall
  BY <1>a DEF SuiteStep, StartRun, SetupReturns, StartMethod, BeforeReturns,
     BodyReturns, AfterReturns, CountMethod, EndLoop, TearDownReturns, RunSubSuites,
     At, Active
<1>b. ASSUME Active(t)
      PROVE  Current(t) \in Suite /\ positive[Current(t)] \in Nat
                                  /\ succeeded[Current(t)] \in BOOLEAN
  BY <1>b, ActiveRuns DEF SuiteInv, TypeOK
<1>1. CASE ~UserCode(t) /\ StartRun(t)
  <2>1. PlainTypes' /\ pending' = pending /\ pc' = pc
    BY <1>1, <1>a, <1>b DEF StartRun, PlainTypes, SuiteInv, TypeOK
  <2>2. Issue(t, "initializeSuite", numTests, FALSE, "setup")
    BY <1>1 DEF StartRun
  <2> QED BY <1>1, <1>a, <2>1, <2>2, IssueInv, ConstantTypes
<1>2. CASE ~UserCode(t) /\ SetupReturns(t)
  <2>1. PlainTypes' /\ pending' = pending
    BY <1>2 DEF SetupReturns, PlainTypes, SuiteInv, TypeOK, members
  <2>2. CASE Goto(t, "loop") /\ UNCHANGED call
    BY <1>2, <1>a, <2>1, <2>2, StayInv
  <2>3. CASE Issue(t, "finishSuite", positive[Current(t)], FALSE, "subs") /\ UNCHANGED pc
    BY <1>2, <1>a, <1>b, <2>1, <2>3, IssueInv
  <2> QED BY <1>2, <2>2, <2>3 DEF SetupReturns
<1>3. CASE ~UserCode(t) /\ StartMethod(t)
  <2>1. PlainTypes' /\ pending' = pending /\ pc' = pc
    BY <1>3 DEF StartMethod, PlainTypes, SuiteInv, TypeOK
  <2>2. Issue(t, "initializeTestMethod", 0, FALSE, "before")
    BY <1>3 DEF StartMethod
  <2> QED BY <1>3, <1>a, <2>1, <2>2, IssueInv
<1>4. CASE ~UserCode(t) /\ BeforeReturns(t)
  <2>1. PlainTypes' /\ pending' = pending /\ call' = call
    BY <1>4 DEF BeforeReturns, PlainTypes, SuiteInv, TypeOK, members
  <2>2. Goto(t, "body") \/ Goto(t, "loop")
    BY <1>4 DEF BeforeReturns
  <2> QED BY <1>4, <1>a, <2>1, <2>2, StayInv
<1>5. CASE ~UserCode(t) /\ BodyReturns(t)
  <2>1. PlainTypes' /\ pending' = pending /\ call' = call
    BY <1>5 DEF BodyReturns, PlainTypes, SuiteInv, TypeOK, members
  <2>2. Goto(t, "after")
    BY <1>5 DEF BodyReturns
  <2> QED BY <1>5, <1>a, <2>1, <2>2, StayInv
<1>6. CASE ~UserCode(t) /\ AfterReturns(t)
  <2>1. PlainTypes' /\ pending' = pending
    BY <1>6 DEF AfterReturns, PlainTypes, SuiteInv, TypeOK, members
  <2>2. CASE Goto(t, "counted") /\ UNCHANGED call
    BY <1>6, <1>a, <2>1, <2>2, StayInv
  <2>3. CASE Issue(t, "finishTestMethod", 0, succeeded[Current(t)], "counted") /\ UNCHANGED pc
    BY <1>6, <1>a, <1>b, <2>1, <2>3, IssueInv
  <2> QED BY <1>6, <2>2, <2>3 DEF AfterReturns
<1>7. CASE ~UserCode(t) /\ CountMethod(t)
  <2>1. PlainTypes' /\ pending' = pending /\ call' = call
    BY <1>7, <1>a, <1>b DEF CountMethod, PlainTypes, SuiteInv, TypeOK
  <2>2. Goto(t, "loop")
    BY <1>7 DEF CountMethod
  <2> QED BY <1>7, <1>a, <2>1, <2>2, StayInv
<1>8. CASE ~UserCode(t) /\ EndLoop(t)
  <2>1. PlainTypes' /\ pending' = pending /\ call' = call
    BY <1>8 DEF EndLoop, PlainTypes, SuiteInv, TypeOK, locals, members
  <2>2. Goto(t, "tear_down")
    BY <1>8 DEF EndLoop
  <2> QED BY <1>8, <1>a, <2>1, <2>2, StayInv
<1>9. CASE ~UserCode(t) /\ TearDownReturns(t)
  <2>1. PlainTypes' /\ pending' = pending /\ pc' = pc
    BY <1>9 DEF TearDownReturns, PlainTypes, SuiteInv, TypeOK, members
  <2>2. Issue(t, "finishSuite", positive[Current(t)], FALSE, "subs")
    BY <1>9 DEF TearDownReturns
  <2> QED BY <1>9, <1>a, <1>b, <2>1, <2>2, IssueInv
<1>10. CASE ~UserCode(t) /\ RunSubSuites(t)
  <2>1. Sub[Current(t)] \in Seq(Suite)
    BY <1>10, <1>a, <1>b, SuiteAssumption
  <2> QED BY <1>10, <1>a, <2>1, FinishHeadInv DEF RunSubSuites
<1> QED
  BY <1>0, <1>1, <1>2, <1>3, <1>4, <1>5, <1>6, <1>7, <1>8, <1>9, <1>10 DEF SuiteStep

\* So does a call that returns.
LEMMA CallReturnsInv ==
  ASSUME SuiteInv, NEW t \in Thread, CallReturns(t)
  PROVE  SuiteInv'
<1>1. Active(t) /\ call[t].then \in ActivePC
  BY DEF CallReturns, SuiteInv, TypeOK, CallersRun, Active, OutputCall, ActivePC
<1>2. PlainTypes' /\ pending' = pending
  BY DEF CallReturns, locals, members, PlainTypes, SuiteInv, TypeOK
<1>3. Goto(t, call[t].then) /\ call' = [call EXCEPT ![t] = NoCall]
  BY DEF CallReturns
<1> QED BY <1>1, <1>2, <1>3, StayInv, ConstantTypes

LEMMA NextSuiteInv == SuiteInv /\ [Next]_vars => SuiteInv'
<1> SUFFICES ASSUME SuiteInv, [Next]_vars PROVE SuiteInv'
  OBVIOUS
<1>1. CASE UNCHANGED vars
  BY <1>1 DEF SuiteInv, TypeOK, CallersRun, vars, members
<1>2. CASE Next
  BY <1>1, <1>2, SuiteStepInv, CallReturnsInv DEF Next, Finished
<1> QED BY <1>1, <1>2

LEMMA SuiteInvHolds == Spec => []SuiteInv
BY InitSuiteInv, NextSuiteInv, PTL DEF Spec

\* The members and locals of Suite::run have their types for every tree of
\* suites, and a thread has a suite at hand exactly while its run() has not
\* returned.
THEOREM TypeCorrect == Spec => []TypeOK
BY SuiteInvHolds, PTL DEF SuiteInv

-----------------------------------------------------------------------------
\* The count of successful methods.

\* A suite takes its own steps only while it runs and between two calls.
LEMMA StepsActive ==
  ASSUME NEW t \in Thread, SuiteStep(t)
  PROVE  Active(t) /\ call[t] = NoCall
BY DEF SuiteStep, UserCode, AssertHolds, AssertFails, Aborts, ExpectThrowFails,
   MacroCatches, BodyThrows, HookThrows, InUserCode, StartRun, SetupReturns,
   StartMethod, BeforeReturns, BodyReturns, AfterReturns, CountMethod, EndLoop,
   TearDownReturns, RunSubSuites, At, Active, UserPlace

\* Without ParallelSuite::run nobody starts a thread.
SoloInv == \A t \in Thread : t # Root => pc[t] = "idle"

\* Where the method at next[t] is being run.
MethodPC == {"before", "body", "handler", "catch", "after", "counted"}

\* run() of the root thread's suite has begun.
Begun == pending[Root] # <<>> /\ IsPlain(Root) /\ (pc[Root] # "run" \/ call[Root] # NoCall)

CountInv ==
  /\ call[Root].op = "finishSuite" => call[Root].num <= numTests
  /\ Begun =>
       /\ positive[Current(Root)] < next[Root]
       /\ next[Root] <= numTests + 1
       /\ \/ pc[Root] \in MethodPC
          \/ call[Root] # NoCall /\ call[Root].then \in MethodPC
          => next[Root] <= numTests

FullInv == SuiteInv /\ SoloInv /\ CountInv

LEMMA OnlyRootSteps ==
  ASSUME FullInv, NEW t \in Thread, SuiteStep(t) \/ CallReturns(t)
  PROVE  t = Root
BY StepsActive DEF FullInv, SoloInv, Active, CallReturns, SuiteInv, TypeOK, CallersRun

\* User code does not touch the counters and does not enter a method.
LEMMA UserCodeCounts ==
  ASSUME FullInv, UserCode(Root)
  PROVE  CountInv'
<1>1. call[Root] = NoCall /\ Active(Root) /\ pending[Root] # <<>>
  BY StepsActive, ConstantTypes, ActiveRuns DEF SuiteStep, FullInv
<1>2. UNCHANGED <<pending, next, positive>>
  BY DEF UserCode, AssertHolds, AssertFails, Aborts, ExpectThrowFails,
     MacroCatches, BodyThrows, HookThrows, Report, locals, members
<1>3. pc[Root] \in UserPlace \cup {"handler"}
  BY DEF UserCode, AssertHolds, AssertFails, Aborts, ExpectThrowFails,
     MacroCatches, BodyThrows, HookThrows, InUserCode, At, UserPlace
<1>4. Begun' => Begun
  BY <1>1, <1>2, <1>3 DEF Begun, IsPlain, Current, UserPlace
<1>5. ASSUME NEW op \in {"printSuccess", "printFailure"}, NEW then \in PC,
             Report(Root, op, then), then \in MethodPC => pc[Root] \in MethodPC
      PROVE  CountInv'
  BY <1>1, <1>2, <1>3, <1>4, <1>5, ConstantTypes
     DEF Report, Issue, FullInv, CountInv, SuiteInv, TypeOK, Current
<1>6. CASE AssertHolds(Root)
  BY <1>3, <1>5, <1>6 DEF AssertHolds, InUserCode, UserPlace, PC, SuitePC
<1>7. CASE AssertFails(Root)
  BY <1>3, <1>5, <1>7 DEF AssertFails, InUserCode, UserPlace, PC, SuitePC,
     WhereFailureGoesOn, MethodPC
<1>8. CASE Aborts(Root)
  <2>1. PICK then \in WhereAbortGoesOn(pc[Root]) : Report(Root, "printFailure", then)
    BY <1>8 DEF Aborts
  <2> QED BY <1>3, <1>5, <2>1 DEF WhereAbortGoesOn, UserPlace, PC, SuitePC, MethodPC
<1>9. CASE ExpectThrowFails(Root)
  BY <1>5, <1>9 DEF ExpectThrowFails, At, UserPlace, PC, SuitePC, MethodPC
<1>10. CASE MacroCatches(Root)
  BY <1>5, <1>10 DEF MacroCatches, At, UserPlace, PC, SuitePC, MethodPC, WhereFailureGoesOn
<1>11. CASE BodyThrows(Root)
  BY <1>1, <1>2, <1>4, <1>11, ConstantTypes
     DEF BodyThrows, At, Goto, Issue, FullInv, CountInv, SuiteInv, TypeOK, Current, MethodPC
<1>12. CASE HookThrows(Root)
  BY <1>1, <1>2, <1>4, <1>12, ConstantTypes
     DEF HookThrows, Goto, FullInv, CountInv, SuiteInv, TypeOK, Current, MethodPC
<1> QED
  BY <1>6, <1>7, <1>8, <1>9, <1>10, <1>11, <1>12 DEF UserCode

LEMMA SuiteStepCounts ==
  ASSUME FullInv, SuiteStep(Root)
  PROVE  CountInv'
<1>1. call[Root] = NoCall /\ Active(Root) /\ pending[Root] # <<>> /\ Current(Root) \in Suite
  BY StepsActive, ConstantTypes, ActiveRuns DEF FullInv
<1>2. /\ next[Root] \in Nat \ {0} /\ positive[Current(Root)] \in Nat /\ numTests \in Nat
  BY <1>1, ConstantTypes DEF FullInv, SuiteInv, TypeOK
<1> USE <1>1, <1>2, ConstantTypes
<1> USE DEF FullInv, CountInv, Begun, MethodPC, SuiteInv, TypeOK, At, Goto, Issue, NoCall, Current, IsPlain
<1>3. CASE UserCode(Root)
  BY <1>3, UserCodeCounts
<1>4. CASE StartRun(Root)
  BY <1>4 DEF StartRun
<1>5. CASE SetupReturns(Root)
  BY <1>5 DEF SetupReturns, members
<1>6. CASE StartMethod(Root)
  BY <1>6 DEF StartMethod
<1>7. CASE BeforeReturns(Root)
  BY <1>7 DEF BeforeReturns, members
<1>8. CASE BodyReturns(Root)
  BY <1>8 DEF BodyReturns, members
<1>9. CASE AfterReturns(Root)
  BY <1>9 DEF AfterReturns, members
<1>10. CASE CountMethod(Root)
  BY <1>10 DEF CountMethod
<1>11. CASE EndLoop(Root)
  BY <1>11 DEF EndLoop, locals, members
<1>12. CASE TearDownReturns(Root)
  BY <1>12 DEF TearDownReturns, members
<1>13. CASE RunSubSuites(Root)
  <2>1. pc'[Root] \in {"run", "returned"} /\ call' = call
    BY <1>13 DEF RunSubSuites, FinishHead
  <2>2. pc'[Root] = "returned" => pending'[Root] = <<>>
    BY <1>13 DEF RunSubSuites, FinishHead
  <2> QED BY <2>1, <2>2
<1> QED
  BY <1>3, <1>4, <1>5, <1>6, <1>7, <1>8, <1>9, <1>10, <1>11, <1>12, <1>13 DEF SuiteStep

LEMMA CallReturnsCounts ==
  ASSUME FullInv, CallReturns(Root)
  PROVE  CountInv'
<1>1. pending[Root] # <<>>
  BY ConstantTypes DEF FullInv, SuiteInv, CallersRun, CallReturns
<1> QED
  BY <1>1, ConstantTypes DEF FullInv, CountInv, Begun, MethodPC, SuiteInv, TypeOK,
     CallReturns, Goto, NoCall, Current, IsPlain, locals, members

LEMMA FullInvHolds == Spec => []FullInv
<1>1. Init => FullInv
  <2> SUFFICES ASSUME Init PROVE FullInv
    OBVIOUS
  <2>1. SuiteInv
    BY InitSuiteInv
  <2>2. SoloInv
    BY DEF SoloInv, Init
  <2>3. CountInv
    BY ConstantTypes DEF Init, CountInv, Begun, NoCall
  <2> QED BY <2>1, <2>2, <2>3 DEF FullInv
<1>2. FullInv /\ [Next]_vars => FullInv'
  <2> SUFFICES ASSUME FullInv, [Next]_vars PROVE FullInv'
    OBVIOUS
  <2>1. SuiteInv'
    BY NextSuiteInv DEF FullInv
  <2>2. CASE UNCHANGED vars
    BY <2>1, <2>2 DEF FullInv, SoloInv, CountInv, Begun, IsPlain, Current, vars, members
  <2>3. CASE SuiteStep(Root) \/ CallReturns(Root)
    <3>1. CountInv'
      BY <2>3, SuiteStepCounts, CallReturnsCounts
    <3>2. \A u \in Thread : u # Root => pc'[u] = pc[u]
      BY <2>3, ConstantTypes DEF SuiteStep, UserCode, AssertHolds, AssertFails, Aborts,
         ExpectThrowFails, MacroCatches, BodyThrows, HookThrows, Report, StartRun,
         SetupReturns, StartMethod, BeforeReturns, BodyReturns, AfterReturns,
         CountMethod, EndLoop, TearDownReturns, RunSubSuites, FinishHead,
         CallReturns, Goto, FullInv, SuiteInv, TypeOK
    <3> QED BY <2>1, <3>1, <3>2 DEF FullInv, SoloInv
  <2> QED BY <2>2, <2>3, OnlyRootSteps DEF Next, Finished
<1> QED BY <1>1, <1>2, PTL DEF Spec

\* finishSuite is never called with more successful methods than methods, for
\* every tree of suites, also one in which a suite is run several times: the
\* unsigned numTests - numPositiveTests of the outputs does not wrap.
THEOREM CountsInRange == Spec => []CountInRange
<1>1. FullInv => CountInRange
  <2> SUFFICES ASSUME FullInv, NEW t \in Thread, call[t].op = "finishSuite"
               PROVE  call[t].num <= numTests
    BY DEF CountInRange
  <2>1. call[t] # NoCall
    BY DEF NoCall
  <2>2. t = Root
    BY <2>1 DEF FullInv, SoloInv, SuiteInv, CallersRun, TypeOK
  <2> QED BY <2>2 DEF FullInv, CountInv
<1> QED BY <1>1, FullInvHolds, PTL

-----------------------------------------------------------------------------
\* A failed assertion ends the body.

\* A body is entered, and returned to, with an untouched verdict only.
FailInv ==
  ~continueAfterFail /\ ~NestedAborts /\ "before" \notin AssertsIn =>
    /\ At(Root, "body") => succeeded[Current(Root)]
    /\ pc[Root] = "before" => succeeded[Current(Root)]
    /\ call[Root] # NoCall /\ call[Root].then \in {"before", "body"} =>
         succeeded[Current(Root)]

\* No step changes what a failed assertion does.
LEMMA ModeKept ==
  ASSUME NEW t \in Thread, SuiteStep(t)
  PROVE  continueAfterFail' = continueAfterFail
BY DEF SuiteStep, UserCode, AssertHolds, AssertFails, Aborts, ExpectThrowFails,
   MacroCatches, BodyThrows, HookThrows, Report, StartRun, SetupReturns, StartMethod,
   BeforeReturns, BodyReturns, AfterReturns, CountMethod, EndLoop, TearDownReturns,
   RunSubSuites, members

LEMMA SuiteStepFails ==
  ASSUME "TEST_THROWS_ANYTHING" \notin ThrowMacros, FullInv, FailInv, SuiteStep(Root)
  PROVE  FailInv'
<1> SUFFICES ASSUME ~continueAfterFail, ~NestedAborts, "before" \notin AssertsIn
             PROVE  FailInv'
  BY ModeKept, ConstantTypes DEF FailInv
<1>1. call[Root] = NoCall /\ pending[Root] # <<>> /\ Current(Root) \in Suite
  BY StepsActive, ConstantTypes, ActiveRuns DEF FullInv
<1> USE <1>1, ConstantTypes
<1> USE DEF FullInv, FailInv, SuiteInv, TypeOK, At, Goto, Issue, NoCall, Current
<1>2. CASE AssertHolds(Root)
  BY <1>2 DEF AssertHolds, InUserCode, MayAssert, Report, UserPlace
<1>3. CASE AssertFails(Root)
  BY <1>3 DEF AssertFails, InUserCode, MayAssert, Report, UserPlace, WhereFailureGoesOn
<1>4. CASE Aborts(Root)
  BY <1>4 DEF Aborts, WhereAbortGoesOn, InUserCode, MayAssert, Report, UserPlace
<1>5. CASE ExpectThrowFails(Root) \/ MacroCatches(Root)
  <2>1. ThrowMacros \subseteq {"TEST_THROWS"}
    BY SuiteAssumption
  <2> QED
    BY <1>5, <2>1 DEF ExpectThrowFails, MacroCatches, Report, WhereFailureGoesOn
<1>6. CASE BodyThrows(Root) \/ HookThrows(Root)
  BY <1>6 DEF BodyThrows, HookThrows, locals, members
<1>7. CASE StartRun(Root) \/ SetupReturns(Root)
  BY <1>7 DEF StartRun, SetupReturns, members
<1>8. CASE StartMethod(Root) \/ BeforeReturns(Root)
  BY <1>8 DEF StartMethod, BeforeReturns, members
<1>9. CASE BodyReturns(Root) \/ AfterReturns(Root) \/ CountMethod(Root)
  BY <1>9 DEF BodyReturns, AfterReturns, CountMethod, members
<1>10. CASE EndLoop(Root) \/ TearDownReturns(Root)
  BY <1>10 DEF EndLoop, TearDownReturns, locals, members
<1>11. CASE RunSubSuites(Root)
  BY <1>11 DEF RunSubSuites, FinishHead, members
<1> QED
  BY <1>2, <1>3, <1>4, <1>5, <1>6, <1>7, <1>8, <1>9, <1>10, <1>11 DEF SuiteStep, UserCode

\* With continueOnError = false a body runs no further once one of its
\* assertions has failed, in every tree of suites, as long as no body uses
\* TEST_THROWS_ANYTHING, whose handler takes the failure for what it expected,
\* or its like: TEST_THROWS with std::exception or std::runtime_error.
THEOREM FailuresEndBodies ==
  ASSUME "TEST_THROWS_ANYTHING" \notin ThrowMacros
  PROVE  Spec => []FailureEndsBody
<1>1. Init => FailInv
  BY ConstantTypes DEF Init, FailInv, NoCall, At
<1>2. FullInv /\ FailInv /\ [Next]_vars => FailInv'
  <2> SUFFICES ASSUME FullInv, FailInv, [Next]_vars PROVE FailInv'
    OBVIOUS
  <2>1. CASE UNCHANGED vars
    BY <2>1 DEF FailInv, At, Current, vars, members
  <2>2. CASE SuiteStep(Root)
    BY <2>2, SuiteStepFails
  <2>3. CASE CallReturns(Root)
    BY <2>3, ConstantTypes DEF FullInv, FailInv, SuiteInv, TypeOK, CallReturns, Goto,
       NoCall, At, Current, locals, members
  <2> QED BY <2>1, <2>2, <2>3, OnlyRootSteps DEF Next, Finished
<1>3. FullInv /\ FailInv => FailureEndsBody
  BY DEF FullInv, SoloInv, FailInv, FailureEndsBody, At
<1> QED BY <1>1, <1>2, <1>3, FullInvHolds, PTL DEF Spec

==============================================================================
