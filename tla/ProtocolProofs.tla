---------------------------- MODULE ProtocolProofs ----------------------------
(***************************************************************************)
(* Proofs that the suites implement OutputProtocol: plain ones on one      *)
(* thread, and trees with ParallelSuites seen from the real Output.        *)
(***************************************************************************)
EXTENDS ParallelSuiteProofs

\* PhaseOf for given values of the locals it looks at.
PhaseAt(p, th) ==
  CASE p \in {"before", "body", "handler", "catch"} -> "method"
    [] p = "after" -> IF th THEN "suite" ELSE "method"
    [] p \in {"setup", "loop", "counted", "tear_down", "warn"} -> "suite"
    [] p \in {"unwinding", "unwound"} -> "aborted"
    [] OTHER -> "outside"

LEMMA PhaseOfIsAt ==
  ASSUME NEW t
  PROVE  PhaseOf(t) = PhaseAt(pc[t], thrown[t]) /\ PhaseOf(t)' = PhaseAt(pc'[t], thrown'[t])
BY DEF PhaseOf, PhaseAt

\* A call is legal where it is made, and goes on where the protocol says it
\* leads; exceptionThrown is not set before the body has thrown.
Unthrown == {"before", "body", "handler"}
Reports == {"printSuccess", "printFailure"}
Leads(c, ph, th) ==
  \/ PhaseAt(c.then, th) = Protocol!After(c.op, ph)
  \/ c.op \in Reports /\ c.then = "unwound"
StoryOK(t) ==
  /\ pc[t] \in Unthrown => ~thrown[t]
  /\ call[t] # NoCall =>
       /\ call[t].op \in OutputOp
       /\ Protocol!Legal(call[t].op, PhaseAt(pc[t], thrown[t]))
       /\ Leads(call[t], PhaseAt(pc[t], thrown[t]), thrown[t])
       /\ call[t].then \in Unthrown => ~thrown[t]

\* What a thread's own step may do to its story: calls are made without going
\* on, and between calls only a declining before() or an exception tells.
StoryStep(t) ==
  /\ StoryOK(t)'
  /\ \A u \in Thread \ {t} : thrown'[u] = thrown[u]
  /\ LET old == PhaseAt(pc[t], thrown[t])
         new == PhaseAt(pc'[t], thrown'[t])
     IN  \/ new = old
         \/ call'[t] = NoCall /\ old = "method" /\ new = "suite"
         \/ call'[t] = NoCall /\ new = "aborted"

\* A step that makes a call.
LEMMA IssueStory ==
  ASSUME SuiteInv, NEW t \in Thread, NEW op \in OutputOp, NEW num, NEW ok, NEW then,
         Issue(t, op, num, ok, then),
         NEW th \in BOOLEAN, thrown' = [thrown EXCEPT ![t] = th],
         NEW p, pc'[t] = p, p \in Unthrown => ~th, then \in Unthrown => ~th,
         PhaseAt(p, th) = PhaseAt(pc[t], thrown[t]),
         Protocol!Legal(op, PhaseAt(p, th)),
         \/ PhaseAt(then, th) = Protocol!After(op, PhaseAt(p, th))
         \/ op \in Reports /\ then = "unwound"
  PROVE  StoryStep(t)
<1>1. thrown'[t] = th /\ \A u \in Thread \ {t} : thrown'[u] = thrown[u]
  BY DEF SuiteInv, TypeOK
<1>2. call'[t] = [op |-> op, num |-> num, ok |-> ok, then |-> then]
  BY DEF Issue, SuiteInv, TypeOK
<1>3. call'[t].op = op /\ call'[t].then = then
  BY <1>2
<1>4. StoryOK(t)'
  BY <1>1, <1>3 DEF StoryOK, Leads
<1> QED BY <1>1, <1>4 DEF StoryStep

\* A step between two calls.
LEMMA MoveStory ==
  ASSUME SuiteInv, NEW t \in Thread, NEW p, Goto(t, p), call[t] = NoCall, call' = call,
         thrown' = thrown, p \in Unthrown => ~thrown[t],
         \/ PhaseAt(p, thrown[t]) = PhaseAt(pc[t], thrown[t])
         \/ PhaseAt(pc[t], thrown[t]) = "method" /\ PhaseAt(p, thrown[t]) = "suite"
         \/ PhaseAt(p, thrown[t]) = "aborted"
  PROVE  StoryStep(t)
<1>1. pc'[t] = p /\ call'[t] = NoCall
  BY DEF Goto, SuiteInv, TypeOK
<1> QED BY <1>1 DEF StoryOK, StoryStep

-----------------------------------------------------------------------------
\* The steps of Suite::run.

LEMMA ReportStory ==
  ASSUME SuiteInv, NEW t \in Thread, StoryOK(t), NEW op \in Reports, NEW then,
         Report(t, op, then), pc[t] \in UserPlace \cup {"handler"},
         \/ then = pc[t]
         \/ then = "unwound"
         \/ pc[t] \in {"body", "handler"} /\ then \in {"body", "handler", "after"}
  PROVE  StoryStep(t)
<1>1. thrown \in [Thread -> BOOLEAN] /\ op \in OutputOp
  BY DEF SuiteInv, TypeOK, Reports, OutputOp
<1>2. Issue(t, op, 0, op = "printSuccess", then) /\ pc'[t] = pc[t]
  BY DEF Report
<1>3. thrown' = [thrown EXCEPT ![t] = thrown[t]] /\ thrown[t] \in BOOLEAN
  BY <1>1 DEF Report
<1>4. pc[t] \in Unthrown => ~thrown[t]
  BY DEF StoryOK
<1>5. then \in Unthrown => ~thrown[t]
  BY <1>4 DEF Unthrown
<1>6. Protocol!Legal(op, PhaseAt(pc[t], thrown[t]))
  BY DEF Protocol!Legal, Protocol!Reports, Reports, PhaseAt, UserPlace
<1>7. \/ PhaseAt(then, thrown[t]) = Protocol!After(op, PhaseAt(pc[t], thrown[t]))
      \/ op \in Reports /\ then = "unwound"
  BY <1>4 DEF Protocol!After, Reports, PhaseAt, UserPlace, Unthrown
<1> QED BY <1>1, <1>2, <1>3, <1>4, <1>5, <1>6, <1>7, IssueStory

LEMMA UserCodeStory ==
  ASSUME SuiteInv, NEW t \in Thread, StoryOK(t), UserCode(t)
  PROVE  StoryStep(t)
<1>1. pc[t] \in UserPlace \cup {"handler"} /\ call[t] = NoCall
  BY UserCodeEffect
<1>2. thrown \in [Thread -> BOOLEAN] /\ call \in [Thread -> OutputCall]
  BY DEF SuiteInv, TypeOK
<1>3. pc[t] \in Unthrown => ~thrown[t]
  BY DEF StoryOK
<1> USE DEF Reports, Unthrown, UserPlace
<1>4. CASE AssertHolds(t)
  BY <1>1, <1>4, ReportStory DEF AssertHolds
<1>5. CASE AssertFails(t)
  BY <1>1, <1>5, ReportStory DEF AssertFails, WhereFailureGoesOn
<1>6. CASE Aborts(t)
  <2>1. PICK then \in WhereAbortGoesOn(pc[t]) : Report(t, "printFailure", then)
    BY <1>6 DEF Aborts
  <2> QED BY <1>1, <2>1, ReportStory DEF WhereAbortGoesOn
<1>7. CASE ExpectThrowFails(t)
  BY <1>1, <1>7, ReportStory DEF ExpectThrowFails, At
<1>8. CASE MacroCatches(t)
  <2>1. /\ pc[t] = "handler"
        /\ \/ Report(t, "printFailure", WhereFailureGoesOn("body"))
           \/ Report(t, "printSuccess", "body")
    BY <1>8 DEF MacroCatches, At
  <2>2. WhereFailureGoesOn("body") \in {"body", "after"}
    BY DEF WhereFailureGoesOn
  <2>3. CASE Report(t, "printFailure", WhereFailureGoesOn("body"))
    BY <1>1, <2>1, <2>2, <2>3, ReportStory
  <2>4. CASE Report(t, "printSuccess", "body")
    BY <1>1, <2>1, <2>4, ReportStory
  <2> QED BY <2>1, <2>3, <2>4
<1>9. CASE BodyThrows(t)
  <2>1. PICK th \in BOOLEAN : th = TRUE
    OBVIOUS
  <2>2. /\ pc[t] = "body" /\ pc'[t] = "catch" /\ thrown' = [thrown EXCEPT ![t] = th]
        /\ Issue(t, "printException", 0, FALSE, "after")
    BY <1>9, <2>1 DEF BodyThrows, At, Goto, SuiteInv, TypeOK
  <2>3. /\ PhaseAt("catch", th) = "method" /\ PhaseAt(pc[t], thrown[t]) = "method"
        /\ PhaseAt("after", th) = "suite"
    BY <2>1, <2>2 DEF PhaseAt
  <2>4. Protocol!Legal("printException", "method")
        /\ Protocol!After("printException", "method") = "suite"
    BY DEF Protocol!Legal, Protocol!After
  <2>5. /\ "printException" \in OutputOp /\ "catch" \notin Unthrown
        /\ "after" \notin Unthrown
    BY DEF OutputOp
  <2> HIDE DEF Reports, Unthrown, UserPlace
  <2> QED BY <2>2, <2>3, <2>4, <2>5, IssueStory
<1>10. CASE HookThrows(t)
  <2>1. Goto(t, "unwound") /\ call' = call /\ thrown' = thrown
    BY <1>10 DEF HookThrows, locals
  <2>2. PhaseAt("unwound", thrown[t]) = "aborted"
    BY DEF PhaseAt
  <2> QED BY <1>1, <2>1, <2>2, MoveStory
<1> QED BY <1>4, <1>5, <1>6, <1>7, <1>8, <1>9, <1>10 DEF UserCode

LEMMA SuiteStepStory ==
  ASSUME SuiteInv, NEW t \in Thread, StoryOK(t), SuiteStep(t)
  PROVE  StoryStep(t)
<1>1. call[t] = NoCall
  BY SuiteStepEffect
<1>2. thrown \in [Thread -> BOOLEAN] /\ thrown[t] \in BOOLEAN /\ pc \in [Thread -> PC]
  BY DEF SuiteInv, TypeOK
<1>3. pc[t] \in Unthrown => ~thrown[t]
  BY DEF StoryOK
<1>4. CASE UserCode(t)
  BY <1>4, UserCodeStory
<1> USE DEF Unthrown, At
<1>5. ASSUME NEW op \in OutputOp, NEW num, NEW ok, NEW then, Issue(t, op, num, ok, then),
             pc'[t] = pc[t], thrown' = thrown, then \notin Unthrown,
             Protocol!Legal(op, PhaseAt(pc[t], thrown[t])),
             PhaseAt(then, thrown[t]) = Protocol!After(op, PhaseAt(pc[t], thrown[t]))
      PROVE  StoryStep(t)
  <2>1. thrown' = [thrown EXCEPT ![t] = thrown[t]]
    BY <1>2, <1>5
  <2> QED BY <1>2, <1>3, <1>5, <2>1, IssueStory
<1> USE DEF OutputOp, Protocol!Legal, Protocol!After, PhaseAt
<1>6. CASE StartRun(t)
  BY <1>5, <1>6 DEF StartRun
<1>a. ASSUME NEW num, Issue(t, "finishSuite", num, FALSE, "subs"), pc' = pc, thrown' = thrown,
             pc[t] \in {"setup", "tear_down"}
      PROVE  StoryStep(t)
  BY <1>5, <1>a
<1>7. CASE SetupReturns(t)
  <2>1. CASE Goto(t, "loop") /\ UNCHANGED call
    BY <1>1, <1>7, <2>1, MoveStory DEF SetupReturns
  <2>2. CASE Issue(t, "finishSuite", positive[Current(t)], FALSE, "subs") /\ UNCHANGED pc
    BY <1>a, <1>7, <2>2 DEF SetupReturns
  <2> QED BY <1>7, <2>1, <2>2 DEF SetupReturns
<1>8. CASE StartMethod(t)
  <2>1. /\ pc[t] = "loop" /\ pc' = pc /\ thrown' = [thrown EXCEPT ![t] = FALSE]
        /\ Issue(t, "initializeTestMethod", 0, FALSE, "before")
    BY <1>8 DEF StartMethod
  <2>2. /\ PhaseAt("loop", FALSE) = "suite" /\ PhaseAt("loop", thrown[t]) = "suite"
        /\ PhaseAt("before", FALSE) = "method"
    OBVIOUS
  <2>3. /\ Protocol!Legal("initializeTestMethod", "suite")
        /\ Protocol!After("initializeTestMethod", "suite") = "method"
        /\ "initializeTestMethod" \in OutputOp
    OBVIOUS
  <2> HIDE DEF PhaseAt, Protocol!Legal, Protocol!After, OutputOp
  <2> QED BY <1>2, <2>1, <2>2, <2>3, IssueStory
<1>9. CASE BeforeReturns(t)
  BY <1>1, <1>3, <1>9, MoveStory DEF BeforeReturns
<1>10. CASE BodyReturns(t)
  BY <1>1, <1>3, <1>10, MoveStory DEF BodyReturns
<1>11. CASE AfterReturns(t)
  <2>1. CASE thrown[t]
    BY <1>1, <1>11, <2>1, MoveStory DEF AfterReturns
  <2>2. CASE ~thrown[t]
    BY <1>5, <1>11, <2>2 DEF AfterReturns
  <2> QED BY <2>1, <2>2
<1>12. CASE CountMethod(t)
  BY <1>1, <1>12, MoveStory DEF CountMethod
<1>13. CASE EndLoop(t)
  BY <1>1, <1>13, MoveStory DEF EndLoop, locals
<1>14. CASE TearDownReturns(t)
  BY <1>a, <1>14 DEF TearDownReturns
<1>15. CASE RunSubSuites(t)
  <2>1. \E p \in {"run", "returned"} : Goto(t, p)
    BY <1>15 DEF RunSubSuites, FinishHead
  <2> QED BY <1>1, <1>15, <2>1, MoveStory DEF RunSubSuites
<1> QED BY <1>4, <1>6, <1>7, <1>8, <1>9, <1>10, <1>11, <1>12, <1>13, <1>14, <1>15
        DEF SuiteStep

-----------------------------------------------------------------------------
\* The steps of ParallelSuite::run on the thread that takes them.

LEMMA ParallelStory ==
  ASSUME TreeInv, NEW t \in Thread, StoryOK(t), LocalParallelStep(t)
  PROVE  StoryStep(t)
<1>1. SuiteInv /\ call[t] = NoCall
  BY ParallelStepEffect DEF TreeInv
<1>2. thrown \in [Thread -> BOOLEAN] /\ thrown[t] \in BOOLEAN
  BY <1>1 DEF SuiteInv, TypeOK
<1>3. pc[t] \in Unthrown => ~thrown[t]
  BY DEF StoryOK
<1> USE DEF Unthrown, At
<1>4. ASSUME NEW op \in OutputOp, NEW num, NEW ok, NEW then, Issue(t, op, num, ok, then),
             pc'[t] = pc[t], thrown' = thrown, then \notin Unthrown,
             Protocol!Legal(op, PhaseAt(pc[t], thrown[t])),
             PhaseAt(then, thrown[t]) = Protocol!After(op, PhaseAt(pc[t], thrown[t]))
      PROVE  StoryStep(t)
  <2>1. thrown' = [thrown EXCEPT ![t] = thrown[t]]
    BY <1>2, <1>4
  <2> QED BY <1>1, <1>2, <1>3, <1>4, <2>1, IssueStory
<1>5. ASSUME NEW p, Goto(t, p), call' = call, thrown' = thrown, p \notin Unthrown,
             \/ PhaseAt(p, thrown[t]) = PhaseAt(pc[t], thrown[t])
             \/ PhaseAt(p, thrown[t]) = "aborted"
      PROVE  StoryStep(t)
  BY <1>1, <1>5, MoveStory
<1>6. CASE PStartRun(t)
  <2>1. /\ pc[t] = "run" /\ pc'[t] = pc[t] /\ thrown' = thrown
        /\ Issue(t, "initializeSuite", Len(Own[Current(t)]), FALSE, "setup")
    BY <1>6 DEF PStartRun, locals
  <2>2. /\ Protocol!Legal("initializeSuite", PhaseAt(pc[t], thrown[t]))
        /\ PhaseAt("setup", thrown[t])
             = Protocol!After("initializeSuite", PhaseAt(pc[t], thrown[t]))
        /\ "initializeSuite" \in OutputOp /\ "setup" \notin Unthrown
    BY <2>1 DEF OutputOp, Protocol!Legal, Protocol!After, PhaseAt
  <2> HIDE DEF Unthrown
  <2> QED BY <1>4, <2>1, <2>2
<1> USE DEF OutputOp, Protocol!Legal, Protocol!After, Protocol!Reports, PhaseAt
<1>7. CASE PSetupReturns(t)
  <2>1. CASE Goto(t, "warn") /\ UNCHANGED call
    BY <1>5, <1>7, <2>1 DEF PSetupReturns
  <2>2. CASE Issue(t, "finishSuite", 0, FALSE, "spawn") /\ UNCHANGED pc
    BY <1>4, <1>7, <2>2 DEF PSetupReturns
  <2> QED BY <1>7, <2>1, <2>2 DEF PSetupReturns
<1>8. CASE Warn(t)
  <2>1. CASE Goto(t, "tear_down") /\ UNCHANGED call
    BY <1>5, <1>8, <2>1 DEF Warn, locals
  <2>2. CASE Issue(t, "printFailure", 0, FALSE, "tear_down") /\ UNCHANGED pc
    BY <1>4, <1>8, <2>2 DEF Warn, locals
  <2> QED BY <1>8, <2>1, <2>2 DEF Warn
<1>9. CASE PTearDownReturns(t)
  BY <1>4, <1>9 DEF PTearDownReturns
<1>10. CASE SpawnThrows(t)
  BY <1>5, <1>10 DEF SpawnThrows, locals
<1>11. CASE AllSpawned(t)
  BY <1>5, <1>11 DEF AllSpawned
<1>12. CASE Join(t)
  <2>1. CASE pc' = pc
    BY <1>1, <1>12, <2>1 DEF Join, StoryStep, StoryOK
  <2>2. CASE Goto(t, "unwinding")
    BY <1>5, <1>12, <2>2 DEF Join
  <2> QED BY <1>12, <2>1, <2>2 DEF Join
<1>13. CASE AllJoined(t)
  <2>1. \E p \in {"run", "returned"} : Goto(t, p)
    BY <1>13 DEF AllJoined, FinishHead
  <2> QED BY <1>5, <1>13, <2>1 DEF AllJoined
<1>14. CASE Unwind(t)
  BY <1>5, <1>14 DEF Unwind, locals
<1> QED BY <1>6, <1>7, <1>8, <1>9, <1>10, <1>11, <1>12, <1>13, <1>14 DEF LocalParallelStep

\* A call returns.
LEMMA ReturnStory ==
  ASSUME SuiteInv, NEW t \in Thread, StoryOK(t), CallReturns(t)
  PROVE  /\ StoryOK(t)'
         /\ call[t].op \in OutputOp /\ call' = [call EXCEPT ![t] = NoCall]
         /\ \A u \in Thread \ {t} : pc'[u] = pc[u] /\ thrown'[u] = thrown[u]
         /\ LET old == PhaseAt(pc[t], thrown[t])
                new == PhaseAt(pc'[t], thrown'[t])
            IN  \/ new = Protocol!After(call[t].op, old)
                \/ call[t].op \in Reports /\ new = "aborted"
<1>1. /\ pc'[t] = call[t].then /\ call'[t] = NoCall /\ thrown' = thrown
      /\ call[t] # NoCall /\ call' = [call EXCEPT ![t] = NoCall]
      /\ \A u \in Thread \ {t} : pc'[u] = pc[u]
  BY DEF CallReturns, Goto, SuiteInv, TypeOK, locals
<1>2. PhaseAt("unwound", thrown[t]) = "aborted"
  BY DEF PhaseAt
<1> QED BY <1>1, <1>2 DEF StoryOK, Leads

-----------------------------------------------------------------------------
\* The refinements.

StoryInv == \A t \in Thread : StoryOK(t)

LEMMA PhasesMove ==
  ASSUME NEW t \in Thread,
         \A u \in Thread \ {t} : PhaseOf(u)' = PhaseOf(u)
  PROVE  [u \in Thread |-> PhaseOf(u)]'
           = [[u \in Thread |-> PhaseOf(u)] EXCEPT ![t] = PhaseOf(t)']
OBVIOUS

LEMMA OthersStory ==
  ASSUME StoryInv, NEW t \in Thread, StoryOK(t)',
         \A u \in Thread \ {t} :
           pc'[u] = pc[u] /\ thrown'[u] = thrown[u] /\ call'[u] = call[u]
  PROVE  StoryInv' /\ \A u \in Thread \ {t} : PhaseOf(u)' = PhaseOf(u)
<1>1. ASSUME NEW u \in Thread \ {t}
      PROVE  StoryOK(u)' /\ PhaseOf(u)' = PhaseOf(u)
  BY <1>1, PhaseOfIsAt DEF StoryInv, StoryOK, Leads
<1> QED BY <1>1 DEF StoryInv

\* A suite that is run on one thread calls its Output as the protocol says,
\* whatever user code does.
THEOREM SuiteImplements == Spec => ImplementsProtocol
<1>1. Init => StoryInv /\ Protocol!Init
  <2> SUFFICES ASSUME Init PROVE StoryInv /\ Protocol!Init
    OBVIOUS
  <2>1. StoryInv
    BY DEF Init, StoryInv, StoryOK
  <2>2. \A t \in Thread : call[t].op = "none" /\ PhaseOf(t) = "outside"
    BY DEF Init, NoCall, PhaseOf
  <2> QED BY <2>1, <2>2 DEF Protocol!Init
<1>2. FullInv /\ StoryInv /\ [Next]_vars => StoryInv' /\ [Protocol!Next]_(Protocol!vars)
  <2> SUFFICES ASSUME FullInv, StoryInv, [Next]_vars
               PROVE  StoryInv' /\ [Protocol!Next]_(Protocol!vars)
    OBVIOUS
  <2>1. SuiteInv
    BY DEF FullInv
  <2>2. CASE UNCHANGED vars
    <3>1. pc' = pc /\ thrown' = thrown /\ call' = call
      BY <2>2 DEF vars
    <3> QED BY <3>1 DEF StoryInv, StoryOK, Leads, Protocol!vars, PhaseOf
  <2>3. CASE \E t \in Thread : SuiteStep(t) \/ CallReturns(t)
    <3>1. PICK t \in Thread : SuiteStep(t) \/ CallReturns(t)
      BY <2>3
    <3>2. \A u \in Thread \ {t} : call[u] = NoCall
      BY <3>1, OnlyRootSteps DEF FullInv, SoloInv, SuiteInv, TypeOK, CallersRun
    <3>3. NoCall.op = "none" /\ StoryOK(t)
      BY DEF NoCall, StoryInv
    <3>4. call \in [Thread -> OutputCall]
      BY <2>1 DEF SuiteInv, TypeOK
    <3>5. PhaseOf(t) = PhaseAt(pc[t], thrown[t]) /\ PhaseOf(t)' = PhaseAt(pc'[t], thrown'[t])
      BY PhaseOfIsAt
    <3>6. CASE SuiteStep(t)
      <4>1. StoryStep(t) /\ Alone(t) /\ call[t] = NoCall
        BY <2>1, <3>3, <3>6, SuiteStepStory, SuiteStepEffect
      <4>2. StoryInv' /\ \A u \in Thread \ {t} : PhaseOf(u)' = PhaseOf(u)
        BY <4>1, OthersStory DEF StoryStep, Alone
      <4>3. [u \in Thread |-> PhaseOf(u)]'
              = [[u \in Thread |-> PhaseOf(u)] EXCEPT ![t] = PhaseOf(t)']
        BY <4>2, PhasesMove
      <4>4. CASE call'[t] = NoCall
        <5>1. [u \in Thread |-> call[u].op]' = [u \in Thread |-> call[u].op]
          BY <4>1, <4>4 DEF Alone
        <5>2. \/ PhaseOf(t)' = PhaseOf(t)
              \/ PhaseOf(t) = "method" /\ PhaseOf(t)' = "suite"
              \/ PhaseOf(t)' = "aborted"
          BY <3>5, <4>1 DEF StoryStep
        <5>3. CASE PhaseOf(t)' = PhaseOf(t)
          BY <4>2, <5>1, <5>3 DEF Protocol!vars
        <5>4. CASE PhaseOf(t) = "method" /\ PhaseOf(t)' = "suite"
          BY <3>3, <4>1, <4>2, <4>3, <5>1, <5>4 DEF Protocol!Next, Protocol!Skip
        <5>5. CASE PhaseOf(t)' = "aborted"
          BY <3>3, <4>1, <4>2, <4>3, <5>1, <5>5 DEF Protocol!Next, Protocol!Abort
        <5> QED BY <4>2, <5>2, <5>3, <5>4, <5>5
      <4>5. CASE call'[t] # NoCall
        <5>1. PhaseOf(t)' = PhaseOf(t)
          BY <3>5, <4>1, <4>5 DEF StoryStep
        <5>2. PICK op \in OutputOp : op = call'[t].op /\ Protocol!Legal(op, PhaseOf(t))
          BY <3>5, <4>1, <4>5, <5>1 DEF StoryStep, StoryOK
        <5>3. [u \in Thread |-> call[u].op]' = [[u \in Thread |-> call[u].op] EXCEPT ![t] = op]
          BY <4>1, <5>2 DEF Alone
        <5>4. \A u \in Thread : call[u].op = "none"
          BY <3>2, <3>3, <4>1
        <5>5. op \in Protocol!Op
          BY DEF Protocol!Op, Protocol!Reports, OutputOp
        <5>6. [u \in Thread |-> PhaseOf(u)]' = [u \in Thread |-> PhaseOf(u)]
          BY <4>2, <5>1
        <5> QED BY <4>2, <5>2, <5>3, <5>4, <5>5, <5>6 DEF Protocol!Next, Protocol!Call
      <4> QED BY <4>4, <4>5
    <3>7. CASE CallReturns(t)
      <4> DEFINE old == PhaseAt(pc[t], thrown[t])
                 new == PhaseAt(pc'[t], thrown'[t])
      <4>1. /\ StoryOK(t)'
            /\ call[t].op \in OutputOp /\ call' = [call EXCEPT ![t] = NoCall]
            /\ \A u \in Thread \ {t} : pc'[u] = pc[u] /\ thrown'[u] = thrown[u]
            /\ \/ new = Protocol!After(call[t].op, old)
               \/ call[t].op \in Reports /\ new = "aborted"
        BY <2>1, <3>3, <3>7, ReturnStory
      <4>2. StoryInv' /\ \A u \in Thread \ {t} : PhaseOf(u)' = PhaseOf(u)
        BY <3>4, <4>1, OthersStory
      <4>3. [u \in Thread |-> PhaseOf(u)]'
              = [[u \in Thread |-> PhaseOf(u)] EXCEPT ![t] = PhaseOf(t)']
        BY <4>2, PhasesMove
      <4>4. [u \in Thread |-> call[u].op]'
              = [[u \in Thread |-> call[u].op] EXCEPT ![t] = "none"]
        BY <3>3, <3>4, <4>1
      <4>5. \/ PhaseOf(t)' = Protocol!After(call[t].op, PhaseOf(t))
            \/ call[t].op \in Protocol!Reports /\ PhaseOf(t)' = "aborted"
        BY <3>5, <4>1 DEF Reports, Protocol!Reports
      <4>6. call[t].op # "none"
        BY <4>1 DEF OutputOp
      <4> HIDE DEF old, new
      <4> QED BY <4>2, <4>3, <4>4, <4>5, <4>6 DEF Protocol!Next, Protocol!Return
    <3> QED BY <3>1, <3>6, <3>7
  <2> QED BY <2>2, <2>3 DEF Next, Finished
<1> QED BY <1>1, <1>2, FullInvHolds, PTL DEF Spec, ImplementsProtocol, Protocol!Spec

\* What the real Output sees of a thread.
Telling(t) == IF Inside(t) THEN call[t].op ELSE "none"

LEMMA InsideStays ==
  ASSUME NEW u \in Thread, call'[u] = call[u], held'[u] = held[u], pc'[u] = pc[u],
         pending'[u] = pending[u], chain'[u] = chain[u]
  PROVE  (Inside(u)' <=> Inside(u)) /\ Telling(u)' = Telling(u)
<1>1. Route(u)' = Route(u)
  BY DEF Route, Current
<1> QED BY <1>1 DEF Inside, Telling

\* A step by which the real Output is entered or sees nothing but the phase of
\* a thread.
LEMMA LocalMaps ==
  ASSUME MutualExclusion', StoryInv', NEW t \in Thread, ~Inside(t),
         \A u \in Thread \ {t} :
           /\ PhaseOf(u)' = PhaseOf(u)
           /\ Inside(u)' <=> Inside(u)
           /\ Telling(u)' = Telling(u),
         \/ PhaseOf(t)' = PhaseOf(t)
         \/ ~Inside(t)' /\ PhaseOf(t) = "method" /\ PhaseOf(t)' = "suite"
         \/ ~Inside(t)' /\ PhaseOf(t)' = "aborted"
  PROVE  [PProtocol!Next]_(PProtocol!vars)
<1>1. [u \in Thread |-> PhaseOf(u)]'
        = [[u \in Thread |-> PhaseOf(u)] EXCEPT ![t] = PhaseOf(t)']
  BY PhasesMove
<1>2. Telling(t) = "none"
  BY DEF Telling
<1> DEFINE calling == [u \in Thread |-> IF Inside(u) THEN call[u].op ELSE "none"]
<1>3. calling = [u \in Thread |-> Telling(u)] /\ calling' = [u \in Thread |-> Telling(u)']
  BY DEF Telling
<1> HIDE DEF calling
<1>4. CASE Inside(t)'
  <2>1. \A u \in Thread : Telling(u) = "none"
    BY <1>2, <1>4 DEF MutualExclusion, Telling
  <2>2. PICK op \in OutputOp : op = call'[t].op /\ Protocol!Legal(op, PhaseOf(t)')
    BY <1>4, PhaseOfIsAt DEF StoryInv, StoryOK, Inside
  <2>3. Telling(t)' = op
    BY <1>4, <2>2 DEF Telling
  <2>4. calling' = [calling EXCEPT ![t] = op] /\ \A u \in Thread : calling[u] = "none"
    BY <1>3, <2>1, <2>3
  <2>5. op \in PProtocol!Op /\ PProtocol!Legal(op, PhaseOf(t)')
    BY <2>2 DEF PProtocol!Op, PProtocol!Reports, OutputOp, PProtocol!Legal,
       Protocol!Legal, Protocol!Reports
  <2>6. PhaseOf(t)' = PhaseOf(t)
    BY <1>4
  <2>7. [u \in Thread |-> PhaseOf(u)]' = [u \in Thread |-> PhaseOf(u)]
    BY <2>6
  <2>8. PProtocol!Call(t, op)
    BY <2>4, <2>5, <2>6, <2>7 DEF PProtocol!Call, calling
  <2> QED BY <2>5, <2>8 DEF PProtocol!Next
<1>5. CASE ~Inside(t)'
  <2>1. Telling(t)' = "none"
    BY <1>5 DEF Telling
  <2>2. calling' = calling /\ calling[t] = "none"
    BY <1>2, <1>3, <2>1
  <2>3. CASE PhaseOf(t)' = PhaseOf(t)
    BY <2>2, <2>3 DEF PProtocol!vars, calling
  <2>4. CASE PhaseOf(t) = "method" /\ PhaseOf(t)' = "suite"
    BY <1>1, <2>2, <2>4 DEF PProtocol!Next, PProtocol!Skip, calling
  <2>5. CASE PhaseOf(t)' = "aborted"
    BY <1>1, <2>2, <2>5 DEF PProtocol!Next, PProtocol!Abort, calling
  <2> QED BY <2>3, <2>4, <2>5
<1> QED BY <1>4, <1>5

\* A tree of suites, with ParallelSuites wherever it has them, calls the real
\* Output as the protocol says: one thread at a time, each in order.
THEOREM ParallelImplements == PSpec => PImplementsProtocol
<1>1. PInit => StoryInv /\ PProtocol!Init
  <2> SUFFICES ASSUME PInit PROVE StoryInv /\ PProtocol!Init
    OBVIOUS
  <2>1. StoryInv
    BY DEF PInit, Init, StoryInv, StoryOK
  <2>2. \A t \in Thread : ~Inside(t) /\ PhaseOf(t) = "outside"
    BY DEF PInit, Init, Inside, PhaseOf
  <2> QED BY <2>1, <2>2 DEF PProtocol!Init
<1>2. TreeInv /\ StoryInv /\ MutualExclusion' /\ [PNext]_pvars
        => StoryInv' /\ [PProtocol!Next]_(PProtocol!vars)
  <2> SUFFICES ASSUME TreeInv, StoryInv, MutualExclusion', [PNext]_pvars
               PROVE  StoryInv' /\ [PProtocol!Next]_(PProtocol!vars)
    OBVIOUS
  <2>1. SuiteInv /\ call \in [Thread -> OutputCall]
    BY DEF TreeInv, SuiteInv, TypeOK
  <2>2. CASE UNCHANGED pvars
    <3>1. /\ pc' = pc /\ thrown' = thrown /\ call' = call /\ held' = held
          /\ pending' = pending /\ chain' = chain
      BY <2>2 DEF pvars, vars
    <3>2. StoryInv'
      BY <3>1 DEF StoryInv, StoryOK, Leads
    <3>3. \A u \in Thread : PhaseOf(u)' = PhaseOf(u) /\ (Inside(u)' <=> Inside(u))
      BY <3>1, InsideStays DEF PhaseOf
    <3> QED BY <3>1, <3>2, <3>3 DEF PProtocol!vars
  <2>3. CASE \E t \in Thread : PStep(t)
    <3>1. PICK t \in Thread : PStep(t)
      BY <2>3
    <3>2. StoryOK(t)
      BY DEF StoryInv
    <3>3. PhaseOf(t) = PhaseAt(pc[t], thrown[t]) /\ PhaseOf(t)' = PhaseAt(pc'[t], thrown'[t])
      BY PhaseOfIsAt
    <3>4. ASSUME call[t] = NoCall, Alone(t), StoryStep(t), chain' = chain, held' = held
          PROVE  StoryInv' /\ [PProtocol!Next]_(PProtocol!vars)
      <4>1. StoryInv' /\ \A u \in Thread \ {t} : PhaseOf(u)' = PhaseOf(u)
        BY <3>4, OthersStory DEF StoryStep, Alone
      <4>2. \A u \in Thread \ {t} : (Inside(u)' <=> Inside(u)) /\ Telling(u)' = Telling(u)
        BY <3>4, InsideStays DEF Alone
      <4>3. ~Inside(t)
        BY <3>4 DEF Inside
      <4>4. call'[t] = NoCall => ~Inside(t)'
        BY DEF Inside
      <4>5. \/ PhaseOf(t)' = PhaseOf(t)
            \/ ~Inside(t)' /\ PhaseOf(t) = "method" /\ PhaseOf(t)' = "suite"
            \/ ~Inside(t)' /\ PhaseOf(t)' = "aborted"
        BY <3>3, <3>4, <4>4 DEF StoryStep
      <4> QED BY <4>1, <4>2, <4>3, <4>5, LocalMaps
    <3>5. CASE SuiteStep(t) /\ UNCHANGED locks
      <4>1. call[t] = NoCall /\ Alone(t) /\ chain' = chain /\ held' = held
        BY <2>1, <3>5, SuiteStepEffect DEF locks
      <4> QED BY <2>1, <3>2, <3>4, <3>5, <4>1, SuiteStepStory
    <3>6. CASE LocalParallelStep(t)
      <4>1. call[t] = NoCall /\ Alone(t) /\ chain' = chain /\ held' = held
        BY <3>6, ParallelStepEffect DEF locks
      <4> QED BY <3>2, <3>4, <3>6, <4>1, ParallelStory
    <3>7. CASE Spawn(t)
      <4>1. PICK w \in Thread :
              /\ ~Active(w) /\ call[w] = NoCall /\ thrown' = thrown /\ call' = call
              /\ pc' = [pc EXCEPT ![w] = "run"] /\ held' = held
              /\ \A u \in Thread \ {w} : pending'[u] = pending[u] /\ chain'[u] = chain[u]
        <5>1. PICK v : v = SubSuite(Current(t), next[t])
          OBVIOUS
        <5>2. PICK p : p = Current(t)
          OBVIOUS
        <5>3. /\ v \in Thread /\ ~Active(v) /\ call[v] = NoCall
              /\ pending' = [pending EXCEPT ![v] = <<v>>]
              /\ pc' = [pc EXCEPT ![v] = "run"]
              /\ chain' = [chain EXCEPT ![v] = <<p>> \o chain[t]]
              /\ UNCHANGED <<thrown, call, held>>
          BY <3>7, <5>1, <5>2, SpawnEffect
        <5> DEFINE mine == <<v>>
                   wrappers == <<p>> \o chain[t]
        <5> HIDE DEF mine, wrappers
        <5>4. /\ pending' = [pending EXCEPT ![v] = mine]
              /\ chain' = [chain EXCEPT ![v] = wrappers]
          BY <5>3 DEF mine, wrappers
        <5>5. pending \in [Thread -> Seq(Suite)] /\ chain \in [Thread -> Seq(Lock)]
          BY DEF TreeInv, PTypeOK, TypeOK
        <5> QED BY <5>3, <5>4, <5>5
      <4>2. pc'[w] = "run" /\ \A u \in Thread \ {w} : pc'[u] = pc[u]
        BY <2>1, <4>1 DEF SuiteInv, TypeOK
      <4>3. StoryOK(w)'
        BY <4>1, <4>2 DEF StoryOK, Unthrown
      <4>4. StoryInv' /\ \A u \in Thread \ {w} : PhaseOf(u)' = PhaseOf(u)
        BY <4>1, <4>2, <4>3, OthersStory
      <4>5. PhaseOf(w)' = PhaseOf(w)
        BY <4>1, <4>2 DEF PhaseOf, Active
      <4>6. ~Inside(w) /\ ~Inside(w)'
        BY <4>1 DEF Inside
      <4>7. \A u \in Thread \ {w} : (Inside(u)' <=> Inside(u)) /\ Telling(u)' = Telling(u)
        BY <4>1, <4>2, InsideStays
      <4> QED BY <4>4, <4>5, <4>6, <4>7, LocalMaps
    <3>8. CASE Acquire(t)
      <4>1. /\ UNCHANGED <<vars, chain>> /\ ~Inside(t)
            /\ \A u \in Thread \ {t} : held'[u] = held[u]
        <5>1. held' = [held EXCEPT ![t] = @ + 1] /\ held[t] < Len(Route(t))
              /\ UNCHANGED <<vars, chain>>
          BY <3>8 DEF Acquire
        <5>2. held \in [Thread -> Nat] /\ Len(Route(t)) \in Nat
          BY RouteType DEF TreeInv, PTypeOK, SuiteInv, TypeOK, RouteTypes
        <5> QED BY <5>1, <5>2 DEF Inside
      <4>2. /\ pc' = pc /\ thrown' = thrown /\ call' = call
            /\ pending' = pending /\ chain' = chain
        BY <4>1 DEF vars
      <4>3. StoryInv'
        BY <4>2 DEF StoryInv, StoryOK, Leads
      <4>4. \A u \in Thread : PhaseOf(u)' = PhaseOf(u)
        BY <4>2 DEF PhaseOf
      <4>5. \A u \in Thread \ {t} : (Inside(u)' <=> Inside(u)) /\ Telling(u)' = Telling(u)
        BY <4>1, <4>2, InsideStays
      <4> QED BY <4>1, <4>3, <4>4, <4>5, LocalMaps
    <3>9. CASE PCallReturns(t)
      <4> DEFINE old == PhaseAt(pc[t], thrown[t])
                 new == PhaseAt(pc'[t], thrown'[t])
                 calling == [u \in Thread |-> IF Inside(u) THEN call[u].op ELSE "none"]
      <4>1. /\ StoryOK(t)'
            /\ call[t].op \in OutputOp /\ call' = [call EXCEPT ![t] = NoCall]
            /\ \A u \in Thread \ {t} : pc'[u] = pc[u] /\ thrown'[u] = thrown[u]
            /\ \/ new = Protocol!After(call[t].op, old)
               \/ call[t].op \in Reports /\ new = "aborted"
        BY <2>1, <3>2, <3>9, ReturnStory DEF PCallReturns
      <4>2. StoryInv' /\ \A u \in Thread \ {t} : PhaseOf(u)' = PhaseOf(u)
        BY <2>1, <4>1, OthersStory
      <4>3. [u \in Thread |-> PhaseOf(u)]'
              = [[u \in Thread |-> PhaseOf(u)] EXCEPT ![t] = PhaseOf(t)']
        BY <4>2, PhasesMove
      <4>4. Inside(t) /\ call'[t] = NoCall /\ ~Inside(t)'
        BY <2>1, <3>9, <4>1 DEF PCallReturns, Inside
      <4>5. \A u \in Thread \ {t} :
              held'[u] = held[u] /\ pending'[u] = pending[u] /\ chain'[u] = chain[u]
        <5>1. held \in [Thread -> Nat]
          BY DEF TreeInv, PTypeOK
        <5> QED BY <3>9, <5>1 DEF PCallReturns, Release, CallReturns, locals
      <4>6. \A u \in Thread \ {t} : (Inside(u)' <=> Inside(u)) /\ Telling(u)' = Telling(u)
        BY <2>1, <4>1, <4>5, InsideStays
      <4>7. calling' = [calling EXCEPT ![t] = "none"]
        BY <4>4, <4>6 DEF Telling
      <4>8. calling[t] = call[t].op /\ call[t].op # "none"
        BY <4>1, <4>4 DEF OutputOp
      <4>9. \/ PhaseOf(t)' = PProtocol!After(call[t].op, PhaseOf(t))
            \/ call[t].op \in PProtocol!Reports /\ PhaseOf(t)' = "aborted"
        BY <3>3, <4>1 DEF Reports, PProtocol!Reports, PProtocol!After, Protocol!After
      <4> HIDE DEF old, new, calling
      <4>10. PProtocol!Return(t)
        BY <4>2, <4>3, <4>7, <4>8, <4>9 DEF PProtocol!Return, calling
      <4> QED BY <4>2, <4>10 DEF PProtocol!Next
    <3> QED BY <3>1, <3>5, <3>6, <3>7, <3>8, <3>9
         DEF PStep, PLocalStep, ParallelStep, LocalParallelStep
  <2> QED BY <2>2, <2>3 DEF PNext, PFinished
<1> QED BY <1>1, <1>2, TreeInvHolds, OutputIsExclusive, PTL
        DEF PSpec, PImplementsProtocol, PProtocol!Spec
==============================================================================
