----------------------------- MODULE StoryProofs -----------------------------
(***************************************************************************)
(* Proofs about modules BDDSuite and TextOutput: a story is a suite, a     *)
(* scenario succeeds only if all its parts did, and the outputs that print *)
(* tell which methods and suites failed.                                   *)
(***************************************************************************)
EXTENDS TextOutput, TestSuiteProofs

\* A step of a scenario is a step of a test body.
LEMMA ScenarioIsBody ==
  ASSUME NEW t \in Thread, ScenarioStep(t)
  PROVE  UserCode(t) \/ BodyReturns(t)
<1> USE DEF InScenario, ScenarioAsserts, UserCode
<1>1. pc[t] \in AssertsIn => pc[t] \in UserPlace /\ pc[t] # "handler"
  BY SuiteAssumption DEF UserPlace
<1>2. CASE NoScenario(t)
  <2>1. InUserCode(t) /\ pc[t] = "body" /\ MayAssert(t)
    BY <1>1, <1>2 DEF NoScenario, MayAssert, InUserCode
  <2>2. "after" \in WhereAbortGoesOn(pc[t])
    BY <2>1 DEF WhereAbortGoesOn
  <2>3. Aborts(t)
    BY <1>2, <2>1, <2>2 DEF NoScenario, Aborts
  <2> QED BY <2>3
<1>3. CASE Given(t) \/ Then(t)
  BY <1>3 DEF Given, Then
<1>4. CASE WhenAsserts(t) \/ WhenEnds(t)
  BY <1>4 DEF WhenAsserts, WhenEnds
<1>5. CASE WhenThrowsFailure(t)
  BY <1>5 DEF WhenThrowsFailure
<1>6. CASE WhenAborts(t)
  <2>1. InUserCode(t) /\ pc[t] = "body" /\ MayAssert(t)
    BY <1>6 DEF WhenAborts, InUserCode, UserPlace
  <2>2. "body" \in WhereAbortGoesOn(pc[t])
    BY <1>6, <2>1 DEF WhenAborts, WhereAbortGoesOn
  <2>3. Aborts(t)
    BY <1>6, <2>1, <2>2 DEF WhenAborts, Aborts
  <2> QED BY <2>3
<1>7. CASE WhenCaught(t)
  <2>1. CASE AssertFails(t)
    BY <2>1
  <2>2. CASE /\ pc[t] = "handler"
             /\ Report(t, "printFailure", WhereFailureGoesOn("body"))
             /\ UNCHANGED succeeded
    <3>1. MacroCatches(t)
      BY <1>7, <2>2, StoryAssumption DEF WhenCaught, MacroCatches, At
    <3> QED BY <3>1
  <2> QED BY <1>7, <2>1, <2>2 DEF WhenCaught
<1>8. CASE ConditionThrows(t)
  BY <1>8 DEF ConditionThrows
<1>9. CASE ScenarioEnds(t)
  BY <1>9 DEF ScenarioEnds
<1> QED
  BY <1>2, <1>3, <1>4, <1>5, <1>6, <1>7, <1>8, <1>9 DEF ScenarioStep

LEMMA ScenarioIsSuiteStep ==
  ASSUME NEW t \in Thread, ScenarioStep(t) \/ OtherStep(t)
  PROVE  SuiteStep(t)
BY ScenarioIsBody DEF SuiteStep, OtherStep

\* runScenario is a test body: whatever the parts of a scenario do, every
\* behaviour of a tree of stories is one of a tree of suites, so that all that
\* is proved about Suite::run holds when it runs scenarios.
THEOREM StoriesAreSuites == BSpec => ImplementsSuite
<1>1. BInit => Init
  BY DEF BInit
<1>2. [BNext]_bvars => [Next]_vars
  BY ScenarioIsSuiteStep DEF BNext, bvars, Next, Finished
<1> QED BY <1>1, <1>2, PTL DEF BSpec, ImplementsSuite, Spec

\* The outputs listen, and change nothing.
LEMMA ListenersAreStories == TSpec => BSpec
<1>1. TInit => BInit
  BY DEF TInit
<1>2. [TNext]_tvars => [BNext]_bvars
  <2> SUFFICES ASSUME [TNext]_tvars PROVE [BNext]_bvars
    OBVIOUS
  <2>1. ASSUME NEW t \in Thread, TStep(t) \/ TCallReturns(t)
        PROVE  ScenarioStep(t) \/ OtherStep(t) \/ (CallReturns(t) /\ UNCHANGED story)
    BY <2>1 DEF TStep, TCallReturns
  <2> QED BY <2>1 DEF TNext, BNext, tvars, bvars
<1> QED BY <1>1, <1>2, PTL DEF TSpec, BSpec

-----------------------------------------------------------------------------
\* A scenario succeeds only if all its parts did.

\* Where the parts of a scenario are run, and where its verdict stands.
Scene == {"body", "handler"}
Verdict == {"catch", "after", "counted"}

StoryType == part \in [Thread -> Part] /\ broken \in [Thread -> SUBSET Part]

\* What went wrong has cost the method its success, and the body is left as a
\* success at its end only.
StoryInv ==
  stories =>
    /\ pc[Root] \notin Scene \cup Verdict \cup {"unwound"} =>
         part[Root] = "given" /\ broken[Root] = {}
    /\ pc[Root] \in Scene =>
         /\ broken[Root] # {} => ~succeeded[Current(Root)]
         /\ part[Root] = "caught" => broken[Root] # {}
    /\ pc[Root] \in Verdict /\ succeeded[Current(Root)] =>
         part[Root] = "done" /\ broken[Root] = {}
    /\ call[Root] # NoCall =>
         /\ pc[Root] # "unwound"
         /\ pc[Root] \notin Scene \cup Verdict => call[Root].then \notin Scene \cup Verdict
         /\ pc[Root] \in Scene /\ call[Root].then \notin Scene => ~succeeded[Current(Root)]
         /\ pc[Root] \in Scene => call[Root].then \in Scene \cup Verdict
         /\ pc[Root] \in Verdict => call[Root].then \in Verdict \cup {"unwound"}

LEMMA ScenarioTypes ==
  ASSUME StoryType, NEW t \in Thread, ScenarioStep(t) \/ OtherStep(t)
  PROVE  StoryType'
<1> USE DEF StoryType, Part, MoveTo, Breaks, NothingBreaks
<1>1. CASE OtherStep(t)
  BY <1>1 DEF OtherStep, story
<1>2. CASE NoScenario(t) \/ Given(t) \/ WhenAsserts(t) \/ WhenThrowsFailure(t)
  BY <1>2 DEF NoScenario, Given, WhenAsserts, WhenThrowsFailure
<1>3. CASE WhenAborts(t) \/ WhenEnds(t) \/ WhenCaught(t) \/ Then(t) \/ ScenarioEnds(t)
  BY <1>3 DEF WhenAborts, WhenEnds, WhenCaught, Then, ScenarioEnds
<1>4. CASE ConditionThrows(t)
  BY <1>4 DEF ConditionThrows
<1> QED BY <1>1, <1>2, <1>3, <1>4 DEF ScenarioStep

\* A part that is reported keeps the invariant if what it broke is a failure.
LEMMA ReportedPart ==
  ASSUME FullInv, StoryInv, stories, stories', StoryType', pc[Root] \in Scene,
         NEW op, NEW then \in Scene \cup {"after"}, Report(Root, op, then),
         then = "after" => ~succeeded'[Current(Root)],
         broken'[Root] # {} => ~succeeded'[Current(Root)],
         part'[Root] = "caught" => broken'[Root] # {}
  PROVE  StoryInv'
<1>1. pc' = pc /\ pending' = pending /\ call'[Root].then = then
  BY ConstantTypes DEF Report, Issue, FullInv, SuiteInv, TypeOK
<1> QED BY <1>1 DEF StoryInv, Scene, Verdict, Current

LEMMA ScenarioKeepsStory ==
  ASSUME FullInv, StoryInv, StoryType, ScenarioStep(Root)
  PROVE  StoryInv'
<1>1. /\ stories /\ stories' /\ pc[Root] \in Scene /\ call[Root] = NoCall
      /\ Root \in Thread
  BY ConstantTypes DEF ScenarioStep, NoScenario, Given, WhenAsserts, WhenThrowsFailure,
     WhenAborts, WhenEnds, WhenCaught, Then, ConditionThrows, ScenarioEnds, InScenario, Scene
<1>2. StoryType'
  BY <1>1, ScenarioTypes
<1>3. Current(Root) \in Suite /\ succeeded \in [Suite -> BOOLEAN]
  BY <1>1, ActiveRuns DEF FullInv, SuiteInv, TypeOK, Active, Scene
<1>4. WhereFailureGoesOn("body") \in {"body", "after"}
  BY DEF WhereFailureGoesOn
<1>5. InUserCode(Root) => pc[Root] = "body"
  BY <1>1 DEF InUserCode, Scene, UserPlace
<1>6. broken[Root] # {} => ~succeeded[Current(Root)]
  BY <1>1 DEF StoryInv
<1>7. /\ AssertFails(Root) \/ ExpectThrowFails(Root) \/ Aborts(Root) =>
           ~succeeded'[Current(Root)]
      /\ AssertHolds(Root) => succeeded' = succeeded
  BY <1>3 DEF AssertFails, ExpectThrowFails, Aborts, AssertHolds
<1> USE <1>1, <1>2, <1>3, <1>4
<1>8. ASSUME AssertHolds(Root), NothingBreaks, part'[Root] # "caught"
      PROVE  StoryInv'
  BY <1>5, <1>6, <1>7, <1>8, ReportedPart DEF AssertHolds, NothingBreaks, Scene
<1>9. ASSUME AssertFails(Root), part'[Root] = "caught" => broken'[Root] # {}
      PROVE  StoryInv'
  BY <1>5, <1>7, <1>9, ReportedPart DEF AssertFails, Scene
<1> USE DEF StoryType, Part, MoveTo, Breaks
<1>10. CASE NoScenario(Root)
  <2>1. /\ Report(Root, "printFailure", "after") /\ ~succeeded'[Current(Root)]
        /\ part'[Root] # "caught"
    BY <1>10 DEF NoScenario, InScenario
  <2> QED BY <2>1, ReportedPart DEF Scene
<1>11. CASE Given(Root)
  <2>1. part'[Root] # "caught"
    BY <1>11 DEF Given
  <2> QED BY <1>8, <1>9, <1>11, <2>1 DEF Given, ScenarioAsserts
<1>12. CASE WhenAsserts(Root)
  <2>1. part'[Root] # "caught"
    BY <1>12 DEF WhenAsserts, InScenario
  <2> QED BY <1>8, <1>9, <1>12, <2>1 DEF WhenAsserts
<1>13. CASE WhenThrowsFailure(Root)
  <2>1. broken'[Root] # {} /\ ~succeeded'[Current(Root)]
    BY <1>7, <1>13 DEF WhenThrowsFailure
  <2>2. PICK then \in Scene : Report(Root, "printFailure", then)
    BY <1>13 DEF WhenThrowsFailure, ExpectThrowFails, Scene
  <2>3. then # "after"
    BY DEF Scene
  <2> QED BY <2>1, <2>2, <2>3, ReportedPart
<1>14. CASE WhenAborts(Root)
  <2>1. /\ Report(Root, "printFailure", "body") /\ ~succeeded'[Current(Root)]
        /\ part'[Root] # "caught"
    BY <1>14 DEF WhenAborts
  <2> QED BY <2>1, ReportedPart DEF Scene
<1>15. CASE WhenEnds(Root)
  <2>1. part'[Root] # "caught"
    BY <1>15 DEF WhenEnds
  <2> QED BY <1>8, <1>9, <1>15, <2>1 DEF WhenEnds
<1>16. CASE WhenCaught(Root)
  <2>1. part'[Root] # "caught" /\ part[Root] = "caught" /\ broken' = broken
    BY <1>16 DEF WhenCaught, InScenario, NothingBreaks
  <2>2. CASE AssertFails(Root)
    BY <1>9, <2>1, <2>2
  <2>3. CASE /\ Report(Root, "printFailure", WhereFailureGoesOn("body"))
             /\ UNCHANGED succeeded
    <3>1. ~succeeded[Current(Root)]
      BY <2>1 DEF StoryInv
    <3> QED BY <2>1, <2>3, <3>1, ReportedPart DEF Scene
  <2> QED BY <1>16, <2>2, <2>3 DEF WhenCaught
<1>17. CASE Then(Root)
  <2>1. part'[Root] # "caught"
    BY <1>17 DEF Then
  <2> QED BY <1>8, <1>9, <1>17, <2>1 DEF Then, ScenarioAsserts
<1>18. CASE ConditionThrows(Root)
  <2>1. /\ pc'[Root] = "catch" /\ call'[Root].then = "after"
        /\ ~succeeded'[Current(Root)] /\ pending' = pending
    BY <1>18 DEF ConditionThrows, BodyThrows, Goto, Issue, FullInv, SuiteInv, TypeOK
  <2> QED BY <2>1 DEF StoryInv, Scene, Verdict, Current
<1>19. CASE ScenarioEnds(Root)
  <2>1. /\ pc'[Root] = "after" /\ call' = call /\ succeeded' = succeeded
        /\ pending' = pending /\ part' = part /\ broken' = broken /\ part[Root] = "done"
    BY <1>19, SMTT(40) DEF ScenarioEnds, InScenario, BodyReturns, Goto, NothingBreaks, members,
       FullInv, SuiteInv, TypeOK
  <2> QED BY <1>6, <2>1 DEF StoryInv, Scene, Verdict, Current
<1> QED
  BY <1>10, <1>11, <1>12, <1>13, <1>14, <1>15, <1>16, <1>17, <1>18, <1>19 DEF ScenarioStep

\* Outside a scenario a suite does not enter one in the middle, and a failure of
\* after() does no more than take the success away.
LEMMA OtherKeepsStory ==
  ASSUME FullInv, StoryInv, StoryType, OtherStep(Root)
  PROVE  StoryInv'
<1> SUFFICES ASSUME stories, stories' PROVE StoryInv'
  BY DEF OtherStep, StoryInv, story
<1>1. /\ pc[Root] \notin Scene /\ call[Root] = NoCall /\ SuiteStep(Root)
      /\ Root \in Thread /\ Current(Root) \in Suite
  BY StepsActive, ConstantTypes, ActiveRuns DEF OtherStep, Scene, FullInv
<1>2. IF pc[Root] = "after" THEN part' = part /\ broken' = broken
      ELSE part'[Root] = "given" /\ broken'[Root] = {}
  BY <1>1 DEF OtherStep, story, MoveTo, StoryType
<1> USE <1>1, <1>2
<1> USE DEF StoryInv, Scene, Verdict, FullInv, SuiteInv, TypeOK, At, Goto, Issue, Current, NoCall
<1>3. CASE AssertHolds(Root)
  BY <1>3 DEF AssertHolds, InUserCode, UserPlace, Report
<1>4. CASE AssertFails(Root)
  BY <1>4 DEF AssertFails, InUserCode, UserPlace, Report, WhereFailureGoesOn
<1>5. CASE Aborts(Root)
  BY <1>5 DEF Aborts, InUserCode, UserPlace, Report, WhereAbortGoesOn
<1>6. CASE ExpectThrowFails(Root) \/ MacroCatches(Root) \/ BodyThrows(Root)
  BY <1>6 DEF ExpectThrowFails, MacroCatches, BodyThrows
<1>7. CASE HookThrows(Root)
  BY <1>7 DEF HookThrows, InUserCode, UserPlace, locals, members
<1>8. CASE StartRun(Root) \/ SetupReturns(Root)
  BY <1>8 DEF StartRun, SetupReturns, members
<1>9. CASE StartMethod(Root)
  <2>1. pc[Root] = "loop" /\ pc' = pc /\ call'[Root].then = "before"
    BY <1>9 DEF StartMethod
  <2> QED BY <2>1
<1>13. CASE BeforeReturns(Root)
  <2>1. pc[Root] = "before" /\ pc'[Root] \in {"body", "loop"} /\ call' = call
    BY <1>13 DEF BeforeReturns
  <2> QED BY <2>1
<1>14. CASE BodyReturns(Root)
  BY <1>14 DEF BodyReturns
<1>10. CASE AfterReturns(Root)
  <2>1. /\ pc[Root] = "after" /\ pc'[Root] \in {"after", "counted"}
        /\ call'[Root] = NoCall \/ call'[Root].then = "counted"
    <3>1. CASE thrown[Root]
      BY <1>10, <3>1 DEF AfterReturns
    <3>2. CASE ~thrown[Root]
      <4>1. PICK ok \in BOOLEAN : ok = succeeded[Current(Root)]
        OBVIOUS
      <4>2. Issue(Root, "finishTestMethod", 0, ok, "counted") /\ pc[Root] = "after" /\ pc' = pc
        BY <1>10, <3>2, <4>1 DEF AfterReturns
      <4> QED BY <4>2
    <3> QED BY <3>1, <3>2
  <2>2. pending' = pending /\ succeeded' = succeeded
    BY <1>10 DEF AfterReturns, members
  <2> HIDE DEF NoCall, FullInv, SuiteInv, TypeOK
  <2> QED BY <2>1, <2>2
<1>15. CASE CountMethod(Root)
  <2>1. pc[Root] = "counted" /\ pc'[Root] = "loop" /\ call' = call
    BY <1>15 DEF CountMethod
  <2> QED BY <2>1
<1>11. CASE EndLoop(Root) \/ TearDownReturns(Root)
  BY <1>11 DEF EndLoop, TearDownReturns, locals, members
<1>12. CASE RunSubSuites(Root)
  BY <1>12 DEF RunSubSuites, FinishHead, members
<1> QED
  BY <1>3, <1>4, <1>5, <1>6, <1>7, <1>8, <1>9, <1>10, <1>11, <1>12, <1>13, <1>14, <1>15
     DEF SuiteStep, UserCode

LEMMA CallKeepsStory ==
  ASSUME FullInv, StoryInv, CallReturns(Root), UNCHANGED story
  PROVE  StoryInv'
<1>1. /\ pc'[Root] = call[Root].then /\ call'[Root] = NoCall /\ call[Root] # NoCall
      /\ UNCHANGED <<pending, succeeded, stories, part, broken>>
  BY ConstantTypes DEF CallReturns, Goto, FullInv, SuiteInv, TypeOK, story, locals, members
<1> QED BY <1>1 DEF StoryInv, Scene, Verdict, Current

\* What holds of suites holds of stories.
LEMMA StoryFullInv == BSpec => []FullInv
BY StoriesAreSuites, FullInvHolds, PTL DEF ImplementsSuite

LEMMA StoryInvHolds == BSpec => [](FullInv /\ StoryType /\ StoryInv)
<1>1. BInit => StoryType /\ StoryInv
  BY ConstantTypes DEF BInit, Init, StoryType, StoryInv, Part, Scene, Verdict
<1>2. FullInv /\ StoryType /\ StoryInv /\ [BNext]_bvars => (StoryType /\ StoryInv)'
  <2> SUFFICES ASSUME FullInv, StoryType, StoryInv, [BNext]_bvars
               PROVE  (StoryType /\ StoryInv)'
    OBVIOUS
  <2>1. CASE UNCHANGED bvars
    BY <2>1 DEF StoryType, StoryInv, Current, bvars, story, vars, members
  <2>2. ASSUME NEW t \in Thread, ScenarioStep(t) \/ OtherStep(t)
        PROVE  (StoryType /\ StoryInv)'
    <3>1. t = Root
      BY <2>2, ScenarioIsSuiteStep, OnlyRootSteps
    <3> QED BY <2>2, <3>1, ScenarioTypes, ScenarioKeepsStory, OtherKeepsStory
  <2>3. ASSUME NEW t \in Thread, CallReturns(t), UNCHANGED story
        PROVE  (StoryType /\ StoryInv)'
    <3>1. t = Root
      BY <2>3, OnlyRootSteps
    <3> QED BY <2>3, <3>1, CallKeepsStory DEF StoryType, story
  <2>4. CASE Finished /\ UNCHANGED story
    BY <2>1, <2>4 DEF Finished, bvars
  <2> QED BY <2>1, <2>2, <2>3, <2>4 DEF BNext
<1> QED BY <1>1, <1>2, StoryFullInv, PTL DEF BSpec

\* A scenario is counted as a success only if its three parts have all run and
\* none of them went wrong, for every tree of stories, every list of selected
\* scenarios and either value of continueOnError.
THEOREM ScenariosSucceedWhole == BSpec => []SuccessNeedsAllParts
<1>1. FullInv /\ StoryInv => SuccessNeedsAllParts
  BY DEF FullInv, SoloInv, StoryInv, SuccessNeedsAllParts, Verdict, At
<1> QED BY <1>1, StoryInvHolds, PTL

-----------------------------------------------------------------------------
\* The printed outputs tell the verdicts.

\* Where the verdict of the current method counts.
InMethod == {"before", "body", "handler", "catch", "after", "counted"}
Failure == {"printFailure", "printException"}

\* Every failure is told by all printers, a success by none.
LEMMA FailuresAreSaid ==
  ASSUME NEW c, c.op \in Failure
  PROVE  {p \in Printer : Tells(p, c)} = Printer
<1>1. SaysFailure(c) /\ ConsoleIsRed(c) /\ CompilerPrints(c)
  BY DEF Failure, SaysFailure, ConsoleIsRed, CompilerPrints
<1>2. ASSUME NEW mode PROVE TextPrints(mode, c)
  <2>1. CASE c.op = "printFailure"
    BY <2>1 DEF TextPrints
  <2>2. CASE c.op = "printException"
    BY <2>2 DEF TextPrints
  <2> QED BY <2>1, <2>2 DEF Failure
<1>3. ASSUME NEW p \in Printer PROVE Tells(p, c)
  <2>1. TextPrints(p.mode, c)
    BY <1>2
  <2>2. p.class \in {"TextOutput", "ConsoleOutput", "CompilerOutput"}
    BY DEF Printer
  <2> QED BY <1>1, <2>1, <2>2 DEF Tells
<1> QED BY <1>3

LEMMA SuccessesAreSilent ==
  ASSUME NEW c, c.op = "printSuccess" \/ (c.op = "finishTestMethod" /\ c.ok)
  PROVE  {p \in Printer : Tells(p, c)} = {}
<1>1. ~SaysFailure(c) /\ ~CompilerPrints(c)
  BY DEF SaysFailure, CompilerPrints
<1>2. ASSUME NEW p \in Printer PROVE ~Tells(p, c)
  <2>1. p.class \in {"TextOutput", "ConsoleOutput", "CompilerOutput"}
    BY DEF Printer
  <2> QED BY <1>1, <2>1 DEF Tells
<1> QED BY <1>2

LEMMA SilentCalls ==
  ASSUME NEW c, c.op = "none"
  PROVE  {p \in Printer : Tells(p, c)} = {}
<1>1. ~SaysFailure(c) /\ ~CompilerPrints(c)
  BY DEF SaysFailure, CompilerPrints
<1>2. ASSUME NEW p \in Printer PROVE ~Tells(p, c)
  <2>1. p.class \in {"TextOutput", "ConsoleOutput", "CompilerOutput"}
    BY DEF Printer
  <2> QED BY <1>1, <2>1 DEF Tells
<1> QED BY <1>2

TextPrinter == {p \in Printer : p.class # "CompilerOutput"}

LEMMA SuitesAreSaid ==
  ASSUME NEW c, c.op = "finishSuite", c.num # numTests
  PROVE  TextPrinter \subseteq {p \in Printer : Tells(p, c)}
<1>1. SaysFailure(c) /\ ConsoleIsRed(c)
  BY DEF SaysFailure, ConsoleIsRed
<1>2. ASSUME NEW p \in TextPrinter PROVE Tells(p, c)
  <2>1. TextPrints(p.mode, c)
    BY DEF TextPrints
  <2>2. p.class \in {"TextOutput", "ConsoleOutput"}
    BY DEF TextPrinter, Printer
  <2> QED BY <1>1, <2>1, <2>2 DEF Tells
<1> QED BY <1>2 DEF TextPrinter

\* All or none of the printers have told of the method.
Told == told[Root] = IF succeeded[Current(Root)] THEN {} ELSE Printer

\* What a call that is being made in a method will tell.
MethodTold ==
  IF call[Root].op \in Failure THEN ~succeeded[Current(Root)]
  ELSE /\ Told
       /\ call[Root].op \in {"none", "printSuccess", "finishTestMethod"}
       /\ call[Root].op = "finishTestMethod" => call[Root].ok = succeeded[Current(Root)]

TellInv ==
  /\ told \in [Thread -> SUBSET Printer]
  /\ pc[Root] \in InMethod => MethodTold
  /\ pc[Root] = "handler" => ~succeeded[Current(Root)]
  /\ call[Root] # NoCall =>
       /\ call[Root].then \in InMethod /\ pc[Root] \notin InMethod =>
            call[Root].op = "initializeTestMethod" /\ succeeded[Current(Root)]
       /\ call[Root].then = "handler" =>
            pc[Root] \in InMethod /\ ~succeeded[Current(Root)]
       /\ call[Root].then = "subs" =>
            call[Root].op = "finishSuite" /\ call[Root].num = positive[Current(Root)]
  /\ At(Root, "subs") /\ positive[Current(Root)] # numTests => TextPrinter \subseteq told[Root]

\* A suite's step leaves the printers alone; a call it issues tells the verdict.
LEMMA SuiteStepTells ==
  ASSUME FullInv, TellInv, SuiteStep(Root), UNCHANGED told
  PROVE  TellInv'
<1>1. /\ call[Root] = NoCall /\ call[Root].op = "none"
      /\ Root \in Thread /\ Current(Root) \in Suite
  BY StepsActive, ConstantTypes, ActiveRuns DEF FullInv, NoCall
<1>2. pc[Root] \in InMethod => Told
  BY <1>1 DEF TellInv, MethodTold, Failure
<1>3. /\ pc \in [Thread -> PC] /\ call \in [Thread -> OutputCall]
      /\ succeeded \in [Suite -> BOOLEAN] /\ thrown \in [Thread -> BOOLEAN]
      /\ positive \in [Suite -> Nat]
  BY DEF FullInv, SuiteInv, TypeOK
<1> USE <1>1, <1>3
\* A failure or a success that is reported.
<1>4. ASSUME NEW then, Report(Root, "printFailure", then), ~succeeded'[Current(Root)],
             then # "subs", then \in InMethod => pc[Root] \in InMethod
      PROVE  TellInv'
  <2>1. /\ pc' = pc /\ pending' = pending /\ positive' = positive
        /\ call'[Root].op = "printFailure" /\ call'[Root].then = then /\ call'[Root] # NoCall
    BY <1>4 DEF Report, Issue, NoCall
  <2> QED BY <1>4, <2>1 DEF TellInv, MethodTold, Failure, InMethod, Current, At
<1>5. ASSUME NEW then, Report(Root, "printSuccess", then), UNCHANGED succeeded,
             then \notin {"subs", "handler"}, then \in InMethod => pc[Root] \in InMethod
      PROVE  TellInv'
  <2>1. /\ pc' = pc /\ pending' = pending /\ positive' = positive
        /\ call'[Root].op = "printSuccess" /\ call'[Root].then = then /\ call'[Root] # NoCall
    BY <1>5 DEF Report, Issue, NoCall
  <2> QED BY <1>2, <1>5, <2>1 DEF TellInv, MethodTold, Told, Failure, InMethod, Current, At
\* A step that calls nothing and stays inside or outside a method.
<1>6. ASSUME NEW p, Goto(Root, p), UNCHANGED <<pending, succeeded, call>>,
             p \notin {"handler", "subs"}, p \in InMethod => pc[Root] \in InMethod
      PROVE  TellInv'
  <2>1. pc'[Root] = p /\ call'[Root] = NoCall
    BY <1>6 DEF Goto
  <2> QED BY <1>2, <1>6, <2>1 DEF TellInv, MethodTold, Told, Failure, Current, At, NoCall
\* A call that a suite makes outside a method.
<1>7. ASSUME NEW op, NEW num, NEW then, Issue(Root, op, num, FALSE, then),
             UNCHANGED <<pending, pc>>, pc[Root] \notin InMethod \cup {"subs"},
             then \in InMethod => op = "initializeTestMethod" /\ succeeded'[Current(Root)],
             then # "handler",
             then = "subs" => op = "finishSuite" /\ num = positive'[Current(Root)]
      PROVE  TellInv'
  <2>1. /\ call'[Root].op = op /\ call'[Root].num = num /\ call'[Root].then = then
    BY <1>7 DEF Issue
  <2> QED BY <1>7, <2>1 DEF TellInv, InMethod, Current, At
<1>8. CASE AssertHolds(Root)
  BY <1>5, <1>8 DEF AssertHolds, InUserCode, UserPlace
<1>9. CASE AssertFails(Root)
  <2>1. \/ WhereFailureGoesOn(pc[Root]) \in {pc[Root], "unwound"}
        \/ pc[Root] = "body" /\ WhereFailureGoesOn(pc[Root]) = "after"
    BY DEF WhereFailureGoesOn
  <2> QED BY <1>4, <1>9, <2>1 DEF AssertFails, InUserCode, UserPlace, InMethod
<1>10. CASE Aborts(Root)
  <2>1. PICK then \in WhereAbortGoesOn(pc[Root]) : Report(Root, "printFailure", then)
    BY <1>10 DEF Aborts
  <2> QED BY <1>4, <1>10, <2>1 DEF Aborts, WhereAbortGoesOn, InUserCode, UserPlace, InMethod
<1>11. CASE ExpectThrowFails(Root)
  BY <1>4, <1>11 DEF ExpectThrowFails, At, InMethod
<1>12. CASE MacroCatches(Root)
  <2>1. ~succeeded[Current(Root)] /\ pc[Root] = "handler" /\ succeeded' = succeeded
    BY <1>12 DEF MacroCatches, TellInv, At
  <2>2. CASE Report(Root, "printFailure", WhereFailureGoesOn("body"))
    BY <1>4, <2>1, <2>2 DEF WhereFailureGoesOn, InMethod
  <2>3. CASE Report(Root, "printSuccess", "body")
    BY <1>5, <2>1, <2>3 DEF InMethod
  <2> QED BY <1>12, <2>2, <2>3 DEF MacroCatches
<1>13. CASE BodyThrows(Root)
  <2>1. /\ pc'[Root] = "catch" /\ call'[Root].op = "printException"
        /\ call'[Root].then = "after" /\ ~succeeded'[Current(Root)] /\ pending' = pending
    BY <1>13 DEF BodyThrows, Goto, Issue
  <2> QED BY <2>1 DEF TellInv, MethodTold, Failure, InMethod, Current, At
<1>14. CASE HookThrows(Root) \/ EndLoop(Root)
  BY <1>6, <1>14 DEF HookThrows, EndLoop, locals, members, InMethod
<1>15. CASE StartRun(Root)
  BY <1>7, <1>15 DEF StartRun, At, InMethod
<1>16. CASE SetupReturns(Root)
  BY <1>6, <1>7, <1>16 DEF SetupReturns, At, InMethod, members
<1>17. CASE StartMethod(Root)
  BY <1>7, <1>17 DEF StartMethod, At, InMethod
<1>18. CASE BeforeReturns(Root) \/ BodyReturns(Root)
  BY <1>6, <1>18 DEF BeforeReturns, BodyReturns, At, InMethod, members
<1>19. CASE AfterReturns(Root)
  <2>1. pc[Root] = "after" /\ UNCHANGED <<pending, succeeded>>
    BY <1>19 DEF AfterReturns, At, members
  <2>2. CASE thrown[Root]
    BY <1>6, <1>19, <2>1, <2>2 DEF AfterReturns, InMethod
  <2>3. CASE ~thrown[Root]
    <3>1. PICK ok \in BOOLEAN : ok = succeeded[Current(Root)]
      OBVIOUS
    <3>2. Issue(Root, "finishTestMethod", 0, ok, "counted") /\ pc' = pc
      BY <1>19, <2>3, <3>1 DEF AfterReturns
    <3>3. /\ call'[Root].op = "finishTestMethod" /\ call'[Root].ok = ok
          /\ call'[Root].then = "counted"
      BY <3>2 DEF Issue
    <3> QED
      BY <1>2, <2>1, <3>1, <3>2, <3>3 DEF TellInv, MethodTold, Told, Failure, InMethod, Current, At
  <2> QED BY <2>2, <2>3
<1>20. CASE CountMethod(Root)
  BY <1>6, <1>20 DEF CountMethod, At, InMethod
<1>21. CASE TearDownReturns(Root)
  BY <1>7, <1>21 DEF TearDownReturns, At, InMethod, members
<1>22. CASE RunSubSuites(Root)
  <2>1. pc'[Root] \in {"run", "returned"} /\ call'[Root] = NoCall
    BY <1>22 DEF RunSubSuites, FinishHead, Goto
  <2> QED BY <2>1 DEF TellInv, InMethod, At
<1> QED
  BY <1>8, <1>9, <1>10, <1>11, <1>12, <1>13, <1>14, <1>15, <1>16, <1>17, <1>18, <1>19,
     <1>20, <1>21, <1>22 DEF SuiteStep, UserCode

\* When a call returns the printers have told what it was about.
LEMMA CallTells ==
  ASSUME FullInv, TellInv, TCallReturns(Root)
  PROVE  TellInv'
<1>1. /\ pc'[Root] = call[Root].then /\ call'[Root] = NoCall /\ call[Root] # NoCall
      /\ UNCHANGED <<pending, positive, succeeded>> /\ Root \in Thread
  BY ConstantTypes DEF TCallReturns, CallReturns, Goto, FullInv, SuiteInv, TypeOK, locals, members
<1>2. call'[Root].op = "none"
  BY <1>1 DEF NoCall
<1>3. PICK said \in SUBSET Printer : said = {p \in Printer : Tells(p, call[Root])}
  OBVIOUS
<1>4. /\ told' \in [Thread -> SUBSET Printer]
      /\ told'[Root] = IF Announces(call[Root]) THEN {} ELSE told[Root] \cup said
  BY <1>1, <1>3 DEF TCallReturns, TellInv
<1>5. told[Root] \subseteq Printer
  BY <1>1 DEF TellInv
<1>6. ASSUME call[Root].then \in InMethod PROVE Told'
  <2>1. CASE pc[Root] \notin InMethod
    BY <1>1, <1>4, <1>6, <2>1 DEF TellInv, Announces, Told, Current
  <2>2. CASE pc[Root] \in InMethod /\ call[Root].op \in Failure
    <3>1. said = Printer /\ ~succeeded[Current(Root)] /\ ~Announces(call[Root])
      BY <1>3, <2>2, FailuresAreSaid DEF TellInv, MethodTold, Announces, Failure
    <3> QED BY <1>1, <1>4, <1>5, <3>1 DEF Told, Current
  <2>3. CASE pc[Root] \in InMethod /\ call[Root].op \notin Failure
    <3>1. MethodTold
      BY <2>3 DEF TellInv
    <3>2. Told /\ ~Announces(call[Root]) /\ call[Root].op \in {"none", "printSuccess", "finishTestMethod"}
      BY <2>3, <3>1 DEF MethodTold, Announces
    <3>3. CASE ~succeeded[Current(Root)]
      BY <1>1, <1>4, <1>5, <3>2, <3>3 DEF Told, Current
    <3>4. CASE succeeded[Current(Root)] /\ call[Root].op # "none"
      <4>1. said = {}
        BY <1>3, <2>3, <3>1, <3>2, <3>4, SuccessesAreSilent DEF MethodTold
      <4> QED BY <1>1, <1>4, <3>2, <4>1 DEF Told, Current
    <3>5. CASE call[Root].op = "none"
      <4>1. said = {}
        BY <1>3, <3>5, SilentCalls
      <4> QED BY <1>1, <1>4, <3>2, <4>1 DEF Told, Current
    <3> QED BY <3>2, <3>3, <3>4, <3>5
  <2> QED BY <2>1, <2>2, <2>3
<1>7. pc'[Root] \in InMethod => MethodTold'
  BY <1>1, <1>2, <1>6 DEF MethodTold, Failure
<1>8. pc'[Root] = "handler" => ~succeeded'[Current(Root)]
  BY <1>1 DEF TellInv, Current
<1>9. ASSUME call[Root].then = "subs", positive[Current(Root)] # numTests
      PROVE  TextPrinter \subseteq told'[Root]
  <2>1. call[Root].op = "finishSuite" /\ call[Root].num # numTests
    BY <1>1, <1>9 DEF TellInv
  <2>2. TextPrinter \subseteq said
    BY <1>3, <2>1, SuitesAreSaid
  <2> QED BY <1>4, <2>1, <2>2 DEF Announces
<1> QED BY <1>1, <1>4, <1>7, <1>8, <1>9 DEF TellInv, At, Current

LEMMA TellInvHolds == TSpec => [](FullInv /\ TellInv)
<1>1. TInit => TellInv
  BY ConstantTypes DEF TInit, BInit, Init, TellInv, InMethod, At
<1>2. FullInv /\ TellInv /\ [TNext]_tvars => TellInv'
  <2> SUFFICES ASSUME FullInv, TellInv, [TNext]_tvars PROVE TellInv'
    OBVIOUS
  <2>1. CASE UNCHANGED tvars
    BY <2>1 DEF TellInv, MethodTold, Told, At, Current, tvars, bvars, vars, members
  <2>2. ASSUME NEW t \in Thread, TStep(t) PROVE TellInv'
    <3>1. SuiteStep(t) /\ UNCHANGED told
      BY <2>2, ScenarioIsSuiteStep DEF TStep
    <3>2. t = Root
      BY <3>1, OnlyRootSteps
    <3> QED BY <3>1, <3>2, SuiteStepTells
  <2>3. ASSUME NEW t \in Thread, TCallReturns(t) PROVE TellInv'
    <3>1. t = Root
      BY <2>3, OnlyRootSteps DEF TCallReturns
    <3> QED BY <2>3, <3>1, CallTells
  <2>4. CASE Finished /\ UNCHANGED <<story, told>>
    BY <2>1, <2>4 DEF Finished, tvars, bvars
  <2> QED BY <2>1, <2>2, <2>3, <2>4 DEF TNext
<1>3. TSpec => []FullInv
  BY ListenersAreStories, StoryFullInv, PTL
<1> QED BY <1>1, <1>2, <1>3, PTL DEF TSpec

\* Whatever the tree, the methods and the mode of the output: when a method is
\* counted, every text, console and compiler output has printed a failure since
\* it was announced if the method failed, and none has if it was successful.
THEOREM VerdictsAreTold == TSpec => []VerdictIsTold
<1>1. FullInv /\ TellInv => VerdictIsTold
  <2> SUFFICES ASSUME FullInv, TellInv, NEW t \in Thread, At(t, "counted")
               PROVE  told[t] = IF succeeded[Current(t)] THEN {} ELSE Printer
    BY DEF VerdictIsTold
  <2>1. t = Root
    BY DEF FullInv, SoloInv, At
  <2>2. call[Root].op = "none" /\ pc[Root] \in InMethod
    BY <2>1 DEF At, NoCall, InMethod
  <2> QED BY <2>1, <2>2 DEF TellInv, MethodTold, Told, Failure
<1> QED BY <1>1, TellInvHolds, PTL

\* Every text and console output, in whatever mode, tells of a suite that has
\* fewer successful methods than it was to run.
THEOREM UnsuccessfulSuitesAreTold == TSpec => []SuitesAreTold
<1>1. FullInv /\ TellInv => SuitesAreTold
  BY DEF FullInv, SoloInv, TellInv, SuitesAreTold, TextPrinter, At
<1> QED BY <1>1, TellInvHolds, PTL
==============================================================================
