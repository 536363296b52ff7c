--------------------------- MODULE CollectorProofs ---------------------------
(***************************************************************************)
(* Proofs about CollectorOutput and the reports made from its records, for *)
(* every tree of suites.                                                   *)
(***************************************************************************)
EXTENDS HTMLOutput, ParallelSuiteProofs, Induction, FiniteSetTheorems

-----------------------------------------------------------------------------
\* The threads, seen from this Output, are those of module ParallelSuite, but
\* for the calls that end in an exception.

LEMMA CStepKinds ==
  ASSUME NEW t \in Thread, CStep(t)
  PROVE  QuietStep(t) \/ Spawn(t)
<1>1. CASE PLocalStep(t)
  BY <1>1, PStepKinds DEF PStep
<1>2. CASE PCallReturns(t)
  BY <1>2 DEF QuietStep
<1>3. CASE InvalidTestMethod(t)
  BY <1>3 DEF InvalidTestMethod, Inside, Escapes, QuietStep
<1> QED BY <1>1, <1>2, <1>3 DEF CStep

LEMMA CTreeInvHolds == CSpec => []TreeInv
<1>1. CInit => TreeInv
  BY InitTree DEF CInit
<1>2. TreeInv /\ [CNext]_cvars => TreeInv'
  <2>1. TreeInv /\ UNCHANGED cvars => TreeInv'
    BY TreeStutter DEF cvars
  <2> QED BY <2>1, TreeStep, CStepKinds DEF CNext, CFinished
<1> QED BY <1>1, <1>2, PTL DEF CSpec

LEMMA CLocksHold == CSpec => []LocksHeld
<1>1. CInit => LocksHeld
  BY InitLocks DEF CInit
<1>2. TreeInv /\ TreeInv' /\ LocksHeld /\ [CNext]_cvars => LocksHeld'
  <2>1. LocksHeld /\ UNCHANGED cvars => LocksHeld'
    BY LocksStutter DEF cvars
  <2> QED BY <2>1, LocksStep, CStepKinds DEF CNext, CFinished
<1> QED BY <1>1, <1>2, CTreeInvHolds, PTL DEF CSpec

\* The collector is used by one thread at a time, also after it has thrown out
\* of the call of some thread: its vectors need no lock of their own.
THEOREM CollectorIsExclusive == CSpec => []MutualExclusion
BY Exclusion, CTreeInvHolds, CLocksHold, PTL

-----------------------------------------------------------------------------
\* Types.

ColTypes ==
  /\ suites \in Seq(SuiteInfo)
  /\ currentSuite = Len(suites)
  /\ currentMethod \in MethodPointer
  /\ currentMethod # NullMethod =>
       /\ currentMethod.suite \in DOMAIN suites
       /\ currentMethod.method \in DOMAIN suites[currentMethod.suite].methods

\* An element of the vector of suites is replaced.
LEMMA ReplaceSuite ==
  ASSUME suites \in Seq(SuiteInfo), NEW i \in DOMAIN suites, NEW info \in SuiteInfo,
         suites' = [suites EXCEPT ![i] = info]
  PROVE  /\ suites' \in Seq(SuiteInfo) /\ Len(suites') = Len(suites)
         /\ DOMAIN suites' = DOMAIN suites /\ suites'[i] = info
         /\ \A j \in DOMAIN suites : j # i => suites'[j] = suites[j]
OBVIOUS

LEMMA CallArguments ==
  ASSUME TreeInv, NEW t \in Thread, call[t] # NoCall
  PROVE  Current(t) \in Suite /\ call[t].num \in Nat /\ call[t].ok \in BOOLEAN
<1>1. Active(t)
  BY DEF TreeInv, SuiteInv, TypeOK, CallersRun, Active
<1> QED BY <1>1, ActiveRuns DEF TreeInv, SuiteInv, TypeOK, OutputCall

\* What the calls do to the vectors, the pointers being in range.
LEMMA InitializeSuiteEffect ==
  ASSUME TreeInv, ColTypes, NEW t \in Thread, InitializeSuite(t), call[t] # NoCall
  PROVE  /\ ColTypes'
         /\ Len(suites') = Len(suites) + 1
         /\ suites'[Len(suites) + 1] = [suite |-> Current(t), numTests |-> call[t].num,
                                        numPositive |-> 0, methods |-> <<>>]
         /\ \A i \in DOMAIN suites : suites'[i] = suites[i]
<1>1. PICK info : info = [suite |-> Current(t), numTests |-> call[t].num,
                          numPositive |-> 0, methods |-> <<>>]
  OBVIOUS
<1>2. info \in SuiteInfo
  BY <1>1, CallArguments DEF SuiteInfo
<1>3. suites' = Append(suites, info) /\ currentSuite' = Len(suites) + 1
  BY <1>1 DEF InitializeSuite
<1>4. /\ suites' \in Seq(SuiteInfo) /\ Len(suites') = Len(suites) + 1
      /\ suites'[Len(suites) + 1] = info /\ DOMAIN suites \subseteq DOMAIN suites'
      /\ \A i \in DOMAIN suites : suites'[i] = suites[i]
  BY <1>2, <1>3 DEF ColTypes
<1>5. CASE UNCHANGED currentMethod
  BY <1>1, <1>3, <1>4, <1>5 DEF ColTypes, NullMethod
<1>6. CASE /\ currentMethod # NullMethod
           /\ currentMethod' = [currentMethod EXCEPT !.dangling = TRUE]
  <2>1. /\ currentMethod' \in MethodPointer
        /\ currentMethod'.suite = currentMethod.suite
        /\ currentMethod'.method = currentMethod.method
    BY <1>6 DEF ColTypes, MethodPointer
  <2> QED BY <1>1, <1>3, <1>4, <1>6, <2>1 DEF ColTypes
<1> QED BY <1>5, <1>6 DEF InitializeSuite

LEMMA FinishSuiteEffect ==
  ASSUME TreeInv, ColTypes, NEW t \in Thread, FinishSuite(t), call[t] # NoCall
  PROVE  /\ ColTypes' /\ currentSuite \in DOMAIN suites
         /\ UNCHANGED currentMethod /\ Len(suites') = Len(suites)
         /\ suites'[currentSuite] = [suites[currentSuite] EXCEPT !.numPositive = call[t].num]
         /\ \A i \in DOMAIN suites :
              /\ suites'[i].suite = suites[i].suite /\ suites'[i].methods = suites[i].methods
              /\ suites'[i].numTests = suites[i].numTests
              /\ i # currentSuite => suites'[i] = suites[i]
<1>1. PICK i : i = currentSuite
  OBVIOUS
<1>2. i \in DOMAIN suites /\ suites[i] \in SuiteInfo
  BY <1>1 DEF FinishSuite, ColTypes
<1>3. PICK info : info = [suites[i] EXCEPT !.numPositive = call[t].num]
  OBVIOUS
<1>4. /\ info \in SuiteInfo /\ info.methods = suites[i].methods
      /\ info.suite = suites[i].suite /\ info.numTests = suites[i].numTests
  BY <1>2, <1>3, CallArguments DEF SuiteInfo
<1>5. suites' = [suites EXCEPT ![i] = info]
  BY <1>1, <1>3 DEF FinishSuite
<1>6. /\ suites' \in Seq(SuiteInfo) /\ Len(suites') = Len(suites)
      /\ DOMAIN suites' = DOMAIN suites /\ suites'[i] = info
      /\ \A j \in DOMAIN suites : j # i => suites'[j] = suites[j]
  BY <1>2, <1>4, <1>5, ReplaceSuite DEF ColTypes
<1>7. UNCHANGED <<currentSuite, currentMethod>>
  BY DEF FinishSuite
<1> QED BY <1>1, <1>2, <1>3, <1>4, <1>6, <1>7, ZenonT(60) DEF ColTypes, NullMethod

LEMMA InitializeTestMethodEffect ==
  ASSUME TreeInv, ColTypes, NEW t \in Thread, InitializeTestMethod(t), call[t] # NoCall
  PROVE  /\ ColTypes' /\ currentSuite \in DOMAIN suites /\ Len(suites') = Len(suites)
         /\ suites'[currentSuite] =
              [suites[currentSuite] EXCEPT !.methods = Append(@, NewMethod)]
         /\ currentMethod' = [suite |-> currentSuite,
                              method |-> Len(suites[currentSuite].methods) + 1,
                              dangling |-> FALSE]
         /\ \A i \in DOMAIN suites : i # currentSuite => suites'[i] = suites[i]
<1>1. PICK i : i = currentSuite
  OBVIOUS
<1>2. i \in DOMAIN suites /\ suites[i] \in SuiteInfo /\ i \in Nat
  BY <1>1 DEF InitializeTestMethod, ColTypes
<1>3. PICK info : info = [suites[i] EXCEPT !.methods = Append(@, NewMethod)]
  OBVIOUS
<1>4. NewMethod \in TestMethodInfo /\ suites[i].methods \in Seq(TestMethodInfo)
  BY <1>2 DEF NewMethod, TestMethodInfo, SuiteInfo
<1>5. /\ info \in SuiteInfo /\ info.methods = Append(suites[i].methods, NewMethod)
  <2>1. PICK methods : methods = Append(suites[i].methods, NewMethod)
    OBVIOUS
  <2>2. methods \in Seq(TestMethodInfo)
    BY <1>4, <2>1
  <2>3. info = [suites[i] EXCEPT !.methods = methods]
    BY <1>3, <2>1
  <2> QED BY <1>2, <2>1, <2>2, <2>3 DEF SuiteInfo
<1>6. suites' = [suites EXCEPT ![i] = info]
  BY <1>1, <1>3 DEF InitializeTestMethod
<1>7. /\ suites' \in Seq(SuiteInfo) /\ Len(suites') = Len(suites)
      /\ DOMAIN suites' = DOMAIN suites /\ suites'[i] = info
      /\ \A j \in DOMAIN suites : j # i => suites'[j] = suites[j]
  BY <1>2, <1>5, <1>6, ReplaceSuite DEF ColTypes
<1>8. PICK n : n = Len(suites[i].methods) + 1
  OBVIOUS
<1>9. n \in Nat /\ n \in DOMAIN info.methods
  BY <1>4, <1>5, <1>8
<1>10. /\ currentSuite' = currentSuite
       /\ currentMethod' = [suite |-> i, method |-> n, dangling |-> FALSE]
  BY <1>1, <1>8 DEF InitializeTestMethod
<1>11. currentMethod' \in MethodPointer /\ currentMethod'.suite = i /\ currentMethod'.method = n
  BY <1>2, <1>9, <1>10 DEF MethodPointer
<1> QED BY <1>1, <1>2, <1>3, <1>7, <1>8, <1>9, <1>10, <1>11 DEF ColTypes

LEMMA MethodRecordType ==
  ASSUME NEW m \in TestMethodInfo, NEW op \in MethodOp, NEW ok \in BOOLEAN
  PROVE  MethodRecord(m, op, ok) \in TestMethodInfo
BY DEF TestMethodInfo, MethodOp, MethodRecord

LEMMA RecordOnMethodEffect ==
  ASSUME TreeInv, ColTypes, NEW t \in Thread, RecordOnMethod(t), call[t] # NoCall
  PROVE  /\ ColTypes' /\ UNCHANGED <<currentSuite, currentMethod>>
         /\ Len(suites') = Len(suites)
         /\ \A i \in DOMAIN suites :
              /\ suites'[i].suite = suites[i].suite
              /\ suites'[i].numTests = suites[i].numTests
              /\ suites'[i].numPositive = suites[i].numPositive
              /\ DOMAIN suites'[i].methods = DOMAIN suites[i].methods
              /\ \A j \in DOMAIN suites[i].methods :
                   suites'[i].methods[j] =
                     IF /\ ~currentMethod.dangling
                        /\ i = currentMethod.suite /\ j = currentMethod.method
                     THEN MethodRecord(suites[i].methods[j], call[t].op, call[t].ok)
                     ELSE suites[i].methods[j]
<1>1. CASE currentMethod.dangling
  BY <1>1 DEF RecordOnMethod, ColTypes, NullMethod
<1>2. CASE ~currentMethod.dangling
  <2>1. PICK i, m : i = currentMethod.suite /\ m = currentMethod.method
    OBVIOUS
  <2>2. i \in DOMAIN suites /\ suites[i] \in SuiteInfo /\ m \in DOMAIN suites[i].methods
    BY <2>1 DEF RecordOnMethod, ColTypes
  <2>3. suites[i].methods \in Seq(TestMethodInfo) /\ suites[i].methods[m] \in TestMethodInfo
    BY <2>2 DEF SuiteInfo
  <2>4. PICK new : new = MethodRecord(suites[i].methods[m], call[t].op, call[t].ok)
    OBVIOUS
  <2>5. new \in TestMethodInfo
    BY <2>3, <2>4, MethodRecordType, CallArguments DEF RecordOnMethod
  <2>6. PICK methods : methods = [suites[i].methods EXCEPT ![m] = new]
    OBVIOUS
  <2>7. /\ methods \in Seq(TestMethodInfo) /\ DOMAIN methods = DOMAIN suites[i].methods
        /\ methods[m] = new
        /\ \A j \in DOMAIN methods : j # m => methods[j] = suites[i].methods[j]
    BY <2>2, <2>3, <2>5, <2>6
  <2>8. PICK info : info = [suites[i] EXCEPT !.methods = methods]
    OBVIOUS
  <2>9. /\ info \in SuiteInfo /\ info.methods = methods /\ info.suite = suites[i].suite
        /\ info.numPositive = suites[i].numPositive /\ info.numTests = suites[i].numTests
    BY <2>2, <2>7, <2>8 DEF SuiteInfo
  <2>10. suites' = [suites EXCEPT ![i] = info]
    BY <1>2, <2>1, <2>4, <2>6, <2>8 DEF RecordOnMethod
  <2>11. /\ suites' \in Seq(SuiteInfo) /\ Len(suites') = Len(suites)
         /\ DOMAIN suites' = DOMAIN suites /\ suites'[i] = info
         /\ \A j \in DOMAIN suites : j # i => suites'[j] = suites[j]
    BY <2>2, <2>9, <2>10, ReplaceSuite DEF ColTypes
  <2>12. UNCHANGED <<currentSuite, currentMethod>>
    BY DEF RecordOnMethod
  <2>13. ColTypes'
    BY <2>1, <2>2, <2>7, <2>9, <2>11, <2>12 DEF ColTypes, NullMethod
  <2> QED BY <1>2, <2>1, <2>4, <2>7, <2>9, <2>11, <2>12, <2>13
<1> QED BY <1>1, <1>2

LEMMA ColTypesHold == CSpec => []ColTypes
<1>1. CInit => ColTypes
  BY DEF CInit, ColTypes, MethodPointer, NullMethod
<1>2. TreeInv /\ ColTypes /\ [CNext]_cvars => ColTypes'
  <2> SUFFICES ASSUME TreeInv, ColTypes, [CNext]_cvars PROVE ColTypes'
    OBVIOUS
  <2>1. CASE UNCHANGED collector
    BY <2>1 DEF collector, ColTypes, NullMethod
  <2>2. ASSUME NEW t \in Thread, PCallReturns(t), Record(t)
        PROVE  ColTypes'
    BY <2>2, InitializeSuiteEffect, FinishSuiteEffect, InitializeTestMethodEffect,
       RecordOnMethodEffect DEF Record, PCallReturns, Inside
  <2> QED BY <2>1, <2>2 DEF CNext, CFinished, CStep, InvalidTestMethod, cvars
<1> QED BY <1>1, <1>2, CTreeInvHolds, PTL DEF CSpec

\* Whatever the threads do, the records have their types and the two pointers
\* lie within the vectors.
THEOREM CollectorTypes == CSpec => []CTypeOK
<1>1. TreeInv /\ ColTypes => CTypeOK
  BY DEF TreeInv, ColTypes, CTypeOK
<1> QED BY <1>1, CTreeInvHolds, ColTypesHold, PTL

-----------------------------------------------------------------------------
\* Trees of plain suites: one thread, whose records come in the order in which
\* it runs suites and methods.

LEMMA OnlyRoot ==
  ASSUME Parallel = {}
  PROVE  Thread = {Root}
BY DEF Thread

LEMMA PlainSteps ==
  ASSUME Parallel = {}, TreeInv, pc[Root] # "warn", NEW t \in Thread, CStep(t)
  PROVE  /\ t = Root
         /\ \/ SuiteStep(Root) /\ UNCHANGED <<locks, collector>>
            \/ Acquire(Root) /\ UNCHANGED collector
            \/ PCallReturns(Root) /\ Record(Root)
            \/ InvalidTestMethod(Root)
<1>1. t = Root
  BY OnlyRoot
<1>2. pc[Root] \notin {"spawn", "join", "unwinding"} /\ ~IsParallel(Root)
  BY ConstantTypes DEF TreeInv, KindInv, KindOK, Waiting, IsParallel
<1>3. ~ParallelStep(Root)
  BY <1>2 DEF ParallelStep, PStartRun, PSetupReturns, Warn, PTearDownReturns, Spawn,
     SpawnThrows, AllSpawned, Join, AllJoined, Unwind, At
<1> QED BY <1>1, <1>3 DEF CStep, PLocalStep

\* Where the thread makes which call.
CallPlace(p, c) ==
  \/ p = "run" /\ c.op = "initializeSuite" /\ c.then = "setup"
  \/ p = "loop" /\ c.op = "initializeTestMethod" /\ c.then = "before"
  \/ p \in {"setup", "tear_down"} /\ c.op = "finishSuite" /\ c.then = "subs"
  \/ p = "after" /\ c.op = "finishTestMethod" /\ c.then = "counted"
  \/ p = "catch" /\ c.op = "printException" /\ c.then = "after"
  \/ /\ p \in {"setup", "before", "after", "tear_down"}
     /\ c.op \in {"printSuccess", "printFailure"} /\ c.then \in {p, "unwound"}
  \/ /\ p \in {"body", "handler"}
     /\ c.op \in {"printSuccess", "printFailure"} /\ c.then \in {"body", "handler", "after"}

PlaceInv ==
  /\ pc[Root] # "warn"
  /\ call[Root] # NoCall => CallPlace(pc[Root], call[Root])

\* The thread is at p with the suite s at hand and its n-th method: the last
\* record is for s and has as many methods as were begun.
FiledAt(p, n, s) ==
  LET last == suites[Len(suites)] IN
  /\ p \in UserPlace \cup {"loop", "handler", "catch", "counted", "subs"} =>
       Len(suites) \in DOMAIN suites /\ last.suite = s
  /\ p = "setup" => n = 1 /\ Len(last.methods) = 0
  /\ p = "loop" => Len(last.methods) = n - 1
  /\ p \in MethodPC =>
       /\ Len(last.methods) = n
       /\ currentMethod = [suite |-> Len(suites), method |-> n, dangling |-> FALSE]

FiledInv ==
  /\ FiledAt(pc[Root], next[Root], Current(Root))
  /\ call[Root] # NoCall /\ pc[Root] = "run" => next[Root] = 1

PlainInv == PlaceInv /\ FiledInv

\* The steps between two calls.
LEMMA PlainReport ==
  ASSUME TreeInv, PlainInv, NEW op \in {"printSuccess", "printFailure"}, NEW then,
         Report(Root, op, then), pc[Root] \in UserPlace \cup {"handler"},
         \/ pc[Root] \in UserPlace /\ then \in {pc[Root], "unwound"} /\ pc[Root] # "body"
         \/ pc[Root] \in {"body", "handler"} /\ then \in {"body", "handler", "after"},
         UNCHANGED collector
  PROVE  PlainInv'
<1>1. Root \in Thread /\ call \in [Thread -> OutputCall]
  BY ConstantTypes DEF TreeInv, SuiteInv, TypeOK
<1>2. call'[Root] = [op |-> op, num |-> 0, ok |-> op = "printSuccess", then |-> then]
  BY <1>1 DEF Report, Issue
<1>3. call'[Root].op = op /\ call'[Root].then = then
  BY <1>2
<1>4. UNCHANGED <<pc, next, pending, suites, currentMethod>>
  BY DEF Report, collector
<1>5. CallPlace(pc[Root], call'[Root])
  BY <1>3 DEF CallPlace, UserPlace
<1>6. pc[Root] # "run" /\ pc[Root] # "warn"
  BY DEF UserPlace
<1> QED BY <1>4, <1>5, <1>6 DEF PlainInv, PlaceInv, FiledInv, FiledAt, Current

LEMMA PlainUserCode ==
  ASSUME TreeInv, PlainInv, UserCode(Root), UNCHANGED collector
  PROVE  PlainInv'
<1>1. /\ Root \in Thread /\ call \in [Thread -> OutputCall] /\ pc \in [Thread -> PC]
      /\ next \in [Thread -> Nat \ {0}] /\ call[Root] = NoCall
  BY ConstantTypes, UserCodeEffect DEF TreeInv, SuiteInv, TypeOK
<1>2. CASE AssertHolds(Root)
  BY <1>2, PlainReport DEF AssertHolds, InUserCode, UserPlace
<1>3. CASE AssertFails(Root)
  BY <1>3, PlainReport DEF AssertFails, InUserCode, WhereFailureGoesOn, UserPlace
<1>4. CASE Aborts(Root)
  <2>1. PICK then \in WhereAbortGoesOn(pc[Root]) : Report(Root, "printFailure", then)
    BY <1>4 DEF Aborts
  <2> QED BY <1>4, <2>1, PlainReport DEF Aborts, WhereAbortGoesOn, InUserCode, UserPlace
<1>5. CASE ExpectThrowFails(Root)
  BY <1>5, PlainReport DEF ExpectThrowFails, At, UserPlace
<1>6. CASE MacroCatches(Root)
  <2>1. WhereFailureGoesOn("body") \in {"body", "after"} /\ pc[Root] = "handler"
    BY <1>6 DEF WhereFailureGoesOn, MacroCatches, At
  <2>2. \/ Report(Root, "printFailure", WhereFailureGoesOn("body"))
        \/ Report(Root, "printSuccess", "body")
    BY <1>6 DEF MacroCatches
  <2> QED BY <2>1, <2>2, PlainReport
<1>7. CASE BodyThrows(Root)
  <2>1. /\ pc[Root] = "body" /\ pc'[Root] = "catch"
        /\ call'[Root] = [op |-> "printException", num |-> 0, ok |-> FALSE, then |-> "after"]
        /\ UNCHANGED <<next, pending, suites, currentMethod>>
    BY <1>1, <1>7 DEF BodyThrows, At, Goto, Issue, collector
  <2>2. call'[Root].op = "printException" /\ call'[Root].then = "after"
    BY <2>1
  <2> QED BY <2>1, <2>2 DEF PlainInv, PlaceInv, CallPlace, FiledInv, FiledAt, Current, UserPlace,
          MethodPC
<1>8. CASE HookThrows(Root)
  <2>1. pc'[Root] = "unwound" /\ call'[Root] = NoCall
    BY <1>1, <1>8 DEF HookThrows, Goto
  <2> QED BY <2>1 DEF PlainInv, PlaceInv, FiledInv, FiledAt, UserPlace, MethodPC
<1> QED BY <1>2, <1>3, <1>4, <1>5, <1>6, <1>7, <1>8 DEF UserCode

LEMMA PlainStep ==
  ASSUME Parallel = {}, TreeInv, ColTypes, PlainInv, SuiteStep(Root), UNCHANGED collector
  PROVE  PlainInv'
<1>1. /\ Root \in Thread /\ call \in [Thread -> OutputCall] /\ pc \in [Thread -> PC]
      /\ next \in [Thread -> Nat \ {0}] /\ call[Root] = NoCall
      /\ pending \in [Thread -> Seq(Suite)]
  BY ConstantTypes, SuiteStepEffect DEF TreeInv, SuiteInv, TypeOK
<1>2. UNCHANGED <<suites, currentMethod>>
  BY DEF collector
<1> USE DEF At, Goto, Issue, PlainInv, PlaceInv, CallPlace, FiledInv, FiledAt, Current, UserPlace,
        MethodPC
<1>3. CASE UserCode(Root)
  BY <1>3, PlainUserCode
<1>4. CASE StartRun(Root)
  <2>1. /\ pc'[Root] = "run" /\ next'[Root] = 1
        /\ call'[Root].op = "initializeSuite" /\ call'[Root].then = "setup"
    BY <1>1, <1>4 DEF StartRun
  <2> QED BY <2>1
<1>5. CASE SetupReturns(Root)
  <2>1. pc[Root] = "setup" /\ UNCHANGED <<next, pending>>
    BY <1>5 DEF SetupReturns
  <2>2. \/ pc'[Root] = "loop" /\ call'[Root] = NoCall
        \/ /\ pc'[Root] = "setup" /\ call'[Root].op = "finishSuite"
           /\ call'[Root].then = "subs"
    BY <1>1, <1>5, <2>1 DEF SetupReturns
  <2> QED BY <1>2, <2>1, <2>2
<1>6. CASE StartMethod(Root)
  <2>1. /\ pc[Root] = "loop" /\ UNCHANGED <<pc, next, pending>>
        /\ call'[Root].op = "initializeTestMethod" /\ call'[Root].then = "before"
    BY <1>1, <1>6 DEF StartMethod
  <2> QED BY <1>2, <2>1
<1>7. CASE BeforeReturns(Root)
  <2>1. pc[Root] = "before" /\ call'[Root] = NoCall /\ UNCHANGED pending
    BY <1>1, <1>7 DEF BeforeReturns
  <2>2. \/ pc'[Root] = "body" /\ next'[Root] = next[Root]
        \/ pc'[Root] = "loop" /\ next'[Root] = next[Root] + 1
    BY <1>1, <1>7 DEF BeforeReturns
  <2> QED BY <1>1, <1>2, <2>1, <2>2
<1>8. CASE BodyReturns(Root)
  <2>1. /\ pc[Root] = "body" /\ call'[Root] = NoCall /\ UNCHANGED <<pending, next>>
        /\ pc'[Root] = "after"
    BY <1>1, <1>8 DEF BodyReturns
  <2> QED BY <1>2, <2>1
<1>9. CASE AfterReturns(Root)
  <2>1. /\ pc[Root] = "after" /\ UNCHANGED <<pending, next>>
    BY <1>1, <1>9 DEF AfterReturns
  <2>2. \/ pc'[Root] = "counted" /\ call'[Root] = NoCall
        \/ /\ pc'[Root] = "after" /\ call'[Root].op = "finishTestMethod"
           /\ call'[Root].then = "counted"
    BY <1>1, <1>9, <2>1 DEF AfterReturns
  <2> QED BY <1>2, <2>1, <2>2
<1>10. CASE CountMethod(Root)
  <2>1. /\ pc[Root] = "counted" /\ UNCHANGED pending /\ next'[Root] = next[Root] + 1
        /\ pc'[Root] = "loop" /\ call'[Root] = NoCall
    BY <1>1, <1>10 DEF CountMethod
  <2> QED BY <1>1, <1>2, <2>1
<1>11. CASE EndLoop(Root)
  <2>1. /\ pc[Root] = "loop" /\ UNCHANGED pending /\ pc'[Root] = "tear_down"
        /\ call'[Root] = NoCall
    BY <1>1, <1>11 DEF EndLoop, locals
  <2> QED BY <1>2, <2>1
<1>12. CASE TearDownReturns(Root)
  <2>1. /\ pc[Root] = "tear_down" /\ UNCHANGED <<pc, pending>>
        /\ call'[Root].op = "finishSuite" /\ call'[Root].then = "subs"
    BY <1>1, <1>12 DEF TearDownReturns
  <2> QED BY <1>2, <2>1
<1>13. CASE RunSubSuites(Root)
  <2>1. pc'[Root] \in {"run", "returned"} /\ call'[Root] = NoCall
    BY <1>1, <1>13 DEF RunSubSuites, FinishHead
  <2> QED BY <2>1
<1> QED BY <1>3, <1>4, <1>5, <1>6, <1>7, <1>8, <1>9, <1>10, <1>11, <1>12, <1>13 DEF SuiteStep

LEMMA SameLength ==
  ASSUME NEW S, NEW f \in Seq(S), NEW g \in Seq(S), DOMAIN f = DOMAIN g
  PROVE  Len(f) = Len(g)
OBVIOUS

\* The calls that return, with what they have done to the records.
LEMMA PlainReturn ==
  ASSUME TreeInv, ColTypes, PlainInv, PCallReturns(Root), Record(Root)
  PROVE  PlainInv'
<1>1. /\ Root \in Thread /\ call \in [Thread -> OutputCall] /\ pc \in [Thread -> PC]
      /\ next[Root] \in Nat \ {0}
  BY ConstantTypes DEF TreeInv, SuiteInv, TypeOK
<1>2. /\ call[Root] # NoCall /\ pc'[Root] = call[Root].then /\ call'[Root] = NoCall
      /\ UNCHANGED <<pending, next>>
  BY <1>1 DEF PCallReturns, CallReturns, Goto, locals
<1>3. CallPlace(pc[Root], call[Root]) /\ call[Root].then # "warn"
  BY <1>2 DEF PlainInv, PlaceInv, CallPlace
<1>4. PlaceInv'
  BY <1>2, <1>3 DEF PlaceInv
<1>5. Len(suites) \in Nat /\ DOMAIN suites = 1 .. Len(suites)
  BY DEF ColTypes
<1>6. FiledAt(pc[Root], next[Root], Current(Root)) /\ (pc[Root] = "run" => next[Root] = 1)
  BY <1>2 DEF PlainInv, FiledInv
<1>7a. PICK p : p = call[Root].then
  OBVIOUS
<1>7b. PICK n : n = next[Root]
  OBVIOUS
<1>7c. PICK s : s = Current(Root)
  OBVIOUS
<1>7d. pc'[Root] = p /\ next'[Root] = n /\ Current(Root)' = s
  BY <1>2, <1>7a, <1>7b, <1>7c DEF Current
<1>7e. FiledAt(p, n, s)' /\ (p = "run" => n = 1) => PlainInv'
  BY <1>4, <1>7d DEF PlainInv, FiledInv
<1>7f. p # "run"
  BY <1>2, <1>3, <1>7a DEF CallPlace
<1>7. SUFFICES FiledAt(p, n, s)'
  BY <1>7e, <1>7f
<1>8. CASE InitializeSuite(Root)
  <2>1. p = "setup" /\ n = 1
    BY <1>3, <1>6, <1>7a, <1>7b, <1>8 DEF CallPlace, InitializeSuite
  <2>2. /\ Len(suites') = Len(suites) + 1 /\ DOMAIN suites' = 1 .. Len(suites')
        /\ suites'[Len(suites')].suite = s
        /\ Len(suites'[Len(suites')].methods) = 0
    <3>1. /\ ColTypes' /\ Len(suites') = Len(suites) + 1
          /\ suites'[Len(suites) + 1] = [suite |-> s, numTests |-> call[Root].num,
                                         numPositive |-> 0, methods |-> <<>>]
      BY <1>1, <1>2, <1>7c, <1>8, InitializeSuiteEffect
    <3>2. DOMAIN suites' = 1 .. Len(suites')
      BY <3>1 DEF ColTypes
    <3>3. /\ suites'[Len(suites')].suite = s
          /\ suites'[Len(suites')].methods = <<>>
      BY <3>1
    <3> QED BY <3>1, <3>2, <3>3
  <2> QED BY <1>2, <1>5, <2>1, <2>2 DEF FiledAt, MethodPC
<1>9. CASE FinishSuite(Root)
  <2>1. p = "subs" /\ pc[Root] \in {"setup", "tear_down"}
    BY <1>3, <1>7a, <1>9 DEF CallPlace, FinishSuite
  <2>2. /\ Len(suites') = Len(suites) /\ DOMAIN suites' = 1 .. Len(suites)
        /\ \A i \in DOMAIN suites : suites'[i].suite = suites[i].suite
    <3>1. /\ ColTypes' /\ Len(suites') = Len(suites)
          /\ \A i \in DOMAIN suites : suites'[i].suite = suites[i].suite
      BY <1>1, <1>2, <1>9, FinishSuiteEffect
    <3>2. DOMAIN suites' = 1 .. Len(suites')
      BY <3>1 DEF ColTypes
    <3> QED BY <3>1, <3>2
  <2> QED BY <1>2, <1>5, <1>6, <1>7b, <1>7c, <2>1, <2>2 DEF FiledAt, MethodPC, UserPlace
<1>10. CASE InitializeTestMethod(Root)
  <2>1. p = "before" /\ pc[Root] = "loop"
    BY <1>3, <1>7a, <1>10 DEF CallPlace, InitializeTestMethod
  <2>2. PICK i : i = Len(suites)
    OBVIOUS
  <2>3. /\ i \in DOMAIN suites /\ suites[i].suite = s
        /\ Len(suites[i].methods) = n - 1 /\ suites[i] \in SuiteInfo
    BY <1>6, <1>7b, <1>7c, <2>1, <2>2 DEF FiledAt, ColTypes
  <2>4. /\ Len(suites') = i /\ DOMAIN suites' = 1 .. i
        /\ suites'[i] = [suites[i] EXCEPT !.methods = Append(@, NewMethod)]
        /\ currentMethod' = [suite |-> i, method |-> Len(suites[i].methods) + 1,
                             dangling |-> FALSE]
    <3>1. currentSuite = i
      BY <2>2 DEF ColTypes
    <3>2. /\ ColTypes' /\ Len(suites') = i
          /\ suites'[i] = [suites[i] EXCEPT !.methods = Append(@, NewMethod)]
          /\ currentMethod' = [suite |-> i, method |-> Len(suites[i].methods) + 1,
                               dangling |-> FALSE]
      BY <1>1, <1>2, <1>10, <2>2, <3>1, InitializeTestMethodEffect
    <3>3. DOMAIN suites' = 1 .. Len(suites')
      BY <3>2 DEF ColTypes
    <3> QED BY <3>2, <3>3
  <2>5. /\ suites'[i].suite = s
        /\ Len(suites'[i].methods) = Len(suites[i].methods) + 1
    <3>1. suites'[i].methods = Append(suites[i].methods, NewMethod)
      BY <2>3, <2>4 DEF SuiteInfo
    <3>2. suites'[i].suite = suites[i].suite
      BY <2>3, <2>4 DEF SuiteInfo
    <3>3. suites[i].methods \in Seq(TestMethodInfo)
      BY <2>3 DEF SuiteInfo
    <3> QED BY <2>3, <3>1, <3>2, <3>3
  <2>6. Len(suites[i].methods) + 1 = n
    BY <1>1, <1>7b, <2>3
  <2> QED BY <1>2, <1>5, <2>1, <2>2, <2>3, <2>4, <2>5, <2>6 DEF FiledAt, MethodPC
<1>11. CASE RecordOnMethod(Root)
  <2>1. /\ Len(suites') = Len(suites) /\ DOMAIN suites' = DOMAIN suites
        /\ currentMethod' = currentMethod /\ ColTypes'
        /\ \A i \in DOMAIN suites : /\ suites'[i].suite = suites[i].suite
                                   /\ DOMAIN suites'[i].methods = DOMAIN suites[i].methods
    <3>1. /\ ColTypes' /\ Len(suites') = Len(suites) /\ currentMethod' = currentMethod
          /\ \A i \in DOMAIN suites : /\ suites'[i].suite = suites[i].suite
                                     /\ DOMAIN suites'[i].methods = DOMAIN suites[i].methods
      BY <1>1, <1>2, <1>11, RecordOnMethodEffect
    <3>2. DOMAIN suites' = 1 .. Len(suites')
      BY <3>1 DEF ColTypes
    <3> QED BY <1>5, <3>1, <3>2
  <2>2. ASSUME NEW i \in DOMAIN suites
        PROVE  Len(suites'[i].methods) = Len(suites[i].methods)
    <3>1. suites[i] \in SuiteInfo /\ suites'[i] \in SuiteInfo
      BY <2>1 DEF ColTypes
    <3> QED BY <2>1, <3>1, SameLength DEF SuiteInfo
  <2>3. \/ p = "unwound" \/ p = pc[Root]
        \/ pc[Root] \in MethodPC /\ p \in MethodPC
    BY <1>3, <1>7a, <1>11 DEF CallPlace, RecordOnMethod, MethodOp, MethodPC
  <2>4. Len(suites) \in DOMAIN suites =>
          /\ suites'[Len(suites)].suite = suites[Len(suites)].suite
          /\ Len(suites'[Len(suites)].methods) = Len(suites[Len(suites)].methods)
    BY <2>1, <2>2
  <2>5. \A a \in {"setup", "loop"} \cup MethodPC : a \in UserPlace \cup {"loop", "handler", "catch", "counted", "subs"}
    BY DEF UserPlace, MethodPC
  <2>6. CASE p = "unwound"
    BY <2>6 DEF FiledAt, UserPlace, MethodPC
  <2>7. CASE p = pc[Root]
    BY <1>2, <1>6, <1>7b, <1>7c, <2>1, <2>4, <2>5, <2>7 DEF FiledAt
  <2>8. CASE pc[Root] \in MethodPC /\ p \in MethodPC
    BY <1>2, <1>6, <1>7b, <1>7c, <2>1, <2>4, <2>5, <2>8 DEF FiledAt, MethodPC, UserPlace
  <2> QED BY <2>3, <2>6, <2>7, <2>8
<1> QED BY <1>8, <1>9, <1>10, <1>11 DEF Record

LEMMA PlainNext ==
  ASSUME Parallel = {}, TreeInv, ColTypes, PlainInv, [CNext]_cvars
  PROVE  PlainInv'
<1>1. UNCHANGED vars /\ UNCHANGED collector => PlainInv'
  BY DEF vars, locals, collector, PlainInv, PlaceInv, FiledInv, FiledAt, Current
<1>2. CASE UNCHANGED cvars
  BY <1>1, <1>2 DEF cvars, pvars
<1>3. CASE InvalidTestMethod(Root)
  <2>1. pc'[Root] = "unwound" /\ call'[Root] = NoCall
    BY <1>3, ConstantTypes DEF InvalidTestMethod, Goto, TreeInv, SuiteInv, TypeOK
  <2> QED BY <2>1 DEF PlainInv, PlaceInv, FiledInv, FiledAt, UserPlace, MethodPC
<1>4. ASSUME NEW t \in Thread, CStep(t)
      PROVE  PlainInv'
  <2>1. pc[Root] # "warn"
    BY DEF PlainInv, PlaceInv
  <2> QED BY <1>1, <1>3, <1>4, <2>1, PlainSteps, PlainStep, PlainReturn DEF Acquire
<1> QED BY <1>2, <1>4 DEF CNext, CFinished

LEMMA PlainInvHolds ==
  ASSUME Parallel = {}
  PROVE  CSpec => []PlainInv
<1>1. CInit => PlainInv
  <2> SUFFICES ASSUME CInit PROVE PlainInv
    OBVIOUS
  <2>1. pc[Root] = "run" /\ call[Root] = NoCall
    BY ConstantTypes DEF CInit, PInit, Init
  <2> QED BY <2>1 DEF PlainInv, PlaceInv, FiledInv, FiledAt, UserPlace, MethodPC
<1> QED BY <1>1, PlainNext, CTreeInvHolds, ColTypesHold, PTL DEF CSpec

\* Where no suite is parallel, whatever hooks and bodies do and however often
\* the vectors move, what is reported while a test method runs is filed under
\* this method of this suite.
THEOREM RecordsAreFiled ==
  ASSUME Parallel = {}
  PROVE  CSpec => []RecordsUnderRunningMethod
<1>1. PlainInv => RecordsUnderRunningMethod
  BY OnlyRoot DEF PlainInv, FiledInv, FiledAt, RecordsUnderRunningMethod, InMethod,
     MethodPC, UserPlace
<1> QED BY <1>1, PlainInvHolds, PTL
-----------------------------------------------------------------------------
\* Counting records: methods is the vector of a suite, n its current method.

\* The methods before the n-th that are marked successful.
Earlier(methods, n) == {i \in 1 .. n - 1 : methods[i].withSuccess}

Clean(m) == ~m.failed /\ ~m.exception

\* The record of a method that is over.  Assertions of tear_down() are filed on
\* the last method after its verdict, those of a before() that declines on a
\* method without a verdict.
Over(m) ==
  /\ "tear_down" \notin AssertsIn => (m.withSuccess => Clean(m))
  /\ {"before", "tear_down"} \cap AssertsIn = {} =>
       m.withSuccess \/ ~Clean(m) \/ ~m.passed

CountedWell(methods, n, count) ==
  /\ count = Cardinality(Earlier(methods, n))
  /\ \A i \in 1 .. n - 1 : Over(methods[i])

LEMMA EarlierFinite ==
  ASSUME NEW n \in Nat \ {0}, NEW methods
  PROVE  IsFiniteSet(Earlier(methods, n)) /\ n \notin Earlier(methods, n)
<1>1. IsFiniteSet(1 .. n - 1)
  BY FS_Interval
<1>2. Earlier(methods, n) \in SUBSET (1 .. n - 1) /\ n \notin Earlier(methods, n)
  BY DEF Earlier
<1> QED BY <1>1, <1>2, FS_Subset

\* No method yet.
LEMMA NoneCounted == ASSUME NEW methods PROVE CountedWell(methods, 1, 0)
<1>1. Earlier(methods, 1) = {}
  BY DEF Earlier
<1> QED BY <1>1, FS_EmptySet DEF CountedWell

\* The records of earlier methods are what the count is about.
LEMMA SameCount ==
  ASSUME NEW n \in Nat \ {0}, NEW old, NEW new, NEW count,
         \A i \in 1 .. n - 1 : /\ new[i].withSuccess <=> old[i].withSuccess
                               /\ Over(old[i]) => Over(new[i]),
         CountedWell(old, n, count)
  PROVE  CountedWell(new, n, count)
<1>1. Earlier(new, n) = Earlier(old, n)
  BY DEF Earlier
<1> QED BY <1>1 DEF CountedWell

\* One more method is over.
LEMMA CountOne ==
  ASSUME NEW n \in Nat \ {0}, NEW methods, NEW count, CountedWell(methods, n, count),
         Over(methods[n])
  PROVE  /\ methods[n].withSuccess => CountedWell(methods, n + 1, count + 1)
         /\ ~methods[n].withSuccess => CountedWell(methods, n + 1, count)
<1>1. CASE methods[n].withSuccess
  <2>1. Earlier(methods, n + 1) = Earlier(methods, n) \cup {n}
    BY <1>1 DEF Earlier
  <2>2. Cardinality(Earlier(methods, n + 1)) = Cardinality(Earlier(methods, n)) + 1
    BY <2>1, EarlierFinite, FS_AddElement
  <2> QED BY <1>1, <2>1, <2>2 DEF CountedWell
<1>2. CASE ~methods[n].withSuccess
  <2>1. Earlier(methods, n + 1) = Earlier(methods, n)
    BY <1>2 DEF Earlier
  <2> QED BY <1>2, <2>1 DEF CountedWell
<1> QED BY <1>1, <1>2

\* A complete vector.
LEMMA AllCounted ==
  ASSUME NEW info \in SuiteInfo, NEW n \in Nat \ {0}, NEW count,
         Len(info.methods) = n - 1, CountedWell(info.methods, n, count)
  PROVE  /\ count = Cardinality(Successful(info))
         /\ \A i \in DOMAIN info.methods : Over(info.methods[i])
<1>1. DOMAIN info.methods = 1 .. n - 1
  BY DEF SuiteInfo
<1>2. Successful(info) = Earlier(info.methods, n)
  BY <1>1 DEF Successful, Earlier
<1> QED BY <1>1, <1>2 DEF CountedWell

-----------------------------------------------------------------------------
\* The invariant.

\* The record m of the running method and what the thread knows of it: its
\* place p and call c, currentTestSucceeded ok and exceptionThrown threw.
RunningOK(m, p, c, ok, threw) ==
  /\ p # "counted" => ~m.withSuccess
  /\ p = "counted" => (m.withSuccess <=> ok)
  /\ ~Clean(m) \/ threw => ~ok
  /\ ~ok => ~Clean(m) \/ c.op \in {"printFailure", "printException"}
  /\ p = "before" /\ "before" \notin AssertsIn => ~m.passed /\ c.op # "printSuccess"
  /\ p = "handler" \/ c.then = "handler" => ~ok
  /\ c.op \in {"printFailure", "printException"} => ~ok
  /\ c.op = "finishTestMethod" => (c.ok <=> ok)

CountingPC == {"setup", "loop", "tear_down"} \cup MethodPC

\* The record info of the suite at hand and its counter positiveTestMethods.
CountOK(p, n, c, info, count, ok, threw) ==
  /\ p = "run" /\ c # NoCall => count = 0
  /\ p \in CountingPC => CountedWell(info.methods, n, count)
  /\ p \in CountingPC => n <= numTests + 1
  /\ p \in MethodPC => n <= numTests
  /\ c.op = "initializeTestMethod" => ~threw /\ ok /\ n <= numTests
  /\ p \in MethodPC => RunningOK(info.methods[n], p, c, ok, threw)
  /\ p = "tear_down" => Len(info.methods) = n - 1
  /\ c.op \in {"printSuccess", "printFailure"} => p \in AssertsIn \cup {"handler"}
  /\ c.op = "finishSuite" => c.num = count
  /\ p = "subs" => /\ count = Cardinality(Successful(info))
                   /\ info.numPositive = count /\ Len(info.methods) <= numTests
                   /\ \A i \in DOMAIN info.methods : Over(info.methods[i])

SumInv ==
  CountOK(pc[Root], next[Root], call[Root], suites[Len(suites)],
          positive[Current(Root)], succeeded[Current(Root)], thrown[Root])

LEMMA RootTypes ==
  ASSUME TreeInv
  PROVE  /\ Root \in Thread /\ SuiteInv
         /\ pc \in [Thread -> PC] /\ call \in [Thread -> OutputCall]
         /\ next \in [Thread -> Nat \ {0}] /\ thrown \in [Thread -> BOOLEAN]
         /\ positive \in [Suite -> Nat] /\ succeeded \in [Suite -> BOOLEAN]
BY ConstantTypes DEF TreeInv, SuiteInv, TypeOK

-----------------------------------------------------------------------------
\* The steps between two calls.

\* An assertion is reported, failed ones after the verdict was taken back.
LEMMA CountReport ==
  ASSUME TreeInv, SumInv, NEW op \in {"printSuccess", "printFailure"}, NEW then,
         Report(Root, op, then), UNCHANGED collector, Current(Root) \in Suite,
         call[Root] = NoCall,
         pc[Root] \in UserPlace \cup {"handler"}, pc[Root] \in AssertsIn \cup {"handler"},
         \/ UNCHANGED succeeded
         \/ succeeded' = [succeeded EXCEPT ![Current(Root)] = FALSE] /\ op = "printFailure",
         op = "printFailure" \/ then = "handler" => ~succeeded'[Current(Root)]
  PROVE  SumInv'
<1>1. PICK p, n, c, info, s : /\ p = pc[Root] /\ n = next[Root] /\ c = call'[Root]
                              /\ info = suites[Len(suites)] /\ s = Current(Root)
  OBVIOUS
<1>2. /\ c.op = op /\ c.then = then /\ c # NoCall
      /\ UNCHANGED <<pc, next, pending, thrown, positive, suites>>
  BY <1>1, RootTypes DEF Report, Issue, collector, NoCall
<1>3. /\ succeeded'[s] => succeeded[s]
      /\ op = "printSuccess" => (succeeded'[s] <=> succeeded[s])
  BY <1>1, RootTypes
<1>4. CountOK(p, n, NoCall, info, positive[s], succeeded[s], thrown[Root])
  BY <1>1 DEF SumInv
<1>5. /\ p # "counted" /\ p # "run" /\ p # "subs"
      /\ p \in AssertsIn \cup {"handler"}
  BY <1>1 DEF UserPlace
<1>6. p \in MethodPC => RunningOK(info.methods[n], p, c, succeeded'[s], thrown[Root])
  BY <1>1, <1>2, <1>3, <1>4, <1>5 DEF CountOK, RunningOK, NoCall
<1>7. CountOK(p, n, c, info, positive[s], succeeded'[s], thrown[Root])
  BY <1>2, <1>4, <1>5, <1>6 DEF CountOK
<1> QED BY <1>1, <1>2, <1>7 DEF SumInv, Current

LEMMA CountUserCode ==
  ASSUME TreeInv, SumInv, UserCode(Root), UNCHANGED collector
  PROVE  SumInv'
<1>1. /\ Current(Root) \in Suite /\ call[Root] = NoCall
      /\ pc[Root] \in UserPlace \cup {"handler"}
  BY RootTypes, StepsActive, ActiveRuns, UserCodeEffect DEF SuiteStep
<1>2. MayAssert(Root) => pc[Root] \in AssertsIn
  BY DEF MayAssert
<1> DEFINE s == Current(Root)
           Asserting == pc[Root] \in AssertsIn \cup {"handler"}
<1>3. CASE AssertHolds(Root)
  <2>1. /\ Asserting /\ pc[Root] # "handler" /\ UNCHANGED succeeded
        /\ Report(Root, "printSuccess", pc[Root])
    BY <1>1, <1>2, <1>3 DEF AssertHolds, InUserCode, UserPlace
  <2> QED BY <1>1, <2>1, CountReport
<1>4. CASE AssertFails(Root) \/ Aborts(Root) \/ ExpectThrowFails(Root)
  <2>1. /\ Asserting /\ succeeded' = [succeeded EXCEPT ![s] = FALSE]
        /\ \E then : Report(Root, "printFailure", then)
    BY <1>1, <1>2, <1>4 DEF AssertFails, Aborts, ExpectThrowFails, UserPlace
  <2>2. ~succeeded'[s]
    BY <1>1, <2>1, RootTypes
  <2> QED BY <1>1, <2>1, <2>2, CountReport
<1>5. CASE MacroCatches(Root)
  <2>1. /\ pc[Root] = "handler" /\ Asserting /\ UNCHANGED succeeded
        /\ \/ Report(Root, "printFailure", WhereFailureGoesOn("body"))
           \/ Report(Root, "printSuccess", "body")
    BY <1>5 DEF MacroCatches, At
  <2>2. ~succeeded[s]
    BY <2>1 DEF SumInv, CountOK, RunningOK, MethodPC
  <2> QED BY <1>1, <2>1, <2>2, CountReport
<1>6. CASE BodyThrows(Root)
  <2>1. PICK c, info, n : c = call'[Root] /\ info = suites[Len(suites)] /\ n = next[Root]
    OBVIOUS
  <2>2. /\ pc[Root] = "body" /\ pc'[Root] = "catch" /\ ~succeeded'[s]
        /\ c.op = "printException" /\ c.then = "after"
        /\ UNCHANGED <<next, pending, positive, suites>>
    BY <1>1, <1>6, <2>1, RootTypes DEF BodyThrows, At, Goto, Issue, collector
  <2>3. CountOK("body", n, NoCall, info, positive[s], succeeded[s], thrown[Root])
    BY <1>1, <2>1, <2>2 DEF SumInv
  <2>4. RunningOK(info.methods[n], "catch", c, succeeded'[s], thrown'[Root])
    BY <2>2, <2>3 DEF CountOK, RunningOK, MethodPC
  <2>5. CountOK("catch", n, c, info, positive[s], succeeded'[s], thrown'[Root])
    BY <2>2, <2>3, <2>4 DEF CountOK, CountingPC, MethodPC
  <2> QED BY <2>1, <2>2, <2>5 DEF SumInv, Current
<1>7. CASE HookThrows(Root)
  <2>1. pc'[Root] = "unwound" /\ call'[Root] = NoCall
    BY <1>1, <1>7, RootTypes DEF HookThrows, Goto
  <2> QED BY <2>1 DEF SumInv, CountOK, CountingPC, MethodPC, NoCall
<1> QED BY <1>3, <1>4, <1>5, <1>6, <1>7 DEF UserCode

LEMMA CountStep ==
  ASSUME Parallel = {}, TreeInv, ColTypes, PlainInv, SumInv, SuiteStep(Root),
         UNCHANGED collector
  PROVE  SumInv'
<1>1. Current(Root) \in Suite /\ call[Root] = NoCall
  BY RootTypes, StepsActive, ActiveRuns
<1>2. PICK p, n, c, info, s : /\ p = pc[Root] /\ n = next[Root] /\ c = call'[Root]
                              /\ info = suites[Len(suites)] /\ s = Current(Root)
  OBVIOUS
<1>3. /\ CountOK(p, n, NoCall, info, positive[s], succeeded[s], thrown[Root])
      /\ n \in Nat \ {0} /\ positive[s] \in Nat /\ UNCHANGED suites
  BY <1>1, <1>2, RootTypes DEF SumInv, collector
<1>4. SUFFICES ASSUME ~UserCode(Root), ~RunSubSuites(Root)
               PROVE  /\ pending' = pending
                      /\ CountOK(pc'[Root], next'[Root], c, info,
                                 positive'[s], succeeded'[s], thrown'[Root])
  <2>1. CASE UserCode(Root)
    BY <2>1, CountUserCode
  <2>2. CASE RunSubSuites(Root)
    <3>1. pc'[Root] \in {"run", "returned"} /\ call'[Root] = NoCall
      BY <1>1, <2>2, RootTypes DEF RunSubSuites, FinishHead, Goto
    <3> QED BY <3>1 DEF SumInv, CountOK, CountingPC, MethodPC, NoCall
  <2> QED BY <1>2, <1>3, <1>4, <2>1, <2>2 DEF SumInv, Current
<1>5. CASE StartRun(Root)
  <2>1. /\ pc'[Root] = "run" /\ positive'[s] = 0 /\ c.op = "initializeSuite"
        /\ pending' = pending
    BY <1>1, <1>2, <1>5, RootTypes DEF StartRun, At, Issue
  <2> QED BY <2>1 DEF CountOK, CountingPC, MethodPC
<1>6. CASE SetupReturns(Root)
  <2>1. /\ p = "setup" /\ UNCHANGED <<next, pending, thrown, positive, succeeded>>
        /\ \/ pc'[Root] = "loop" /\ c = NoCall
           \/ pc'[Root] = "setup" /\ c.op = "finishSuite" /\ c.num = positive[s]
    BY <1>1, <1>2, <1>6, RootTypes DEF SetupReturns, At, Goto, Issue, members
  <2> QED BY <1>2, <1>3, <2>1 DEF CountOK, CountingPC, MethodPC, NoCall
<1>7. CASE StartMethod(Root)
  <2>1. /\ p = "loop" /\ UNCHANGED <<pc, next, pending, positive>>
        /\ c.op = "initializeTestMethod" /\ ~thrown'[Root] /\ succeeded'[s]
        /\ n <= numTests
    BY <1>1, <1>2, <1>7, RootTypes DEF StartMethod, At, Issue
  <2> QED BY <1>2, <1>3, <2>1 DEF CountOK, CountingPC, MethodPC, NoCall
<1>8. CASE BeforeReturns(Root)
  <2>1. /\ p = "before" /\ c = NoCall /\ UNCHANGED <<pending, thrown, positive, succeeded>>
        /\ \/ pc'[Root] = "body" /\ next'[Root] = n
           \/ pc'[Root] = "loop" /\ next'[Root] = n + 1
    BY <1>1, <1>2, <1>8, RootTypes DEF BeforeReturns, At, Goto, members
  <2>2. /\ CountedWell(info.methods, n, positive[s])
        /\ RunningOK(info.methods[n], "before", NoCall, succeeded[s], thrown[Root])
        /\ n <= numTests /\ n + 1 <= numTests + 1
    BY <1>3, <2>1, ConstantTypes DEF CountOK, CountingPC, MethodPC
  <2>3. CountedWell(info.methods, n + 1, positive[s])
    <3>1. ~info.methods[n].withSuccess /\ Over(info.methods[n])
      BY <2>2 DEF RunningOK, Over
    <3> QED BY <1>3, <2>2, <3>1, CountOne
  <2>4. RunningOK(info.methods[n], "body", NoCall, succeeded[s], thrown[Root])
    BY <2>2 DEF RunningOK, NoCall
  <2>5. CASE pc'[Root] = "body" /\ next'[Root] = n
    BY <1>3, <2>1, <2>2, <2>4, <2>5 DEF CountOK, CountingPC, MethodPC, NoCall
  <2>6. CASE pc'[Root] = "loop" /\ next'[Root] = n + 1
    BY <2>1, <2>2, <2>3, <2>6 DEF CountOK, CountingPC, MethodPC, NoCall
  <2> QED BY <2>1, <2>5, <2>6
<1>9. CASE BodyReturns(Root)
  <2>1. /\ p = "body" /\ c = NoCall /\ pc'[Root] = "after"
        /\ UNCHANGED <<next, pending, thrown, positive, succeeded>>
    BY <1>1, <1>2, <1>9, RootTypes DEF BodyReturns, At, Goto, members
  <2> QED BY <1>2, <1>3, <2>1 DEF CountOK, CountingPC, MethodPC, RunningOK, NoCall
<1>10. CASE AfterReturns(Root)
  <2>1. /\ p = "after" /\ UNCHANGED <<next, pending, thrown, positive, succeeded>>
        /\ \/ pc'[Root] = "counted" /\ c = NoCall /\ thrown[Root]
           \/ /\ pc'[Root] = "after" /\ c.op = "finishTestMethod" /\ c.then = "counted"
              /\ c.ok = succeeded[s]
    BY <1>1, <1>2, <1>10, RootTypes DEF AfterReturns, At, Goto, Issue, members
  <2>2. RunningOK(info.methods[n], "after", NoCall, succeeded[s], thrown[Root])
    BY <1>3, <2>1 DEF CountOK, MethodPC
  <2>3. RunningOK(info.methods[n], pc'[Root], c, succeeded[s], thrown[Root])
    BY <2>1, <2>2 DEF RunningOK, NoCall
  <2> QED BY <1>2, <1>3, <2>1, <2>3 DEF CountOK, CountingPC, MethodPC, NoCall
<1>11. CASE CountMethod(Root)
  <2>1. /\ p = "counted" /\ c = NoCall /\ pc'[Root] = "loop" /\ next'[Root] = n + 1
        /\ pending' = pending
        /\ positive'[s] = IF succeeded[s] THEN positive[s] + 1 ELSE positive[s]
    BY <1>1, <1>2, <1>11, RootTypes DEF CountMethod, At, Goto
  <2>2. /\ CountedWell(info.methods, n, positive[s])
        /\ info.methods[n].withSuccess <=> succeeded[s]
        /\ succeeded[s] <=> Clean(info.methods[n])
        /\ n <= numTests /\ n + 1 <= numTests + 1
    BY <1>3, <2>1, ConstantTypes DEF CountOK, CountingPC, MethodPC, RunningOK, NoCall
  <2>3. CountedWell(info.methods, n + 1, positive'[s])
    BY <1>3, <2>1, <2>2, CountOne DEF Over
  <2> QED BY <2>1, <2>2, <2>3 DEF CountOK, CountingPC, MethodPC, NoCall
<1>12. CASE EndLoop(Root)
  <2>1. /\ p = "loop" /\ c = NoCall /\ pc'[Root] = "tear_down"
        /\ UNCHANGED <<next, pending, thrown, positive, succeeded>>
    BY <1>1, <1>2, <1>12, RootTypes DEF EndLoop, At, Goto, locals, members
  <2>2. Len(info.methods) = n - 1
    BY <1>2, <2>1 DEF PlainInv, FiledInv, FiledAt
  <2> QED BY <1>2, <1>3, <2>1, <2>2 DEF CountOK, CountingPC, MethodPC, NoCall
<1>13. CASE TearDownReturns(Root)
  <2>1. /\ p = "tear_down" /\ UNCHANGED <<pc, next, pending, thrown, positive, succeeded>>
        /\ c.op = "finishSuite" /\ c.num = positive[s]
    BY <1>1, <1>2, <1>13, RootTypes DEF TearDownReturns, At, Issue, members
  <2> QED BY <1>2, <1>3, <2>1 DEF CountOK, CountingPC, MethodPC
<1> QED BY <1>4, <1>5, <1>6, <1>7, <1>8, <1>9, <1>10, <1>11, <1>12, <1>13 DEF SuiteStep

\* The calls that return.
LEMMA CountReturn ==
  ASSUME TreeInv, ColTypes, PlainInv, SumInv, PCallReturns(Root), Record(Root)
  PROVE  SumInv'
<1>1. /\ call[Root] # NoCall /\ call'[Root] = NoCall /\ pc'[Root] = call[Root].then
      /\ UNCHANGED <<pending, next, thrown, positive, succeeded>>
  BY RootTypes DEF PCallReturns, CallReturns, Goto, locals, members
<1>2. PICK p, n, c, s, last : /\ p = pc[Root] /\ n = next[Root] /\ c = call[Root]
                              /\ s = Current(Root) /\ last = Len(suites)
  OBVIOUS
<1>3. PICK old, new, ok, threw : /\ old = suites[last] /\ new = suites'[Len(suites')]
                                 /\ ok = succeeded[s] /\ threw = thrown[Root]
  OBVIOUS
<1>4. CallPlace(p, c) /\ FiledAt(p, n, s) /\ n \in Nat \ {0}
  BY <1>1, <1>2, RootTypes DEF PlainInv, PlaceInv, FiledInv
<1>5. CountOK(p, n, c, old, positive[s], ok, threw)
  BY <1>2, <1>3 DEF SumInv
<1>6. SUFFICES CountOK(c.then, n, NoCall, new, positive[s], ok, threw)
  BY <1>1, <1>2, <1>3 DEF SumInv, Current
<1>7. CASE c.then = "unwound"
  BY <1>7 DEF CountOK, CountingPC, MethodPC, NoCall
<1>8. CASE InitializeSuite(Root)
  <2>1. p = "run" /\ c.then = "setup" /\ n = 1
    BY <1>1, <1>2, <1>4, <1>8 DEF CallPlace, InitializeSuite, PlainInv, FiledInv
  <2>2. positive[s] = 0
    BY <1>1, <1>2, <1>5, <2>1 DEF CountOK
  <2> QED BY <2>1, <2>2, NoneCounted, ConstantTypes DEF CountOK, CountingPC, MethodPC, NoCall
<1>9. CASE FinishSuite(Root)
  <2>1. p \in {"setup", "tear_down"} /\ c.then = "subs" /\ c.op = "finishSuite"
    BY <1>2, <1>4, <1>9 DEF CallPlace, FinishSuite
  <2>2. Len(old.methods) = n - 1 /\ old \in SuiteInfo
    BY <1>2, <1>3, <1>4, <1>5, <2>1 DEF CountOK, FiledAt, UserPlace, ColTypes
  <2>3. /\ CountedWell(old.methods, n, positive[s]) /\ c.num = positive[s]
        /\ n <= numTests + 1
    BY <1>5, <2>1 DEF CountOK, CountingPC
  <2>4. new.methods = old.methods /\ new.numPositive = c.num
    <3>1. currentSuite = last
      BY <1>2 DEF ColTypes
    <3>2. /\ last \in DOMAIN suites /\ Len(suites') = last
          /\ new = [old EXCEPT !.numPositive = c.num] /\ new.methods = old.methods
      BY <1>1, <1>2, <1>3, <1>9, <3>1, RootTypes, FinishSuiteEffect
    <3> QED BY <2>2, <3>2 DEF SuiteInfo
  <2>5. Successful(new) = Successful(old)
    BY <2>4 DEF Successful
  <2>6. /\ positive[s] = Cardinality(Successful(old))
        /\ \A i \in DOMAIN old.methods : Over(old.methods[i])
    BY <1>4, <2>2, <2>3, AllCounted
  <2>7. Len(new.methods) <= numTests
    BY <1>4, <2>2, <2>3, <2>4, ConstantTypes
  <2> QED BY <2>1, <2>3, <2>4, <2>5, <2>6, <2>7
          DEF CountOK, CountingPC, MethodPC, NoCall
<1>10. CASE InitializeTestMethod(Root)
  <2>1. p = "loop" /\ c.then = "before" /\ c.op = "initializeTestMethod"
    BY <1>2, <1>4, <1>10 DEF CallPlace, InitializeTestMethod
  <2>2. /\ Len(old.methods) = n - 1 /\ old \in SuiteInfo
    BY <1>2, <1>3, <1>4, <2>1 DEF FiledAt, ColTypes
  <2>3. new.methods = Append(old.methods, NewMethod)
    <3>1. currentSuite = last
      BY <1>2 DEF ColTypes
    <3>2. new = [old EXCEPT !.methods = Append(@, NewMethod)]
      BY <1>1, <1>2, <1>3, <1>10, <3>1, RootTypes, InitializeTestMethodEffect
    <3> QED BY <2>2, <3>2 DEF SuiteInfo
  <2>4. /\ \A i \in 1 .. n - 1 : new.methods[i] = old.methods[i]
        /\ new.methods[n] = NewMethod
    <3>1. old.methods \in Seq(TestMethodInfo)
      BY <2>2 DEF SuiteInfo
    <3>2. PICK methods : methods = old.methods
      OBVIOUS
    <3> QED BY <1>4, <2>2, <2>3, <3>1, <3>2
  <2>5. CountedWell(new.methods, n, positive[s])
    BY <1>4, <1>5, <2>1, <2>4, SameCount DEF CountOK, CountingPC
  <2>6. RunningOK(new.methods[n], "before", NoCall, ok, threw)
    BY <1>5, <2>1, <2>4 DEF CountOK, RunningOK, NewMethod, Clean, NoCall
  <2>7. n <= numTests /\ n <= numTests + 1
    BY <1>4, <1>5, <2>1, ConstantTypes DEF CountOK
  <2> QED BY <2>1, <2>5, <2>6, <2>7 DEF CountOK, CountingPC, MethodPC, NoCall
<1>11. CASE RecordOnMethod(Root) /\ c.then # "unwound"
  <2>1. \/ p = "setup" /\ c.then = "setup"
        \/ p = "tear_down" /\ c.then = "tear_down" /\ "tear_down" \in AssertsIn
        \/ p \in MethodPC /\ c.then \in MethodPC
    BY <1>2, <1>4, <1>5, <1>11 DEF CallPlace, CountOK, RecordOnMethod, MethodOp, MethodPC
  <2>2. CASE p = "setup" /\ c.then = "setup"
    <3>1. n = 1 /\ positive[s] = Cardinality(Earlier(old.methods, n))
      BY <1>4, <1>5, <2>2 DEF FiledAt, CountOK, CountingPC, CountedWell
    <3>2. positive[s] = 0
      BY <3>1, FS_EmptySet DEF Earlier
    <3> QED BY <2>2, <3>1, <3>2, NoneCounted, ConstantTypes
            DEF CountOK, CountingPC, MethodPC, NoCall
  <2>3. CASE p \in MethodPC /\ c.then \in MethodPC
    <3>1. /\ last \in DOMAIN suites /\ Len(old.methods) = n /\ old \in SuiteInfo
          /\ currentMethod.suite = last /\ currentMethod.method = n
          /\ ~currentMethod.dangling
      BY <1>2, <1>3, <1>4, <2>3 DEF FiledAt, MethodPC, UserPlace, ColTypes
    <3>2. DOMAIN old.methods = 1 .. n
      BY <3>1 DEF SuiteInfo
    <3>3. \A i \in 1 .. n :
            new.methods[i] = IF i = n THEN MethodRecord(old.methods[n], c.op, c.ok)
                                      ELSE old.methods[i]
      BY <1>1, <1>2, <1>3, <1>11, <3>1, <3>2, RootTypes, RecordOnMethodEffect
    <3>4. CountedWell(new.methods, n, positive[s])
      <4>1. \A i \in 1 .. n - 1 : new.methods[i] = old.methods[i]
        BY <1>4, <3>3
      <4> QED BY <1>4, <1>5, <2>3, <4>1, SameCount DEF CountOK, CountingPC
    <3>5. PICK m : m = old.methods[n]
      OBVIOUS
    <3>6. m \in TestMethodInfo /\ new.methods[n] = MethodRecord(m, c.op, c.ok)
      <4>1. n \in 1 .. n /\ old.methods \in Seq(TestMethodInfo)
        BY <1>4, <3>1 DEF SuiteInfo
      <4> QED BY <3>2, <3>3, <3>5, <4>1
    <3>7. RunningOK(m, p, c, ok, threw)
      BY <1>5, <2>3, <3>5 DEF CountOK
    <3>8. RunningOK(MethodRecord(m, c.op, c.ok), c.then, NoCall, ok, threw)
      <4>1. /\ p # "counted" /\ c.op \in MethodOp
            /\ c.op \in {"printSuccess", "printFailure"} => p \in AssertsIn \cup {"handler"}
        BY <1>2, <1>4, <1>5, <1>11 DEF CallPlace, CountOK, RecordOnMethod
      <4>2. /\ c.op = "finishTestMethod" <=> c.then = "counted"
            /\ c.op = "finishTestMethod" => p = "after"
            /\ c.then = "before" => p = "before"
        BY <1>4, <2>3, <4>1 DEF CallPlace, MethodOp, MethodPC
      <4>3. CASE c.op = "finishTestMethod"
        BY <3>6, <3>7, <4>1, <4>2, <4>3 DEF RunningOK, MethodRecord, Clean, TestMethodInfo, NoCall
      <4>4. CASE c.op = "printException"
        BY <3>6, <3>7, <4>1, <4>2, <4>4 DEF RunningOK, MethodRecord, Clean, TestMethodInfo, NoCall
      <4>5. CASE c.op = "printSuccess"
        BY <3>6, <3>7, <4>1, <4>2, <4>5 DEF RunningOK, MethodRecord, Clean, TestMethodInfo, NoCall
      <4>6. CASE c.op = "printFailure"
        BY <3>6, <3>7, <4>1, <4>2, <4>6 DEF RunningOK, MethodRecord, Clean, TestMethodInfo, NoCall
      <4> QED BY <4>1, <4>3, <4>4, <4>5, <4>6 DEF MethodOp
    <3>9. n <= numTests /\ n <= numTests + 1
      BY <1>5, <2>3 DEF CountOK, CountingPC
    <3> QED BY <2>3, <3>4, <3>6, <3>8, <3>9 DEF CountOK, CountingPC, MethodPC, NoCall
  <2>4. CASE p = "tear_down" /\ c.then = "tear_down" /\ "tear_down" \in AssertsIn
    <3>1. /\ last \in DOMAIN suites /\ old \in SuiteInfo /\ Len(suites') = last
          /\ new \in SuiteInfo /\ DOMAIN new.methods = DOMAIN old.methods
          /\ \A j \in DOMAIN old.methods :
               \/ new.methods[j] = old.methods[j]
               \/ new.methods[j] = MethodRecord(old.methods[j], c.op, c.ok)
      <4>1. last \in DOMAIN suites /\ Len(suites) = last
        BY <1>2, <1>4, <2>4 DEF FiledAt, UserPlace
      <4>2. /\ ColTypes' /\ Len(suites') = last
            /\ DOMAIN new.methods = DOMAIN old.methods
            /\ \A j \in DOMAIN old.methods :
                 \/ new.methods[j] = old.methods[j]
                 \/ new.methods[j] = MethodRecord(old.methods[j], c.op, c.ok)
        <5>1. /\ ColTypes' /\ Len(suites') = last
              /\ DOMAIN suites'[last].methods = DOMAIN old.methods
          BY <1>1, <1>3, <1>11, <4>1, RootTypes, RecordOnMethodEffect
        <5>2. \A j \in DOMAIN suites[last].methods :
                \/ suites'[last].methods[j] = suites[last].methods[j]
                \/ suites'[last].methods[j]
                     = MethodRecord(suites[last].methods[j], call[Root].op, call[Root].ok)
          BY <1>1, <1>11, <4>1, RootTypes, RecordOnMethodEffect, ZenonT(60)
        <5> QED BY <1>2, <1>3, <5>1, <5>2
      <4> QED BY <1>3, <4>1, <4>2 DEF ColTypes
    <3>2. /\ Len(old.methods) = n - 1 /\ Len(new.methods) = n - 1
          /\ DOMAIN old.methods = 1 .. n - 1
      BY <1>5, <2>4, <3>1, SameLength DEF CountOK, SuiteInfo
    <3>3. \A j \in 1 .. n - 1 : new.methods[j].withSuccess <=> old.methods[j].withSuccess
      <4> SUFFICES ASSUME NEW j \in 1 .. n - 1
                   PROVE  new.methods[j].withSuccess <=> old.methods[j].withSuccess
        OBVIOUS
      <4>1. PICK m : m = old.methods[j]
        OBVIOUS
      <4>2. m \in TestMethodInfo
        BY <3>1, <3>2, <4>1 DEF SuiteInfo
      <4>3. c.op \in {"printSuccess", "printFailure"}
        BY <1>2, <1>4, <1>11, <2>4 DEF CallPlace, RecordOnMethod, MethodOp
      <4>4. MethodRecord(m, c.op, c.ok).withSuccess = m.withSuccess
        BY <4>2, <4>3 DEF MethodRecord, TestMethodInfo
      <4> QED BY <3>1, <3>2, <4>1, <4>4
    <3>4. CountedWell(new.methods, n, positive[s])
      <4>1. \A j \in 1 .. n - 1 : Over(new.methods[j])
        BY <2>4 DEF Over
      <4> QED BY <1>4, <1>5, <2>4, <3>3, <4>1, SameCount DEF CountOK, CountingPC
    <3>5. n <= numTests + 1
      BY <1>5, <2>4 DEF CountOK, CountingPC
    <3> QED BY <2>4, <3>2, <3>4, <3>5 DEF CountOK, CountingPC, MethodPC, NoCall
  <2> QED BY <2>1, <2>2, <2>3, <2>4
<1> QED BY <1>7, <1>8, <1>9, <1>10, <1>11 DEF Record

LEMMA CountNext ==
  ASSUME Parallel = {}, TreeInv, ColTypes, PlainInv, SumInv, [CNext]_cvars
  PROVE  SumInv'
<1>1. UNCHANGED <<vars, collector>> => SumInv'
  BY DEF vars, locals, members, collector, SumInv, CountOK, Current
<1>2. CASE UNCHANGED cvars
  BY <1>1, <1>2 DEF cvars, pvars
<1>3. CASE InvalidTestMethod(Root)
  <2>1. pc'[Root] = "unwound" /\ call'[Root] = NoCall
    BY <1>3, RootTypes DEF InvalidTestMethod, Goto
  <2> QED BY <2>1 DEF SumInv, CountOK, CountingPC, MethodPC, NoCall
<1>4. ASSUME NEW t \in Thread, CStep(t)
      PROVE  SumInv'
  <2>1. pc[Root] # "warn"
    BY DEF PlainInv, PlaceInv
  <2> QED BY <1>1, <1>3, <1>4, <2>1, PlainSteps, CountStep, CountReturn DEF Acquire
<1> QED BY <1>2, <1>4 DEF CNext, CFinished

LEMMA SumInvHolds ==
  ASSUME Parallel = {}
  PROVE  CSpec => []SumInv
<1>1. CInit => SumInv
  <2> SUFFICES ASSUME CInit PROVE SumInv
    OBVIOUS
  <2>1. pc[Root] = "run" /\ call[Root] = NoCall
    BY ConstantTypes DEF CInit, PInit, Init
  <2> QED BY <2>1 DEF SumInv, CountOK, CountingPC, MethodPC, NoCall
<1>2. TreeInv /\ ColTypes /\ PlainInv /\ SumInv /\ [CNext]_cvars => SumInv'
  BY CountNext
<1> QED BY <1>1, <1>2, CTreeInvHolds, ColTypesHold, PlainInvHolds, PTL DEF CSpec

\* Where no suite is parallel and tear_down() makes no assertions (a failure
\* there is filed on the last method, whose verdict is in), the report of every
\* suite adds up, whatever else hooks and bodies do: finishSuite is told as
\* many successful methods as records say withSuccess, and none of these has a
\* failure or an exception.
THEOREM ReportsAddUp ==
  ASSUME Parallel = {}, "tear_down" \notin AssertsIn
  PROVE  CSpec => []ReportAddsUp
<1>1. SumInv => ReportAddsUp
  BY OnlyRoot DEF SumInv, CountOK, ReportAddsUp, Successful, Over, Clean
<1> QED BY <1>1, SumInvHolds, PTL
-----------------------------------------------------------------------------
\* The records of all suites, until they are printed.

Complete(info) ==
  info.numPositive = Cardinality(Successful(info)) /\ Len(info.methods) <= numTests

\* Every record but that of the suite at hand is complete, and what is filed on
\* it later leaves it so.
KeptInv ==
  /\ call[Root].op = "initializeSuite" => call[Root].num = numTests
  /\ \A i \in DOMAIN suites :
       /\ suites[i].numTests = numTests
       /\ i < Len(suites) \/ pc[Root] \in {"subs", "run", "returned"} =>
            Complete(suites[i])

\* Where the steps of a suite lead, and with which initializeSuite.
LEMMA StepPlaces ==
  ASSUME TreeInv, SuiteStep(Root), PlainInv
  PROVE  /\ pc'[Root] \in {"subs", "run", "returned"} => pc[Root] \in {"subs", "run"}
         /\ call'[Root].op = "initializeSuite" => call'[Root].num = numTests
<1>1. /\ pc \in [Thread -> PC] /\ call \in [Thread -> OutputCall] /\ call[Root] = NoCall
      /\ Root \in Thread
  BY RootTypes, StepsActive
<1>2. CASE UserCode(Root)
  <2>1. \/ UNCHANGED pc
        \/ pc'[Root] \in {"catch", "unwound"}
    BY <1>1, <1>2 DEF UserCode, AssertHolds, AssertFails, Aborts, ExpectThrowFails,
       MacroCatches, BodyThrows, HookThrows, Report, Goto
  <2>2. pc[Root] \in UserPlace \cup {"handler"}
    BY <1>2, RootTypes, UserCodeEffect
  <2>3. call'[Root].op # "initializeSuite"
    <3>1. \/ call'[Root] = NoCall
          \/ \E op \in {"printSuccess", "printFailure", "printException"} : \E ok, then :
               Issue(Root, op, 0, ok, then)
      BY <1>1, <1>2 DEF UserCode, AssertHolds, AssertFails, Aborts, ExpectThrowFails,
         MacroCatches, BodyThrows, HookThrows, Report
    <3> QED BY <1>1, <3>1 DEF Issue, NoCall
  <2> QED BY <2>1, <2>2, <2>3 DEF UserPlace
<1>3. CASE StartRun(Root)
  BY <1>1, <1>3 DEF StartRun, At, Issue
<1>4. CASE SetupReturns(Root) \/ StartMethod(Root)
  BY <1>1, <1>4 DEF SetupReturns, StartMethod, At, Issue, Goto, NoCall
<1>5. CASE BeforeReturns(Root) \/ BodyReturns(Root)
  BY <1>1, <1>5 DEF BeforeReturns, BodyReturns, At, Goto, NoCall
<1>6. CASE AfterReturns(Root) \/ CountMethod(Root)
  BY <1>1, <1>6 DEF AfterReturns, CountMethod, At, Goto, Issue, NoCall
<1>7. CASE EndLoop(Root) \/ TearDownReturns(Root)
  BY <1>1, <1>7 DEF EndLoop, TearDownReturns, At, Goto, Issue, NoCall
<1>8. CASE RunSubSuites(Root)
  BY <1>1, <1>8 DEF RunSubSuites, At, NoCall
<1> QED BY <1>2, <1>3, <1>4, <1>5, <1>6, <1>7, <1>8 DEF SuiteStep

\* Assertions leave the count of successful methods alone.
LEMMA PrintKeeps ==
  ASSUME NEW old \in SuiteInfo, NEW new \in SuiteInfo, Complete(old),
         new.numPositive = old.numPositive,
         DOMAIN new.methods = DOMAIN old.methods,
         NEW op \in {"printSuccess", "printFailure"}, NEW ok \in BOOLEAN,
         \A j \in DOMAIN old.methods :
           \/ new.methods[j] = old.methods[j]
           \/ new.methods[j] = MethodRecord(old.methods[j], op, ok)
  PROVE  Complete(new)
<1>1. Len(new.methods) = Len(old.methods)
  BY SameLength DEF SuiteInfo
<1>2. ASSUME NEW j \in DOMAIN old.methods
      PROVE  new.methods[j].withSuccess <=> old.methods[j].withSuccess
  <2>1. PICK m : m = old.methods[j]
    OBVIOUS
  <2>2. m \in TestMethodInfo
    BY <2>1, SMTT(40) DEF SuiteInfo
  <2>3. MethodRecord(m, op, ok).withSuccess = m.withSuccess
    BY <2>2 DEF MethodRecord, TestMethodInfo
  <2> QED BY <2>1, <2>3
<1>3. Successful(new) = Successful(old)
  BY <1>2 DEF Successful
<1> QED BY <1>1, <1>3 DEF Complete

LEMMA KeptReturn ==
  ASSUME TreeInv, ColTypes, PlainInv, SumInv', KeptInv, PCallReturns(Root), Record(Root)
  PROVE  KeptInv'
<1>1. /\ call[Root] # NoCall /\ call'[Root] = NoCall /\ pc'[Root] = call[Root].then
  BY RootTypes DEF PCallReturns, CallReturns, Goto
<1>2. call'[Root].op # "initializeSuite"
  BY <1>1 DEF NoCall
<1>3. CallPlace(pc[Root], call[Root]) /\ FiledAt(pc[Root], next[Root], Current(Root))
  BY <1>1 DEF PlainInv, PlaceInv, FiledInv
<1>4. /\ Len(suites) \in Nat /\ DOMAIN suites = 1 .. Len(suites)
      /\ currentSuite = Len(suites) /\ suites \in Seq(SuiteInfo)
  BY DEF ColTypes
<1>5. CASE InitializeSuite(Root)
  <2>1. pc[Root] = "run" /\ pc'[Root] = "setup" /\ call[Root].op = "initializeSuite"
    BY <1>1, <1>3, <1>5 DEF CallPlace, InitializeSuite
  <2>2. /\ Len(suites') = Len(suites) + 1
        /\ suites'[Len(suites) + 1].numTests = call[Root].num
        /\ \A i \in DOMAIN suites : suites'[i] = suites[i]
        /\ DOMAIN suites' = 1 .. Len(suites) + 1
    <3>1. /\ ColTypes' /\ Len(suites') = Len(suites) + 1
          /\ suites'[Len(suites) + 1] = [suite |-> Current(Root), numTests |-> call[Root].num,
                                         numPositive |-> 0, methods |-> <<>>]
          /\ \A i \in DOMAIN suites : suites'[i] = suites[i]
      BY <1>1, <1>5, RootTypes, InitializeSuiteEffect
    <3>2. DOMAIN suites' = 1 .. Len(suites')
      BY <3>1 DEF ColTypes
    <3> QED BY <3>1, <3>2
  <2>3. \A i \in DOMAIN suites' : i \in DOMAIN suites \/ i = Len(suites) + 1
    BY <1>4, <2>2
  <2> QED BY <1>2, <1>4, <2>1, <2>2, <2>3 DEF KeptInv
<1>6. CASE FinishSuite(Root)
  <2>1. pc'[Root] = "subs"
    BY <1>1, <1>3, <1>6 DEF CallPlace, FinishSuite
  <2>2. /\ ColTypes' /\ Len(suites') = Len(suites)
        /\ \A i \in DOMAIN suites :
             /\ suites'[i].numTests = suites[i].numTests
             /\ i # Len(suites) => suites'[i] = suites[i]
    BY <1>1, <1>4, <1>6, RootTypes, FinishSuiteEffect
  <2>3. DOMAIN suites' = DOMAIN suites
    BY <1>4, <2>2 DEF ColTypes
  <2>4. Complete(suites'[Len(suites')])
    BY <2>1 DEF SumInv, CountOK, Complete
  <2>5. ASSUME NEW i \in DOMAIN suites
        PROVE  suites'[i].numTests = numTests /\ Complete(suites'[i])
    <3>1. suites[i].numTests = numTests /\ (i # Len(suites) => Complete(suites[i]))
      BY <1>4 DEF KeptInv
    <3>2. CASE i = Len(suites)
      BY <2>2, <2>4, <3>1, <3>2
    <3>3. CASE i # Len(suites)
      <4>1. suites'[i] = suites[i] /\ Complete(suites[i])
        BY <2>2, <3>1, <3>3
      <4> QED BY <3>1, <4>1
    <3> QED BY <3>2, <3>3
  <2> QED BY <1>2, <2>3, <2>5 DEF KeptInv
<1>7. CASE InitializeTestMethod(Root)
  <2>1. pc'[Root] = "before"
    BY <1>1, <1>3, <1>7 DEF CallPlace, InitializeTestMethod
  <2>2. /\ ColTypes' /\ Len(suites') = Len(suites) /\ Len(suites) \in DOMAIN suites
        /\ suites'[Len(suites)] = [suites[Len(suites)] EXCEPT !.methods = Append(@, NewMethod)]
        /\ \A i \in DOMAIN suites : i # Len(suites) => suites'[i] = suites[i]
    BY <1>1, <1>4, <1>7, RootTypes, InitializeTestMethodEffect
  <2>3. DOMAIN suites' = DOMAIN suites
    BY <1>4, <2>2 DEF ColTypes
  <2>4. suites'[Len(suites)].numTests = suites[Len(suites)].numTests
    BY <1>4, <2>2 DEF SuiteInfo
  <2>5. \A i \in DOMAIN suites : i < Len(suites) => i # Len(suites)
    BY <1>4
  <2> QED BY <1>2, <2>1, <2>2, <2>3, <2>4, <2>5 DEF KeptInv
<1>8. CASE RecordOnMethod(Root)
  <2>1. /\ call[Root].op \in MethodOp
        /\ pc'[Root] \notin {"subs", "run", "returned"}
    BY <1>1, <1>3, <1>8 DEF CallPlace, RecordOnMethod, MethodOp
  <2>2. /\ ColTypes' /\ Len(suites') = Len(suites)
        /\ \A i \in DOMAIN suites :
             /\ suites'[i].numTests = suites[i].numTests
             /\ suites'[i].numPositive = suites[i].numPositive
             /\ DOMAIN suites'[i].methods = DOMAIN suites[i].methods
             /\ \A j \in DOMAIN suites[i].methods :
                  suites'[i].methods[j] =
                    IF /\ ~currentMethod.dangling
                       /\ i = currentMethod.suite /\ j = currentMethod.method
                    THEN MethodRecord(suites[i].methods[j], call[Root].op, call[Root].ok)
                    ELSE suites[i].methods[j]
    BY <1>1, <1>8, RootTypes, RecordOnMethodEffect
  <2>3. DOMAIN suites' = DOMAIN suites
    BY <1>4, <2>2 DEF ColTypes
  <2>4. ASSUME NEW i \in DOMAIN suites, i < Len(suites)
        PROVE  Complete(suites'[i])
    <3>1. suites[i] \in SuiteInfo /\ suites'[i] \in SuiteInfo /\ Complete(suites[i])
      BY <2>2, <2>3, <2>4 DEF ColTypes, KeptInv
    <3>2. CASE call[Root].op \in {"printSuccess", "printFailure"}
      <4>1. call[Root].ok \in BOOLEAN
        BY <1>1, RootTypes, CallArguments
      <4>2. \A j \in DOMAIN suites[i].methods :
              \/ suites'[i].methods[j] = suites[i].methods[j]
              \/ suites'[i].methods[j]
                   = MethodRecord(suites[i].methods[j], call[Root].op, call[Root].ok)
        BY <2>2
      <4> QED BY <2>2, <3>1, <3>2, <4>1, <4>2, PrintKeeps
    <3>3. CASE call[Root].op \notin {"printSuccess", "printFailure"}
      <4>1. currentMethod.suite = Len(suites)
        BY <1>3, <2>1, <3>3 DEF CallPlace, FiledAt, MethodOp, MethodPC
      <4>2. i # Len(suites)
        BY <1>4, <2>4
      <4>3. \A j \in DOMAIN suites[i].methods : suites'[i].methods[j] = suites[i].methods[j]
        BY <2>2, <4>1, <4>2
      <4>4. Successful(suites'[i]) = Successful(suites[i])
        BY <2>2, <4>3 DEF Successful
      <4>5. Len(suites'[i].methods) = Len(suites[i].methods)
        BY <2>2, <3>1, SameLength DEF SuiteInfo
      <4> QED BY <2>2, <3>1, <4>4, <4>5 DEF Complete
    <3> QED BY <3>2, <3>3
  <2> QED BY <1>2, <2>1, <2>2, <2>3, <2>4 DEF KeptInv
<1> QED BY <1>5, <1>6, <1>7, <1>8 DEF Record

LEMMA KeptNext ==
  ASSUME Parallel = {}, TreeInv, ColTypes, PlainInv, SumInv', KeptInv, [CNext]_cvars
  PROVE  KeptInv'
<1>1. UNCHANGED <<vars, collector>> => KeptInv'
  BY DEF vars, collector, KeptInv
<1>2. CASE UNCHANGED cvars
  BY <1>1, <1>2 DEF cvars, pvars
<1>3. CASE InvalidTestMethod(Root)
  <2>1. pc'[Root] = "unwound" /\ call'[Root] = NoCall /\ UNCHANGED suites
    BY <1>3, RootTypes DEF InvalidTestMethod, Goto, collector
  <2> QED BY <2>1 DEF KeptInv, NoCall
<1>4. CASE SuiteStep(Root) /\ UNCHANGED collector
  BY <1>4, StepPlaces DEF KeptInv, collector
<1>5. ASSUME NEW t \in Thread, CStep(t)
      PROVE  KeptInv'
  <2>1. pc[Root] # "warn"
    BY DEF PlainInv, PlaceInv
  <2> QED BY <1>1, <1>3, <1>4, <1>5, <2>1, PlainSteps, KeptReturn DEF Acquire
<1> QED BY <1>2, <1>5 DEF CNext, CFinished

LEMMA KeptInvHolds ==
  ASSUME Parallel = {}
  PROVE  CSpec => []KeptInv
<1>1. CInit => KeptInv
  BY ConstantTypes DEF CInit, PInit, Init, KeptInv, NoCall
<1>2. TreeInv /\ ColTypes /\ PlainInv /\ SumInv' /\ KeptInv /\ [CNext]_cvars => KeptInv'
  BY KeptNext
<1> QED BY <1>1, <1>2, CTreeInvHolds, ColTypesHold, PlainInvHolds, SumInvHolds, PTL DEF CSpec
-----------------------------------------------------------------------------
\* What the reports say of complete records.

LEMMA MethodsOf ==
  ASSUME NEW info \in SuiteInfo
  PROVE  /\ DOMAIN info.methods = 1 .. Len(info.methods) /\ Len(info.methods) \in Nat
         /\ IsFiniteSet(DOMAIN info.methods)
         /\ Cardinality(DOMAIN info.methods) = Len(info.methods)
         /\ \A i \in DOMAIN info.methods : info.methods[i] \in TestMethodInfo
<1>1. PICK n : n = Len(info.methods)
  OBVIOUS
<1>2. n \in Nat /\ DOMAIN info.methods = 1 .. n
  BY <1>1 DEF SuiteInfo
<1>3. IsFiniteSet(1 .. n) /\ Cardinality(1 .. n) = n
  BY <1>2, FS_Interval
<1>4. \A i \in DOMAIN info.methods : info.methods[i] \in TestMethodInfo
  BY DEF SuiteInfo
<1> QED BY <1>1, <1>2, <1>3, <1>4

\* The count is that of all methods exactly if all were run, with success.
LEMMA CompleteCount ==
  ASSUME NEW info \in SuiteInfo, Complete(info)
  PROVE  /\ info.numPositive = numTests <=>
              Len(info.methods) = numTests /\ Successful(info) = DOMAIN info.methods
         /\ \A j \in DOMAIN info.methods :
              ~info.methods[j].withSuccess => info.numPositive # numTests
<1>1. Successful(info) \in SUBSET DOMAIN info.methods
  BY DEF Successful
<1>2. /\ Cardinality(Successful(info)) <= Len(info.methods)
      /\ Cardinality(Successful(info)) = Len(info.methods) =>
           Successful(info) = DOMAIN info.methods
  <2>1. /\ Cardinality(Successful(info)) <= Cardinality(DOMAIN info.methods)
        /\ Cardinality(DOMAIN info.methods) = Cardinality(Successful(info)) =>
             DOMAIN info.methods = Successful(info)
    BY <1>1, MethodsOf, FS_Subset
  <2> QED BY <2>1, MethodsOf
<1>3. Cardinality(Successful(info)) \in Nat /\ Len(info.methods) \in Nat /\ numTests \in Nat
  BY <1>1, MethodsOf, FS_Subset, FS_CardinalityType, ConstantTypes
<1>4. info.numPositive = Cardinality(Successful(info)) /\ Len(info.methods) <= numTests
  BY DEF Complete
<1>5. Successful(info) = DOMAIN info.methods =>
        Cardinality(Successful(info)) = Len(info.methods)
  BY MethodsOf
<1>6. info.numPositive = numTests <=>
        Len(info.methods) = numTests /\ Successful(info) = DOMAIN info.methods
  BY <1>2, <1>3, <1>4, <1>5
<1> QED BY <1>6 DEF Successful

\* Where no suite is parallel, the page without passed suites leaves out a
\* suite exactly if all the methods it was to run did run, with success.
THEOREM HiddenSuitesHavePassed ==
  ASSUME Parallel = {}
  PROVE  CSpec => []HiddenSuitesPassed
<1>1. ASSUME ColTypes, KeptInv, pc[Root] = "returned", NEW i \in DOMAIN suites
      PROVE  i \notin DOMAIN Page(FALSE) <=> AllRunAndPassed(suites[i])
  <2>1. suites[i] \in SuiteInfo /\ Complete(suites[i]) /\ suites[i].numTests = numTests
    BY <1>1 DEF ColTypes, KeptInv
  <2>2. i \notin DOMAIN Page(FALSE) <=> suites[i].numTests = suites[i].numPositive
    BY <1>1 DEF Page, ShowsSuite
  <2> QED BY <2>1, <2>2, CompleteCount DEF AllRunAndPassed
<1>2. ColTypes /\ KeptInv => HiddenSuitesPassed
  BY <1>1 DEF HiddenSuitesPassed
<1> QED BY <1>2, ColTypesHold, KeptInvHolds, PTL

\* Where no suite is parallel, a method that is not successful brings its suite
\* into the page, not green, and one with a failed assertion has a row that is
\* not green either and names the failure.
THEOREM FailuresAreOnThePage ==
  ASSUME Parallel = {}
  PROVE  CSpec => []FailuresAreMarked
<1>1. ASSUME ColTypes, KeptInv, pc[Root] = "returned", NEW i \in DOMAIN suites,
             NEW j \in DOMAIN suites[i].methods, ~suites[i].methods[j].withSuccess
      PROVE  /\ i \in DOMAIN Page(FALSE) /\ Page(FALSE)[i].class # "allPassed"
             /\ suites[i].methods[j].failed =>
                  /\ Page(FALSE)[i].rows[j].class # "allPassed"
                  /\ Page(FALSE)[i].rows[j].messages > 0
  <2>1. suites[i] \in SuiteInfo /\ Complete(suites[i]) /\ suites[i].numTests = numTests
    BY <1>1 DEF ColTypes, KeptInv
  <2>2. suites[i].numTests # suites[i].numPositive
    BY <1>1, <2>1, CompleteCount
  <2>3. /\ i \in DOMAIN Page(FALSE)
        /\ Page(FALSE)[i].class = CssClass(suites[i].numTests, suites[i].numPositive)
        /\ Page(FALSE)[i].rows[j] = MethodRow(suites[i].methods[j])
    BY <2>2 DEF Page, ShowsSuite
  <2>4. \A total, passed : total # passed => CssClass(total, passed) # "allPassed"
    BY DEF CssClass
  <2>5. suites[i].methods[j].failed =>
          /\ MethodRow(suites[i].methods[j]).class # "allPassed"
          /\ MethodRow(suites[i].methods[j]).messages > 0
    BY <2>4 DEF MethodRow, Failed, Passed
  <2> QED BY <2>2, <2>3, <2>4, <2>5
<1>2. ColTypes /\ KeptInv => FailuresAreMarked
  BY <1>1 DEF FailuresAreMarked
<1> QED BY <1>2, ColTypesHold, KeptInvHolds, PTL

LEMMA DisjointUnion ==
  ASSUME NEW S, NEW T, IsFiniteSet(S), IsFiniteSet(T), S \cap T = {}
  PROVE  IsFiniteSet(S \cup T) /\ Cardinality(S \cup T) = Cardinality(S) + Cardinality(T)
<1>1. Cardinality(S \cap T) = 0
  BY FS_EmptySet
<1>2. Cardinality(S) \in Nat /\ Cardinality(T) \in Nat
  BY FS_CardinalityType
<1>3. /\ IsFiniteSet(S \cup T)
      /\ Cardinality(S \cup T) = Cardinality(S) + Cardinality(T) - Cardinality(S \cap T)
  BY FS_Union
<1> QED BY <1>1, <1>2, <1>3

\* Every method is successful, or has an error or a failure, or was not run.
LEMMA MethodsSorted ==
  ASSUME NEW info \in SuiteInfo, \A i \in DOMAIN info.methods : Over(info.methods[i]),
         {"before", "tear_down"} \cap AssertsIn = {}
  PROVE  LET E == Cases(info, "error")
             F == Cases(info, "failure")
             K == {i \in Cases(info, "skipped") : ~info.methods[i].withSuccess}
         IN  /\ Len(info.methods) = Cardinality(Successful(info)) + Cardinality(E)
                                    + Cardinality(F) + Cardinality(K)
             /\ Cardinality(E) \in Nat /\ Cardinality(F) \in Nat /\ Cardinality(K) \in Nat
<1> DEFINE S == Successful(info)
           E == Cases(info, "error")
           F == Cases(info, "failure")
           K == {i \in Cases(info, "skipped") : ~info.methods[i].withSuccess}
<1>1. ASSUME NEW i \in DOMAIN info.methods
      PROVE  LET m == info.methods[i] IN
             /\ m.withSuccess => Clean(m)
             /\ m.withSuccess \/ ~Clean(m) \/ ~m.passed
             /\ TestCase(m) = "error" <=> m.exception
             /\ TestCase(m) = "failure" <=> ~m.exception /\ m.failed
             /\ TestCase(m) = "skipped" <=> ~m.exception /\ ~m.failed /\ ~m.passed
  <2>1. PICK m : m = info.methods[i]
    OBVIOUS
  <2>2. Over(m) /\ m.exception \in BOOLEAN /\ m.failed \in BOOLEAN /\ m.passed \in BOOLEAN
    BY <2>1, MethodsOf DEF TestMethodInfo
  <2>3. /\ m.withSuccess => Clean(m)
        /\ m.withSuccess \/ ~Clean(m) \/ ~m.passed
    BY <2>2 DEF Over
  <2>4. /\ TestCase(m) = "error" <=> m.exception
        /\ TestCase(m) = "failure" <=> ~m.exception /\ m.failed
        /\ TestCase(m) = "skipped" <=> ~m.exception /\ ~m.failed /\ ~m.passed
    BY <2>2 DEF TestCase
  <2> QED BY <2>1, <2>3, <2>4
<1>2. /\ S \cap E = {} /\ (S \cup E) \cap F = {} /\ ((S \cup E) \cup F) \cap K = {}
      /\ ((S \cup E) \cup F) \cup K = DOMAIN info.methods
  BY <1>1 DEF Cases, Successful, Clean
<1>3. IsFiniteSet(S) /\ IsFiniteSet(E) /\ IsFiniteSet(F) /\ IsFiniteSet(K)
  <2>1. \A T \in SUBSET DOMAIN info.methods : IsFiniteSet(T)
    BY MethodsOf, FS_Subset
  <2> QED BY <2>1 DEF Cases, Successful
<1>4. Cardinality(((S \cup E) \cup F) \cup K)
        = Cardinality(S) + Cardinality(E) + Cardinality(F) + Cardinality(K)
  <2> HIDE DEF S, E, F, K
  <2>1. /\ IsFiniteSet(S \cup E)
        /\ Cardinality(S \cup E) = Cardinality(S) + Cardinality(E)
    BY <1>2, <1>3, DisjointUnion
  <2>2. /\ IsFiniteSet((S \cup E) \cup F)
        /\ Cardinality((S \cup E) \cup F) = Cardinality(S \cup E) + Cardinality(F)
    BY <1>2, <1>3, <2>1, DisjointUnion
  <2>3. Cardinality(((S \cup E) \cup F) \cup K)
          = Cardinality((S \cup E) \cup F) + Cardinality(K)
    BY <1>2, <1>3, <2>2, DisjointUnion
  <2> QED BY <2>1, <2>2, <2>3
<1>5. Cardinality(((S \cup E) \cup F) \cup K) = Len(info.methods)
  BY <1>2, MethodsOf
<1> QED BY <1>3, <1>4, <1>5, FS_CardinalityType

\* Where no suite is parallel and neither before(), which may decline, nor
\* tear_down() makes assertions, the attribute failures that XMLOutput prints
\* counts the testcase elements that contain a failure and the methods that
\* nobody ran, and does not wrap.
THEOREM XMLFailuresAddUp ==
  ASSUME Parallel = {}, {"before", "tear_down"} \cap AssertsIn = {}, numTests < Unsigned
  PROVE  CSpec => []FailuresHaveElements
<1>1. ASSUME TreeInv, ColTypes, PlainInv, SumInv, KeptInv, NEW t \in Thread, pc[t] = "subs"
      PROVE  LET info == suites[Len(suites)] IN
             Failures(info) = Cardinality(Cases(info, "failure")) + NotRun(info)
  <2>1. PICK info : info = suites[Len(suites)]
    OBVIOUS
  <2>2. pc[Root] = "subs" /\ Len(suites) \in DOMAIN suites
    BY <1>1, OnlyRoot DEF PlainInv, FiledInv, FiledAt
  <2>3. info \in SuiteInfo /\ info.numTests = numTests /\ Complete(info)
    BY <1>1, <2>1, <2>2 DEF ColTypes, KeptInv
  <2>4. \A i \in DOMAIN info.methods : Over(info.methods[i])
    BY <1>1, <2>1, <2>2 DEF SumInv, CountOK
  <2> DEFINE E == Cases(info, "error")
             F == Cases(info, "failure")
             K == {i \in Cases(info, "skipped") : ~info.methods[i].withSuccess}
  <2>5. /\ Len(info.methods) = info.numPositive + Cardinality(E)
                               + Cardinality(F) + Cardinality(K)
        /\ Cardinality(E) \in Nat /\ Cardinality(F) \in Nat /\ Cardinality(K) \in Nat
    BY <2>3, <2>4, MethodsSorted DEF Complete
  <2>6. /\ Failures(info) = (numTests - info.numPositive - Cardinality(E)) % Unsigned
        /\ NotRun(info) = (numTests - Len(info.methods)) + Cardinality(K)
    BY <2>3 DEF Failures, NotRun
  <2>7. /\ numTests \in Nat /\ Len(info.methods) \in Nat /\ info.numPositive \in Nat
        /\ Len(info.methods) <= numTests
    BY <2>3, MethodsOf, ConstantTypes DEF Complete, SuiteInfo
  <2> HIDE DEF E, F, K
  <2>8. PICK x : x = numTests - info.numPositive - Cardinality(E)
    OBVIOUS
  <2>9. x \in Nat /\ x < Unsigned /\ x = Cardinality(F) + NotRun(info)
    <3>1. PICK e, f, k, l, p, n : /\ e = Cardinality(E) /\ f = Cardinality(F)
                                  /\ k = Cardinality(K) /\ l = Len(info.methods)
                                  /\ p = info.numPositive /\ n = numTests
      OBVIOUS
    <3>2. /\ e \in Nat /\ f \in Nat /\ k \in Nat /\ l \in Nat /\ p \in Nat /\ n \in Nat
          /\ l = p + e + f + k /\ l <= n /\ n < Unsigned /\ x = n - p - e
      BY <2>5, <2>7, <2>8, <3>1
    <3>3. x = f + ((n - l) + k) /\ x \in Nat /\ x < Unsigned
      BY <3>2, UnsignedAssumption
    <3> QED BY <2>6, <3>1, <3>3
  <2>10. x % Unsigned = x
    BY <2>9, UnsignedAssumption
  <2> QED BY <2>1, <2>6, <2>8, <2>9, <2>10 DEF F
<1>2. TreeInv /\ ColTypes /\ PlainInv /\ SumInv /\ KeptInv => FailuresHaveElements
  BY <1>1 DEF FailuresHaveElements
<1> QED BY <1>2, CTreeInvHolds, ColTypesHold, PlainInvHolds, SumInvHolds, KeptInvHolds, PTL

-----------------------------------------------------------------------------
\* Trees: the height of the suites below a suite bounds what runs after it.

IsRank(rank) ==
  \A s \in Suite : \A i \in DOMAIN Sub[s] : rank[Sub[s][i]] < rank[s]

Rank == CHOOSE rank \in [Suite -> 0 .. Cardinality(Suite)] : IsRank(rank)

LEMMA RankFalls ==
  /\ Cardinality(Suite) \in Nat /\ Rank \in [Suite -> 0 .. Cardinality(Suite)]
  /\ \A s \in Suite : \A i \in DOMAIN Sub[s] : Rank[Sub[s][i]] < Rank[s]
<1>1. \E rank \in [Suite -> 0 .. Cardinality(Suite)] : IsRank(rank)
  BY TreeAssumption DEF IsRank
<1>2. Rank \in [Suite -> 0 .. Cardinality(Suite)] /\ IsRank(Rank)
  BY <1>1 DEF Rank
<1> QED BY <1>2, TreeAssumption, FS_CardinalityType DEF IsRank

LEMMA SubTypes ==
  ASSUME NEW s \in Suite
  PROVE  /\ Sub[s] \in Seq(Suite)
         /\ \A i \in DOMAIN Sub[s] : Sub[s][i] \in Suite
BY SuiteAssumption

\* The orders in which the suites of a list are run, one after the other.
Orders(order, list) == [i \in DOMAIN list |-> order[list[i]]]
Flat(list) == FlattenSeq(Orders(RunOrder, list))
OrderStep(order) == [s \in Suite |-> <<s>> \o FlattenSeq(Orders(order, Sub[s]))]

LEMMA OrdersType ==
  ASSUME NEW order, NEW list \in Seq(Suite),
         \A i \in DOMAIN list : order[list[i]] \in Seq(Suite)
  PROVE  Orders(order, list) \in Seq(Seq(Suite))
<1>1. PICK n : n = Len(list)
  OBVIOUS
<1>2. n \in Nat /\ DOMAIN list = 1 .. n
  BY <1>1
<1>3. Orders(order, list) \in [1 .. n -> Seq(Suite)]
  BY <1>2 DEF Orders
<1> QED BY <1>2, <1>3

LEMMA OrderStepType ==
  ASSUME NEW order \in [Suite -> Seq(Suite)]
  PROVE  OrderStep(order) \in [Suite -> Seq(Suite)]
<1> SUFFICES ASSUME NEW s \in Suite
             PROVE  <<s>> \o FlattenSeq(Orders(order, Sub[s])) \in Seq(Suite)
  BY DEF OrderStep
<1>1. Orders(order, Sub[s]) \in Seq(Seq(Suite))
  BY SubTypes, OrdersType
<1>2. FlattenSeq(Orders(order, Sub[s])) \in Seq(Suite)
  BY <1>1, FlattenType
<1> QED BY <1>2

\* RunOrder is defined by its equation, for every tree.
LEMMA RunOrderIs ==
  /\ RunOrder \in [Suite -> Seq(Suite)]
  /\ \A s \in Suite : RunOrder[s] = <<s>> \o Flat(Sub[s])
<1> DEFINE Upto(order, k) == \A s \in Suite : Rank[s] < k => order[s] = OrderStep(order)[s]
           T == {k \in Nat : \E order \in [Suite -> Seq(Suite)] : Upto(order, k)}
<1>1. 0 \in T
  <2>1. [s \in Suite |-> <<>>] \in [Suite -> Seq(Suite)]
    OBVIOUS
  <2>2. \A s \in Suite : ~(Rank[s] < 0)
    BY RankFalls
  <2> QED BY <2>1, <2>2
<1>2. ASSUME NEW k \in Nat, k \in T
      PROVE  k + 1 \in T
  <2>1. PICK order \in [Suite -> Seq(Suite)] : Upto(order, k)
    BY <1>2
  <2>2. PICK more : more = OrderStep(order)
    OBVIOUS
  <2>3. more \in [Suite -> Seq(Suite)]
    BY <2>2, OrderStepType
  <2>4. ASSUME NEW s \in Suite, Rank[s] < k + 1
        PROVE  more[s] = OrderStep(more)[s]
    <3>1. \A i \in DOMAIN Sub[s] : more[Sub[s][i]] = order[Sub[s][i]]
      <4> SUFFICES ASSUME NEW i \in DOMAIN Sub[s]
                   PROVE  more[Sub[s][i]] = order[Sub[s][i]]
        OBVIOUS
      <4>1. Sub[s][i] \in Suite /\ Rank[Sub[s][i]] < k
        BY <2>4, RankFalls, SubTypes
      <4> QED BY <2>1, <2>2, <4>1
    <3>2. Orders(more, Sub[s]) = Orders(order, Sub[s])
      BY <3>1 DEF Orders
    <3> QED BY <2>2, <3>2 DEF OrderStep
  <2> QED BY <2>3, <2>4
<1>3. PICK order \in [Suite -> Seq(Suite)] : Upto(order, Cardinality(Suite) + 1)
  <2>1. Cardinality(Suite) + 1 \in Nat
    BY RankFalls
  <2>2. Cardinality(Suite) + 1 \in T
    <3> HIDE DEF T
    <3> QED BY <1>1, <1>2, <2>1, SetInduction
  <2> QED BY <2>2
<1>4. order = OrderStep(order)
  <2>1. \A s \in Suite : Rank[s] < Cardinality(Suite) + 1
    BY RankFalls
  <2>2. \A s \in Suite : order[s] = OrderStep(order)[s]
    BY <1>3, <2>1
  <2> QED BY <2>2, OrderStepType
<1>5. RunOrder = OrderStep(RunOrder)
  <2>1. RunOrder = CHOOSE f : f = OrderStep(f)
    BY DEF RunOrder, OrderStep, Orders
  <2> QED BY <1>4, <2>1
<1>6. \A s \in Suite : RunOrder[s] = <<s>> \o Flat(Sub[s])
  BY <1>5 DEF OrderStep, Flat
<1>7. RunOrder \in [Suite -> Seq(Suite)]
  <2> DEFINE U == {k \in Nat : \A s \in Suite : Rank[s] < k => RunOrder[s] \in Seq(Suite)}
  <2>1. 0 \in U
    BY RankFalls
  <2>2. ASSUME NEW k \in Nat, k \in U
        PROVE  k + 1 \in U
    <3> SUFFICES ASSUME NEW s \in Suite, Rank[s] < k + 1
                 PROVE  RunOrder[s] \in Seq(Suite)
      OBVIOUS
    <3>1. \A i \in DOMAIN Sub[s] : RunOrder[Sub[s][i]] \in Seq(Suite)
      <4> SUFFICES ASSUME NEW i \in DOMAIN Sub[s]
                   PROVE  RunOrder[Sub[s][i]] \in Seq(Suite)
        OBVIOUS
      <4>1. Sub[s][i] \in Suite /\ Rank[Sub[s][i]] < k
        BY RankFalls, SubTypes
      <4> QED BY <2>2, <4>1
    <3>2. Orders(RunOrder, Sub[s]) \in Seq(Seq(Suite))
      BY <3>1, SubTypes, OrdersType
    <3>3. Flat(Sub[s]) \in Seq(Suite)
      BY <3>2, FlattenType DEF Flat
    <3>4. <<s>> \o Flat(Sub[s]) \in Seq(Suite)
      BY <3>3
    <3> QED BY <1>6, <3>4
  <2>3. Cardinality(Suite) + 1 \in U
    <3>1. Cardinality(Suite) + 1 \in Nat
      BY RankFalls
    <3> HIDE DEF U
    <3> QED BY <2>1, <2>2, <3>1, SetInduction
  <2>4. \A s \in Suite : RunOrder[s] \in Seq(Suite)
    BY <2>3, RankFalls
  <2>5. DOMAIN RunOrder = Suite
    BY <1>5 DEF OrderStep
  <2>6. RunOrder = [s \in Suite |-> RunOrder[s]]
    BY <1>5 DEF OrderStep
  <2> QED BY <2>4, <2>5, <2>6
<1> QED BY <1>6, <1>7

LEMMA FlatJoins ==
  ASSUME NEW a \in Seq(Suite), NEW b \in Seq(Suite)
  PROVE  /\ Flat(a \o b) = Flat(a) \o Flat(b)
         /\ Flat(a) \in Seq(Suite) /\ Flat(b) \in Seq(Suite)
<1>1. \A s \in Suite : RunOrder[s] \in Seq(Suite)
  BY RunOrderIs
<1>2. /\ Orders(RunOrder, a) \in Seq(Seq(Suite))
      /\ Orders(RunOrder, b) \in Seq(Seq(Suite))
  BY <1>1, OrdersType
<1>3. Orders(RunOrder, a \o b) = Orders(RunOrder, a) \o Orders(RunOrder, b)
  <2>1. PICK order : order = RunOrder
    OBVIOUS
  <2>2. PICK m, n : m = Len(a) /\ n = Len(b)
    OBVIOUS
  <2>3. PICK x, y : x = Orders(order, a) /\ y = Orders(order, b)
    OBVIOUS
  <2>4. /\ m \in Nat /\ n \in Nat
        /\ DOMAIN a = 1 .. m /\ DOMAIN b = 1 .. n /\ DOMAIN (a \o b) = 1 .. m + n
    BY <2>2
  <2>5. /\ x \in Seq(Seq(Suite)) /\ y \in Seq(Seq(Suite))
        /\ x = [i \in 1 .. m |-> order[a[i]]] /\ y = [i \in 1 .. n |-> order[b[i]]]
    BY <1>2, <2>1, <2>3, <2>4 DEF Orders
  <2>6. Len(x) = m /\ Len(y) = n /\ DOMAIN (x \o y) = 1 .. m + n
    BY <2>4, <2>5
  <2>7. Orders(order, a \o b) = [i \in 1 .. m + n |-> order[(a \o b)[i]]]
    BY <2>4 DEF Orders
  <2>8. ASSUME NEW i \in 1 .. m + n
        PROVE  order[(a \o b)[i]] = (x \o y)[i]
    <3>1. CASE i <= m
      <4>1. (a \o b)[i] = a[i] /\ i \in 1 .. m
        BY <2>2, <2>4, <3>1
      <4>2. (x \o y)[i] = x[i]
        BY <2>4, <2>5, <2>6, <3>1
      <4> QED BY <2>5, <4>1, <4>2
    <3>2. CASE ~(i <= m)
      <4>1. (a \o b)[i] = b[i - m] /\ i - m \in 1 .. n
        BY <2>2, <2>4, <3>2
      <4>2. (x \o y)[i] = y[i - m]
        BY <2>4, <2>5, <2>6, <3>2
      <4> QED BY <2>5, <4>1, <4>2
    <3> QED BY <3>1, <3>2
  <2>9. x \o y = [i \in 1 .. m + n |-> (x \o y)[i]]
    BY <2>4, <2>5, <2>6, SMTT(40)
  <2>10. [i \in 1 .. m + n |-> order[(a \o b)[i]]] = [i \in 1 .. m + n |-> (x \o y)[i]]
    BY <2>8
  <2> QED BY <2>1, <2>3, <2>7, <2>9, <2>10
<1>4. FlattenSeq(Orders(RunOrder, a) \o Orders(RunOrder, b)) =
        FlattenSeq(Orders(RunOrder, a)) \o FlattenSeq(Orders(RunOrder, b))
  BY <1>2, FlattenConcat
<1> QED BY <1>2, <1>3, <1>4, FlattenType DEF Flat

\* A suite at the head of a list comes first, then what is below it.
LEMMA FlatHead ==
  ASSUME NEW list \in Seq(Suite), list # <<>>
  PROVE  Flat(list) = <<Head(list)>> \o Flat(Sub[Head(list)] \o Tail(list))
<1>1. PICK s, rest : s = Head(list) /\ rest = Tail(list)
  OBVIOUS
<1>2. s \in Suite /\ rest \in Seq(Suite) /\ <<s>> \in Seq(Suite) /\ list = <<s>> \o rest
  BY <1>1
<1>3. Flat(list) = Flat(<<s>>) \o Flat(rest)
  BY <1>2, FlatJoins
<1>4. Flat(<<s>>) = RunOrder[s]
  <2>1. RunOrder[s] \in Seq(Suite)
    BY <1>2, RunOrderIs
  <2>2. Orders(RunOrder, <<s>>) = <<RunOrder[s]>>
    <3>1. PICK order : order = RunOrder
      OBVIOUS
    <3>2. Orders(order, <<s>>) = <<order[s]>>
      BY DEF Orders
    <3> QED BY <3>1, <3>2
  <2> QED BY <2>1, <2>2, FlattenOne DEF Flat
<1>5. RunOrder[s] = <<s>> \o Flat(Sub[s])
  BY <1>2, RunOrderIs
<1>6. Flat(Sub[s] \o rest) = Flat(Sub[s]) \o Flat(rest)
  BY <1>2, SubTypes, FlatJoins
<1>7. Flat(Sub[s]) \in Seq(Suite) /\ Flat(rest) \in Seq(Suite)
  BY <1>2, SubTypes, FlatJoins
<1>8. (<<s>> \o Flat(Sub[s])) \o Flat(rest) = <<s>> \o (Flat(Sub[s]) \o Flat(rest))
  BY <1>2, <1>7, ConcatAssociative
<1>9. Flat(list) = <<s>> \o Flat(Sub[s] \o rest)
  BY <1>3, <1>4, <1>5, <1>6, <1>8, Zenon
<1> QED BY <1>1, <1>9

-----------------------------------------------------------------------------
\* The suites are run depth first.

\* The suites whose records there are, and those that are still to come.
Reported(records) == [i \in DOMAIN records |-> records[i].suite]
Rest(p, list) == IF p \in {"run", "returned"} THEN list ELSE Sub[Head(list)] \o Tail(list)

OrderInv ==
  pc[Root] # "unwound" =>
    Reported(suites) \o Flat(Rest(pc[Root], pending[Root])) = RunOrder[Root]

\* The record of the first suite is complete, and its sub-suites run.
RootOver ==
  \/ Len(suites) > 1
  \/ Len(suites) = 1 /\ pc[Root] \in {"run", "returned"}

\* No suite below the first is the first again: its count is left alone.
FirstInv ==
  pc[Root] # "unwound" =>
    /\ Len(suites) = 0 => pc[Root] = "run" /\ pending[Root] = <<Root>>
    /\ Len(suites) = 1 /\ ~RootOver => pending[Root] = <<Root>>
    /\ RootOver =>
         /\ \A i \in DOMAIN pending[Root] : Rank[pending[Root][i]] < Rank[Root]
         /\ positive[Root] = suites[1].numPositive

\* What a step between two calls leaves alone, unless it ends a suite.
LEMMA StepRest ==
  ASSUME TreeInv, PlainInv, SuiteStep(Root), ~RunSubSuites(Root)
  PROVE  /\ pending' = pending /\ pc[Root] \notin {"returned", "unwound"}
         /\ pc'[Root] # "returned"
         /\ pc'[Root] = "run" <=> pc[Root] = "run"
         /\ \A s \in Suite : s # Current(Root) => positive'[s] = positive[s]
<1>1. /\ pc \in [Thread -> PC] /\ positive \in [Suite -> Nat] /\ Root \in Thread
      /\ pc[Root] # "returned"
  BY RootTypes, StepsActive DEF Active
<1>2. CASE UserCode(Root)
  <2>1. pending' = pending /\ positive' = positive
    BY <1>2, RootTypes, UserCodeEffect DEF UserCode, AssertHolds, AssertFails, Aborts,
       ExpectThrowFails, MacroCatches, BodyThrows, HookThrows, Report, locals, members
  <2>2. \/ UNCHANGED pc
        \/ pc'[Root] \in {"catch", "unwound"}
    BY <1>1, <1>2 DEF UserCode, AssertHolds, AssertFails, Aborts, ExpectThrowFails,
       MacroCatches, BodyThrows, HookThrows, Report, Goto
  <2>3. pc[Root] \in UserPlace \cup {"handler"}
    BY <1>2, RootTypes, UserCodeEffect
  <2> QED BY <1>1, <2>1, <2>2, <2>3 DEF UserPlace
<1>3. CASE StartRun(Root)
  BY <1>1, <1>3 DEF StartRun, At
<1>4. CASE SetupReturns(Root) \/ StartMethod(Root)
  BY <1>1, <1>4 DEF SetupReturns, StartMethod, At, Goto, members
<1>5. CASE BeforeReturns(Root) \/ BodyReturns(Root)
  BY <1>1, <1>5 DEF BeforeReturns, BodyReturns, At, Goto, members
<1>6. CASE AfterReturns(Root) \/ CountMethod(Root)
  BY <1>1, <1>6 DEF AfterReturns, CountMethod, At, Goto, members
<1>7. CASE EndLoop(Root) \/ TearDownReturns(Root)
  BY <1>1, <1>7 DEF EndLoop, TearDownReturns, At, Goto, locals, members
<1> QED BY <1>2, <1>3, <1>4, <1>5, <1>6, <1>7 DEF SuiteStep

\* The calls that return, seen from the list of records.
LEMMA ReturnRest ==
  ASSUME TreeInv, ColTypes, PlainInv, PCallReturns(Root), Record(Root)
  PROVE  /\ UNCHANGED <<pending, positive>>
         /\ pc'[Root] \notin {"run", "returned"} /\ pc[Root] # "returned"
         /\ \/ /\ InitializeSuite(Root) /\ pc[Root] = "run"
               /\ Len(suites') = Len(suites) + 1
               /\ suites'[Len(suites) + 1].suite = Current(Root)
               /\ \A i \in DOMAIN suites : suites'[i] = suites[i]
            \/ /\ pc[Root] # "run" /\ Len(suites') = Len(suites)
               /\ \A i \in DOMAIN suites : suites'[i].suite = suites[i].suite
               /\ \A i \in DOMAIN suites :
                    i # Len(suites) => suites'[i].numPositive = suites[i].numPositive
<1>1. /\ call[Root] # NoCall /\ pc'[Root] = call[Root].then /\ UNCHANGED <<pending, positive>>
  BY RootTypes DEF PCallReturns, CallReturns, Goto, locals, members
<1>2. CallPlace(pc[Root], call[Root])
  BY <1>1 DEF PlainInv, PlaceInv
<1>3. pc'[Root] \notin {"run", "returned"} /\ pc[Root] # "returned"
  BY <1>1, <1>2 DEF CallPlace
<1>4. currentSuite = Len(suites) /\ suites \in Seq(SuiteInfo)
  BY DEF ColTypes
<1>5. CASE InitializeSuite(Root)
  <2>1. pc[Root] = "run"
    BY <1>2, <1>5 DEF CallPlace, InitializeSuite
  <2>2. /\ Len(suites') = Len(suites) + 1
        /\ suites'[Len(suites) + 1] = [suite |-> Current(Root), numTests |-> call[Root].num,
                                       numPositive |-> 0, methods |-> <<>>]
        /\ \A i \in DOMAIN suites : suites'[i] = suites[i]
    BY <1>1, <1>5, RootTypes, InitializeSuiteEffect
  <2>3. suites'[Len(suites) + 1].suite = Current(Root)
    BY <2>2
  <2> QED BY <1>1, <1>3, <1>5, <2>1, <2>2, <2>3
<1>6. CASE FinishSuite(Root)
  <2>1. pc[Root] # "run"
    BY <1>2, <1>6 DEF CallPlace, FinishSuite
  <2> QED BY <1>1, <1>3, <1>4, <1>6, <2>1, RootTypes, FinishSuiteEffect
<1>7. CASE InitializeTestMethod(Root)
  <2>1. pc[Root] # "run"
    BY <1>2, <1>7 DEF CallPlace, InitializeTestMethod
  <2>2. /\ Len(suites) \in DOMAIN suites /\ Len(suites') = Len(suites)
        /\ suites'[Len(suites)] = [suites[Len(suites)] EXCEPT !.methods = Append(@, NewMethod)]
        /\ \A i \in DOMAIN suites : i # Len(suites) => suites'[i] = suites[i]
    BY <1>1, <1>4, <1>7, RootTypes, InitializeTestMethodEffect
  <2>3. suites'[Len(suites)].suite = suites[Len(suites)].suite
    BY <1>4, <2>2 DEF SuiteInfo
  <2>4. \A i \in DOMAIN suites : suites'[i].suite = suites[i].suite
    BY <2>2, <2>3
  <2> QED BY <1>1, <1>3, <2>1, <2>2, <2>4
<1>8. CASE RecordOnMethod(Root)
  <2>1. pc[Root] # "run"
    BY <1>2, <1>8 DEF CallPlace, RecordOnMethod, MethodOp
  <2> QED BY <1>1, <1>3, <1>8, <2>1, RootTypes, RecordOnMethodEffect
<1> QED BY <1>5, <1>6, <1>7, <1>8 DEF Record

\* RunSubSuites replaces the suite by its sub-suites.
LEMMA SubSuitesRest ==
  ASSUME TreeInv, RunSubSuites(Root)
  PROVE  /\ pending[Root] \in Seq(Suite) /\ pending[Root] # <<>> /\ Current(Root) \in Suite
         /\ pending'[Root] = Sub[Current(Root)] \o Tail(pending[Root])
         /\ pc[Root] = "subs" /\ pc'[Root] \in {"run", "returned"} /\ UNCHANGED positive
<1>1. /\ pc \in [Thread -> PC] /\ Root \in Thread /\ pending \in [Thread -> Seq(Suite)]
  BY RootTypes DEF SuiteInv, TypeOK
<1>2. Active(Root)
  BY <1>1, StepsActive DEF SuiteStep
<1>3. pc[Root] = "subs"
  BY DEF RunSubSuites, At
<1>4. pending[Root] # <<>> /\ Current(Root) \in Suite
  BY <1>1, <1>2, <1>3, RootTypes, ActiveRuns DEF SuiteInv, TypeOK
<1> QED BY <1>1, <1>3, <1>4 DEF RunSubSuites, FinishHead, Goto, members

LEMMA ReportedType ==
  ASSUME ColTypes
  PROVE  /\ Reported(suites) \in Seq(Suite) /\ Len(Reported(suites)) = Len(suites)
         /\ DOMAIN suites = 1 .. Len(suites) /\ Len(suites) \in Nat
<1>1. PICK n : n = Len(suites)
  OBVIOUS
<1>2. n \in Nat /\ DOMAIN suites = 1 .. n /\ \A i \in 1 .. n : suites[i].suite \in Suite
  <2>1. n \in Nat /\ DOMAIN suites = 1 .. n /\ \A i \in 1 .. n : suites[i] \in SuiteInfo
    BY <1>1 DEF ColTypes
  <2>2. \A info \in SuiteInfo : info.suite \in Suite
    BY DEF SuiteInfo
  <2> QED BY <2>1, <2>2
<1>3. Reported(suites) \in [1 .. n -> Suite]
  BY <1>2 DEF Reported
<1> QED BY <1>1, <1>2, <1>3

LEMMA OrderRecord ==
  ASSUME TreeInv, ColTypes, PlainInv, OrderInv, PCallReturns(Root), Record(Root)
  PROVE  OrderInv'
<1>1. PICK p, list : p = pc[Root] /\ list = pending[Root]
  OBVIOUS
<1>2. /\ pending'[Root] = list /\ pc'[Root] \notin {"run", "returned"} /\ p # "returned"
  BY <1>1, ReturnRest
<1>3. p # "unwound"
  <2>1. call[Root] # NoCall
    BY DEF PCallReturns, CallReturns
  <2> QED BY <1>1, <2>1 DEF PlainInv, PlaceInv, CallPlace
<1>4. Reported(suites) \o Flat(Rest(p, list)) = RunOrder[Root]
  BY <1>1, <1>3 DEF OrderInv
<1>5. CASE InitializeSuite(Root) /\ p = "run"
  <2>1. list # <<>> /\ list \in Seq(Suite)
    <3>1. TypeOK /\ Root \in Thread
      BY RootTypes DEF SuiteInv
    <3> QED BY <1>1, <1>5, <3>1 DEF TypeOK
  <2>2. PICK s, more : s = Head(list) /\ more = Sub[s] \o Tail(list)
    OBVIOUS
  <2>3. s \in Suite /\ more \in Seq(Suite)
    BY <2>1, <2>2, SubTypes
  <2>4. Rest(p, list) = list /\ Rest(pc'[Root], list) = more
    BY <1>2, <1>5, <2>2 DEF Rest
  <2>5. Flat(list) = <<s>> \o Flat(more)
    BY <2>1, <2>2, FlatHead
  <2>6. Flat(more) \in Seq(Suite)
    <3>1. <<>> \in Seq(Suite)
      OBVIOUS
    <3> QED BY <2>3, <3>1, FlatJoins
  <2>7. Reported(suites) \in Seq(Suite) /\ Reported(suites') = Reported(suites) \o <<s>>
    <3>1. PICK n : n = Len(suites)
      OBVIOUS
    <3>2. n \in Nat /\ DOMAIN suites = 1 .. n
      BY <3>1, ReportedType
    <3>3. PICK old : old = Reported(suites)
      OBVIOUS
    <3>4. old = [i \in 1 .. n |-> suites[i].suite]
      BY <3>2, <3>3 DEF Reported
    <3>5. old \in Seq(Suite) /\ Len(old) = n
      BY <3>1, <3>3, ReportedType
    <3>6. /\ Len(suites') = n + 1 /\ suites'[n + 1].suite = s
          /\ \A i \in 1 .. n : suites'[i] = suites[i]
      BY <1>1, <1>2, <1>5, <2>2, <3>1, <3>2, ReturnRest DEF Current
    <3>7. DOMAIN suites' = 1 .. n + 1
      <4>1. call[Root] # NoCall
        BY DEF PCallReturns, CallReturns
      <4>2. ColTypes'
        BY <1>5, <4>1, RootTypes, InitializeSuiteEffect
      <4> QED BY <3>6, <4>2 DEF ColTypes
    <3>8. Reported(suites') = [i \in 1 .. n + 1 |-> suites'[i].suite]
      BY <3>7 DEF Reported
    <3>9. \A i \in 1 .. n + 1 : suites'[i].suite = (old \o <<s>>)[i]
      <4> SUFFICES ASSUME NEW i \in 1 .. n + 1
                   PROVE  suites'[i].suite = (old \o <<s>>)[i]
        OBVIOUS
      <4>1. CASE i \in 1 .. n
        <5>1. suites'[i].suite = old[i]
          BY <3>4, <3>6, <4>1
        <5>2. (old \o <<s>>)[i] = old[i]
          BY <3>2, <3>5, <4>1
        <5> QED BY <5>1, <5>2
      <4>2. CASE i = n + 1
        <5>1. (old \o <<s>>)[n + 1] = s
          BY <3>2, <3>5
        <5> QED BY <3>6, <4>2, <5>1
      <4>3. i \in 1 .. n \/ i = n + 1
        BY <3>2
      <4> QED BY <4>1, <4>2, <4>3
    <3>10. old \o <<s>> = [i \in 1 .. n + 1 |-> (old \o <<s>>)[i]]
      BY <3>2, <3>5
    <3>11. Reported(suites') = old \o <<s>>
      BY <3>8, <3>9, <3>10
    <3> QED BY <3>3, <3>5, <3>11
  <2>8. (Reported(suites) \o <<s>>) \o Flat(more) = Reported(suites) \o (<<s>> \o Flat(more))
    <3>1. <<s>> \in Seq(Suite)
      BY <2>3
    <3> QED BY <2>6, <2>7, <3>1, ConcatAssociative
  <2>9. Reported(suites') \o Flat(Rest(pc'[Root], list)) = RunOrder[Root]
    BY <1>4, <2>4, <2>5, <2>7, <2>8, Zenon
  <2> QED BY <1>2, <2>9, Zenon DEF OrderInv
<1>6. CASE p # "run"
  <2>1. Rest(pc'[Root], list) = Rest(p, list)
    BY <1>2, <1>6 DEF Rest
  <2>2. /\ Len(suites') = Len(suites)
        /\ \A i \in DOMAIN suites : suites'[i].suite = suites[i].suite
    BY <1>1, <1>6, ReturnRest
  <2>3. DOMAIN suites' = DOMAIN suites
    <3>1. call[Root] # NoCall
      BY DEF PCallReturns, CallReturns
    <3>2. ColTypes'
      BY <3>1, RootTypes, InitializeSuiteEffect, FinishSuiteEffect,
         InitializeTestMethodEffect, RecordOnMethodEffect DEF Record
    <3> QED BY <2>2, <3>2 DEF ColTypes
  <2>4. Reported(suites') = Reported(suites)
    BY <2>2, <2>3 DEF Reported
  <2> QED BY <1>2, <1>4, <2>1, <2>4, Zenon DEF OrderInv
<1> QED BY <1>1, <1>5, <1>6, ReturnRest

LEMMA OrderNext ==
  ASSUME Parallel = {}, TreeInv, ColTypes, PlainInv, OrderInv, [CNext]_cvars
  PROVE  OrderInv'
<1>1. UNCHANGED <<vars, collector>> => OrderInv'
  BY DEF vars, locals, collector, OrderInv
<1>2. CASE UNCHANGED cvars
  BY <1>1, <1>2 DEF cvars, pvars
<1>3. CASE InvalidTestMethod(Root)
  <2>1. pc'[Root] = "unwound"
    BY <1>3, RootTypes DEF InvalidTestMethod, Goto
  <2> QED BY <2>1 DEF OrderInv
<1>4. CASE SuiteStep(Root) /\ UNCHANGED collector
  <2>1. pc[Root] # "unwound" /\ suites' = suites
    BY <1>4, StepRest, SubSuitesRest DEF collector
  <2>2. Reported(suites) \o Flat(Rest(pc[Root], pending[Root])) = RunOrder[Root]
    BY <2>1 DEF OrderInv
  <2>3. CASE ~RunSubSuites(Root)
    <3>1. Rest(pc'[Root], pending'[Root]) = Rest(pc[Root], pending[Root])
      BY <1>4, <2>3, StepRest DEF Rest
    <3> QED BY <2>1, <2>2, <3>1, Zenon DEF OrderInv
  <2>4. CASE RunSubSuites(Root)
    <3>1. Rest(pc'[Root], pending'[Root]) = Rest(pc[Root], pending[Root])
      BY <2>4, SubSuitesRest DEF Rest, Current
    <3> QED BY <2>1, <2>2, <3>1, Zenon DEF OrderInv
  <2> QED BY <2>3, <2>4
<1>5. ASSUME NEW t \in Thread, CStep(t)
      PROVE  OrderInv'
  <2>1. pc[Root] # "warn"
    BY DEF PlainInv, PlaceInv
  <2> QED BY <1>1, <1>3, <1>4, <1>5, <2>1, PlainSteps, OrderRecord DEF Acquire
<1> QED BY <1>2, <1>5 DEF CNext, CFinished

LEMMA OrderInvHolds ==
  ASSUME Parallel = {}
  PROVE  CSpec => []OrderInv
<1>1. CInit => OrderInv
  <2> SUFFICES ASSUME CInit PROVE OrderInv
    OBVIOUS
  <2>1. /\ pc[Root] = "run" /\ pending[Root] = <<Root>> /\ suites = <<>> /\ Root \in Suite
    BY ConstantTypes, SuiteAssumption DEF CInit, PInit, Init
  <2>2. Rest(pc[Root], pending[Root]) = <<Root>> /\ Reported(suites) = <<>>
    BY <2>1 DEF Rest, Reported
  <2>3. Flat(<<Root>>) = RunOrder[Root] /\ RunOrder[Root] \in Seq(Suite)
    <3>1. RunOrder[Root] \in Seq(Suite)
      BY <2>1, RunOrderIs
    <3>2. PICK order : order = RunOrder
      OBVIOUS
    <3>3. Orders(order, <<Root>>) = <<order[Root]>>
      BY DEF Orders
    <3> QED BY <3>1, <3>2, <3>3, FlattenOne DEF Flat
  <2>4. Reported(suites) \o Flat(Rest(pc[Root], pending[Root])) = RunOrder[Root]
    <3>1. <<>> \o RunOrder[Root] = RunOrder[Root]
      BY <2>3
    <3> QED BY <2>2, <2>3, <3>1, Zenon
  <2> QED BY <2>4 DEF OrderInv
<1>2. TreeInv /\ ColTypes /\ PlainInv /\ OrderInv /\ [CNext]_cvars => OrderInv'
  BY OrderNext
<1> QED BY <1>1, <1>2, CTreeInvHolds, ColTypesHold, PlainInvHolds, PTL DEF CSpec

\* Without ParallelSuites the records are for the suites of the tree in
\* depth-first order when run() returns, each as often as it was added.
LEMMA PlainSuitesReported ==
  ASSUME Parallel = {}
  PROVE  CSpec => []EverySuiteReported
<1>1. ASSUME TreeInv, ColTypes, OrderInv, pc[Root] = "returned"
      PROVE  Reported(suites) = RunOrder[Root]
  <2>1. pending[Root] = <<>>
    <3>1. TypeOK /\ Root \in Thread
      BY <1>1, RootTypes DEF SuiteInv
    <3> QED BY <1>1, <3>1 DEF TypeOK
  <2>2. Reported(suites) \o Flat(<<>>) = RunOrder[Root]
    BY <1>1, <2>1 DEF OrderInv, Rest
  <2>3. Flat(<<>>) = <<>>
    BY DEF Flat, Orders, FlattenSeq
  <2>4. Reported(suites) \in Seq(Suite)
    BY <1>1, ReportedType
  <2>5. Reported(suites) \o <<>> = Reported(suites)
    BY <2>4
  <2> QED BY <2>2, <2>3, <2>5, Zenon
<1>2. ASSUME TreeInv, ColTypes, OrderInv
      PROVE  EverySuiteReported
  <2>1. pc[Root] = "returned" =>
          [i \in DOMAIN suites |-> suites[i].suite] = RunOrder[Root]
    BY <1>1, <1>2 DEF Reported
  <2> QED BY <2>1 DEF EverySuiteReported
<1> QED BY <1>2, CTreeInvHolds, ColTypesHold, OrderInvHolds, PTL

\* What a step does to the list, and to the count of the first suite.
LEMMA FirstStep ==
  ASSUME TreeInv, ColTypes, PlainInv, SumInv, FirstInv, SuiteStep(Root), UNCHANGED collector
  PROVE  FirstInv'
<1>1. PICK list, n : list = pending[Root] /\ n = Len(suites)
  OBVIOUS
<1>2. /\ pc[Root] # "unwound" /\ suites' = suites
      /\ list # <<>> /\ list \in Seq(Suite) /\ Head(list) \in Suite
  <2>1. pc[Root] # "unwound" /\ suites' = suites
    BY StepRest, SubSuitesRest DEF collector
  <2> QED BY <1>1, <2>1, RootTypes, StepsActive, ActiveRuns DEF Current
<1>3. /\ n = 0 => pc[Root] = "run" /\ list = <<Root>>
      /\ n = 1 /\ ~RootOver => list = <<Root>>
      /\ RootOver => /\ \A i \in DOMAIN list : Rank[list[i]] < Rank[Root]
                     /\ positive[Root] = suites[1].numPositive
  BY <1>1, <1>2 DEF FirstInv
<1>4. CASE ~RunSubSuites(Root)
  <2>1. /\ pending'[Root] = list /\ (pc'[Root] = "run" <=> pc[Root] = "run")
        /\ pc[Root] # "returned" /\ pc'[Root] # "returned"
        /\ \A s \in Suite : s # Head(list) => positive'[s] = positive[s]
    BY <1>1, <1>4, StepRest DEF Current
  <2>2. RootOver' <=> RootOver
    BY <1>2, <2>1 DEF RootOver
  <2>3. RootOver => Head(list) # Root
    <3>1. 1 \in DOMAIN list /\ Head(list) = list[1]
      BY <1>2
    <3>2. Rank[Root] \in Int
      BY ConstantTypes, RankFalls
    <3> QED BY <1>3, <3>1, <3>2
  <2>4. RootOver => positive'[Root] = positive[Root]
    BY <2>1, <2>3, ConstantTypes
  <2> QED BY <1>1, <1>2, <1>3, <2>1, <2>2, <2>4 DEF FirstInv
<1>5. CASE RunSubSuites(Root)
  <2>1. PICK s, rest : s = Head(list) /\ rest = Tail(list)
    OBVIOUS
  <2>2. /\ pending'[Root] = Sub[s] \o rest /\ UNCHANGED positive
        /\ pc[Root] = "subs" /\ pc'[Root] \in {"run", "returned"}
    BY <1>1, <1>5, <2>1, SubSuitesRest DEF Current
  <2>3. s \in Suite /\ Sub[s] \in Seq(Suite) /\ rest \in Seq(Suite)
    BY <1>2, <2>1, SubTypes
  <2>4. n # 0 /\ n \in Nat
    BY <1>1, <1>3, <2>2, ReportedType
  <2>5. Rank[s] <= Rank[Root] /\ \A i \in DOMAIN rest : Rank[rest[i]] < Rank[Root]
    <3>1. CASE RootOver
      <4>1. 1 \in DOMAIN list /\ s = list[1]
        BY <1>2, <2>1
      <4>2. \A i \in DOMAIN rest : i + 1 \in DOMAIN list /\ rest[i] = list[i + 1]
        BY <1>2, <2>1
      <4>3. Rank[s] < Rank[Root]
        BY <1>3, <3>1, <4>1
      <4>4. Rank[s] \in Int /\ Rank[Root] \in Int
        BY <2>3, ConstantTypes, RankFalls
      <4> QED BY <1>3, <3>1, <4>2, <4>3, <4>4
    <3>2. CASE ~RootOver
      <4>1. list = <<Root>>
        BY <1>1, <1>3, <2>4, <3>2 DEF RootOver
      <4>2. s = Root /\ rest = <<>>
        BY <2>1, <4>1
      <4>3. Rank[Root] \in Int
        BY ConstantTypes, RankFalls
      <4> QED BY <4>2, <4>3
    <3> QED BY <3>1, <3>2
  <2>6. \A i \in DOMAIN (Sub[s] \o rest) : Rank[(Sub[s] \o rest)[i]] < Rank[Root]
    <3> SUFFICES ASSUME NEW i \in DOMAIN (Sub[s] \o rest)
                 PROVE  Rank[(Sub[s] \o rest)[i]] < Rank[Root]
      OBVIOUS
    <3>1. PICK a, m : a = Sub[s] /\ m = Len(a)
      OBVIOUS
    <3>2. a \in Seq(Suite) /\ m \in Nat /\ i \in 1 .. m + Len(rest)
      BY <2>3, <3>1
    <3>3. CASE i <= m
      <4>1. i \in DOMAIN a /\ (a \o rest)[i] = a[i]
        BY <2>3, <3>1, <3>2, <3>3
      <4>2. Rank[a[i]] < Rank[s] /\ a[i] \in Suite
        BY <2>3, <3>1, <4>1, RankFalls, SubTypes
      <4>3. Rank[a[i]] \in Int /\ Rank[s] \in Int /\ Rank[Root] \in Int
        BY <2>3, <4>2, ConstantTypes, RankFalls
      <4>4. Rank[a[i]] < Rank[Root]
        BY <2>5, <4>2, <4>3
      <4> QED BY <3>1, <4>1, <4>4
    <3>4. CASE ~(i <= m)
      <4>1. i - m \in DOMAIN rest /\ (a \o rest)[i] = rest[i - m]
        BY <2>3, <3>1, <3>2, <3>4
      <4> QED BY <2>5, <3>1, <4>1
    <3> QED BY <3>3, <3>4
  <2>7. positive[Root] = suites[1].numPositive
    <3>1. CASE RootOver
      BY <1>3, <3>1
    <3>2. CASE ~RootOver
      <4>1. list = <<Root>> /\ n = 1
        BY <1>1, <1>3, <2>4, <3>2 DEF RootOver
      <4>2. Current(Root) = Root
        BY <1>1, <4>1 DEF Current
      <4> QED BY <1>1, <2>2, <4>1, <4>2 DEF SumInv, CountOK
    <3> QED BY <3>1, <3>2
  <2>8. RootOver'
    BY <1>1, <1>2, <2>2, <2>4 DEF RootOver
  <2> QED BY <1>1, <1>2, <2>2, <2>4, <2>6, <2>7, <2>8 DEF FirstInv
<1> QED BY <1>4, <1>5

LEMMA FirstRecord ==
  ASSUME TreeInv, ColTypes, PlainInv, FirstInv, PCallReturns(Root), Record(Root)
  PROVE  FirstInv'
<1>1. PICK list, n : list = pending[Root] /\ n = Len(suites)
  OBVIOUS
<1>2. /\ pending'[Root] = list /\ positive' = positive
      /\ pc'[Root] \notin {"run", "returned"} /\ pc[Root] # "returned"
  BY <1>1, ReturnRest
<1>3. pc[Root] # "unwound"
  <2>1. call[Root] # NoCall
    BY DEF PCallReturns, CallReturns
  <2> QED BY <2>1 DEF PlainInv, PlaceInv, CallPlace
<1>4. n \in Nat /\ DOMAIN suites = 1 .. n
  BY <1>1, ReportedType
<1>5. /\ n = 0 => pc[Root] = "run" /\ list = <<Root>>
      /\ n = 1 /\ ~RootOver => list = <<Root>>
      /\ RootOver => /\ \A i \in DOMAIN list : Rank[list[i]] < Rank[Root]
                     /\ positive[Root] = suites[1].numPositive
  BY <1>1, <1>3 DEF FirstInv
<1>6. CASE pc[Root] = "run"
  <2>1. Len(suites') = n + 1 /\ \A i \in 1 .. n : suites'[i] = suites[i]
    BY <1>1, <1>4, <1>6, ReturnRest
  <2>2. RootOver' <=> n # 0
    BY <1>2, <1>4, <2>1 DEF RootOver
  <2>3. n # 0 => RootOver /\ suites'[1] = suites[1]
    BY <1>1, <1>4, <1>6, <2>1 DEF RootOver
  <2> QED BY <1>2, <1>4, <1>5, <2>1, <2>2, <2>3 DEF FirstInv
<1>7. CASE pc[Root] # "run"
  <2>1. /\ Len(suites') = n
        /\ \A i \in 1 .. n : i # n => suites'[i].numPositive = suites[i].numPositive
    BY <1>1, <1>4, <1>7, ReturnRest
  <2>2. (RootOver' <=> RootOver) /\ (RootOver <=> n > 1)
    BY <1>1, <1>2, <1>7, <2>1 DEF RootOver
  <2>3. RootOver => suites'[1].numPositive = suites[1].numPositive
    BY <1>4, <2>1, <2>2
  <2> QED BY <1>2, <1>4, <1>5, <1>7, <2>1, <2>2, <2>3 DEF FirstInv
<1> QED BY <1>6, <1>7

LEMMA FirstInvHolds ==
  ASSUME Parallel = {}
  PROVE  CSpec => []FirstInv
<1>1. CInit => FirstInv
  <2> SUFFICES ASSUME CInit PROVE FirstInv
    OBVIOUS
  <2>1. pc[Root] = "run" /\ pending[Root] = <<Root>> /\ Len(suites) = 0
    BY ConstantTypes DEF CInit, PInit, Init
  <2> QED BY <2>1 DEF FirstInv, RootOver
<1>2. TreeInv /\ ColTypes /\ PlainInv /\ SumInv /\ FirstInv /\ [CNext]_cvars => FirstInv'
  <2> SUFFICES ASSUME TreeInv, ColTypes, PlainInv, SumInv, FirstInv, [CNext]_cvars
               PROVE  FirstInv'
    OBVIOUS
  <2>1. UNCHANGED <<vars, collector>> => FirstInv'
    BY DEF vars, locals, members, collector, FirstInv, RootOver
  <2>2. CASE UNCHANGED cvars
    BY <2>1, <2>2 DEF cvars, pvars
  <2>3. CASE InvalidTestMethod(Root)
    <3>1. pc'[Root] = "unwound"
      BY <2>3, RootTypes DEF InvalidTestMethod, Goto
    <3> QED BY <3>1 DEF FirstInv
  <2>4. ASSUME NEW t \in Thread, CStep(t)
        PROVE  FirstInv'
    <3>1. pc[Root] # "warn"
      BY DEF PlainInv, PlaceInv
    <3> QED BY <2>1, <2>3, <2>4, <3>1, PlainSteps, FirstStep, FirstRecord DEF Acquire
  <2> QED BY <2>2, <2>4 DEF CNext, CFinished
<1> QED BY <1>1, <1>2, CTreeInvHolds, ColTypesHold, PlainInvHolds, SumInvHolds, PTL DEF CSpec

\* The result of run() agrees with the report, for every tree of plain suites:
\* it is true exactly if the record of the first suite has every selected
\* method, each of them successful, whatever ran below that suite since.
THEOREM ResultAgrees ==
  ASSUME Parallel = {}
  PROVE  CSpec => []ResultMatchesReport
<1>1. ASSUME ColTypes, KeptInv, FirstInv, pc[Root] = "returned"
      PROVE  RunResult(Root) <=> Cardinality(Successful(suites[1])) = numTests
  <2>1. Len(suites) # 0 /\ RootOver
    BY <1>1, ReportedType DEF FirstInv, RootOver
  <2>2. positive[Root] = suites[1].numPositive
    BY <1>1, <2>1 DEF FirstInv
  <2>3. 1 \in DOMAIN suites
    BY <1>1, <2>1, ReportedType
  <2>4. suites[1].numPositive = Cardinality(Successful(suites[1]))
    BY <1>1, <2>3 DEF KeptInv, Complete
  <2> QED BY <2>2, <2>4 DEF RunResult
<1>2. ColTypes /\ KeptInv /\ FirstInv => ResultMatchesReport
  BY <1>1 DEF ResultMatchesReport
<1> QED BY <1>2, ColTypesHold, KeptInvHolds, FirstInvHolds, PTL

-----------------------------------------------------------------------------
\* Trees with ParallelSuites: the threads share what is left of the order.

\* The places of ParallelSuite::run.
ParallelPlace == {"run", "setup", "warn", "tear_down", "spawn", "join", "unwinding",
                  "unwound"}

\* Where a thread makes the call that adds a record, and where the loop over
\* the workers begins.
ThreadPlace(t) ==
  /\ call[t] # NoCall =>
       /\ call[t].op = "initializeSuite" <=> pc[t] = "run"
       /\ pc[t] = "run" => call[t].then = "setup"
       /\ call[t].then \notin {"run", "join", "unwinding"}
  /\ pending[t] # <<>> /\ Current(t) \in Parallel =>
       /\ pc[t] \in ParallelPlace
       /\ call[t] # NoCall => call[t].then \in ParallelPlace
       /\ \/ pc[t] \in {"warn", "tear_down"}
          \/ call[t] # NoCall /\ call[t].then \in {"warn", "tear_down", "spawn"}
          => next[t] = 1
PlacesInv == \A t \in Thread : ThreadPlace(t)

\* The suites a thread has still to begin or to have begun by a worker, without
\* those below them.
Worklist(t) ==
  IF pc[t] \in {"run", "idle", "returned"} THEN pending[t]
  ELSE IF pc[t] = "spawn"
    THEN SubSeq(Sub[Current(t)], next[t], Len(Sub[Current(t)])) \o Tail(pending[t])
  ELSE IF pc[t] = "join" THEN Tail(pending[t])
  ELSE Sub[Current(t)] \o Tail(pending[t])
Left == [t \in Thread |-> Flat(Worklist(t))]

\* Where in a list, and where in the lists of all threads, a suite is.
Where(seq, s) == {i \in DOMAIN seq : seq[i] = s}
Places(lists, s) == UNION {{<<t, i>> : i \in Where(lists[t], s)} : t \in Thread}

\* As long as no exception is on its way, every suite has been reported as often
\* as it is in the order of the root, but for those that are left.
SharedInv ==
  (\A t \in Thread : pc[t] \notin {"unwinding", "unwound"}) =>
    \A s \in Suite :
      Count(Reported(suites), s) + Cardinality(Places(Left, s)) = Count(RunOrder[Root], s)

LEMMA ThreadsFinite == IsFiniteSet(Thread) /\ Thread \subseteq Suite
<1>1. Thread \subseteq Suite
  BY SuiteAssumption DEF Thread
<1> QED BY <1>1, TreeAssumption, FS_Subset

LEMMA WhereFinite ==
  ASSUME NEW seq \in Seq(Suite), NEW s
  PROVE  IsFiniteSet(Where(seq, s)) /\ Count(seq, s) \in Nat
         /\ Count(seq, s) = Cardinality(Where(seq, s))
<1>1. DOMAIN seq = 1 .. Len(seq) /\ Len(seq) \in Nat
  OBVIOUS
<1>2. IsFiniteSet(1 .. Len(seq))
  BY <1>1, FS_Interval
<1>3. Where(seq, s) \in SUBSET (1 .. Len(seq))
  BY <1>1 DEF Where
<1>4. IsFiniteSet(Where(seq, s))
  BY <1>2, <1>3, FS_Subset
<1> QED BY <1>4, FS_CardinalityType DEF Count, Where

\* A set of numbers, all shifted.
LEMMA ShiftCount ==
  ASSUME NEW S \in SUBSET Nat, IsFiniteSet(S), NEW n \in Nat
  PROVE  IsFiniteSet({i + n : i \in S}) /\ Cardinality({i + n : i \in S}) = Cardinality(S)
<1> DEFINE T == {i + n : i \in S}
           f == [i \in S |-> i + n]
<1>1. f \in Bijection(S, T)
  <2>1. \A i \in S : i \in Nat /\ f[i] = i + n
    OBVIOUS
  <2>2. \A a, b \in S : f[a] = f[b] => a = b
    BY <2>1
  <2>3. f \in [S -> T]
    OBVIOUS
  <2>4. \A x \in T : \E i \in S : f[i] = x
    BY <2>1
  <2> HIDE DEF f, T
  <2> QED BY <2>2, <2>3, <2>4 DEF Bijection, Injection, Surjection, IsInjective
<1>2. ExistsBijection(S, T)
  BY <1>1 DEF ExistsBijection
<1> HIDE DEF T
<1>3. IsFiniteSet(T) /\ Cardinality(T) = Cardinality(S)
  BY <1>2, FS_Bijection
<1> QED BY <1>3 DEF T

LEMMA CountJoins ==
  ASSUME NEW a \in Seq(Suite), NEW b \in Seq(Suite), NEW s
  PROVE  Count(a \o b, s) = Count(a, s) + Count(b, s)
<1>1. PICK n : n = Len(a)
  OBVIOUS
<1>2. n \in Nat /\ a \o b \in Seq(Suite)
  BY <1>1
<1>3. PICK X, Y : X = Where(a, s) /\ Y = Where(b, s)
  OBVIOUS
<1>4. X \in SUBSET (1 .. n) /\ Y \in SUBSET (1 .. Len(b)) /\ Len(b) \in Nat
  BY <1>1, <1>3 DEF Where
<1>5. PICK Z : Z = {i + n : i \in Y}
  OBVIOUS
<1>6. Where(a \o b, s) = X \cup Z
  <2>1. ASSUME NEW i \in X PROVE i \in Where(a \o b, s)
    BY <1>1, <1>3, <1>4, <2>1 DEF Where
  <2>2. ASSUME NEW i \in Z PROVE i \in Where(a \o b, s)
    <3>1. PICK j \in Y : i = j + n
      BY <1>5
    <3>2. j \in 1 .. Len(b) /\ b[j] = s
      BY <1>3, <1>4 DEF Where
    <3>3. i \in 1 .. n + Len(b) /\ (a \o b)[i] = b[j]
      BY <1>1, <1>4, <3>1, <3>2
    <3> QED BY <1>1, <3>2, <3>3 DEF Where
  <2>3. ASSUME NEW i \in Where(a \o b, s), i \notin X PROVE i \in Z
    <3>1. i \in 1 .. n + Len(b) /\ (a \o b)[i] = s
      BY <1>1 DEF Where
    <3>2. ~(i <= n)
      BY <1>1, <1>3, <2>3, <3>1 DEF Where
    <3>3. PICK j : j = i - n
      OBVIOUS
    <3>4. j \in 1 .. Len(b) /\ i = j + n
      BY <1>2, <1>4, <3>1, <3>2, <3>3
    <3>5. (a \o b)[i] = b[j]
      BY <1>1, <3>1, <3>2, <3>3
    <3>6. j \in Y
      BY <1>3, <3>1, <3>4, <3>5 DEF Where
    <3> QED BY <1>5, <3>4, <3>6
  <2> QED BY <2>1, <2>2, <2>3
<1>7. X \cap Z = {}
  BY <1>2, <1>4, <1>5
<1>8. IsFiniteSet(X) /\ IsFiniteSet(Y)
  BY <1>3, WhereFinite
<1>9. IsFiniteSet(Z) /\ Cardinality(Z) = Cardinality(Y)
  <2>1. Y \in SUBSET Nat
    BY <1>4
  <2> QED BY <1>2, <1>5, <1>8, <2>1, ShiftCount
<1>10. Cardinality(X \cup Z) = Cardinality(X) + Cardinality(Z)
  BY <1>7, <1>8, <1>9, DisjointUnion
<1> QED BY <1>2, <1>3, <1>6, <1>9, <1>10, WhereFinite

LEMMA CountNone == ASSUME NEW s PROVE Count(<<>>, s) = 0
<1>1. Where(<<>>, s) = {}
  BY DEF Where
<1> QED BY <1>1, FS_EmptySet DEF Count, Where

\* The lists, but for that of t.
Without(lists, t) == [lists EXCEPT ![t] = <<>>]

\* Every list counts by itself.
LEMMA PlacesOfOne ==
  ASSUME NEW lists \in [Thread -> Seq(Suite)], NEW t \in Thread, NEW s
  PROVE  /\ IsFiniteSet(Places(lists, s)) /\ Cardinality(Places(lists, s)) \in Nat
         /\ Cardinality(Places(Without(lists, t), s)) \in Nat
         /\ Cardinality(Places(lists, s))
              = Cardinality(Places(Without(lists, t), s)) + Count(lists[t], s)
<1> DEFINE At1(f, u) == {<<u, i>> : i \in Where(f[u], s)}
<1>1. ASSUME NEW u \in Thread, NEW f \in [Thread -> Seq(Suite)]
      PROVE  IsFiniteSet(At1(f, u)) /\ Cardinality(At1(f, u)) = Count(f[u], s)
  <2>1. PICK W : W = Where(f[u], s)
    OBVIOUS
  <2>2. IsFiniteSet(W) /\ Cardinality(W) = Count(f[u], s)
    BY <2>1, WhereFinite
  <2>3. [i \in W |-> <<u, i>>] \in Bijection(W, {<<u, i>> : i \in W})
    <3> DEFINE g == [i \in W |-> <<u, i>>]
               T == {<<u, i>> : i \in W}
    <3>1. \A a, b \in W : g[a] = g[b] => a = b
      OBVIOUS
    <3>2. g \in [W -> T]
      OBVIOUS
    <3>3. \A x \in T : \E i \in W : g[i] = x
      OBVIOUS
    <3> HIDE DEF g, T
    <3>4. g \in Bijection(W, T)
      BY <3>1, <3>2, <3>3 DEF Bijection, Injection, Surjection, IsInjective
    <3> QED BY <3>4 DEF g, T
  <2>4. ExistsBijection(W, {<<u, i>> : i \in W})
    BY <2>3 DEF ExistsBijection
  <2>5. /\ IsFiniteSet({<<u, i>> : i \in W})
        /\ Cardinality({<<u, i>> : i \in W}) = Cardinality(W)
    BY <2>2, <2>4, FS_Bijection
  <2> QED BY <2>1, <2>2, <2>5
<1>2. ASSUME NEW f \in [Thread -> Seq(Suite)]
      PROVE  IsFiniteSet(Places(f, s)) /\ Cardinality(Places(f, s)) \in Nat
  <2>1. PICK Ss : Ss = {At1(f, u) : u \in Thread}
    OBVIOUS
  <2>2. IsFiniteSet(Ss)
    <3> DEFINE g == [u \in Thread |-> At1(f, u)]
    <3>1. g \in [Thread -> Ss] /\ \A T \in Ss : \E u \in Thread : g[u] = T
      BY <2>1
    <3> HIDE DEF g
    <3>2. g \in Surjection(Thread, Ss)
      BY <3>1 DEF Surjection
    <3> QED BY <3>2, ThreadsFinite, FS_Surjection
  <2>3. \A T \in Ss : IsFiniteSet(T)
    BY <1>1, <2>1
  <2>4. IsFiniteSet(UNION Ss)
    BY <2>2, <2>3, FS_UNION
  <2>5. Places(f, s) = UNION Ss
    BY <2>1 DEF Places
  <2> QED BY <2>4, <2>5, FS_CardinalityType
<1>3. Without(lists, t) \in [Thread -> Seq(Suite)] /\ Without(lists, t)[t] = <<>>
      /\ \A u \in Thread \ {t} : Without(lists, t)[u] = lists[u]
  BY DEF Without
<1>4. Where(<<>>, s) = {}
  BY DEF Where
<1>5. Places(lists, s) = Places(Without(lists, t), s) \cup At1(lists, t)
  BY <1>3, <1>4 DEF Places
<1>6. Places(Without(lists, t), s) \cap At1(lists, t) = {}
  <2> SUFFICES ASSUME NEW x \in Places(Without(lists, t), s), x \in At1(lists, t)
               PROVE  FALSE
    OBVIOUS
  <2>1. PICK u \in Thread : \E i \in Where(Without(lists, t)[u], s) : x = <<u, i>>
    BY DEF Places
  <2>2. u = t
    BY <2>1
  <2> QED BY <1>3, <1>4, <2>1, <2>2
<1> HIDE DEF At1
<1> QED BY <1>1, <1>2, <1>3, <1>5, <1>6, DisjointUnion, ZenonT(60)

\* The places of s when t's list becomes `list`, added up with those lost.
Balanced(lists, t, list, s) ==
  Cardinality(Places([lists EXCEPT ![t] = list], s)) + Count(lists[t], s)
    = Cardinality(Places(lists, s)) + Count(list, s)

\* One list is replaced by another.
LEMMA PlacesReplaced ==
  ASSUME NEW lists \in [Thread -> Seq(Suite)], NEW t \in Thread, NEW list \in Seq(Suite), NEW s
  PROVE  Balanced(lists, t, list, s)
<1>1. PICK new : new = [lists EXCEPT ![t] = list]
  OBVIOUS
<1>2. new \in [Thread -> Seq(Suite)] /\ new[t] = list
  BY <1>1
<1>3. Without(new, t) = Without(lists, t)
  BY <1>1 DEF Without
<1>4. Count(list, s) \in Nat /\ Count(lists[t], s) \in Nat
  BY WhereFinite
<1>5. PICK rest : rest = Cardinality(Places(Without(lists, t), s))
  OBVIOUS
<1>6. rest \in Nat /\ Cardinality(Places(lists, s)) = rest + Count(lists[t], s)
  BY <1>5, PlacesOfOne
<1>7. Cardinality(Places(new, s)) = rest + Count(list, s)
  BY <1>2, <1>3, <1>5, PlacesOfOne
<1> QED BY <1>1, <1>4, <1>6, <1>7 DEF Balanced

-----------------------------------------------------------------------------
\* What the steps leave to a thread.

LEMMA WorklistType ==
  ASSUME TreeInv, NEW t \in Thread
  PROVE  Worklist(t) \in Seq(Suite)
<1>1. /\ pending[t] \in Seq(Suite) /\ next[t] \in Nat \ {0}
      /\ pc[t] \in {"idle", "returned"} <=> pending[t] = <<>>
  BY DEF TreeInv, SuiteInv, TypeOK
<1>2. CASE pc[t] \in {"run", "idle", "returned"}
  BY <1>1, <1>2 DEF Worklist
<1>3. CASE pc[t] \notin {"run", "idle", "returned"}
  <2>1. PICK s, rest : s = Current(t) /\ rest = Tail(pending[t])
    OBVIOUS
  <2>2. s \in Suite /\ rest \in Seq(Suite)
    BY <1>1, <1>3, <2>1 DEF Current
  <2>3. PICK sub : sub = Sub[s]
    OBVIOUS
  <2>4. sub \in Seq(Suite)
    BY <2>2, <2>3, SubTypes
  <2>5. SubSeq(sub, next[t], Len(sub)) \in Seq(Suite)
    BY <1>1, <2>4
  <2> QED BY <1>3, <2>1, <2>2, <2>3, <2>4, <2>5 DEF Worklist
<1> QED BY <1>2, <1>3

LEMMA LeftType == TreeInv => Left \in [Thread -> Seq(Suite)]
BY WorklistType, FlatJoins DEF Left

LEMMA OthersStay ==
  ASSUME TreeInv, NEW t \in Thread, Alone(t), NEW u \in Thread \ {t}
  PROVE  /\ Worklist(u)' = Worklist(u)
         /\ ThreadPlace(u) => ThreadPlace(u)'
         /\ pc'[u] = pc[u]
BY DEF Alone, Worklist, ThreadPlace, Current

\* The calls and the places of user code.
LEMMA UserPlaces ==
  ASSUME TreeInv, NEW t \in Thread, ThreadPlace(t), UserCode(t)
  PROVE  ThreadPlace(t)'
<1>1. /\ pc[t] \in UserPlace \cup {"handler"} /\ call[t] = NoCall /\ pending' = pending
      /\ pc \in [Thread -> PC] /\ call \in [Thread -> OutputCall]
      /\ next' = next
  <2>1. next' = next
    BY DEF UserCode, AssertHolds, AssertFails, Aborts, ExpectThrowFails, MacroCatches,
       BodyThrows, HookThrows, Report, locals
  <2> QED BY <2>1, UserCodeEffect DEF TreeInv, SuiteInv, TypeOK
<1>2. pending[t] # <<>> /\ Current(t) \in Parallel => pc[t] \in {"setup", "tear_down"}
  BY <1>1 DEF ThreadPlace, ParallelPlace, UserPlace
<1>3. ASSUME NEW op \in {"printSuccess", "printFailure"}, NEW then, Report(t, op, then),
             then \in UserPlace \cup {"handler", "unwound"},
             pc[t] \in {"setup", "tear_down"} => then \in {pc[t], "unwound"}
      PROVE  ThreadPlace(t)'
  <2>1. call'[t] = [op |-> op, num |-> 0, ok |-> op = "printSuccess", then |-> then] /\ pc' = pc
    BY <1>1, <1>3 DEF Report, Issue
  <2>2. call'[t].op = op /\ call'[t].then = then
    BY <2>1
  <2>3. pc[t] # "run"
    BY <1>1 DEF UserPlace
  <2>4. then \notin {"run", "join", "unwinding", "spawn"}
    BY <1>3 DEF UserPlace
  <2>5. Current(t)' = Current(t)
    BY <1>1 DEF Current
  <2> QED BY <1>1, <1>2, <1>3, <2>1, <2>2, <2>3, <2>4, <2>5 DEF ThreadPlace, ParallelPlace
<1>4. CASE AssertHolds(t)
  BY <1>1, <1>3, <1>4 DEF AssertHolds, InUserCode
<1>5. CASE AssertFails(t)
  BY <1>1, <1>3, <1>5 DEF AssertFails, WhereFailureGoesOn, UserPlace
<1>6. CASE Aborts(t)
  <2>1. PICK then \in WhereAbortGoesOn(pc[t]) : Report(t, "printFailure", then)
    BY <1>6 DEF Aborts
  <2> QED BY <1>1, <1>3, <1>6, <2>1 DEF Aborts, InUserCode, WhereAbortGoesOn, UserPlace
<1>7. CASE ExpectThrowFails(t)
  BY <1>1, <1>3, <1>7 DEF ExpectThrowFails, UserPlace, At
<1>8. CASE MacroCatches(t)
  BY <1>1, <1>3, <1>8 DEF MacroCatches, WhereFailureGoesOn, UserPlace, At
<1>9. CASE BodyThrows(t)
  <2>1. pc[t] = "body" /\ pc'[t] = "catch"
        /\ call'[t] = [op |-> "printException", num |-> 0, ok |-> FALSE, then |-> "after"]
    BY <1>1, <1>9 DEF BodyThrows, At, Goto, Issue
  <2>2. call'[t].op = "printException" /\ call'[t].then = "after"
    BY <2>1
  <2>3. Current(t)' = Current(t)
    BY <1>1 DEF Current
  <2> QED BY <1>1, <1>2, <2>1, <2>2, <2>3 DEF ThreadPlace
<1>10. CASE HookThrows(t)
  <2>1. pc'[t] = "unwound" /\ call'[t] = NoCall
    BY <1>1, <1>10 DEF HookThrows, Goto
  <2> QED BY <1>1, <2>1 DEF ThreadPlace, ParallelPlace, Current
<1> QED BY <1>4, <1>5, <1>6, <1>7, <1>8, <1>9, <1>10 DEF UserCode

\* Every step but Spawn keeps the places of the thread that moves.
LEMMA MoverPlace ==
  ASSUME TreeInv, NEW t \in Thread, ThreadPlace(t), QuietStep(t)
  PROVE  ThreadPlace(t)'
<1>1. /\ pc \in [Thread -> PC] /\ call \in [Thread -> OutputCall]
      /\ next \in [Thread -> Nat \ {0}] /\ pending \in [Thread -> Seq(Suite)]
      /\ KindOK(t)
  BY DEF TreeInv, KindInv, SuiteInv, TypeOK
<1>2. Active(t)
  BY QuietEffect
\* A call is issued where the thread is.
<1>3. ASSUME NEW op, NEW num, NEW ok, NEW then, Issue(t, op, num, ok, then),
             pc' = pc, pending' = pending,
             op = "initializeSuite" <=> pc[t] = "run",
             pc[t] = "run" => then = "setup",
             then \notin {"run", "join", "unwinding"},
             Current(t) \in Parallel =>
               /\ pc[t] \in ParallelPlace /\ then \in ParallelPlace
               /\ pc[t] \in {"warn", "tear_down"} \/ then \in {"warn", "tear_down", "spawn"}
                    => next'[t] = 1
      PROVE  ThreadPlace(t)'
  <2>1. call'[t].op = op /\ call'[t].then = then
    BY <1>1, <1>3 DEF Issue
  <2> QED BY <1>3, <2>1 DEF ThreadPlace, Current
\* The thread goes on by itself.
<1>4. ASSUME NEW p, Goto(t, p), call'[t] = NoCall, pending' = pending,
             Current(t) \in Parallel =>
               p \in ParallelPlace /\ (p \in {"warn", "tear_down"} => next'[t] = 1)
      PROVE  ThreadPlace(t)'
  BY <1>1, <1>4 DEF ThreadPlace, Current, Goto
<1>5. ASSUME NEW more, FinishHead(t, more), call'[t] = NoCall
      PROVE  ThreadPlace(t)'
  BY <1>1, <1>5 DEF FinishHead, Goto, ThreadPlace, ParallelPlace
<1> USE DEF At, ParallelPlace
<1>6. pending[t] # <<>>
  BY <1>2, ActiveRuns DEF TreeInv
<1>7. CASE SuiteStep(t) /\ UNCHANGED locks
  <2>1. CASE UserCode(t)
    BY <2>1, UserPlaces
  <2>2. CASE StartRun(t)
    BY <1>3, <2>2 DEF StartRun, IsPlain
  <2>3. CASE SetupReturns(t)
    <3>1. pc[t] = "setup" /\ Current(t) \notin Parallel /\ pending' = pending
      BY <2>3 DEF SetupReturns, IsPlain
    <3>2. CASE Goto(t, "loop") /\ UNCHANGED call
      BY <1>4, <2>3, <3>1, <3>2 DEF SetupReturns
    <3>3. CASE Issue(t, "finishSuite", positive[Current(t)], FALSE, "subs") /\ UNCHANGED pc
      <4>1. PICK num : Issue(t, "finishSuite", num, FALSE, "subs")
        BY <3>3
      <4> QED BY <1>3, <3>1, <3>3, <4>1
    <3> QED BY <2>3, <3>2, <3>3 DEF SetupReturns
  <2>4. CASE StartMethod(t)
    BY <1>3, <1>6, <2>4 DEF StartMethod, ThreadPlace
  <2>5. CASE BeforeReturns(t)
    BY <1>4, <1>6, <2>5 DEF BeforeReturns, ThreadPlace
  <2>6. CASE BodyReturns(t)
    BY <1>4, <1>6, <2>6 DEF BodyReturns, ThreadPlace
  <2>7. CASE AfterReturns(t)
    BY <1>3, <1>4, <1>6, <2>7 DEF AfterReturns, ThreadPlace
  <2>8. CASE CountMethod(t)
    BY <1>4, <1>6, <2>8 DEF CountMethod, ThreadPlace
  <2>9. CASE EndLoop(t)
    BY <1>4, <1>6, <2>9 DEF EndLoop, ThreadPlace, locals
  <2>10. CASE TearDownReturns(t)
    <3>1. pc[t] = "tear_down" /\ Current(t) \notin Parallel /\ UNCHANGED <<pending, pc>>
      BY <2>10 DEF TearDownReturns, IsPlain
    <3>2. PICK num : Issue(t, "finishSuite", num, FALSE, "subs")
      BY <2>10 DEF TearDownReturns
    <3> QED BY <1>3, <3>1, <3>2
  <2>11. CASE RunSubSuites(t)
    BY <1>5, <2>11 DEF RunSubSuites
  <2> QED BY <1>7, <2>1, <2>2, <2>3, <2>4, <2>5, <2>6, <2>7, <2>8, <2>9, <2>10, <2>11
          DEF SuiteStep
<1>8. CASE LocalParallelStep(t)
  <2>1. CASE PStartRun(t)
    <3>1. pc[t] = "run" /\ UNCHANGED <<pending, pc>>
      BY <2>1 DEF PStartRun, locals
    <3>2. PICK num : Issue(t, "initializeSuite", num, FALSE, "setup")
      BY <2>1 DEF PStartRun
    <3> QED BY <1>3, <3>1, <3>2
  <2>2. CASE PSetupReturns(t)
    <3>1. next'[t] = 1
      BY <1>1, <2>2 DEF PSetupReturns
    <3> QED BY <1>3, <1>4, <2>2, <3>1 DEF PSetupReturns
  <2>3. CASE Warn(t)
    <3>1. Current(t) \in Parallel => next'[t] = 1
      BY <1>6, <2>3 DEF Warn, locals, ThreadPlace
    <3> QED BY <1>3, <1>4, <2>3, <3>1 DEF Warn, locals
  <2>4. CASE PTearDownReturns(t)
    <3>1. Current(t) \in Parallel => next'[t] = 1
      BY <1>6, <2>4 DEF PTearDownReturns, ThreadPlace
    <3> QED BY <1>3, <2>4, <3>1 DEF PTearDownReturns
  <2>5. CASE SpawnThrows(t)
    BY <1>4, <2>5 DEF SpawnThrows, locals
  <2>6. CASE AllSpawned(t)
    BY <1>4, <2>6 DEF AllSpawned
  <2>7. CASE Join(t)
    <3>1. call'[t] = NoCall /\ pc'[t] \in {"join", "unwinding"} /\ pending' = pending
      BY <1>1, <2>7 DEF Join, Goto
    <3> QED BY <3>1 DEF ThreadPlace
  <2>8. CASE AllJoined(t)
    BY <1>5, <2>8 DEF AllJoined
  <2>9. CASE Unwind(t)
    BY <1>4, <2>9 DEF Unwind, locals
  <2> QED BY <1>8, <2>1, <2>2, <2>3, <2>4, <2>5, <2>6, <2>7, <2>8, <2>9
          DEF LocalParallelStep
<1>9. CASE Acquire(t)
  BY <1>9 DEF Acquire, vars, locals, ThreadPlace, Current
<1>10. CASE PCallReturns(t)
  <2>1. /\ call[t] # NoCall /\ pc'[t] = call[t].then /\ call'[t] = NoCall
        /\ UNCHANGED <<pending, next>>
    BY <1>1, <1>10 DEF PCallReturns, CallReturns, Goto, locals
  <2>2. Current(t) \in Parallel /\ pc'[t] \in {"warn", "tear_down"} => next'[t] = 1
    <3>1. Current(t) \in Parallel /\ call[t].then \in {"warn", "tear_down"} => next[t] = 1
      BY <1>6, <2>1 DEF ThreadPlace
    <3> QED BY <2>1, <3>1
  <2> QED BY <1>6, <2>1, <2>2 DEF ThreadPlace, Current
<1>11. CASE Escapes(t)
  <2>1. pc'[t] = "unwound" /\ call'[t] = NoCall /\ pending' = pending
    BY <1>1, <1>11 DEF Escapes, Goto, locals
  <2> QED BY <2>1 DEF ThreadPlace
<1> QED BY <1>7, <1>8, <1>9, <1>10, <1>11 DEF QuietStep

\* Spawn hands the first of the suites that are left to its worker.
LEMMA SpawnPlace ==
  ASSUME TreeInv, PlacesInv, NEW t \in Thread, Spawn(t)
  PROVE  PlacesInv'
<1>1. PICK w : w = SubSuite(Current(t), next[t])
  OBVIOUS
<1>2. /\ w \in Thread \ {Root, t} /\ ~Active(w) /\ call[w] = NoCall
      /\ pc[t] = "spawn" /\ call[t] = NoCall /\ call' = call
      /\ pending' = [pending EXCEPT ![w] = <<w>>]
      /\ pc' = [pc EXCEPT ![w] = "run"]
      /\ next' = [next EXCEPT ![t] = next[t] + 1]
  BY <1>1, SpawnEffect
<1>3. /\ pc \in [Thread -> PC] /\ call \in [Thread -> OutputCall]
      /\ next \in [Thread -> Nat \ {0}] /\ pending \in [Thread -> Seq(Suite)]
  BY DEF TreeInv, SuiteInv, TypeOK
<1>4. ASSUME NEW u \in Thread \ {t, w}
      PROVE  ThreadPlace(u)'
  <2>1. pc'[u] = pc[u] /\ next'[u] = next[u] /\ pending'[u] = pending[u]
    BY <1>2, <1>3
  <2> QED BY <1>2, <2>1 DEF PlacesInv, ThreadPlace, Current
<1>5. ThreadPlace(t)'
  <2>1. pc'[t] = "spawn" /\ pending'[t] = pending[t]
    BY <1>2, <1>3
  <2> QED BY <1>2, <2>1 DEF ThreadPlace, ParallelPlace
<1>6. ThreadPlace(w)'
  <2>1. pc'[w] = "run" /\ call'[w] = NoCall
    BY <1>2, <1>3
  <2> QED BY <2>1 DEF ThreadPlace, ParallelPlace
<1> QED BY <1>4, <1>5, <1>6 DEF PlacesInv

LEMMA InitPlaces == PInit => PlacesInv
<1> SUFFICES ASSUME PInit, NEW t \in Thread PROVE ThreadPlace(t)
  BY DEF PlacesInv
<1>1. pc[t] \in {"run", "idle"} /\ call[t] = NoCall
  BY DEF PInit, Init
<1>2. pc[t] = "idle" => pending[t] = <<>>
  BY DEF PInit, Init
<1> QED BY <1>1, <1>2 DEF ThreadPlace, ParallelPlace

LEMMA PlacesStep ==
  ASSUME TreeInv, PlacesInv, NEW t \in Thread, QuietStep(t) \/ Spawn(t)
  PROVE  PlacesInv'
<1>1. CASE QuietStep(t)
  <2>1. Alone(t)
    BY <1>1, QuietEffect
  <2> QED BY <1>1, <2>1, MoverPlace, OthersStay DEF PlacesInv
<1>2. CASE Spawn(t)
  BY <1>2, SpawnPlace
<1> QED BY <1>1, <1>2

LEMMA PlacesStutter == PlacesInv /\ UNCHANGED pvars => PlacesInv'
BY DEF pvars, vars, locals, PlacesInv, ThreadPlace, Current

LEMMA PlacesHold == CSpec => []PlacesInv
<1>1. CInit => PlacesInv
  BY InitPlaces DEF CInit
<1>2. TreeInv /\ PlacesInv /\ [CNext]_cvars => PlacesInv'
  <2>1. UNCHANGED cvars => UNCHANGED pvars
    BY DEF cvars, pvars
  <2> QED BY <2>1, PlacesStutter, PlacesStep, CStepKinds DEF CNext, CFinished
<1> QED BY <1>1, <1>2, CTreeInvHolds, PTL DEF CSpec

\* A thread comes to "run" by the end of a suite only.
LEMMA StepRuns ==
  ASSUME TreeInv, NEW t \in Thread, SuiteStep(t), ~RunSubSuites(t)
  PROVE  /\ pending' = pending
         /\ pc'[t] = "run" <=> pc[t] = "run"
         /\ pc'[t] \notin {"idle", "returned", "spawn", "join"}
<1>1. pc \in [Thread -> PC]
  BY DEF TreeInv, SuiteInv, TypeOK
<1>2. SuiteInv /\ Active(t)
  BY StepsActive DEF TreeInv
<1> USE DEF At, Active
<1>3. CASE UserCode(t)
  <2>1. /\ pending' = pending /\ pc[t] \in UserPlace \cup {"handler"}
        /\ pc'[t] \in {pc[t], "catch", "unwound"}
    BY <1>2, <1>3, UserCodeEffect
  <2> QED BY <2>1 DEF UserPlace
<1>4. CASE StartRun(t)
  BY <1>1, <1>4 DEF StartRun
<1>5. CASE SetupReturns(t) \/ StartMethod(t)
  BY <1>1, <1>5 DEF SetupReturns, StartMethod, Goto
<1>6. CASE BeforeReturns(t) \/ BodyReturns(t)
  BY <1>1, <1>6 DEF BeforeReturns, BodyReturns, Goto
<1>7. CASE AfterReturns(t) \/ CountMethod(t)
  BY <1>1, <1>7 DEF AfterReturns, CountMethod, Goto
<1>8. CASE EndLoop(t) \/ TearDownReturns(t)
  BY <1>1, <1>8 DEF EndLoop, TearDownReturns, Goto, locals
<1> QED BY <1>3, <1>4, <1>5, <1>6, <1>7, <1>8 DEF SuiteStep

\* What is left to the thread that moves changes only when a suite is begun.
LEMMA MoverWorklist ==
  ASSUME TreeInv, NEW t \in Thread, ThreadPlace(t), QuietStep(t),
         pc'[t] \notin {"unwinding", "unwound"}
  PROVE  /\ pc[t] \notin {"unwinding", "unwound"}
         /\ ~(PCallReturns(t) /\ pc[t] = "run") => Worklist(t)' = Worklist(t)
         /\ PCallReturns(t) /\ pc[t] = "run" =>
              /\ pending[t] # <<>> /\ Worklist(t) = pending[t]
              /\ Worklist(t)' = Sub[Current(t)] \o Tail(pending[t])
<1>1. /\ pc \in [Thread -> PC] /\ next \in [Thread -> Nat \ {0}]
      /\ pending \in [Thread -> Seq(Suite)] /\ KindOK(t)
  BY DEF TreeInv, KindInv, SuiteInv, TypeOK
<1>2. /\ Active(t) /\ pending[t] # <<>> /\ Current(t) \in Suite
      /\ pc[t] \notin {"idle", "returned"}
  BY QuietEffect, ActiveRuns DEF TreeInv, Active
<1>3. PICK sub, rest : sub = Sub[Current(t)] /\ rest = Tail(pending[t])
  OBVIOUS
<1>4. sub \in Seq(Suite) /\ rest \in Seq(Suite)
  BY <1>1, <1>2, <1>3, SubTypes
<1> DEFINE Middle(p) == p \notin {"run", "idle", "returned", "spawn", "join"}
<1>5. Middle(pc[t]) => Worklist(t) = sub \o rest
  BY <1>3 DEF Worklist
<1>6. pending'[t] = pending[t] /\ Middle(pc'[t]) => Worklist(t)' = sub \o rest
  BY <1>3 DEF Worklist, Current
<1>7. ASSUME pc'[t] = pc[t], pending'[t] = pending[t], next'[t] = next[t] \/ pc[t] # "spawn"
      PROVE  Worklist(t)' = Worklist(t)
  BY <1>7 DEF Worklist, Current
<1>8. ASSUME NEW more \in Seq(Suite), FinishHead(t, more)
      PROVE  Worklist(t)' = more \o rest
  BY <1>1, <1>3, <1>8 DEF FinishHead, Goto, Worklist
<1>9. CASE SuiteStep(t) /\ UNCHANGED locks
  <2>1. /\ pc[t] \notin {"spawn", "join", "unwinding", "unwound"}
        /\ ~PCallReturns(t)
    BY <1>9, SuiteStepEffect DEF Waiting, PCallReturns, CallReturns, TreeInv
  <2>2. CASE RunSubSuites(t)
    <3>1. FinishHead(t, sub) /\ pc[t] = "subs"
      BY <1>3, <2>2 DEF RunSubSuites, At
    <3> QED BY <1>4, <1>5, <1>8, <2>1, <3>1
  <2>3. CASE ~RunSubSuites(t)
    <3>1. /\ pending' = pending /\ (pc'[t] = "run" <=> pc[t] = "run")
          /\ pc'[t] \notin {"idle", "returned", "spawn", "join"}
      BY <1>9, <2>3, StepRuns
    <3> QED BY <1>2, <1>5, <1>6, <1>7, <2>1, <3>1
  <2> QED BY <2>2, <2>3
<1>10. CASE LocalParallelStep(t)
  <2>1. pc[t] # "unwound" /\ ~PCallReturns(t)
    BY <1>10, ParallelStepEffect DEF PCallReturns, CallReturns
  <2>2. CASE PStartRun(t)
    BY <1>7, <2>1, <2>2 DEF PStartRun, At, locals
  <2>3. CASE PSetupReturns(t)
    <3>1. pc[t] = "setup" /\ pc'[t] \in {"setup", "warn"} /\ pending' = pending
      BY <1>1, <2>3 DEF PSetupReturns, At, Goto
    <3> QED BY <1>5, <1>6, <2>1, <3>1
  <2>4. CASE Warn(t)
    <3>1. pc[t] = "warn" /\ pc'[t] \in {"warn", "tear_down"} /\ pending' = pending
      BY <1>1, <2>4 DEF Warn, At, Goto, locals
    <3> QED BY <1>5, <1>6, <2>1, <3>1
  <2>5. CASE PTearDownReturns(t)
    BY <1>7, <2>1, <2>5 DEF PTearDownReturns, At
  <2>6. CASE SpawnThrows(t)
    BY <1>1, <2>6 DEF SpawnThrows, Goto
  <2>7. CASE AllSpawned(t)
    <3>1. /\ pc[t] = "spawn" /\ next[t] > Len(sub) /\ pc'[t] = "join" /\ pending' = pending
      BY <1>1, <1>3, <2>7 DEF AllSpawned, At, Goto
    <3>2. Worklist(t) = SubSeq(sub, next[t], Len(sub)) \o rest
      BY <1>3, <3>1 DEF Worklist
    <3>3. SubSeq(sub, next[t], Len(sub)) = <<>>
      BY <1>1, <1>4, <3>1
    <3>4. <<>> \o rest = rest
      BY <1>4
    <3>5. Worklist(t)' = rest
      BY <1>3, <3>1 DEF Worklist
    <3> QED BY <2>1, <3>1, <3>2, <3>3, <3>4, <3>5
  <2>8. CASE Join(t)
    <3>1. pc[t] = "join" /\ pc'[t] = "join" /\ pending' = pending
      BY <1>1, <2>8 DEF Join, At, Goto
    <3> QED BY <1>7, <2>1, <3>1
  <2>9. CASE AllJoined(t)
    <3> DEFINE more == <<>>
    <3>1. pc[t] = "join" /\ FinishHead(t, more) /\ more \in Seq(Suite)
      BY <2>9 DEF AllJoined, At
    <3> HIDE DEF more
    <3>2. Worklist(t)' = more \o rest
      BY <1>8, <3>1
    <3>3. more \o rest = rest
      BY <1>4 DEF more
    <3>4. Worklist(t) = rest
      BY <1>3, <3>1 DEF Worklist
    <3> QED BY <2>1, <3>1, <3>2, <3>3, <3>4
  <2>10. CASE Unwind(t)
    BY <1>1, <2>10 DEF Unwind, Goto
  <2> QED BY <1>10, <2>2, <2>3, <2>4, <2>5, <2>6, <2>7, <2>8, <2>9, <2>10
          DEF LocalParallelStep
<1>11. CASE Acquire(t) /\ ~PCallReturns(t)
  <2>1. UNCHANGED <<pc, pending, next>> /\ call[t] # NoCall
    BY <1>11 DEF Acquire, vars, locals
  <2>2. pc[t] \notin {"unwinding", "unwound"}
    BY <1>1, <2>1 DEF KindOK, Waiting
  <2> QED BY <1>7, <1>11, <2>1, <2>2
<1>12. CASE PCallReturns(t)
  <2>1. /\ call[t] # NoCall /\ pc'[t] = call[t].then /\ UNCHANGED <<pending, next>>
    BY <1>1, <1>12 DEF PCallReturns, CallReturns, Goto, locals
  <2>2. /\ pc[t] \notin {"spawn", "join", "unwinding", "unwound", "idle", "returned"}
        /\ pc'[t] = "spawn" => Current(t) \in Parallel
    BY <1>1, <2>1 DEF KindOK, Waiting
  <2>3. pc'[t] \notin {"run", "join", "idle", "returned"} /\ (pc[t] = "run" => pc'[t] = "setup")
    <3>1. call[t] \in OutputCall
      BY DEF TreeInv, SuiteInv, TypeOK
    <3> QED BY <2>1, <3>1 DEF ThreadPlace, OutputCall
  <2>4. Worklist(t)' = sub \o rest
    <3>1. CASE pc'[t] = "spawn"
      <4>1. next[t] = 1
        BY <1>2, <2>1, <2>2, <3>1 DEF ThreadPlace
      <4>2. Worklist(t)' = SubSeq(sub, 1, Len(sub)) \o rest
        BY <1>3, <2>1, <3>1, <4>1 DEF Worklist, Current
      <4>3. SubSeq(sub, 1, Len(sub)) = sub
        BY <1>4
      <4> QED BY <4>2, <4>3
    <3>2. CASE pc'[t] # "spawn"
      BY <1>6, <2>1, <2>3, <3>2
    <3> QED BY <3>1, <3>2
  <2>5. CASE pc[t] = "run"
    <3>1. Worklist(t) = pending[t]
      BY <2>5 DEF Worklist
    <3> QED BY <1>2, <1>3, <1>12, <2>4, <2>5, <3>1
  <2>6. CASE pc[t] # "run"
    BY <1>5, <2>2, <2>4, <2>6
  <2> QED BY <2>5, <2>6
<1>13. CASE Escapes(t)
  BY <1>1, <1>13 DEF Escapes, Goto
<1> QED BY <1>9, <1>10, <1>11, <1>12, <1>13 DEF QuietStep

\* A worker that is started takes the head of what is left to its starter.
LEMMA SpawnWorklists ==
  ASSUME TreeInv, NEW t \in Thread, Spawn(t)
  PROVE  \E w \in Thread \ {t} : \E more \in Seq(Suite) :
           /\ w \in Suite /\ Worklist(w) = <<>> /\ Worklist(w)' = <<w>>
           /\ Worklist(t) = <<w>> \o more /\ Worklist(t)' = more
           /\ pc[t] = "spawn" /\ pc[w] \in {"idle", "returned"}
           /\ \A u \in Thread \ {t, w} : Worklist(u)' = Worklist(u) /\ pc'[u] = pc[u]
<1>1. PICK w, n, sub, rest :
        /\ w = SubSuite(Current(t), next[t]) /\ n = next[t]
        /\ sub = Sub[Current(t)] /\ rest = Tail(pending[t])
  OBVIOUS
<1>2. /\ w \in Thread \ {Root, t} /\ ~Active(w) /\ pc[t] = "spawn" /\ n \in DOMAIN sub
      /\ pending' = [pending EXCEPT ![w] = <<w>>]
      /\ pc' = [pc EXCEPT ![w] = "run"]
      /\ next' = [next EXCEPT ![t] = n + 1]
      /\ Current(t) \in Parallel
  BY <1>1, SpawnEffect
<1>3. /\ pc \in [Thread -> PC] /\ next \in [Thread -> Nat \ {0}]
      /\ pending \in [Thread -> Seq(Suite)] /\ pending[t] # <<>>
      /\ pc[w] \in {"idle", "returned"} /\ pending[w] = <<>>
  BY <1>2 DEF TreeInv, SuiteInv, TypeOK, Active
<1>4. /\ sub \in Seq(Suite) /\ rest \in Seq(Suite) /\ n \in 1 .. Len(sub) /\ w = sub[n]
      /\ w \in Suite
  <2>1. Current(t) \in Suite
    BY <1>2, SuiteAssumption
  <2>2. sub \in Seq(Suite)
    BY <1>1, <2>1, SubTypes
  <2>3. rest \in Seq(Suite)
    BY <1>1, <1>3
  <2>4. n \in 1 .. Len(sub) /\ w = sub[n]
    BY <1>1, <1>2, <2>2 DEF SubSuite
  <2> QED BY <2>2, <2>3, <2>4
<1>5. PICK tail : tail = SubSeq(sub, n + 1, Len(sub))
  OBVIOUS
<1>6. tail \in Seq(Suite) /\ SubSeq(sub, n, Len(sub)) = <<w>> \o tail
  BY <1>4, <1>5
<1>7. Worklist(t) = (<<w>> \o tail) \o rest
  BY <1>1, <1>2, <1>6 DEF Worklist
<1>8. Worklist(t)' = tail \o rest
  <2>1. pc'[t] = "spawn" /\ pending'[t] = pending[t] /\ next'[t] = n + 1
    BY <1>2, <1>3
  <2> QED BY <1>1, <1>5, <2>1 DEF Worklist, Current
<1>9. (<<w>> \o tail) \o rest = <<w>> \o (tail \o rest) /\ tail \o rest \in Seq(Suite)
  <2>1. <<w>> \in Seq(Suite)
    BY <1>4
  <2> QED BY <1>4, <1>6, <2>1, ConcatAssociative, SMTT(40)
<1>10. Worklist(w) = <<>> /\ Worklist(w)' = <<w>>
  <2>1. pc'[w] = "run" /\ pending'[w] = <<w>>
    BY <1>2, <1>3
  <2> QED BY <1>3, <2>1 DEF Worklist
<1>11. ASSUME NEW u \in Thread \ {t, w}
       PROVE  Worklist(u)' = Worklist(u) /\ pc'[u] = pc[u]
  <2>1. pc'[u] = pc[u] /\ next'[u] = next[u] /\ pending'[u] = pending[u]
    BY <1>2, <1>3
  <2> QED BY <2>1 DEF Worklist, Current
<1> QED BY <1>2, <1>3, <1>4, <1>7, <1>8, <1>9, <1>10, <1>11

\* The calls, seen from the list of records, by any thread.
LEMMA ReturnReported ==
  ASSUME TreeInv, ColTypes, NEW t \in Thread, ThreadPlace(t), PCallReturns(t), Record(t)
  PROVE  /\ pc[t] = "run" => Reported(suites') = Reported(suites) \o <<Current(t)>>
         /\ pc[t] # "run" => Reported(suites') = Reported(suites)
<1>1. call[t] # NoCall /\ (call[t].op = "initializeSuite" <=> pc[t] = "run")
  BY DEF PCallReturns, CallReturns, ThreadPlace
<1>2. ColTypes'
  BY <1>1, InitializeSuiteEffect, FinishSuiteEffect, InitializeTestMethodEffect,
     RecordOnMethodEffect DEF Record
<1>3. PICK n : n = Len(suites)
  OBVIOUS
<1>4. n \in Nat /\ DOMAIN suites = 1 .. n /\ currentSuite = n /\ suites \in Seq(SuiteInfo)
      /\ DOMAIN suites' = 1 .. Len(suites')
  BY <1>2, <1>3, ReportedType DEF ColTypes
<1>5. CASE InitializeSuite(t)
  <2>1. PICK s : s = Current(t)
    OBVIOUS
  <2>2. s \in Suite
    BY <1>1, <2>1, CallArguments
  <2>3. PICK old : old = Reported(suites)
    OBVIOUS
  <2>4. old = [i \in 1 .. n |-> suites[i].suite] /\ old \in Seq(Suite) /\ Len(old) = n
    BY <1>3, <1>4, <2>3, ReportedType, SMTT(40) DEF Reported
  <2>5. /\ Len(suites') = n + 1 /\ \A i \in 1 .. n : suites'[i] = suites[i]
        /\ suites'[n + 1] = [suite |-> s, numTests |-> call[t].num,
                             numPositive |-> 0, methods |-> <<>>]
    BY <1>1, <1>3, <1>4, <1>5, <2>1, InitializeSuiteEffect, Zenon
  <2>6. suites'[n + 1].suite = s
    BY <2>5
  <2>7. Reported(suites') = [i \in 1 .. n + 1 |-> suites'[i].suite]
    BY <1>4, <2>5 DEF Reported
  <2>8. \A i \in 1 .. n + 1 : suites'[i].suite = (old \o <<s>>)[i]
    <3> SUFFICES ASSUME NEW i \in 1 .. n + 1 PROVE suites'[i].suite = (old \o <<s>>)[i]
      OBVIOUS
    <3>1. CASE i \in 1 .. n
      <4>1. suites'[i].suite = old[i]
        BY <2>4, <2>5, <3>1
      <4>2. (old \o <<s>>)[i] = old[i]
        BY <1>4, <2>4, <3>1
      <4> QED BY <4>1, <4>2
    <3>2. CASE i = n + 1
      <4>1. (old \o <<s>>)[n + 1] = s
        BY <1>4, <2>4
      <4> QED BY <2>6, <3>2, <4>1
    <3>3. i \in 1 .. n \/ i = n + 1
      BY <1>4
    <3> QED BY <3>1, <3>2, <3>3
  <2>9. old \o <<s>> = [i \in 1 .. n + 1 |-> (old \o <<s>>)[i]]
    BY <1>4, <2>4
  <2>10. Reported(suites') = old \o <<s>>
    BY <2>7, <2>8, <2>9
  <2>11. pc[t] = "run"
    BY <1>1, <1>5 DEF InitializeSuite
  <2> QED BY <2>1, <2>3, <2>10, <2>11
<1>6. CASE ~InitializeSuite(t)
  <2>1. \A i \in 1 .. n : suites'[i].suite = suites[i].suite
    <3>1. CASE FinishSuite(t)
      BY <1>1, <1>3, <1>4, <3>1, FinishSuiteEffect
    <3>2. CASE InitializeTestMethod(t)
      <4>1. /\ n \in 1 .. n /\ Len(suites') = n
            /\ suites'[n] = [suites[n] EXCEPT !.methods = Append(@, NewMethod)]
            /\ \A i \in 1 .. n : i # n => suites'[i] = suites[i]
        BY <1>1, <1>3, <1>4, <3>2, InitializeTestMethodEffect
      <4>2. suites'[n].suite = suites[n].suite
        BY <1>4, <4>1 DEF SuiteInfo
      <4> QED BY <4>1, <4>2
    <3>3. CASE RecordOnMethod(t)
      BY <1>1, <1>3, <1>4, <3>3, RecordOnMethodEffect, Zenon
    <3> QED BY <1>6, <3>1, <3>2, <3>3 DEF Record
  <2>2. Len(suites') = n
    BY <1>1, <1>3, <1>6, FinishSuiteEffect, InitializeTestMethodEffect,
       RecordOnMethodEffect DEF Record
  <2>3. Reported(suites') = Reported(suites)
    BY <1>4, <2>1, <2>2 DEF Reported
  <2>4. pc[t] # "run"
    BY <1>1, <1>6 DEF Record, FinishSuite, InitializeTestMethod, RecordOnMethod, MethodOp
  <2> QED BY <2>3, <2>4
<1> QED BY <1>5, <1>6

-----------------------------------------------------------------------------
\* Together the threads run the tree.

\* No exception is on its way.
Calm == \A t \in Thread : pc[t] \notin {"unwinding", "unwound"}

\* A step that leaves the records and all lists alone.
LEMMA SharedSame ==
  ASSUME SharedInv, Calm, Reported(suites') = Reported(suites),
         \A t \in Thread : Worklist(t)' = Worklist(t)
  PROVE  SharedInv'
<1>1. Left' = Left
  BY DEF Left
<1>2. PICK old, new, a, b : /\ old = Reported(suites) /\ new = Reported(suites')
                            /\ a = Left /\ b = Left'
  OBVIOUS
<1>3. \A s \in Suite : Count(old, s) + Cardinality(Places(a, s)) = Count(RunOrder[Root], s)
  BY <1>2 DEF SharedInv, Calm
<1>4. \A s \in Suite : Count(new, s) + Cardinality(Places(b, s)) = Count(RunOrder[Root], s)
  BY <1>1, <1>2, <1>3
<1> QED BY <1>2, <1>4 DEF SharedInv

\* A suite is begun: its record is added, and it is taken off its list.
LEMMA SharedRecord ==
  ASSUME TreeInv, ColTypes, SharedInv, Calm, NEW t \in Thread,
         pending[t] # <<>>, Worklist(t) = pending[t],
         Worklist(t)' = Sub[Current(t)] \o Tail(pending[t]),
         \A u \in Thread \ {t} : Worklist(u)' = Worklist(u),
         Reported(suites') = Reported(suites) \o <<Current(t)>>
  PROVE  SharedInv'
<1>1. PICK list, x, more : /\ list = pending[t] /\ x = Head(list)
                           /\ more = Sub[x] \o Tail(list)
  OBVIOUS
<1>2. list \in Seq(Suite) /\ list # <<>> /\ x \in Suite /\ more \in Seq(Suite) /\ <<x>> \in Seq(Suite)
  <2>1. list \in Seq(Suite) /\ list # <<>>
    BY <1>1 DEF TreeInv, SuiteInv, TypeOK
  <2>2. x \in Suite /\ Tail(list) \in Seq(Suite)
    BY <1>1, <2>1
  <2> QED BY <1>1, <2>1, <2>2, SubTypes
<1>3. Flat(list) = <<x>> \o Flat(more) /\ Flat(list) \in Seq(Suite) /\ Flat(more) \in Seq(Suite)
  BY <1>1, <1>2, FlatHead, FlatJoins
<1>4. PICK lists : lists = Left
  OBVIOUS
<1>5. lists \in [Thread -> Seq(Suite)] /\ lists[t] = Flat(list)
  BY <1>1, <1>4, LeftType DEF Left
<1>6. Left' = [lists EXCEPT ![t] = Flat(more)]
  <2>1. Worklist(t)' = more
    BY <1>1 DEF Current
  <2>2. \A u \in Thread : Flat(Worklist(u)') = IF u = t THEN Flat(more) ELSE lists[u]
    BY <1>4, <2>1 DEF Left
  <2>3. Left' = [u \in Thread |-> Flat(Worklist(u)')]
    BY DEF Left, Flat, Orders
  <2>4. [lists EXCEPT ![t] = Flat(more)] = [u \in Thread |-> IF u = t THEN Flat(more) ELSE lists[u]]
    BY <1>5
  <2> QED BY <2>2, <2>3, <2>4
<1>7. PICK old : old = Reported(suites)
  OBVIOUS
<1>8. old \in Seq(Suite)
  BY <1>7, ReportedType
<1>9. ASSUME NEW s \in Suite
      PROVE  Count(Reported(suites'), s) + Cardinality(Places(Left', s)) = Count(RunOrder[Root], s)
  <2>1. Count(old, s) + Cardinality(Places(lists, s)) = Count(RunOrder[Root], s)
    BY <1>4, <1>7 DEF SharedInv, Calm
  <2>2. PICK a, b, c, d, e : /\ a = Count(old, s) /\ b = Cardinality(Places(lists, s))
                             /\ c = Count(<<x>>, s) /\ d = Count(Flat(more), s)
                             /\ e = Cardinality(Places(Left', s))
    OBVIOUS
  <2>3. a \in Nat /\ b \in Nat /\ c \in Nat /\ d \in Nat
    BY <1>2, <1>3, <1>5, <1>8, <2>2, WhereFinite, PlacesOfOne
  <2>4. Count(Reported(suites'), s) = a + c
    <3>1. Reported(suites') = old \o <<x>>
      BY <1>1, <1>7 DEF Current
    <3>2. Count(old \o <<x>>, s) = Count(old, s) + Count(<<x>>, s)
      BY <1>2, <1>8, CountJoins
    <3> QED BY <2>2, <3>1, <3>2
  <2>5. Count(lists[t], s) = c + d
    <3>1. PICK rest : rest = Flat(more)
      OBVIOUS
    <3>2. rest \in Seq(Suite) /\ lists[t] = <<x>> \o rest
      BY <1>3, <1>5, <3>1
    <3>3. Count(<<x>> \o rest, s) = Count(<<x>>, s) + Count(rest, s)
      BY <1>2, <3>2, CountJoins, ZenonT(60)
    <3> QED BY <2>2, <3>1, <3>2, <3>3
  <2>6. e + (c + d) = b + d
    <3>1. PICK rest : rest = Flat(more)
      OBVIOUS
    <3>2. Balanced(lists, t, rest, s)
      BY <1>3, <1>5, <3>1, PlacesReplaced
    <3> QED BY <1>6, <2>2, <2>5, <3>1, <3>2 DEF Balanced
  <2>7. e \in Nat
    <3>1. Left' \in [Thread -> Seq(Suite)]
      BY <1>3, <1>5, <1>6
    <3> QED BY <2>2, <3>1, PlacesOfOne
  <2>8. (a + c) + e = a + b
    BY <2>3, <2>6, <2>7
  <2> QED BY <2>1, <2>2, <2>4, <2>8
<1> QED BY <1>9 DEF SharedInv

\* A worker is started: a part of what is left moves to its list.
LEMMA SharedSpawn ==
  ASSUME TreeInv, SharedInv, NEW t \in Thread, Spawn(t), suites' = suites, Calm
  PROVE  SharedInv'
<1>1. PICK w \in Thread \ {t}, more \in Seq(Suite) :
        /\ w \in Suite /\ Worklist(w) = <<>> /\ Worklist(w)' = <<w>>
        /\ Worklist(t) = <<w>> \o more /\ Worklist(t)' = more
        /\ \A u \in Thread \ {t, w} : Worklist(u)' = Worklist(u)
  BY SpawnWorklists
<1>2. <<>> \in Seq(Suite) /\ <<w>> \in Seq(Suite)
  BY <1>1
<1>3. PICK lists, one, rest : lists = Left /\ one = Flat(<<w>>) /\ rest = Flat(more)
  OBVIOUS
<1>4. /\ lists \in [Thread -> Seq(Suite)] /\ one \in Seq(Suite) /\ rest \in Seq(Suite)
      /\ lists[t] = one \o rest /\ lists[w] = <<>>
  <2>1. lists \in [Thread -> Seq(Suite)] /\ one \in Seq(Suite) /\ rest \in Seq(Suite)
        /\ Flat(<<w>> \o more) = one \o rest
    BY <1>2, <1>3, LeftType, FlatJoins
  <2>2. Flat(<<>>) = <<>>
    BY DEF Flat, Orders, FlattenSeq
  <2>3. lists[t] = Flat(Worklist(t)) /\ lists[w] = Flat(Worklist(w))
    BY <1>3 DEF Left
  <2> QED BY <1>1, <2>1, <2>2, <2>3
<1>5. PICK mid, new : mid = [lists EXCEPT ![t] = rest] /\ new = [mid EXCEPT ![w] = one]
  OBVIOUS
<1>6. /\ mid \in [Thread -> Seq(Suite)] /\ mid[w] = <<>>
      /\ new \in [Thread -> Seq(Suite)]
  BY <1>4, <1>5
<1>7. Left' = new
  <2>1. \A u \in Thread : Flat(Worklist(u)') = IF u = w THEN one ELSE IF u = t THEN rest ELSE lists[u]
    BY <1>1, <1>3 DEF Left
  <2>2. Left' = [u \in Thread |-> Flat(Worklist(u)')]
    BY DEF Left, Flat, Orders
  <2>3. new = [u \in Thread |-> IF u = w THEN one ELSE IF u = t THEN rest ELSE lists[u]]
    BY <1>4, <1>5
  <2> QED BY <2>1, <2>2, <2>3
<1>8. ASSUME NEW s \in Suite
      PROVE  Count(Reported(suites'), s) + Cardinality(Places(Left', s)) = Count(RunOrder[Root], s)
  <2>1. PICK b, c, d, e, f, h, k :
          /\ b = Cardinality(Places(lists, s)) /\ c = Count(one, s) /\ d = Count(rest, s)
          /\ e = Cardinality(Places(mid, s)) /\ f = Cardinality(Places(new, s))
          /\ h = Count(lists[t], s) /\ k = Count(mid[w], s)
    OBVIOUS
  <2>2. b \in Nat /\ c \in Nat /\ d \in Nat /\ e \in Nat /\ f \in Nat
    BY <1>4, <1>6, <2>1, WhereFinite, PlacesOfOne
  <2>3. h = c + d /\ k = 0
    BY <1>4, <1>6, <2>1, CountJoins, CountNone
  <2>4. e + h = b + d
    <3>1. Balanced(lists, t, rest, s)
      BY <1>4, PlacesReplaced
    <3> QED BY <1>5, <2>1, <3>1 DEF Balanced
  <2>5. f + k = e + c
    <3>1. Balanced(mid, w, one, s)
      BY <1>4, <1>6, PlacesReplaced
    <3> QED BY <1>5, <2>1, <3>1 DEF Balanced
  <2>6. f = b
    BY <2>2, <2>3, <2>4, <2>5
  <2>7. Count(Reported(suites), s) + Cardinality(Places(lists, s)) = Count(RunOrder[Root], s)
    BY <1>3 DEF SharedInv, Calm
  <2> QED BY <1>7, <2>1, <2>6, <2>7
<1> QED BY <1>8 DEF SharedInv

LEMMA SharedNext ==
  ASSUME TreeInv, ColTypes, PlacesInv, SharedInv, [CNext]_cvars
  PROVE  SharedInv'
<1> SUFFICES ASSUME Calm' PROVE SharedInv'
  BY DEF SharedInv, Calm
<1>1. CASE UNCHANGED cvars
  <2>1. \A t \in Thread : Worklist(t)' = Worklist(t) /\ pc'[t] = pc[t]
    BY <1>1 DEF cvars, pvars, vars, locals, Worklist, Current
  <2>2. Calm /\ suites' = suites
    BY <1>1, <2>1 DEF Calm, cvars, collector
  <2> QED BY <2>1, <2>2, SharedSame
<1>2. ASSUME NEW t \in Thread, QuietStep(t)
      PROVE  /\ Calm /\ \A u \in Thread \ {t} : Worklist(u)' = Worklist(u)
             /\ ~(PCallReturns(t) /\ pc[t] = "run") =>
                  \A u \in Thread : Worklist(u)' = Worklist(u)
             /\ PCallReturns(t) /\ pc[t] = "run" =>
                  /\ pending[t] # <<>> /\ Worklist(t) = pending[t]
                  /\ Worklist(t)' = Sub[Current(t)] \o Tail(pending[t])
  <2>1. Alone(t) /\ ThreadPlace(t) /\ pc'[t] \notin {"unwinding", "unwound"}
    BY <1>2, QuietEffect DEF PlacesInv, Calm
  <2>2. ASSUME NEW u \in Thread \ {t} PROVE Worklist(u)' = Worklist(u) /\ pc'[u] = pc[u]
    BY <2>1, OthersStay
  <2>3. Calm
    BY <1>2, <2>1, <2>2, MoverWorklist DEF Calm
  <2> QED BY <1>2, <2>1, <2>2, <2>3, MoverWorklist
<1>3. ASSUME NEW t \in Thread, QuietStep(t), suites' = suites,
             ~(PCallReturns(t) /\ pc[t] = "run")
      PROVE  SharedInv'
  BY <1>2, <1>3, SharedSame
<1>4. ASSUME NEW t \in Thread, Spawn(t), suites' = suites
      PROVE  SharedInv'
  <2>1. Calm
    <3>1. PICK w \in Thread \ {t} :
            /\ pc[t] = "spawn" /\ pc[w] \in {"idle", "returned"}
            /\ \A u \in Thread \ {t, w} : pc'[u] = pc[u]
      BY <1>4, SpawnWorklists
    <3> QED BY <3>1 DEF Calm
  <2> QED BY <1>4, <2>1, SharedSpawn
<1>5. ASSUME NEW t \in Thread, PCallReturns(t), Record(t)
      PROVE  SharedInv'
  <2>1. QuietStep(t) /\ ThreadPlace(t)
    BY <1>5 DEF QuietStep, PlacesInv
  <2>2. CASE pc[t] = "run"
    <3>1. Reported(suites') = Reported(suites) \o <<Current(t)>>
      BY <1>5, <2>1, <2>2, ReturnReported
    <3> QED BY <1>2, <1>5, <2>1, <2>2, <3>1, SharedRecord
  <2>3. CASE pc[t] # "run"
    <3>1. Reported(suites') = Reported(suites)
      BY <1>5, <2>1, <2>3, ReturnReported
    <3> QED BY <1>2, <2>1, <2>3, <3>1, SharedSame
  <2> QED BY <2>2, <2>3
<1>6. ASSUME NEW t \in Thread, CStep(t)
      PROVE  SharedInv'
  <2>1. CASE PLocalStep(t) /\ UNCHANGED collector
    <3>1. suites' = suites
      BY <2>1 DEF collector
    <3>2. QuietStep(t) \/ Spawn(t)
      BY <1>6, CStepKinds
    <3>3. ~PCallReturns(t)
      <4>1. SuiteStep(t) => call[t] = NoCall
        BY SuiteStepEffect DEF TreeInv
      <4>2. ParallelStep(t) => call[t] = NoCall
        BY DEF ParallelStep, PStartRun, PSetupReturns, Warn, PTearDownReturns, Spawn,
           SpawnThrows, AllSpawned, Join, AllJoined, Unwind, At
      <4>3. Acquire(t) => ~Inside(t)
        BY RouteType DEF Acquire, Inside, TreeInv, PTypeOK
      <4> QED BY <2>1, <4>1, <4>2, <4>3 DEF PLocalStep, PCallReturns, CallReturns
    <3> QED BY <1>3, <1>4, <3>1, <3>2, <3>3
  <2>2. CASE PCallReturns(t) /\ Record(t)
    BY <1>5, <2>2
  <2>3. CASE InvalidTestMethod(t)
    <3>1. pc \in [Thread -> PC]
      BY DEF TreeInv, SuiteInv, TypeOK
    <3>2. pc'[t] = "unwound"
      BY <2>3, <3>1 DEF InvalidTestMethod, Goto
    <3> QED BY <3>2 DEF Calm
  <2> QED BY <1>6, <2>1, <2>2, <2>3 DEF CStep
<1> QED BY <1>1, <1>6 DEF CNext, CFinished

LEMMA SharedInvHolds == CSpec => []SharedInv
<1>1. CInit => SharedInv
  <2> SUFFICES ASSUME CInit PROVE SharedInv
    OBVIOUS
  <2>1. /\ Root \in Thread /\ Root \in Suite /\ suites = <<>>
        /\ pc = [t \in Thread |-> IF t = Root THEN "run" ELSE "idle"]
        /\ pending = [t \in Thread |-> IF t = Root THEN <<Root>> ELSE <<>>]
    BY ConstantTypes, SuiteAssumption DEF CInit, PInit, Init
  <2>2. PICK order : order = RunOrder[Root]
    OBVIOUS
  <2>3. order \in Seq(Suite)
    BY <2>1, <2>2, RunOrderIs
  <2>4. Flat(<<Root>>) = order
    <3>1. PICK orders : orders = RunOrder
      OBVIOUS
    <3>2. Orders(orders, <<Root>>) = <<orders[Root]>>
      BY DEF Orders
    <3> QED BY <2>2, <2>3, <3>1, <3>2, FlattenOne DEF Flat
  <2>5. Flat(<<>>) = <<>>
    BY DEF Flat, Orders, FlattenSeq
  <2>6. \A t \in Thread : Worklist(t) = IF t = Root THEN <<Root>> ELSE <<>>
    BY <2>1 DEF Worklist
  <2>7. PICK none : none = [t \in Thread |-> <<>>]
    OBVIOUS
  <2>8. none \in [Thread -> Seq(Suite)] /\ none[Root] = <<>>
    BY <2>1, <2>7
  <2>9. Left = [none EXCEPT ![Root] = order]
    BY <2>1, <2>4, <2>5, <2>6, <2>7 DEF Left
  <2>10. Reported(suites) = <<>>
    BY <2>1 DEF Reported
  <2>11. ASSUME NEW s \in Suite
         PROVE  Count(Reported(suites), s) + Cardinality(Places(Left, s)) = Count(order, s)
    <3>1. Places(none, s) = {}
      BY <2>7 DEF Places, Where
    <3>2. Cardinality(Places(none, s)) = 0
      BY <3>1, FS_EmptySet
    <3>3. Count(<<>>, s) = 0
      BY CountNone
    <3>4. Cardinality(Places([none EXCEPT ![Root] = order], s)) + Count(none[Root], s)
            = Cardinality(Places(none, s)) + Count(order, s)
      BY <2>1, <2>3, <2>8, PlacesReplaced DEF Balanced
    <3>5. Cardinality(Places(Left, s)) \in Nat /\ Count(order, s) \in Nat
      <4>1. [none EXCEPT ![Root] = order] \in [Thread -> Seq(Suite)]
        BY <2>3, <2>8
      <4> QED BY <2>1, <2>3, <2>9, <4>1, WhereFinite, PlacesOfOne
    <3> QED BY <2>8, <2>9, <2>10, <3>2, <3>3, <3>4, <3>5
  <2> QED BY <2>2, <2>11 DEF SharedInv
<1>2. TreeInv /\ ColTypes /\ PlacesInv /\ SharedInv /\ [CNext]_cvars => SharedInv'
  BY SharedNext
<1> QED BY <1>1, <1>2, CTreeInvHolds, ColTypesHold, PlacesHold, PTL DEF CSpec

\* When run() has returned, no thread is under way and nothing is left.
LEMMA NothingLeft ==
  ASSUME TreeInv, pc[Root] = "returned"
  PROVE  Calm /\ Left = [t \in Thread |-> <<>>]
<1>1. \A t \in Thread : ~Active(t)
  <2> SUFFICES ASSUME NEW t \in Thread, Active(t) PROVE FALSE
    OBVIOUS
  <2>1. t # Root
    BY DEF Active
  <2>2. WalkOK(t)
    BY <2>1 DEF TreeInv, WalkInv
  <2>3. Depth(t) \in 1 .. Depth(t)
    BY <2>2, ParallelAssumption DEF WalkOK, Depth, TreeInv, PTypeOK
  <2>4. Waits(chain[t][Depth(t)]) /\ Home[chain[t][Depth(t)]] = Root
    BY <2>2, <2>3 DEF WalkOK
  <2> QED BY <2>4 DEF Waits, Waiting
<1>2. \A t \in Thread : pc[t] \in {"idle", "returned"} /\ pending[t] = <<>>
  BY <1>1 DEF Active, TreeInv, SuiteInv, TypeOK
<1>3. \A t \in Thread : Worklist(t) = <<>>
  BY <1>2 DEF Worklist
<1>4. Flat(<<>>) = <<>>
  BY DEF Flat, Orders, FlattenSeq
<1> QED BY <1>2, <1>3, <1>4 DEF Left, Calm

\* "All associated suites will be run after this suite has finished": when run()
\* returns there is a record for every suite as often as it was added, whatever
\* the tree; without ParallelSuites the records are in depth-first order.
THEOREM SuitesAreReported == CSpec => []EverySuiteReported
<1>1. ASSUME TreeInv, ColTypes, SharedInv, pc[Root] = "returned", NEW s \in Suite
      PROVE  Count([i \in DOMAIN suites |-> suites[i].suite], s) = Count(RunOrder[Root], s)
  <2>1. PICK a : a = Count(Reported(suites), s)
    OBVIOUS
  <2>2. a \in Nat
    BY <1>1, <2>1, ReportedType, WhereFinite
  <2>3. Places(Left, s) = {}
    BY <1>1, NothingLeft DEF Places, Where
  <2>4. Cardinality(Places(Left, s)) = 0
    BY <2>3, FS_EmptySet
  <2>5. a + Cardinality(Places(Left, s)) = Count(RunOrder[Root], s)
    BY <1>1, <2>1, NothingLeft DEF SharedInv, Calm
  <2>6. a = Count(RunOrder[Root], s)
    BY <2>2, <2>4, <2>5
  <2> QED BY <2>1, <2>6 DEF Reported
<1>2. Parallel # {} /\ TreeInv /\ ColTypes /\ SharedInv => EverySuiteReported
  BY <1>1 DEF EverySuiteReported
<1>3. CASE Parallel = {}
  BY <1>3, PlainSuitesReported
<1>4. CASE Parallel # {}
  BY <1>2, <1>4, CTreeInvHolds, ColTypesHold, SharedInvHolds, PTL
<1> QED BY <1>3, <1>4

-----------------------------------------------------------------------------
\* No circle of threads that wait for each other.

\* How many wrappers there are behind a mutex depends on the mutex only: a
\* wrapper was made by the thread that its ParallelSuite runs on, around the
\* Output of that thread; the rest of the route is that of the caller of run().
RouteOK(t) ==
  /\ \A j \in 1 .. Depth(t) : Len(chain[Home[chain[t][j]]]) = Len(chain[t]) - j
  /\ \A k \in 1 .. Len(OuterChain) : chain[t][Depth(t) + k] = OuterChain[k]

\* A ParallelSuite waits for workers that it has started, and a thread runs
\* suites that are not above the one it was started for.
StartedOK(t) ==
  pending[t] # <<>> /\ Current(t) \in Parallel =>
    /\ pc[t] = "spawn" =>
         \A i \in DOMAIN Sub[Current(t)] : i < next[t] => pc[SubSuite(Current(t), i)] # "idle"
    /\ pc[t] = "join" =>
         \A i \in DOMAIN Sub[Current(t)] : pc[SubSuite(Current(t), i)] # "idle"
BelowOK(t) == \A i \in DOMAIN pending[t] : Rank[pending[t][i]] <= Rank[t]

WaitInv ==
  /\ pc[Root] # "idle"
  /\ \A t \in Thread : (Active(t) => RouteOK(t)) /\ StartedOK(t) /\ BelowOK(t)

LEMMA InitWait == PInit => WaitInv
<1> SUFFICES ASSUME PInit, NEW t \in Thread
             PROVE  (Active(t) => RouteOK(t)) /\ StartedOK(t) /\ BelowOK(t)
  BY ConstantTypes DEF WaitInv, PInit, Init
<1>1. /\ pc[t] = (IF t = Root THEN "run" ELSE "idle")
      /\ pending[t] = (IF t = Root THEN <<Root>> ELSE <<>>)
      /\ chain[Root] = OuterChain
  BY ConstantTypes DEF PInit, Init
<1>2. Active(t) => RouteOK(t)
  BY <1>1, ParallelAssumption DEF Active, RouteOK, Depth
<1>3. StartedOK(t)
  BY <1>1 DEF StartedOK
<1>4. BelowOK(t)
  <2>1. CASE t = Root
    <3>1. Rank[Root] \in Int
      BY RankFalls, SuiteAssumption
    <3> QED BY <1>1, <2>1, <3>1 DEF BelowOK
  <2> QED BY <1>1, <2>1 DEF BelowOK
<1> QED BY <1>2, <1>3, <1>4

\* No step makes a thread idle.
LEMMA StaysStarted ==
  ASSUME TreeInv, NEW t \in Thread, QuietStep(t) \/ Spawn(t), NEW u \in Thread, pc[u] # "idle"
  PROVE  pc'[u] # "idle"
<1>1. pc \in [Thread -> PC] /\ TypeOK'
  BY TreeStep DEF TreeInv, SuiteInv, TypeOK
<1>2. CASE QuietStep(t)
  <2>1. /\ Active(t) /\ Alone(t)
        /\ \/ pending' = pending
           \/ FinishHead(t, Sub[Current(t)]) \/ FinishHead(t, <<>>)
    BY <1>2, QuietEffect
  <2>2. ASSUME NEW more, FinishHead(t, more) PROVE pc'[t] # "idle"
    BY <1>1, <2>2 DEF FinishHead, Goto
  <2>3. pending' = pending => pc'[t] # "idle"
    BY <1>1, <2>1, ActiveRuns DEF TypeOK, TreeInv
  <2> QED BY <2>1, <2>2, <2>3 DEF Alone
<1>3. CASE Spawn(t)
  <2>1. PICK w : w = SubSuite(Current(t), next[t]) /\ pc' = [pc EXCEPT ![w] = "run"]
    BY <1>3, SpawnEffect
  <2> QED BY <1>1, <2>1
<1> QED BY <1>2, <1>3

\* A quiet step and the routes.
LEMMA QuietRoute ==
  ASSUME TreeInv, NEW t \in Thread, QuietStep(t), NEW u \in Thread, Active(u) => RouteOK(u)
  PROVE  (Active(u) => RouteOK(u))'
<1>1. Active(t) /\ Alone(t) /\ chain' = chain
  BY QuietEffect
<1>2. Active(u)' => Active(u)
  BY <1>1 DEF Alone, Active
<1> QED BY <1>1, <1>2 DEF RouteOK, Depth

\* When a worker starts, its wrapper is put before those of its parent.
LEMMA SpawnRoute ==
  ASSUME TreeInv, NEW t \in Thread, Spawn(t), \A u \in Thread : Active(u) => RouteOK(u),
         NEW u \in Thread, Active(u)'
  PROVE  RouteOK(u)'
<1>1. PICK p, w : p = Current(t) /\ w = SubSuite(p, next[t])
  OBVIOUS
<1>2. /\ p \in Parallel /\ Home[p] = t /\ pc[t] = "spawn"
      /\ w \in Thread \ {Root, t} /\ ~Active(w)
      /\ pc' = [pc EXCEPT ![w] = "run"]
      /\ chain' = [chain EXCEPT ![w] = <<p>> \o chain[t]]
  BY <1>1, SpawnEffect
<1>3. /\ pc \in [Thread -> PC] /\ chain \in [Thread -> Seq(Lock)]
      /\ OuterChain \in Seq(Lock) /\ chain[Root] = OuterChain /\ p \in Lock
  BY <1>2, ParallelAssumption DEF TreeInv, PTypeOK, SuiteInv, TypeOK, WalkInv, Lock
<1>4. ASSUME NEW v \in Thread, Active(v), NEW j \in 1 .. Depth(v)
      PROVE  Home[chain[v][j]] \in Thread \ {w}
  <2>1. v # Root
    BY <1>3, <1>4 DEF Depth
  <2>2. chain[v][j] \in Parallel /\ Waits(chain[v][j])
    BY <1>4, <2>1, WalkersActive
  <2> QED BY <1>2, <2>2, SuiteAssumption, HomeMaps DEF Waits, Waiting, Active
<1>5. CASE u # w
  <2>1. Active(u) /\ chain'[u] = chain[u]
    BY <1>2, <1>3, <1>5 DEF Active
  <2>2. RouteOK(u)
    BY <2>1
  <2>3. \A j \in 1 .. Depth(u) : chain'[Home[chain[u][j]]] = chain[Home[chain[u][j]]]
    BY <1>2, <1>3, <1>4, <2>1
  <2> QED BY <2>1, <2>2, <2>3 DEF RouteOK, Depth
<1>6. CASE u = w
  <2>1. Active(t) /\ RouteOK(t)
    BY <1>2 DEF Active
  <2>2. PICK c \in Seq(Lock), d \in Seq(Lock) : c = chain[t] /\ d = <<p>> \o c /\ d = chain'[w]
    <3>1. chain[t] \in Seq(Lock) /\ <<p>> \o chain[t] \in Seq(Lock)
      BY <1>3
    <3>2. chain'[w] = <<p>> \o chain[t]
      BY <1>2, <1>3
    <3> QED BY <3>1, <3>2
  <2>3. /\ Len(d) = Len(c) + 1 /\ d[1] = p
        /\ \A j \in 1 .. Len(c) : d[j + 1] = c[j]
    BY <1>2, <1>3, <2>2
  <2>4. Depth(t) = Len(c) - Len(OuterChain) /\ Depth(w)' = Len(c) + 1 - Len(OuterChain)
        /\ Len(c) \in Nat /\ Len(OuterChain) \in Nat
    BY <1>3, <2>2, <2>3 DEF Depth
  <2>5. Depth(t) \in Nat
    <3>1. Depth(t) \in Int
      BY <2>4
    <3>2. t # Root => Depth(t) >= 1
      BY <2>1 DEF TreeInv, WalkInv, WalkOK
    <3>3. t = Root => Depth(t) = 0
      BY <1>3, <2>2, <2>4
    <3> QED BY <3>1, <3>2, <3>3
  <2>6. chain'[t] = c
    BY <1>2, <1>3, <2>2
  <2>7. ASSUME NEW j \in 1 .. Len(c) + 1 - Len(OuterChain)
        PROVE  Len(chain'[Home[d[j]]]) = Len(d) - j
    <3>1. CASE j = 1
      BY <1>2, <2>3, <2>4, <2>6, <3>1
    <3>2. CASE j # 1
      <4>1. PICK i \in 1 .. Depth(t) : j = i + 1
        BY <2>4, <3>2
      <4>2. i \in 1 .. Len(c) /\ d[j] = c[i]
        BY <2>3, <2>4, <4>1
      <4>3. Home[c[i]] \in Thread \ {w} /\ Len(chain[Home[c[i]]]) = Len(c) - i
        BY <1>4, <2>1, <2>2, <4>1 DEF RouteOK
      <4>4. chain'[Home[c[i]]] = chain[Home[c[i]]]
        BY <1>2, <1>3, <4>3
      <4> QED BY <2>3, <2>4, <4>1, <4>2, <4>3, <4>4
    <3> QED BY <3>1, <3>2
  <2>8. ASSUME NEW k \in 1 .. Len(OuterChain)
        PROVE  d[Len(c) + 1 - Len(OuterChain) + k] = OuterChain[k]
    <3>1. PICK i \in 1 .. Len(c) : i = Depth(t) + k
      <4>1. PICK a \in Nat, b \in Nat, e \in Nat : a = Len(c) /\ b = Len(OuterChain) /\ e = Depth(t)
        BY <2>4, <2>5
      <4>2. k \in 1 .. b /\ e = a - b
        BY <2>4, <4>1
      <4>3. e + k \in 1 .. a
        BY <4>2
      <4> QED BY <4>1, <4>3
    <3>2. c[i] = OuterChain[k]
      BY <2>1, <2>2, <3>1 DEF RouteOK
    <3>3. d[i + 1] = c[i] /\ i + 1 = Len(c) + 1 - Len(OuterChain) + k
      BY <2>3, <2>4, <3>1, SMTT(30)
    <3> QED BY <3>2, <3>3
  <2> QED BY <1>6, <2>2, <2>4, <2>7, <2>8 DEF RouteOK
<1> QED BY <1>5, <1>6

\* The loops over the workers begin with the first, and the second follows the
\* whole of the first.
LEMMA QuietStarted ==
  ASSUME TreeInv, PlacesInv, NEW t \in Thread, QuietStep(t), NEW u \in Thread, StartedOK(u)
  PROVE  StartedOK(u)'
<1>1. /\ pc \in [Thread -> PC] /\ call \in [Thread -> OutputCall]
      /\ next \in [Thread -> Nat \ {0}] /\ KindOK(t) /\ ThreadPlace(t)
  BY DEF TreeInv, KindInv, SuiteInv, TypeOK, PlacesInv
<1>2. Active(t) /\ Alone(t) /\ pending[t] # <<>> /\ Current(t) \in Suite
  BY QuietEffect, ActiveRuns DEF TreeInv
<1>3. \A v \in Thread : pc[v] # "idle" => pc'[v] # "idle"
  BY StaysStarted
<1>4. \A p \in Parallel : \A i \in DOMAIN Sub[p] : SubSuite(p, i) \in Thread
  BY WorkerFacts
<1>5. CASE u # t
  <2>1. pending'[u] = pending[u] /\ pc'[u] = pc[u] /\ next'[u] = next[u]
    BY <1>2, <1>5 DEF Alone
  <2>2. Current(u)' = Current(u)
    BY <2>1 DEF Current
  <2> QED BY <1>3, <1>4, <2>1, <2>2 DEF StartedOK
<1>6. CASE u = t
  <2> SUFFICES ASSUME pc'[t] \in {"spawn", "join"}, pending'[t] # <<>>, Current(t)' \in Parallel
               PROVE  StartedOK(t)'
    BY <1>6 DEF StartedOK
  <2>1. pending' = pending /\ Current(t)' = Current(t)
    <3>1. ASSUME NEW more, FinishHead(t, more) PROVE FALSE
      BY <1>1, <3>1 DEF FinishHead, Goto
    <3> QED BY <3>1, QuietEffect DEF Current
  <2>2. PICK p \in Parallel : p = Current(t)
    BY <2>1
  <2>3. p \in Suite /\ Sub[p] \in Seq(Suite) /\ Len(Sub[p]) \in Nat
        /\ DOMAIN Sub[p] = 1 .. Len(Sub[p])
    BY <2>2, SuiteAssumption
  <2>4. CASE AllSpawned(t)
    <3>1. pc[t] = "spawn" /\ next[t] > Len(Sub[p]) /\ pc'[t] = "join"
      BY <1>1, <2>2, <2>4 DEF AllSpawned, At, Goto
    <3>2. \A i \in DOMAIN Sub[p] : i < next[t]
      BY <1>1, <2>3, <3>1
    <3>3. \A i \in DOMAIN Sub[p] : pc[SubSuite(p, i)] # "idle"
      BY <1>2, <1>6, <2>2, <3>1, <3>2 DEF StartedOK
    <3> QED BY <1>3, <1>4, <2>1, <2>2, <3>1, <3>3 DEF StartedOK
  <2>5. CASE Join(t)
    <3>1. pc[t] = "join" /\ pc'[t] # "spawn"
      BY <1>1, <2>5 DEF Join, At, Goto
    <3>2. \A i \in DOMAIN Sub[p] : pc[SubSuite(p, i)] # "idle"
      BY <1>2, <1>6, <2>2, <3>1 DEF StartedOK
    <3> QED BY <1>3, <1>4, <2>1, <2>2, <3>1, <3>2 DEF StartedOK
  <2>6. CASE PCallReturns(t)
    <3>1. call[t] # NoCall /\ pc'[t] = call[t].then /\ next' = next
      BY <1>1, <2>6 DEF PCallReturns, CallReturns, Goto, locals
    <3>2. pc'[t] = "spawn" /\ next'[t] = 1
      BY <1>2, <2>2, <3>1, <1>1 DEF ThreadPlace
    <3> QED BY <2>1, <2>2, <2>3, <3>2 DEF StartedOK
  <2>7. CASE Acquire(t)
    <3>1. call[t] # NoCall /\ pc' = pc
      BY <2>7 DEF Acquire, vars
    <3> QED BY <1>1, <3>1 DEF KindOK, Waiting
  <2>8. CASE SuiteStep(t)
    <3>1. pc'[t] \notin Waiting
      BY <1>1, <2>1, <2>8, SuiteStepEffect DEF TreeInv, FinishHead, Goto, Waiting
    <3> QED BY <3>1 DEF Waiting
  <2>9. CASE LocalParallelStep(t) /\ ~AllSpawned(t) /\ ~Join(t)
    <3>1. CASE pc[t] \notin Waiting
      <4>1. pc'[t] \notin Waiting
        BY <1>1, <2>1, <2>9, <3>1, ParallelStepEffect DEF FinishHead, Goto, Waiting
      <4> QED BY <4>1 DEF Waiting
    <3>2. CASE SpawnThrows(t) \/ AllJoined(t) \/ Unwind(t)
      <4>1. pc'[t] \in {"unwinding", "unwound", "returned", "run"}
        BY <1>1, <3>2 DEF SpawnThrows, AllJoined, Unwind, FinishHead, Goto
      <4> QED BY <4>1
    <3> QED BY <2>9, <3>1, <3>2 DEF LocalParallelStep, PStartRun, PSetupReturns, Warn, PTearDownReturns, At, Waiting
  <2>10. CASE Escapes(t)
    BY <1>1, <2>10 DEF Escapes, Goto
  <2> QED BY <2>4, <2>5, <2>6, <2>7, <2>8, <2>9, <2>10 DEF QuietStep
<1> QED BY <1>5, <1>6

LEMMA SpawnStarted ==
  ASSUME TreeInv, NEW t \in Thread, Spawn(t), \A v \in Thread : StartedOK(v), NEW u \in Thread
  PROVE  StartedOK(u)'
<1>1. PICK p, w : p = Current(t) /\ w = SubSuite(p, next[t])
  OBVIOUS
<1>2. /\ p \in Parallel /\ pc[t] = "spawn" /\ next[t] \in DOMAIN Sub[p]
      /\ w \in Thread \ {Root, t} /\ ~Active(w)
      /\ pending' = [pending EXCEPT ![w] = <<w>>]
      /\ pc' = [pc EXCEPT ![w] = "run"]
      /\ next' = [next EXCEPT ![t] = next[t] + 1]
  BY <1>1, SpawnEffect
<1>3. /\ pc \in [Thread -> PC] /\ next \in [Thread -> Nat \ {0}]
      /\ pending \in [Thread -> Seq(Suite)] /\ Active(t)
  BY <1>2 DEF TreeInv, SuiteInv, TypeOK, Active
<1>4. \A v \in Thread : pc[v] # "idle" => pc'[v] # "idle"
  BY StaysStarted
<1>5. \A q \in Parallel : \A i \in DOMAIN Sub[q] : SubSuite(q, i) \in Thread
  BY WorkerFacts
<1>6. CASE u = w
  BY <1>2, <1>3, <1>6 DEF StartedOK
<1>7. CASE u # w
  <2>1. pending'[u] = pending[u] /\ pc'[u] = pc[u] /\ (u # t => next'[u] = next[u])
    BY <1>2, <1>3, <1>7
  <2>2. Current(u)' = Current(u)
    BY <2>1 DEF Current
  <2>3. CASE u # t
    BY <1>4, <1>5, <2>1, <2>2, <2>3 DEF StartedOK
  <2>4. CASE u = t
    <3>1. pending[t] # <<>>
      BY <1>3, ActiveRuns DEF TreeInv
    <3>2. ASSUME NEW i \in DOMAIN Sub[p], i < next[t] + 1
          PROVE  pc'[SubSuite(p, i)] # "idle"
      <4>1. CASE i = next[t]
        BY <1>1, <1>2, <1>3, <4>1
      <4>2. CASE i < next[t]
        <5>1. pc[SubSuite(p, i)] # "idle"
          BY <1>1, <1>2, <3>1, <4>2 DEF StartedOK
        <5> QED BY <1>2, <1>4, <1>5, <5>1
      <4> QED BY <1>2, <1>3, <3>2, <4>1, <4>2, SuiteAssumption
    <3>3. next'[t] = next[t] + 1 /\ pc'[t] = "spawn" /\ Current(t)' = p
      BY <1>1, <1>2, <1>3, <2>1, <2>2, <2>4
    <3> QED BY <2>4, <3>2, <3>3 DEF StartedOK
  <2> QED BY <2>3, <2>4
<1> QED BY <1>6, <1>7

\* What a thread gets to run is below what it has.
LEMMA StepBelow ==
  ASSUME TreeInv, NEW t \in Thread, QuietStep(t) \/ Spawn(t), NEW u \in Thread, BelowOK(u)
  PROVE  BelowOK(u)'
<1>1. pending \in [Thread -> Seq(Suite)] /\ Thread \subseteq Suite
  BY ConstantTypes DEF TreeInv, SuiteInv, TypeOK
<1>2. ASSUME NEW more \in Seq(Suite), FinishHead(t, more), u = t, pending[t] # <<>>,
             \A i \in DOMAIN more : Rank[more[i]] <= Rank[t]
      PROVE  BelowOK(u)'
  <2>1. PICK rest \in Seq(Suite) : rest = Tail(pending[t])
    <3>1. PICK list \in Seq(Suite) : list = pending[t]
      BY <1>1
    <3>2. Tail(list) \in Seq(Suite)
      BY <1>2, <3>1
    <3> QED BY <3>1, <3>2
  <2>2. \A i \in DOMAIN rest : Rank[rest[i]] <= Rank[t]
    BY <1>1, <1>2, <2>1 DEF BelowOK
  <2>3. \A i \in DOMAIN (more \o rest) : Rank[(more \o rest)[i]] <= Rank[t]
    BY <1>2, <2>1, <2>2
  <2>4. pending'[t] = more \o rest
    BY <1>1, <1>2, <2>1 DEF FinishHead
  <2> QED BY <1>2, <2>3, <2>4 DEF BelowOK
<1>3. CASE QuietStep(t)
  <2>1. Active(t) /\ Alone(t) /\ pending[t] # <<>> /\ Current(t) \in Suite
    BY <1>3, QuietEffect, ActiveRuns DEF TreeInv
  <2>2. CASE u # t
    BY <2>1, <2>2 DEF Alone, BelowOK
  <2>3. CASE pending' = pending
    BY <2>3 DEF BelowOK
  <2>4. CASE u = t /\ FinishHead(t, Sub[Current(t)])
    <3>1. PICK more : more = Sub[Current(t)]
      OBVIOUS
    <3>2. more \in Seq(Suite)
      BY <2>1, <3>1, SuiteAssumption
    <3>3. Rank[Current(t)] <= Rank[t]
      BY <1>1, <2>1, <2>4 DEF BelowOK, Current
    <3>4. ASSUME NEW i \in DOMAIN more PROVE Rank[more[i]] <= Rank[t]
      <4>1. more[i] \in Suite /\ Rank[more[i]] < Rank[Current(t)]
        BY <2>1, <3>1, <3>2, RankFalls
      <4>2. Rank[more[i]] \in Int /\ Rank[Current(t)] \in Int /\ Rank[t] \in Int
        BY <1>1, <2>1, <4>1, RankFalls
      <4> QED BY <3>3, <4>1, <4>2
    <3> QED BY <1>2, <2>1, <2>4, <3>1, <3>2, <3>4
  <2>5. CASE u = t /\ FinishHead(t, <<>>)
    <3>1. PICK more : more = <<>>
      OBVIOUS
    <3>2. more \in Seq(Suite) /\ DOMAIN more = {}
      BY <3>1
    <3> QED BY <1>2, <2>1, <2>5, <3>1, <3>2
  <2> QED BY <1>3, <2>2, <2>3, <2>4, <2>5, QuietEffect
<1>4. CASE Spawn(t)
  <2>1. PICK w \in Thread : pending' = [pending EXCEPT ![w] = <<w>>]
    BY <1>4, SpawnEffect
  <2>2. CASE u = w
    <3>1. Rank[w] \in Int
      BY <1>1, RankFalls
    <3> QED BY <1>1, <2>1, <2>2, <3>1 DEF BelowOK
  <2>3. CASE u # w
    BY <1>1, <2>1, <2>3 DEF BelowOK
  <2> QED BY <2>2, <2>3
<1> QED BY <1>3, <1>4

LEMMA WaitStep ==
  ASSUME TreeInv, PlacesInv, WaitInv, NEW t \in Thread, QuietStep(t) \/ Spawn(t)
  PROVE  WaitInv'
<1> SUFFICES ASSUME NEW u \in Thread
             PROVE  (Active(u) => RouteOK(u))' /\ StartedOK(u)' /\ BelowOK(u)'
  BY ConstantTypes, StaysStarted DEF WaitInv
<1>1. CASE QuietStep(t)
  BY <1>1, QuietRoute, QuietStarted, StepBelow DEF WaitInv
<1>2. CASE Spawn(t)
  BY <1>2, SpawnRoute, SpawnStarted, StepBelow DEF WaitInv
<1> QED BY <1>1, <1>2

LEMMA WaitStutter == WaitInv /\ UNCHANGED pvars => WaitInv'
BY DEF pvars, vars, locals, WaitInv, Active, RouteOK, Depth, StartedOK, BelowOK, Current

\* Where a mutex stands on the routes of the threads, seen from the Output.
Behind(t, i) == Len(Route(t)) - i

LEMMA RouteParts ==
  ASSUME TreeInv, WaitInv, NEW t \in Thread, call[t] # NoCall
  PROVE  /\ Route(t) \in Seq(Lock) /\ Len(Route(t)) \in Nat
         /\ \A i \in 1 .. Len(Route(t)) :
              \/ Route(t)[i] \in Parallel /\ Len(chain[Home[Route(t)[i]]]) = Behind(t, i)
              \/ \E k \in 1 .. Len(OuterChain) :
                   Route(t)[i] = OuterChain[k] /\ Len(OuterChain) - k = Behind(t, i)
<1>1. Active(t) /\ RouteOK(t) /\ pending[t] # <<>>
  BY ActiveRuns DEF TreeInv, SuiteInv, CallersRun, TypeOK, Active, WaitInv
<1>2. PICK c \in Seq(Lock), m \in Nat, n \in Nat :
        c = chain[t] /\ m = Len(c) /\ n = Len(OuterChain)
  BY ParallelAssumption DEF TreeInv, PTypeOK
<1>3. Depth(t) = m - n /\ m - n >= 0
  <2>1. Depth(t) = m - n
    BY <1>2 DEF Depth
  <2>2. t # Root => Depth(t) >= 1
    BY <1>1 DEF TreeInv, WalkInv, WalkOK
  <2>3. t = Root => m = n
    BY <1>2 DEF TreeInv, WalkInv
  <2> QED BY <2>1, <2>2, <2>3
<1>4. ASSUME NEW j \in 1 .. m
      PROVE  \/ c[j] \in Parallel /\ Len(chain[Home[c[j]]]) = m - j
             \/ \E k \in 1 .. n : c[j] = OuterChain[k] /\ n - k = m - j
  <2>1. CASE j <= m - n
    <3>1. t # Root /\ j \in 1 .. Depth(t)
      BY <1>2, <1>3, <2>1 DEF TreeInv, WalkInv
    <3>2. c[j] \in Parallel
      BY <1>1, <1>2, <3>1, WalkersActive
    <3> QED BY <1>1, <1>2, <3>1, <3>2 DEF RouteOK
  <2>2. CASE j > m - n
    <3>1. PICK k \in 1 .. n : j = (m - n) + k
      <4>1. j - (m - n) \in 1 .. n
        BY <1>3, <2>2
      <4> QED BY <4>1
    <3>2. c[j] = OuterChain[k]
      BY <1>1, <1>2, <1>3, <3>1 DEF RouteOK
    <3> QED BY <3>1, <3>2
  <2> QED BY <2>1, <2>2
<1>5. CASE Route(t) = chain[t]
  BY <1>2, <1>4, <1>5 DEF Behind
<1>6. CASE Route(t) = <<Current(t)>> \o chain[t] /\ Current(t) \in Parallel
  <2>1. PICK p \in Parallel : p = Current(t)
    BY <1>6
  <2>2. Home[p] = t
    BY <1>1, <2>1, ActiveRuns DEF TreeInv, HomeInv, Current
  <2>3. PICK r \in Seq(Lock) : r = Route(t) /\ r = <<p>> \o c
    <3>1. <<p>> \o c \in Seq(Lock)
      BY DEF Lock
    <3> QED BY <1>2, <1>6, <2>1, <3>1
  <2>4. Len(r) = m + 1 /\ r[1] = p /\ \A j \in 1 .. m : r[j + 1] = c[j]
    BY <1>2, <2>3, SMTT(30) DEF Lock
  <2>5. ASSUME NEW i \in 1 .. m + 1
        PROVE  \/ r[i] \in Parallel /\ Len(chain[Home[r[i]]]) = m + 1 - i
               \/ \E k \in 1 .. n : r[i] = OuterChain[k] /\ n - k = m + 1 - i
    <3>1. CASE i = 1
      BY <1>2, <2>2, <2>4, <3>1
    <3>2. CASE i # 1
      <4>1. PICK j \in 1 .. m : i = j + 1
        <5>1. i - 1 \in 1 .. m
          BY <3>2
        <5> QED BY <5>1
      <4>2. r[i] = c[j] /\ m + 1 - i = m - j
        BY <2>4, <4>1
      <4> QED BY <1>4, <4>2
    <3> QED BY <3>1, <3>2
  <2>6. \A i \in 1 .. m + 1 : Behind(t, i) = m + 1 - i
    <3>1. Len(Route(t)) = m + 1
      BY <2>3, <2>4, Zenon
    <3>2. ASSUME NEW i \in 1 .. m + 1 PROVE Behind(t, i) = m + 1 - i
      <4>1. Behind(t, i) = Len(Route(t)) - i
        BY DEF Behind
      <4> QED BY <3>1, <4>1
    <3> QED BY <3>2
  <2>7. Route(t) = r /\ n = Len(OuterChain)
    BY <1>2, <2>3
  <2>8. \A i \in 1 .. m + 1 : \/ r[i] \in Parallel /\ Len(chain[Home[r[i]]]) = Behind(t, i)
                              \/ \E k \in 1 .. n : r[i] = OuterChain[k] /\ n - k = Behind(t, i)
    BY <2>5, <2>6
  <2>9. Len(r) = m + 1 /\ r \in Seq(Lock) /\ m + 1 \in Nat
    BY <2>4
  <2> QED BY <2>7, <2>8, <2>9, Zenon
<1> QED BY <1>5, <1>6 DEF Route

\* A mutex has the same number of others behind it on every route.
LEMMA BehindSame ==
  ASSUME TreeInv, WaitInv, NEW t \in Thread, NEW u \in Thread, call[t] # NoCall, call[u] # NoCall,
         NEW i \in 1 .. Len(Route(t)), NEW j \in 1 .. Len(Route(u)), Route(t)[i] = Route(u)[j]
  PROVE  Behind(t, i) = Behind(u, j)
<1>1. PICK l : l = Route(t)[i]
  OBVIOUS
<1>2. \/ l \in Parallel /\ Len(chain[Home[l]]) = Behind(t, i)
      \/ \E k \in 1 .. Len(OuterChain) : l = OuterChain[k] /\ Len(OuterChain) - k = Behind(t, i)
  BY <1>1, RouteParts
<1>3. \/ l \in Parallel /\ Len(chain[Home[l]]) = Behind(u, j)
      \/ \E k \in 1 .. Len(OuterChain) : l = OuterChain[k] /\ Len(OuterChain) - k = Behind(u, j)
  BY <1>1, RouteParts
<1>4. /\ \A k \in 1 .. Len(OuterChain) : OuterChain[k] \notin Parallel
      /\ \A k, m \in 1 .. Len(OuterChain) : OuterChain[k] = OuterChain[m] => k = m
  BY ParallelAssumption DEF ToSet
<1> QED BY <1>2, <1>3, <1>4, SMTT(30)

\* The owner of the mutex that a call waits for is nearer to the Output.
LEMMA OwnerNearer ==
  ASSUME TreeInv, LocksHeld, WaitInv, NEW t \in Thread, call[t] # NoCall, Blocked(t)
  PROVE  \E u \in Thread : call[u] # NoCall /\ Behind(u, held[u]) < Behind(t, held[t])
<1>1. /\ held[t] < Len(Route(t)) /\ mutex[Route(t)[held[t] + 1]] # NoThread
  BY DEF Blocked, TreeInv, KindInv, KindOK, Waiting
<1>2. PICK n \in Nat, i \in 1 .. Len(Route(t)) : n = held[t] /\ i = n + 1
  BY <1>1, RouteParts DEF TreeInv, PTypeOK
<1>3. PICK l : l = Route(t)[i]
  OBVIOUS
<1>4. l \in Lock
  BY <1>3, RouteParts
<1>5. PICK u \in Thread : mutex[l] = u
  BY <1>1, <1>2, <1>3, <1>4 DEF TreeInv, PTypeOK
<1>6. PICK j \in 1 .. held[u] : Route(u)[j] = l
  BY <1>4, <1>5 DEF LocksHeld
<1>7. call[u] # NoCall /\ held[u] \in Nat /\ held[u] <= Len(Route(u))
  BY <1>6 DEF LocksHeld, TreeInv, PTypeOK
<1>8. j \in 1 .. Len(Route(u)) /\ Len(Route(u)) \in Nat /\ Len(Route(t)) \in Nat
  BY <1>6, <1>7, RouteParts
<1>9. Behind(t, i) = Behind(u, j)
  BY <1>3, <1>6, <1>7, <1>8, BehindSame
<1>10. Behind(u, held[u]) < Behind(t, held[t])
  BY <1>2, <1>6, <1>7, <1>8, <1>9, SMTT(30) DEF Behind
<1> QED BY <1>7, <1>10

\* Who waits for a worker waits for one that is on its way, further down.
LEMMA WorkerBelow ==
  ASSUME TreeInv, WaitInv, NEW t \in Thread, call[t] = NoCall,
         pc[t] \notin Ended \cup {"idle"}, Blocked(t)
  PROVE  \E w \in Thread : /\ pc[w] \notin Ended \cup {"idle"}
                            /\ Rank[Current(w)] < Rank[Current(t)]
<1>1. Active(t) /\ pending[t] # <<>> /\ Current(t) \in Suite
  BY ActiveRuns DEF TreeInv, Active, Ended
<1>2. pc[t] \in {"join", "unwinding"} /\ Current(t) \in Parallel
  BY DEF Blocked, TreeInv, KindInv, KindOK, Waiting
<1>3. PICK p \in Parallel : p = Current(t)
  BY <1>2
<1>4. p \in Suite /\ Sub[p] \in Seq(Suite)
  BY <1>3, SuiteAssumption
<1>5. PICK i \in DOMAIN Sub[p] : pc[SubSuite(p, i)] \notin Ended \cup {"idle"}
  <2>1. CASE pc[t] = "join"
    <3>1. next[t] \in DOMAIN Sub[p] /\ pc[SubSuite(p, next[t])] \notin Ended
      BY <1>3, <1>4, <2>1 DEF Blocked, TreeInv, SuiteInv, TypeOK
    <3>2. pc[SubSuite(p, next[t])] # "idle"
      BY <1>1, <1>3, <2>1, <3>1 DEF WaitInv, StartedOK
    <3> QED BY <3>1, <3>2
  <2>2. CASE pc[t] = "unwinding"
    BY <1>3, <2>2 DEF Blocked, Workers, ToSet, SubSuite
  <2> QED BY <1>2, <2>1, <2>2
<1>6. PICK w \in Thread : w = SubSuite(p, i) /\ pc[w] \notin Ended \cup {"idle"}
  BY <1>5, WorkerFacts
<1>7. Current(w) \in Suite /\ pending[w] # <<>> /\ pending[w] \in Seq(Suite)
  BY <1>6, ActiveRuns DEF TreeInv, Active, Ended
<1>8. Rank[Current(w)] <= Rank[w]
  <2>1. 1 \in DOMAIN pending[w] /\ Current(w) = pending[w][1]
    BY <1>7 DEF Current
  <2> QED BY <2>1 DEF WaitInv, BelowOK
<1>9. Rank[w] < Rank[p] /\ w \in Suite
  BY <1>4, <1>6, RankFalls, ConstantTypes DEF SubSuite
<1>10. Rank[Current(w)] \in Int /\ Rank[w] \in Int /\ Rank[p] \in Int
  BY <1>4, <1>7, <1>9, RankFalls
<1> QED BY <1>3, <1>6, <1>8, <1>9, <1>10

LEMMA Unblocked == TreeInv /\ LocksHeld /\ WaitInv => NoDeadlock
<1> SUFFICES ASSUME TreeInv, LocksHeld, WaitInv, pc[Root] \notin Ended,
                    \A t \in Thread : pc[t] \notin Ended \cup {"idle"} => Blocked(t)
             PROVE  FALSE
  BY DEF NoDeadlock
<1>1. \A t \in Thread : call[t] # NoCall => pc[t] \notin Ended \cup {"idle"}
  BY DEF TreeInv, KindInv, KindOK, Ended
<1>2. \A t \in Thread : call[t] = NoCall
  <2> SUFFICES ASSUME NEW s \in Thread, call[s] # NoCall PROVE FALSE
    OBVIOUS
  <2>1. ASSUME NEW t \in Thread, call[t] # NoCall
        PROVE  Behind(t, held[t]) \in Nat
    BY <2>1, RouteParts DEF LocksHeld, Behind, TreeInv, PTypeOK
  <2> DEFINE T == {Behind(t, held[t]) : t \in {u \in Thread : call[u] # NoCall}}
  <2>2. T \in SUBSET Nat /\ T # {}
    BY <2>1
  <2>3. PICK n \in T : \A m \in T : n <= m
    BY <2>2, LeastNatural
  <2>4. PICK t \in Thread : call[t] # NoCall /\ n = Behind(t, held[t])
    BY <2>3
  <2>5. PICK u \in Thread : call[u] # NoCall /\ Behind(u, held[u]) < Behind(t, held[t])
    BY <1>1, <2>4, OwnerNearer
  <2>6. n <= Behind(u, held[u]) /\ Behind(u, held[u]) \in Nat /\ n \in Nat
    BY <2>1, <2>2, <2>3, <2>5
  <2> QED BY <2>4, <2>5, <2>6
<1>3. pc[Root] \notin Ended \cup {"idle"} /\ Root \in Thread
  BY ConstantTypes DEF WaitInv
<1>4. ASSUME NEW t \in Thread, pc[t] \notin Ended \cup {"idle"}
      PROVE  Rank[Current(t)] \in Nat
  <2>1. Current(t) \in Suite
    BY <1>4, ActiveRuns DEF TreeInv, Active, Ended
  <2> QED BY <2>1, RankFalls
<1> DEFINE T == {Rank[Current(t)] : t \in {u \in Thread : pc[u] \notin Ended \cup {"idle"}}}
<1>5. T \in SUBSET Nat /\ T # {}
  BY <1>3, <1>4
<1>6. PICK n \in T : \A m \in T : n <= m
  BY <1>5, LeastNatural
<1>7. PICK t \in Thread : pc[t] \notin Ended \cup {"idle"} /\ n = Rank[Current(t)]
  BY <1>6
<1>8. PICK w \in Thread : /\ pc[w] \notin Ended \cup {"idle"}
                          /\ Rank[Current(w)] < Rank[Current(t)]
  BY <1>2, <1>7, WorkerBelow
<1>9. n <= Rank[Current(w)] /\ Rank[Current(w)] \in Nat /\ n \in Nat
  BY <1>4, <1>5, <1>6, <1>8
<1> QED BY <1>7, <1>8, <1>9

LEMMA PlacesHoldAlone == PSpec => []PlacesInv
<1>1. TreeInv /\ PlacesInv /\ [PNext]_pvars => PlacesInv'
  BY PlacesStutter, PlacesStep, PStepKinds DEF PNext, PFinished
<1> QED BY <1>1, InitPlaces, TreeInvHolds, PTL DEF PSpec

LEMMA WaitHoldsAlone == PSpec => []WaitInv
<1>1. TreeInv /\ PlacesInv /\ WaitInv /\ [PNext]_pvars => WaitInv'
  BY WaitStutter, WaitStep, PStepKinds DEF PNext, PFinished
<1> QED BY <1>1, InitWait, TreeInvHolds, PlacesHoldAlone, PTL DEF PSpec

\* However the suites are nested and whatever the workers throw, the threads
\* never all wait for each other: neither the mutex of a SynchronizedOutput,
\* taken along the chain of wrappers, nor the get() of a worker's future in
\* ParallelSuite::run can be part of a circle.
THEOREM NobodyWaitsInVain == PSpec => []NoDeadlock
<1> QED BY Unblocked, TreeInvHolds, LocksAreHeld, WaitHoldsAlone, PTL

LEMMA WaitHolds == CSpec => []WaitInv
<1>1. CInit => WaitInv
  BY InitWait DEF CInit
<1>2. TreeInv /\ PlacesInv /\ WaitInv /\ [CNext]_cvars => WaitInv'
  <2>1. UNCHANGED cvars => UNCHANGED pvars
    BY DEF cvars, pvars
  <2> QED BY <2>1, WaitStutter, WaitStep, CStepKinds DEF CNext, CFinished
<1> QED BY <1>1, <1>2, CTreeInvHolds, PlacesHold, PTL DEF CSpec

\* The CollectorOutput behind the mutexes adds no wait of its own: no run with
\* it ends in a circle of waiting threads either.
THEOREM CollectorNeverDeadlocks == CSpec => []NoDeadlock
<1> QED BY Unblocked, CTreeInvHolds, CLocksHold, WaitHolds, PTL

-----------------------------------------------------------------------------
\* What makes currentMethod dangle, and what makes the warning throw.

\* Without assertions in setup() nothing is reported before the first method of
\* a suite, and from then on the pointer is to a record of that suite.
PointerInv ==
  /\ numTests <= 0 => currentMethod = NullMethod
  /\ call[Root].op = "initializeTestMethod" => numTests > 0
  /\ pc[Root] = "setup" => call[Root].op \notin MethodOp
  /\ pc[Root] = "loop" /\ next[Root] # 1 => ~currentMethod.dangling
  /\ pc[Root] = "tear_down" => ~currentMethod.dangling

LEMMA NumTests == numTests \in Nat
BY SuiteAssumption DEF numTests, filterTests

LEMMA PointerStep ==
  ASSUME Parallel = {}, "setup" \notin AssertsIn, TreeInv, PlainInv, PointerInv,
         SuiteStep(Root), UNCHANGED collector
  PROVE  PointerInv'
<1>1. /\ Root \in Thread /\ call \in [Thread -> OutputCall] /\ pc \in [Thread -> PC]
      /\ next \in [Thread -> Nat \ {0}] /\ call[Root] = NoCall
  BY ConstantTypes, SuiteStepEffect DEF TreeInv, SuiteInv, TypeOK
<1>2. currentMethod' = currentMethod
  BY DEF collector
<1>3. call[Root].op \notin MethodOp \cup {"initializeTestMethod"}
  BY <1>1 DEF NoCall, MethodOp
<1>4. pc[Root] \in MethodPC => ~currentMethod.dangling
  BY DEF PlainInv, FiledInv, FiledAt
<1> USE DEF At, Goto, Issue
<1>5. ASSUME NEW op \in {"printSuccess", "printFailure"}, NEW then,
             Report(Root, op, then), pc[Root] # "setup"
      PROVE  PointerInv'
  <2>1. UNCHANGED <<pc, next>> /\ call'[Root].op = op
    BY <1>1, <1>5 DEF Report
  <2> QED BY <1>2, <1>5, <2>1 DEF PointerInv
<1>6. CASE UserCode(Root)
  <2>1. CASE BodyThrows(Root)
    <3>1. pc'[Root] = "catch" /\ call'[Root].op = "printException"
      BY <1>1, <2>1 DEF BodyThrows
    <3> QED BY <1>2, <3>1 DEF PointerInv
  <2>2. CASE HookThrows(Root)
    <3>1. pc'[Root] = "unwound" /\ call' = call
      BY <1>1, <2>2 DEF HookThrows
    <3> QED BY <1>2, <1>3, <3>1 DEF PointerInv
  <2>3. CASE MacroCatches(Root)
    BY <1>5, <2>3 DEF MacroCatches
  <2>4. CASE ExpectThrowFails(Root)
    BY <1>5, <2>4 DEF ExpectThrowFails
  <2>5. CASE AssertHolds(Root) \/ AssertFails(Root) \/ Aborts(Root)
    BY <1>5, <2>5 DEF AssertHolds, AssertFails, Aborts, MayAssert
  <2> QED BY <1>6, <2>1, <2>2, <2>3, <2>4, <2>5 DEF UserCode
<1>7. CASE StartRun(Root)
  <2>1. pc'[Root] = "run" /\ call'[Root].op = "initializeSuite"
    BY <1>1, <1>7 DEF StartRun
  <2> QED BY <1>2, <2>1 DEF PointerInv
<1>8. CASE SetupReturns(Root)
  <2>1. /\ next' = next /\ next[Root] = 1 /\ pc'[Root] \in {"loop", "setup"}
        /\ call'[Root].op \in {"none", "finishSuite"}
    BY <1>1, <1>8 DEF SetupReturns, NoCall, PlainInv, FiledInv, FiledAt
  <2> QED BY <1>1, <1>2, <2>1 DEF PointerInv, MethodOp
<1>9. CASE StartMethod(Root)
  <2>1. /\ next' = next /\ pc' = pc /\ call'[Root].op = "initializeTestMethod"
        /\ pc[Root] = "loop" /\ numTests > 0
    BY <1>1, <1>9, NumTests DEF StartMethod
  <2> QED BY <1>2, <2>1 DEF PointerInv
<1>10. CASE BeforeReturns(Root) \/ BodyReturns(Root) \/ AfterReturns(Root) \/ CountMethod(Root)
  <2>1. /\ pc[Root] \in MethodPC /\ pc'[Root] \notin {"setup", "tear_down"}
        /\ call'[Root].op \in {"none", "finishTestMethod"}
    BY <1>1, <1>10 DEF BeforeReturns, BodyReturns, AfterReturns, CountMethod, NoCall,
       MethodPC
  <2> QED BY <1>2, <1>4, <2>1 DEF PointerInv
<1>11. CASE EndLoop(Root)
  <2>1. /\ pc[Root] = "loop" /\ pc'[Root] = "tear_down" /\ call' = call
        /\ next[Root] > numTests
    BY <1>1, <1>11 DEF EndLoop
  <2>2. ~currentMethod.dangling
    BY <1>1, <2>1, NumTests DEF PointerInv, NullMethod
  <2> QED BY <1>2, <1>3, <2>1, <2>2 DEF PointerInv
<1>12. CASE TearDownReturns(Root)
  <2>1. pc[Root] = "tear_down" /\ pc' = pc /\ call'[Root].op = "finishSuite"
    BY <1>1, <1>12 DEF TearDownReturns
  <2> QED BY <1>2, <2>1 DEF PointerInv
<1>13. CASE RunSubSuites(Root)
  <2>1. pc'[Root] \in {"run", "returned"} /\ call' = call
    BY <1>1, <1>13 DEF RunSubSuites, FinishHead
  <2> QED BY <1>2, <1>3, <2>1 DEF PointerInv
<1> QED BY <1>6, <1>7, <1>8, <1>9, <1>10, <1>11, <1>12, <1>13 DEF SuiteStep

LEMMA PointerReturn ==
  ASSUME TreeInv, ColTypes, PlainInv, PointerInv, PCallReturns(Root), Record(Root)
  PROVE  PointerInv'
<1>1. /\ Root \in Thread /\ call \in [Thread -> OutputCall] /\ pc \in [Thread -> PC]
  BY ConstantTypes DEF TreeInv, SuiteInv, TypeOK
<1>2. /\ call[Root] # NoCall /\ pc'[Root] = call[Root].then /\ call'[Root] = NoCall
      /\ next' = next
  BY <1>1 DEF PCallReturns, CallReturns, Goto, locals
<1>3. CallPlace(pc[Root], call[Root])
  BY <1>2 DEF PlainInv, PlaceInv
<1>4. call'[Root].op \notin MethodOp \cup {"initializeTestMethod"}
  BY <1>2 DEF NoCall, MethodOp
<1>5. CASE InitializeSuite(Root)
  <2>1. pc'[Root] = "setup"
    BY <1>2, <1>3, <1>5 DEF CallPlace, InitializeSuite
  <2>2. currentMethod = NullMethod => currentMethod' = NullMethod
    BY <1>5 DEF InitializeSuite
  <2> QED BY <1>4, <2>1, <2>2 DEF PointerInv
<1>6. CASE FinishSuite(Root)
  <2>1. pc'[Root] = "subs" /\ currentMethod' = currentMethod
    BY <1>2, <1>3, <1>6 DEF CallPlace, FinishSuite
  <2> QED BY <1>4, <2>1 DEF PointerInv
<1>7. CASE InitializeTestMethod(Root)
  <2>1. pc'[Root] = "before" /\ numTests > 0
    BY <1>2, <1>3, <1>7 DEF CallPlace, InitializeTestMethod, PointerInv
  <2> QED BY <1>4, <2>1, NumTests DEF PointerInv
<1>8. CASE RecordOnMethod(Root)
  <2>1. currentMethod' = currentMethod /\ call[Root].op \in MethodOp
    BY <1>8 DEF RecordOnMethod
  <2>2. pc'[Root] \notin {"setup", "loop"} /\ (pc'[Root] = "tear_down" => pc[Root] = "tear_down")
    BY <1>2, <1>3, <2>1 DEF CallPlace, MethodOp, PointerInv
  <2> QED BY <1>4, <2>1, <2>2 DEF PointerInv
<1> QED BY <1>5, <1>6, <1>7, <1>8 DEF Record

\* Where no suite is parallel and no setup() asserts, no result is ever written
\* through a dangling currentMethod, however often the vector of suites moves
\* and whatever the other hooks do.
THEOREM PointerLives ==
  ASSUME Parallel = {}, "setup" \notin AssertsIn
  PROVE  CSpec => []MethodPointerValid
<1>1. CInit => PointerInv
  <2> SUFFICES ASSUME CInit PROVE PointerInv
    OBVIOUS
  <2>1. pc[Root] = "run" /\ call[Root].op = "none" /\ currentMethod = NullMethod
    BY ConstantTypes DEF CInit, PInit, Init, NoCall
  <2> QED BY <2>1 DEF PointerInv
<1>2. TreeInv /\ ColTypes /\ PlainInv /\ PointerInv /\ [CNext]_cvars => PointerInv'
  <2> SUFFICES ASSUME TreeInv, ColTypes, PlainInv, PointerInv, [CNext]_cvars PROVE PointerInv'
    OBVIOUS
  <2>1. UNCHANGED vars /\ UNCHANGED collector => PointerInv'
    BY DEF vars, locals, collector, PointerInv
  <2>2. CASE UNCHANGED cvars
    BY <2>1, <2>2 DEF cvars, pvars
  <2>3. CASE InvalidTestMethod(Root)
    <3>1. pc'[Root] = "unwound" /\ call'[Root] = NoCall /\ currentMethod' = currentMethod
      BY <2>3, ConstantTypes DEF InvalidTestMethod, Goto, TreeInv, SuiteInv, TypeOK, collector
    <3> QED BY <3>1 DEF PointerInv, NoCall
  <2>4. ASSUME NEW t \in Thread, CStep(t)
        PROVE  PointerInv'
    <3>1. pc[Root] # "warn"
      BY DEF PlainInv, PlaceInv
    <3> QED BY <2>1, <2>3, <2>4, <3>1, PlainSteps, PointerStep, PointerReturn DEF Acquire
  <2> QED BY <2>2, <2>4 DEF CNext, CFinished
<1>3. PlainInv /\ PointerInv => MethodPointerValid
  <2> SUFFICES ASSUME PlainInv, PointerInv, call[Root] # NoCall, call[Root].op \in MethodOp
               PROVE  ~currentMethod.dangling
    BY OnlyRoot DEF MethodPointerValid, Inside
  <2>1. CallPlace(pc[Root], call[Root])
    BY DEF PlainInv, PlaceInv
  <2>2. pc[Root] \in MethodPC \cup {"tear_down"}
    BY <2>1 DEF PointerInv, CallPlace, MethodOp, MethodPC
  <2> QED BY <2>2 DEF PlainInv, FiledInv, FiledAt, PointerInv
<1> QED BY <1>1, <1>2, <1>3, CTreeInvHolds, ColTypesHold, PlainInvHolds, PTL DEF CSpec

\* Where nothing asserts, throws or warns, finishTestMethod is the only call
\* about a method, and it is made in a test method, after initializeTestMethod.
Unwarned(t) ==
  /\ pc[t] \notin {"unwound", "unwinding", "catch", "handler"}
  /\ call[t].then \notin {"unwound", "unwinding", "catch", "handler", "warn"}
  /\ pc[t] = "warn" => Current(t) \in Parallel
  /\ call[t].op \in MethodOp => pc[t] \in MethodPC
  /\ pc[t] \in MethodPC => currentMethod # NullMethod
  /\ call[t].then \in MethodPC => pc[t] \in MethodPC \/ call[t].op = "initializeTestMethod"

UnwarnedInv == \A t \in Thread : Unwarned(t)

LEMMA UnwarnedLocal ==
  ASSUME AssertsIn = {}, ThrowsIn = {}, ~AsyncFails,
         \A p \in Parallel : Own[p] = <<>>,
         TreeInv, UnwarnedInv, NEW t \in Thread, PLocalStep(t), ~Spawn(t), UNCHANGED collector
  PROVE  Unwarned(t)'
<1>1. /\ call \in [Thread -> OutputCall] /\ pc \in [Thread -> PC] /\ Unwarned(t)
      /\ KindOK(t) /\ currentMethod' = currentMethod
  BY DEF TreeInv, SuiteInv, TypeOK, UnwarnedInv, KindInv, collector
<1>2. call[t] = NoCall => /\ call[t].then \notin {"unwound", "unwinding", "catch", "handler"}
                          /\ call[t].then \notin MethodPC /\ call[t].op \notin MethodOp
  BY DEF NoCall, MethodPC, MethodOp
<1> USE DEF At, Goto, Issue
<1>3. CASE UserCode(t)
  <2>1. ~MayAssert(t)
    BY DEF MayAssert
  <2>2. pc[t] # "handler"
    BY <1>1 DEF Unwarned
  <2> QED BY <1>3, <2>1, <2>2 DEF UserCode, AssertHolds, AssertFails, Aborts, ExpectThrowFails,
          MacroCatches, BodyThrows, HookThrows
<1>4. CASE StartRun(t) \/ PStartRun(t)
  <2>1. pc' = pc /\ pc[t] = "run" /\ call'[t].op = "initializeSuite" /\ call'[t].then = "setup"
    BY <1>1, <1>4 DEF StartRun, PStartRun
  <2> QED BY <1>1, <2>1 DEF Unwarned, MethodPC, MethodOp
<1>5. CASE SetupReturns(t) \/ PSetupReturns(t)
  <2>1. /\ pc'[t] \in {"setup", "loop", "warn"}
        /\ pc'[t] = "warn" => Current(t)' \in Parallel
        /\ \/ call'[t] = NoCall
           \/ call'[t].op = "finishSuite" /\ call'[t].then \in {"subs", "spawn"}
    BY <1>1, <1>5 DEF SetupReturns, PSetupReturns, IsParallel, Current
  <2> QED BY <1>1, <2>1 DEF Unwarned, MethodPC, MethodOp, NoCall
<1>6. CASE StartMethod(t)
  <2>1. /\ pc' = pc /\ pc[t] = "loop" /\ call'[t].op = "initializeTestMethod"
        /\ call'[t].then = "before"
    BY <1>1, <1>6 DEF StartMethod
  <2> QED BY <1>1, <2>1 DEF Unwarned, MethodPC, MethodOp
<1>7. CASE BeforeReturns(t) \/ BodyReturns(t) \/ CountMethod(t)
  <2>1. /\ pc'[t] \in {"body", "loop", "after"} /\ call'[t] = NoCall
        /\ pc[t] \in MethodPC
    BY <1>1, <1>7 DEF BeforeReturns, BodyReturns, CountMethod, MethodPC
  <2> QED BY <1>1, <2>1 DEF Unwarned, MethodPC, MethodOp, NoCall
<1>8. CASE AfterReturns(t)
  <2>1. pc[t] = "after"
    BY <1>8 DEF AfterReturns
  <2>2. \/ pc'[t] = "counted" /\ call'[t] = NoCall
        \/ pc' = pc /\ call'[t].op = "finishTestMethod" /\ call'[t].then = "counted"
    BY <1>1, <1>8 DEF AfterReturns
  <2> QED BY <1>1, <2>1, <2>2 DEF Unwarned, MethodPC, MethodOp, NoCall
<1>9. CASE EndLoop(t) \/ Warn(t)
  <2>1. pc[t] = "warn" => Current(t) \in Parallel
    BY <1>1 DEF Unwarned
  <2>2. pc'[t] = "tear_down" /\ call'[t] = NoCall
    BY <1>1, <1>9, <2>1 DEF EndLoop, Warn
  <2> QED BY <1>1, <2>2 DEF Unwarned, MethodPC, MethodOp, NoCall
<1>10. CASE TearDownReturns(t) \/ PTearDownReturns(t)
  <2>1. /\ pc' = pc /\ pc[t] = "tear_down" /\ call'[t].op = "finishSuite"
        /\ call'[t].then \in {"subs", "spawn"}
    BY <1>1, <1>10 DEF TearDownReturns, PTearDownReturns
  <2> QED BY <1>1, <2>1 DEF Unwarned, MethodPC, MethodOp
<1>11. CASE RunSubSuites(t) \/ AllJoined(t) \/ AllSpawned(t)
  <2>1. pc'[t] \in {"run", "returned", "join"} /\ call'[t] = NoCall
    BY <1>1, <1>11 DEF RunSubSuites, AllJoined, AllSpawned, FinishHead
  <2> QED BY <1>1, <2>1 DEF Unwarned, MethodPC, MethodOp, NoCall
<1>12. CASE Join(t)
  <2>1. pc[t] = "join" /\ next[t] <= Len(Sub[Current(t)]) /\ call' = call /\ call[t] = NoCall
    BY <1>12 DEF Join
  <2>2. SubSuite(Current(t), next[t]) \in Thread
    <3>1. Current(t) \in Parallel
      BY <1>1, <2>1 DEF KindOK, Waiting
    <3>2. next[t] \in DOMAIN Sub[Current(t)]
      BY <2>1, <3>1, SuiteAssumption DEF TreeInv, SuiteInv, TypeOK
    <3> QED BY <3>1, <3>2, WorkerFacts
  <2>3. pc' = pc
    BY <1>12, <2>2 DEF Join, UnwarnedInv, Unwarned
  <2> QED BY <1>1, <2>1, <2>3 DEF Unwarned
<1>13. CASE SpawnThrows(t) \/ Unwind(t)
  BY <1>1, <1>13 DEF SpawnThrows, Unwind, Unwarned
<1>14. CASE Acquire(t)
  BY <1>1, <1>14 DEF Acquire, vars, locals, Unwarned, Current
<1> QED BY <1>3, <1>4, <1>5, <1>6, <1>7, <1>8, <1>9, <1>10, <1>11, <1>12, <1>13, <1>14
        DEF PLocalStep, SuiteStep, ParallelStep

\* The collector forgets no method.
LEMMA MethodStaysKnown ==
  ASSUME NEW t \in Thread, Record(t), currentMethod # NullMethod, ColTypes
  PROVE  currentMethod' # NullMethod
<1>1. currentMethod.suite # 0
  BY DEF ColTypes
<1>2. CASE InitializeSuite(t)
  BY <1>1, <1>2 DEF InitializeSuite, ColTypes, MethodPointer, NullMethod
<1>3. CASE InitializeTestMethod(t)
  BY <1>3 DEF InitializeTestMethod, NullMethod
<1> QED BY <1>2, <1>3 DEF Record, FinishSuite, RecordOnMethod

LEMMA UnwarnedReturn ==
  ASSUME TreeInv, ColTypes, UnwarnedInv, NEW t \in Thread, PCallReturns(t), Record(t)
  PROVE  Unwarned(t)'
<1>1. /\ call \in [Thread -> OutputCall] /\ pc \in [Thread -> PC] /\ Unwarned(t)
  BY DEF TreeInv, SuiteInv, TypeOK, UnwarnedInv
<1>2. pc'[t] = call[t].then /\ call'[t] = NoCall
  BY <1>1 DEF PCallReturns, CallReturns, Goto
<1>3. call'[t].op \notin MethodOp /\ call'[t].then = "run"
  BY <1>2 DEF NoCall, MethodOp
<1>4. pc'[t] \in MethodPC => currentMethod' # NullMethod
  <2>1. CASE pc[t] \in MethodPC
    BY <1>1, <2>1, MethodStaysKnown DEF Unwarned
  <2>2. CASE call[t].op = "initializeTestMethod"
    <3>1. InitializeTestMethod(t)
      BY <2>2 DEF Record, InitializeSuite, FinishSuite, RecordOnMethod, MethodOp
    <3> QED BY <3>1 DEF InitializeTestMethod, NullMethod
  <2> QED BY <1>1, <1>2, <2>1, <2>2 DEF Unwarned
<1> QED BY <1>1, <1>2, <1>3, <1>4 DEF Unwarned, MethodPC

LEMMA UnwarnedStep ==
  ASSUME AssertsIn = {}, ThrowsIn = {}, ~AsyncFails,
         \A p \in Parallel : Own[p] = <<>>,
         TreeInv, ColTypes, UnwarnedInv, NEW t \in Thread, CStep(t)
  PROVE  UnwarnedInv'
<1>1. /\ call \in [Thread -> OutputCall] /\ pc \in [Thread -> PC]
      /\ pending \in [Thread -> Seq(Suite)]
  BY DEF TreeInv, SuiteInv, TypeOK
<1>2. ASSUME NEW u \in Thread, pc'[u] = pc[u], call'[u] = call[u],
             pending'[u] = pending[u],
             currentMethod # NullMethod => currentMethod' # NullMethod
      PROVE  Unwarned(u)'
  BY <1>2 DEF UnwarnedInv, Unwarned, Current
<1>3. CASE PLocalStep(t) /\ ~Spawn(t) /\ UNCHANGED collector
  <2>1. Unwarned(t)'
    BY <1>3, UnwarnedLocal
  <2>2. \A u \in Thread \ {t} : /\ pc'[u] = pc[u] /\ call'[u] = call[u]
                               /\ pending'[u] = pending[u]
    BY <1>3, PStepKinds, QuietEffect DEF PStep, Alone
  <2>3. currentMethod' = currentMethod
    BY <1>3 DEF collector
  <2> QED BY <1>2, <2>1, <2>2, <2>3 DEF UnwarnedInv
<1>4. CASE Spawn(t) /\ UNCHANGED collector
  <2>1. PICK w : w = SubSuite(Current(t), next[t])
    OBVIOUS
  <2>2. /\ w \in Thread /\ call[w] = NoCall /\ call' = call
        /\ pc' = [pc EXCEPT ![w] = "run"] /\ pending' = [pending EXCEPT ![w] = <<w>>]
    BY <1>4, <2>1, SpawnEffect
  <2>3. currentMethod' = currentMethod
    BY <1>4 DEF collector
  <2>4. Unwarned(w)'
    <3>1. pc'[w] = "run" /\ call'[w] = NoCall
      BY <1>1, <2>2
    <3> QED BY <3>1 DEF Unwarned, NoCall, MethodOp, MethodPC
  <2>5. \A u \in Thread \ {w} : /\ pc'[u] = pc[u] /\ call'[u] = call[u]
                               /\ pending'[u] = pending[u]
    BY <1>1, <2>2
  <2> QED BY <1>2, <2>3, <2>4, <2>5 DEF UnwarnedInv
<1>5. CASE PCallReturns(t) /\ Record(t)
  <2>1. Unwarned(t)'
    BY <1>5, UnwarnedReturn
  <2>2. \A u \in Thread \ {t} : /\ pc'[u] = pc[u] /\ call'[u] = call[u]
                               /\ pending'[u] = pending[u]
    BY <1>5, QuietEffect DEF QuietStep, Alone
  <2> QED BY <1>2, <1>5, <2>1, <2>2, MethodStaysKnown DEF UnwarnedInv
<1>6. ~InvalidTestMethod(t)
  BY DEF InvalidTestMethod, UnwarnedInv, Unwarned
<1> QED BY <1>3, <1>4, <1>5, <1>6 DEF CStep, PLocalStep, ParallelStep

\* If no ParallelSuite of the tree has a method of its own, no run() throws where
\* nothing asserts or throws and every thread starts: of all that is reported
\* then, CollectorOutput rejects only the warning.
THEOREM QuietRunsReturn ==
  ASSUME \A p \in Parallel : Own[p] = <<>>
  PROVE  CSpec => []WarningOnly
<1>1. CASE ~(AssertsIn = {} /\ ThrowsIn = {} /\ ~AsyncFails)
  <2>1. WarningOnly
    BY <1>1 DEF WarningOnly
  <2> QED BY <2>1, PTL
<1>2. CASE AssertsIn = {} /\ ThrowsIn = {} /\ ~AsyncFails
  <2>1. CInit => UnwarnedInv
    <3> SUFFICES ASSUME CInit, NEW t \in Thread PROVE Unwarned(t)
      BY DEF UnwarnedInv
    <3>1. pc[t] \in {"run", "idle"} /\ call[t] = NoCall
      BY DEF CInit, PInit, Init
    <3> QED BY <3>1 DEF Unwarned, NoCall, MethodOp, MethodPC
  <2>2. TreeInv /\ ColTypes /\ UnwarnedInv /\ [CNext]_cvars => UnwarnedInv'
    <3>1. UnwarnedInv /\ UNCHANGED cvars => UnwarnedInv'
      BY DEF cvars, pvars, vars, locals, collector, UnwarnedInv, Unwarned, Current
    <3> QED BY <1>2, <3>1, UnwarnedStep DEF CNext, CFinished
  <2>3. UnwarnedInv => WarningOnly
    BY DEF UnwarnedInv, Unwarned, WarningOnly
  <2> QED BY <2>1, <2>2, <2>3, CTreeInvHolds, ColTypesHold, PTL DEF CSpec
<1> QED BY <1>1, <1>2

=============================================================================
