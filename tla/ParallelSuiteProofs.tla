------------------------- MODULE ParallelSuiteProofs -------------------------
(***************************************************************************)
(* Proofs about module ParallelSuite, for every tree of suites, however    *)
(* ParallelSuites are nested in it, and every behaviour of user code.      *)
(***************************************************************************)
EXTENDS ParallelSuite, TestSuiteProofs

\* Where a thread waits for, or may still have, workers.
Waiting == {"spawn", "join", "unwinding"}

\* The thread every suite runs on.
Home == CHOOSE home \in [Suite -> Thread] : IsHome(home)

LEMMA HomeMaps == Home \in [Suite -> Thread] /\ IsHome(Home)
BY ParallelAssumption DEF Home

LEMMA WorkerFacts ==
  ASSUME NEW p \in Parallel, NEW i \in DOMAIN Sub[p]
  PROVE  /\ p \in Suite
         /\ SubSuite(p, i) \in Thread \ {Root}
         /\ SubSuite(p, i) \in Suite
         /\ SubSuite(p, i) \in Workers(p)
         /\ Home[SubSuite(p, i)] = SubSuite(p, i)
         /\ \A q \in Parallel : \A j \in DOMAIN Sub[q] :
              SubSuite(p, i) = SubSuite(q, j) => p = q /\ i = j
<1>1. p \in Suite /\ Sub[p] \in Seq(Suite)
  BY SuiteAssumption
<1>2. SubSuite(p, i) \in Suite /\ SubSuite(p, i) \in Workers(p)
  BY <1>1 DEF SubSuite, Workers, ToSet
<1>3. SubSuite(p, i) \in Thread
  BY DEF SubSuite, Thread
<1>4. SubSuite(p, i) # Root
  BY <1>2, ParallelAssumption DEF Workers
<1>5. Home[SubSuite(p, i)] = SubSuite(p, i)
  BY <1>1, HomeMaps DEF IsHome
<1> QED BY <1>1, <1>2, <1>3, <1>4, <1>5, ParallelAssumption

-----------------------------------------------------------------------------
\* The strengthening.

\* A thread is at a place of ParallelSuite::run only with a ParallelSuite at
\* hand, and runs sub-suites itself only for the others; who waits does not call.
KindOK(t) ==
  /\ pc[t] \in Waiting => Current(t) \in Parallel
  /\ pc[t] = "subs" => Current(t) \notin Parallel
  /\ call[t] # NoCall =>
       /\ pc[t] \notin Waiting \cup {"unwound", "idle", "returned"}
       /\ call[t].then \in Waiting => Current(t) \in Parallel
       /\ call[t].then = "subs" => Current(t) \notin Parallel
KindInv == \A t \in Thread : KindOK(t)

\* A thread runs its own suites only.
HomeInv == \A t \in Thread : \A i \in DOMAIN pending[t] : Home[pending[t][i]] = t

\* The run() of p is not over, and will not go on as long as a worker runs.
Waits(p) ==
  /\ pending[Home[p]] # <<>> /\ Current(Home[p]) = p
  /\ pc[Home[p]] \in Waiting \cup {"unwound"}

\* A worker that was started and has not returned is one that the ParallelSuite
\* has started in this run() and has not joined yet; it has ended when that
\* run() was left by an exception.
WorkerOK(p, i) ==
  Active(SubSuite(p, i)) =>
    /\ Waits(p)
    /\ pc[Home[p]] = "spawn" => i < next[Home[p]]
    /\ pc[Home[p]] = "join" => i >= next[Home[p]]
    /\ pc[Home[p]] = "unwound" => pc[SubSuite(p, i)] = "unwound"
WorkersInv == \A p \in Parallel : \A i \in DOMAIN Sub[p] : WorkerOK(p, i)

\* The wrappers of a thread lead up the tree: each is for the ParallelSuite
\* that started the thread the one before it is for, and the last is Root's.
Depth(t) == Len(chain[t]) - Len(OuterChain)
Walker(t, j) == IF j = 1 THEN t ELSE Home[chain[t][j - 1]]
WalkOK(t) ==
  /\ Depth(t) >= 1
  /\ \A j \in 1 .. Depth(t) :
       /\ chain[t][j] \in Parallel
       /\ Waits(chain[t][j])
       /\ Walker(t, j) \in Workers(chain[t][j])
  /\ Home[chain[t][Depth(t)]] = Root
WalkInv ==
  /\ chain[Root] = OuterChain
  /\ \A t \in Thread \ {Root} : Active(t) => WalkOK(t)

TreeInv == SuiteInv /\ PTypeOK /\ KindInv /\ HomeInv /\ WorkersInv /\ WalkInv

-----------------------------------------------------------------------------
\* What the steps do to the threads.

\* Only t moves.
Alone(t) ==
  \A u \in Thread \ {t} : /\ pending'[u] = pending[u] /\ pc'[u] = pc[u]
                          /\ next'[u] = next[u] /\ call'[u] = call[u]

LEMMA UserCodeEffect ==
  ASSUME SuiteInv, NEW t \in Thread, UserCode(t)
  PROVE  /\ pc[t] \in UserPlace \cup {"handler"} /\ call[t] = NoCall
         /\ Alone(t) /\ pending' = pending
         /\ pc'[t] \in {pc[t], "catch", "unwound"}
         /\ call'[t] # NoCall => /\ pc'[t] \in UserPlace \cup {"handler", "catch"}
                                 /\ call'[t].then \notin Waiting \cup {"subs"}
<1>1. pc[t] \in UserPlace \cup {"handler"} /\ call[t] = NoCall
  BY DEF UserCode, AssertHolds, AssertFails, Aborts, ExpectThrowFails,
     MacroCatches, BodyThrows, HookThrows, InUserCode, At, UserPlace
<1>2. /\ pc \in [Thread -> PC] /\ next \in [Thread -> Nat \ {0}]
      /\ call \in [Thread -> OutputCall]
  BY DEF SuiteInv, TypeOK
<1>3. ASSUME NEW op \in OutputOp, NEW then, Report(t, op, then),
             then \in UserPlace \cup {"handler", "after", "unwound"}
      PROVE  /\ Alone(t) /\ pending' = pending /\ pc'[t] = pc[t]
             /\ call'[t].then \notin Waiting \cup {"subs"}
  BY <1>2, <1>3 DEF Report, Issue, Alone, Waiting, UserPlace
<1>4. CASE AssertHolds(t)
  BY <1>1, <1>3, <1>4 DEF AssertHolds, OutputOp
<1>5. CASE AssertFails(t)
  BY <1>1, <1>3, <1>5 DEF AssertFails, WhereFailureGoesOn, OutputOp, UserPlace
<1>6. CASE Aborts(t)
  <2>1. PICK then \in WhereAbortGoesOn(pc[t]) : Report(t, "printFailure", then)
    BY <1>6 DEF Aborts
  <2> QED BY <1>1, <1>3, <2>1 DEF WhereAbortGoesOn, OutputOp, UserPlace
<1>7. CASE ExpectThrowFails(t)
  BY <1>1, <1>3, <1>7 DEF ExpectThrowFails, OutputOp, UserPlace
<1>8. CASE MacroCatches(t)
  <2>1. \/ Report(t, "printFailure", WhereFailureGoesOn("body"))
        \/ Report(t, "printSuccess", "body")
    BY <1>8 DEF MacroCatches
  <2> QED BY <1>1, <1>3, <2>1 DEF WhereFailureGoesOn, OutputOp, UserPlace
<1>9. CASE BodyThrows(t)
  BY <1>1, <1>2, <1>9 DEF BodyThrows, Goto, Issue, Alone, Waiting
<1>10. CASE HookThrows(t)
  BY <1>1, <1>2, <1>10 DEF HookThrows, Goto, Alone, locals
<1> QED BY <1>4, <1>5, <1>6, <1>7, <1>8, <1>9, <1>10 DEF UserCode

LEMMA SuiteStepEffect ==
  ASSUME SuiteInv, NEW t \in Thread, SuiteStep(t)
  PROVE  /\ Active(t) /\ call[t] = NoCall /\ pc[t] \notin Waiting \cup {"unwound"}
         /\ Alone(t)
         /\ \/ /\ pending' = pending
               /\ pc'[t] \notin Waiting \cup {"subs", "idle", "returned"}
               /\ call'[t] # NoCall =>
                    /\ pc'[t] # "unwound"
                    /\ call'[t].then \notin Waiting
                    /\ call'[t].then = "subs" => Current(t) \notin Parallel
            \/ /\ pc[t] = "subs" /\ call'[t] = NoCall
               /\ FinishHead(t, Sub[Current(t)])
<1>1. Active(t) /\ call[t] = NoCall
  BY StepsActive
<1>2. /\ pc \in [Thread -> PC] /\ next \in [Thread -> Nat \ {0}]
      /\ call \in [Thread -> OutputCall] /\ pending \in [Thread -> Seq(Suite)]
  BY DEF SuiteInv, TypeOK
<1> USE DEF Waiting, Alone, At
<1>3. CASE UserCode(t)
  BY <1>1, <1>3, UserCodeEffect DEF UserPlace, Active
<1>4. CASE StartRun(t)
  BY <1>1, <1>2, <1>4 DEF StartRun, Issue
<1>5. CASE SetupReturns(t)
  BY <1>1, <1>2, <1>5 DEF SetupReturns, Issue, Goto, IsPlain
<1>6. CASE StartMethod(t)
  BY <1>1, <1>2, <1>6 DEF StartMethod, Issue
<1>7. CASE BeforeReturns(t)
  BY <1>1, <1>2, <1>7 DEF BeforeReturns, Goto
<1>8. CASE BodyReturns(t)
  BY <1>1, <1>2, <1>8 DEF BodyReturns, Goto
<1>9. CASE AfterReturns(t)
  BY <1>1, <1>2, <1>9 DEF AfterReturns, Goto, Issue
<1>10. CASE CountMethod(t)
  BY <1>1, <1>2, <1>10 DEF CountMethod, Goto
<1>11. CASE EndLoop(t)
  BY <1>1, <1>2, <1>11 DEF EndLoop, Goto, locals
<1>12. CASE TearDownReturns(t)
  BY <1>1, <1>2, <1>12 DEF TearDownReturns, Issue, Goto, IsPlain
<1>13. CASE RunSubSuites(t)
  BY <1>1, <1>2, <1>13 DEF RunSubSuites, FinishHead, Goto
<1> QED BY <1>3, <1>4, <1>5, <1>6, <1>7, <1>8, <1>9, <1>10, <1>11, <1>12, <1>13
        DEF SuiteStep

\* The steps of ParallelSuite::run that start no worker.
LocalParallelStep(t) ==
  \/ PStartRun(t) \/ PSetupReturns(t) \/ Warn(t) \/ PTearDownReturns(t)
  \/ SpawnThrows(t) \/ AllSpawned(t) \/ Join(t) \/ AllJoined(t) \/ Unwind(t)

LEMMA ParallelStepEffect ==
  ASSUME TreeInv, NEW t \in Thread, LocalParallelStep(t)
  PROVE  /\ Active(t) /\ call[t] = NoCall /\ pc[t] # "unwound"
         /\ Alone(t) /\ UNCHANGED locks
         /\ \/ /\ pending' = pending
               /\ pc'[t] \notin {"subs", "idle", "returned"}
               /\ call'[t] # NoCall =>
                    /\ pc'[t] \notin Waiting \cup {"unwound"}
                    /\ call'[t].then # "subs"
                    /\ call'[t].then \in Waiting => Current(t) \in Parallel
               /\ pc[t] \in Waiting => /\ pc'[t] \in Waiting \cup {"unwound"}
                                      /\ call'[t] = NoCall
                                      /\ Current(t) \in Parallel
               /\ pc[t] \notin Waiting => pc'[t] \notin Waiting \cup {"unwound"}
            \/ /\ pc[t] = "join" /\ AllJoined(t) /\ call'[t] = NoCall
               /\ FinishHead(t, <<>>)
<1>1. /\ pc \in [Thread -> PC] /\ next \in [Thread -> Nat \ {0}]
      /\ call \in [Thread -> OutputCall] /\ pending \in [Thread -> Seq(Suite)]
  BY DEF TreeInv, SuiteInv, TypeOK
<1>2. pc[t] \in Waiting => Current(t) \in Parallel
  BY DEF TreeInv, KindInv, KindOK
<1> USE DEF Waiting, Alone, At, Active, IsParallel
<1>3. CASE PStartRun(t)
  BY <1>1, <1>3 DEF PStartRun, Issue, locals
<1>4. CASE PSetupReturns(t)
  BY <1>1, <1>4 DEF PSetupReturns, Issue, Goto
<1>5. CASE Warn(t)
  BY <1>1, <1>2, <1>5 DEF Warn, Issue, Goto, locals
<1>6. CASE PTearDownReturns(t)
  BY <1>1, <1>6 DEF PTearDownReturns, Issue
<1>7. CASE SpawnThrows(t)
  BY <1>1, <1>2, <1>7 DEF SpawnThrows, Goto, locals
<1>8. CASE AllSpawned(t)
  BY <1>1, <1>2, <1>8 DEF AllSpawned, Goto
<1>9. CASE Join(t)
  BY <1>1, <1>2, <1>9 DEF Join, Goto
<1>10. CASE AllJoined(t)
  BY <1>1, <1>2, <1>10 DEF AllJoined, FinishHead, Goto
<1>11. CASE Unwind(t)
  BY <1>1, <1>2, <1>11 DEF Unwind, Goto, locals
<1> QED BY <1>3, <1>4, <1>5, <1>6, <1>7, <1>8, <1>9, <1>10, <1>11
        DEF LocalParallelStep

\* A call of the Output that ends in an exception, which leaves run().
Escapes(t) ==
  /\ call[t] # NoCall
  /\ Goto(t, "unwound")
  /\ call' = [call EXCEPT ![t] = NoCall]
  /\ Release(t)
  /\ UNCHANGED <<locals, members>>

QuietStep(t) ==
  \/ SuiteStep(t) /\ UNCHANGED locks
  \/ LocalParallelStep(t) \/ Acquire(t) \/ PCallReturns(t) \/ Escapes(t)

\* Every step but Spawn moves one thread, and one that waits keeps waiting or
\* unwinds unless it has joined all of its workers.
LEMMA QuietEffect ==
  ASSUME TreeInv, NEW t \in Thread, QuietStep(t)
  PROVE  /\ Active(t) /\ pc[t] # "unwound" /\ Alone(t) /\ chain' = chain
         /\ pc[t] \in Waiting => LocalParallelStep(t) /\ Current(t) \in Parallel
         /\ KindOK(t)'
         /\ \/ pending' = pending
            \/ pc[t] = "subs" /\ FinishHead(t, Sub[Current(t)])
            \/ AllJoined(t) /\ FinishHead(t, <<>>)
         /\ pc[t] \in Waiting /\ ~AllJoined(t) =>
              pending' = pending /\ pc'[t] \in Waiting \cup {"unwound"}
<1>1. /\ KindOK(t) /\ SuiteInv
      /\ pc \in [Thread -> PC] /\ call \in [Thread -> OutputCall]
      /\ pending \in [Thread -> Seq(Suite)]
  BY DEF TreeInv, KindInv, SuiteInv, TypeOK
<1>2. CASE SuiteStep(t) /\ UNCHANGED locks
  <2>1. CASE pending' = pending
    BY <1>1, <1>2, <2>1, SuiteStepEffect DEF KindOK, Current, locks, Waiting, FinishHead, Goto
  <2>2. CASE FinishHead(t, Sub[Current(t)]) /\ pc[t] = "subs" /\ call'[t] = NoCall
    BY <1>1, <1>2, <2>2, SuiteStepEffect DEF FinishHead, Goto, KindOK, locks, Waiting
  <2> QED BY <1>1, <1>2, <2>1, <2>2, SuiteStepEffect
<1>3. CASE LocalParallelStep(t)
  <2>1. CASE pending' = pending
    BY <1>1, <1>3, <2>1, ParallelStepEffect DEF KindOK, Current, locks, Waiting, FinishHead, Goto
  <2>2. CASE pc[t] = "join" /\ AllJoined(t) /\ call'[t] = NoCall /\ FinishHead(t, <<>>)
    BY <1>1, <1>3, <2>2, ParallelStepEffect DEF FinishHead, Goto, KindOK, locks, Waiting
  <2> QED BY <1>1, <1>3, <2>1, <2>2, ParallelStepEffect
<1>4. CASE Acquire(t)
  BY <1>1, <1>4 DEF Acquire, vars, locals, Alone, KindOK, Current, Active
<1>5. CASE PCallReturns(t)
  BY <1>1, <1>5 DEF PCallReturns, CallReturns, Release, Goto, locals, Alone, KindOK,
     Current, Active, Waiting, OutputCall, NoCall
<1>6. CASE Escapes(t)
  BY <1>1, <1>6 DEF Escapes, Release, Goto, locals, Alone, KindOK, Current, Active, Waiting
<1> QED BY <1>2, <1>3, <1>4, <1>5, <1>6 DEF QuietStep

-----------------------------------------------------------------------------
\* The tree invariant is preserved by every step but Spawn.

LEMMA QuietKind ==
  ASSUME TreeInv, NEW t \in Thread, QuietStep(t)
  PROVE  KindInv'
BY QuietEffect DEF TreeInv, KindInv, KindOK, Alone, Current

\* The rest of the worklist and the sub-suites of a plain suite have the home
\* of the suite itself.
LEMMA QuietHome ==
  ASSUME TreeInv, NEW t \in Thread, QuietStep(t)
  PROVE  HomeInv'
<1>1. pending \in [Thread -> Seq(Suite)] /\ HomeInv /\ KindOK(t)
  BY DEF TreeInv, KindInv, SuiteInv, TypeOK
<1>2. CASE pending' = pending
  BY <1>1, <1>2 DEF HomeInv
<1>3. ASSUME NEW more \in Seq(Suite), FinishHead(t, more),
             \A i \in DOMAIN more : Home[more[i]] = t
      PROVE  HomeInv'
  <2>1. pending[t] # <<>> /\ pending[t] \in Seq(Suite)
    BY QuietEffect, ActiveRuns DEF TreeInv
  <2> DEFINE rest == more \o Tail(pending[t])
  <2>2. pending' = [pending EXCEPT ![t] = rest]
    BY <1>3 DEF FinishHead
  <2>3. \A i \in DOMAIN Tail(pending[t]) : Home[Tail(pending[t])[i]] = t
    BY <1>1, <2>1 DEF HomeInv
  <2>4. \A i \in DOMAIN rest : Home[rest[i]] = t
    BY <1>3, <2>1, <2>3
  <2> HIDE DEF rest
  <2>5. pending'[t] = rest /\ \A u \in Thread \ {t} : pending'[u] = pending[u]
    BY <1>1, <2>2
  <2>6. \A u \in Thread : \A i \in DOMAIN pending'[u] : Home[pending'[u][i]] = u
    BY <1>1, <2>4, <2>5 DEF HomeInv
  <2> QED BY <2>6 DEF HomeInv
<1>4. CASE pc[t] = "subs" /\ FinishHead(t, Sub[Current(t)])
  <2>1. Current(t) \in Suite /\ Current(t) \notin Parallel /\ Home[Current(t)] = t
    BY <1>1, <1>4, QuietEffect, ActiveRuns DEF TreeInv, KindOK, HomeInv, Current
  <2> DEFINE more == Sub[Current(t)]
  <2>2. more \in Seq(Suite)
    BY <2>1, SuiteAssumption
  <2>3. \A i \in DOMAIN more : Home[more[i]] = t
    BY <2>1, HomeMaps DEF IsHome, SubSuite
  <2>4. FinishHead(t, more)
    BY <1>4
  <2> HIDE DEF more
  <2> QED BY <1>3, <2>2, <2>3, <2>4
<1>5. CASE FinishHead(t, <<>>)
  <2> DEFINE more == <<>>
  <2>1. more \in Seq(Suite) /\ \A i \in DOMAIN more : Home[more[i]] = t
    OBVIOUS
  <2>2. FinishHead(t, more)
    BY <1>5
  <2> HIDE DEF more
  <2> QED BY <1>3, <2>1, <2>2
<1> QED BY <1>2, <1>4, <1>5, QuietEffect

\* As long as a worker is there its ParallelSuite waits.
LEMMA WaitsStays ==
  ASSUME TreeInv, NEW t \in Thread, QuietStep(t),
         NEW p \in Parallel, NEW i \in DOMAIN Sub[p], Active(SubSuite(p, i))
  PROVE  Waits(p)'
<1>1. WorkerOK(p, i) /\ Waits(p)
  BY DEF TreeInv, WorkersInv, WorkerOK
<1>2. p \in Suite /\ Home[p] \in Thread
  BY SuiteAssumption, HomeMaps
<1>3. CASE Home[p] # t
  BY <1>1, <1>2, <1>3, QuietEffect DEF Alone, Waits, Current
<1>4. CASE Home[p] = t /\ ~AllJoined(t)
  BY <1>1, <1>4, QuietEffect DEF Waits, Current
<1>5. CASE Home[p] = t /\ AllJoined(t)
  <2>1. pc[t] = "join" /\ next[t] > Len(Sub[p]) /\ Sub[p] \in Seq(Suite)
    BY <1>1, <1>2, <1>5, SuiteAssumption DEF AllJoined, At, Waits
  <2>2. i >= next[t] /\ next[t] \in Nat
    BY <1>1, <1>5, <2>1 DEF WorkerOK, TreeInv, SuiteInv, TypeOK
  <2> QED BY <2>1, <2>2
<1> QED BY <1>3, <1>4, <1>5

LEMMA QuietWorkers ==
  ASSUME TreeInv, NEW t \in Thread, QuietStep(t)
  PROVE  WorkersInv'
<1> SUFFICES ASSUME NEW p \in Parallel, NEW i \in DOMAIN Sub[p], Active(SubSuite(p, i))'
             PROVE  /\ Waits(p)'
                    /\ pc'[Home[p]] = "spawn" => i < next'[Home[p]]
                    /\ pc'[Home[p]] = "join" => i >= next'[Home[p]]
                    /\ pc'[Home[p]] = "unwound" => pc'[SubSuite(p, i)] = "unwound"
  BY DEF WorkersInv, WorkerOK
<1> DEFINE h == Home[p]  w == SubSuite(p, i)
<1>1. /\ p \in Suite /\ h \in Thread /\ w \in Thread /\ w \in Workers(p)
      /\ Sub[p] \in Seq(Suite)
  BY HomeMaps, WorkerFacts, SuiteAssumption
<1>2. Active(w) /\ pc[t] # "unwound"
  BY <1>1, QuietEffect DEF Alone, Active
<1>3. /\ Waits(p)
      /\ pc[h] = "spawn" => i < next[h]
      /\ pc[h] = "join" => i >= next[h]
      /\ pc[h] = "unwound" => pc[w] = "unwound"
  BY <1>2 DEF TreeInv, WorkersInv, WorkerOK
<1>4. Waits(p)'
  BY <1>2, WaitsStays
<1>5. CASE h # t
  BY <1>1, <1>2, <1>3, <1>4, <1>5, QuietEffect DEF Alone
<1>6. CASE h = t
  <2>1. /\ pc[t] \in Waiting /\ Current(t) = p
        /\ LocalParallelStep(t)
    BY <1>2, <1>3, <1>6, QuietEffect DEF Waits
  <2>2. /\ next \in [Thread -> Nat \ {0}] /\ pc \in [Thread -> PC]
    BY DEF TreeInv, SuiteInv, TypeOK
  <2>3. CASE SpawnThrows(t)
    BY <1>1, <1>4, <1>6, <2>2, <2>3 DEF SpawnThrows, Goto
  <2>4. CASE AllSpawned(t)
    BY <1>1, <1>4, <1>6, <2>2, <2>4 DEF AllSpawned, Goto
  <2>5. CASE Join(t)
    <3>1. pc[SubSuite(p, next[t])] = "returned" => i # next[t]
      BY <1>2 DEF Active
    <3> QED BY <1>1, <1>3, <1>4, <1>6, <2>1, <2>2, <2>5, <3>1 DEF Join, Goto, At
  <2>6. CASE AllJoined(t)
    BY <1>1, <1>3, <1>6, <2>1, <2>2, <2>6 DEF AllJoined, At
  <2>7. CASE Unwind(t)
    BY <1>1, <1>2, <1>4, <1>6, <2>1, <2>2, <2>7 DEF Unwind, Goto, Active, Ended
  <2> QED BY <2>1, <2>3, <2>4, <2>5, <2>6, <2>7
          DEF LocalParallelStep, PStartRun, PSetupReturns, Warn, PTearDownReturns, At, Waiting
<1> QED BY <1>5, <1>6

\* Every wrapper on the way up is one that waits for an active worker.
LEMMA WalkersActive ==
  ASSUME TreeInv, NEW u \in Thread \ {Root}, Active(u), NEW j \in 1 .. Depth(u)
  PROVE  /\ chain[u][j] \in Parallel /\ Waits(chain[u][j])
         /\ \E i \in DOMAIN Sub[chain[u][j]] :
              Walker(u, j) = SubSuite(chain[u][j], i) /\ Active(SubSuite(chain[u][j], i))
<1>1. WalkOK(u)
  BY DEF TreeInv, WalkInv
<1>2. Depth(u) \in Int
  BY DEF Depth, TreeInv, PTypeOK
<1>3. Active(Walker(u, j))
  <2>1. CASE j = 1
    BY <2>1 DEF Walker
  <2>2. CASE j # 1
    <3>1. j - 1 \in 1 .. Depth(u)
      BY <1>2, <2>2
    <3> QED BY <1>1, <2>2, <3>1 DEF WalkOK, Walker, Waits, Active, Waiting
  <2> QED BY <2>1, <2>2
<1> QED BY <1>1, <1>3 DEF WalkOK, Workers, ToSet, SubSuite

LEMMA QuietWalk ==
  ASSUME TreeInv, NEW t \in Thread, QuietStep(t)
  PROVE  WalkInv'
<1>1. chain' = chain /\ chain[Root] = OuterChain
  BY QuietEffect DEF TreeInv, WalkInv
<1>2. ASSUME NEW u \in Thread \ {Root}, Active(u)'
      PROVE  WalkOK(u)'
  <2>1. Active(u) /\ WalkOK(u)
    BY <1>2, QuietEffect DEF Alone, Active, TreeInv, WalkInv
  <2>2. ASSUME NEW j \in 1 .. Depth(u)
        PROVE  Waits(chain[u][j])'
    <3>1. PICK p \in Parallel : p = chain[u][j]
      BY <2>1 DEF WalkOK
    <3>2. PICK i \in DOMAIN Sub[p] : Active(SubSuite(p, i))
      BY <2>1, <3>1, WalkersActive
    <3>3. Waits(p)'
      BY <3>2, WaitsStays
    <3> QED BY <1>1, <3>1, <3>3 DEF Waits, Current
  <2> QED BY <1>1, <2>1, <2>2 DEF WalkOK, Depth, Walker, Waits, Current
<1> QED BY <1>1, <1>2 DEF WalkInv

-----------------------------------------------------------------------------
\* Spawn starts a thread that is idle, or has ended in an earlier run().

LEMMA SpawnEffect ==
  ASSUME TreeInv, NEW t \in Thread, Spawn(t)
  PROVE  LET p == Current(t)
             w == SubSuite(p, next[t])
         IN  /\ p \in Parallel /\ next[t] \in DOMAIN Sub[p] /\ Home[p] = t
             /\ pc[t] = "spawn" /\ call[t] = NoCall /\ Waits(p)
             /\ w \in Thread \ {Root, t} /\ ~Active(w) /\ call[w] = NoCall
             /\ pending' = [pending EXCEPT ![w] = <<w>>]
             /\ pc' = [pc EXCEPT ![w] = "run"]
             /\ next' = [next EXCEPT ![t] = next[t] + 1]
             /\ chain' = [chain EXCEPT ![w] = <<p>> \o chain[t]]
             /\ UNCHANGED <<asserts, thrown, members, call, held, mutex>>
<1> DEFINE p == Current(t)  w == SubSuite(p, next[t])
<1>1. /\ pc[t] = "spawn" /\ call[t] = NoCall /\ next[t] <= Len(Sub[p])
      /\ pending' = [pending EXCEPT ![w] = <<w>>]
      /\ pc' = [pc EXCEPT ![w] = "run"]
      /\ next' = [next EXCEPT ![t] = next[t] + 1]
      /\ chain' = [chain EXCEPT ![w] = <<p>> \o chain[t]]
      /\ UNCHANGED <<asserts, thrown, members, call, held, mutex>>
  BY DEF Spawn, At
<1>2. p \in Parallel
  BY <1>1 DEF TreeInv, KindInv, KindOK, Waiting
<1>3. next[t] \in DOMAIN Sub[p]
  BY <1>1, <1>2, SuiteAssumption DEF TreeInv, SuiteInv, TypeOK
<1>4. pending[t] # <<>> /\ pending[t] \in Seq(Suite)
  BY <1>1, ActiveRuns DEF TreeInv, Active
<1>5. Home[p] = t
  BY <1>4 DEF TreeInv, HomeInv, Current
<1>6. w \in Thread \ {Root}
  BY <1>2, <1>3, WorkerFacts
<1>7. ~Active(w)
  <2>1. WorkerOK(p, next[t])
    BY <1>2, <1>3 DEF TreeInv, WorkersInv
  <2> QED BY <1>1, <1>5, <2>1 DEF WorkerOK, TreeInv, SuiteInv, TypeOK
<1>8. call[w] = NoCall
  BY <1>6, <1>7 DEF Active, TreeInv, KindInv, KindOK
<1>9. Waits(p) /\ w # t
  BY <1>1, <1>4, <1>5, <1>7 DEF Waits, Waiting, Active
<1> QED BY <1>1, <1>2, <1>3, <1>5, <1>6, <1>7, <1>8, <1>9

\* Nobody who waits is disturbed by a new thread.
LEMMA SpawnWaits ==
  ASSUME TreeInv, NEW t \in Thread, Spawn(t), NEW p \in Parallel, Waits(p)
  PROVE  Waits(p)' /\ pc'[Home[p]] = pc[Home[p]]
<1>1. Home[p] \in Thread
  BY SuiteAssumption, HomeMaps
<1>2. PICK w : w = SubSuite(Current(t), next[t])
  OBVIOUS
<1>3. w \in Thread /\ ~Active(w) /\ pending' = [pending EXCEPT ![w] = <<w>>]
      /\ pc' = [pc EXCEPT ![w] = "run"]
  BY <1>2, SpawnEffect
<1>4. Home[p] # w
  BY <1>1, <1>3 DEF Waits, Waiting, Active
<1>5. pending'[Home[p]] = pending[Home[p]] /\ pc'[Home[p]] = pc[Home[p]]
  BY <1>1, <1>3, <1>4 DEF TreeInv, SuiteInv, TypeOK
<1> QED BY <1>5 DEF Waits, Current

LEMMA SpawnKind ==
  ASSUME TreeInv, NEW t \in Thread, Spawn(t)
  PROVE  KindInv' /\ HomeInv'
<1> DEFINE w == SubSuite(Current(t), next[t])
<1>1. /\ KindInv /\ HomeInv
      /\ pc \in [Thread -> PC] /\ pending \in [Thread -> Seq(Suite)]
  BY DEF TreeInv, SuiteInv, TypeOK
<1>2. w \in Thread /\ call' = call /\ call[w] = NoCall
      /\ pending' = [pending EXCEPT ![w] = <<w>>] /\ pc' = [pc EXCEPT ![w] = "run"]
  BY SpawnEffect
<1>3. Home[w] = w
  BY SpawnEffect, WorkerFacts
<1> HIDE DEF w
<1>4. KindInv'
  BY <1>1, <1>2 DEF KindInv, KindOK, Current, Waiting
<1>5. HomeInv'
  BY <1>1, <1>2, <1>3 DEF HomeInv
<1> QED BY <1>4, <1>5

LEMMA SpawnWorkers ==
  ASSUME TreeInv, NEW t \in Thread, Spawn(t)
  PROVE  WorkersInv'
<1> SUFFICES ASSUME NEW q \in Parallel, NEW i \in DOMAIN Sub[q], Active(SubSuite(q, i))'
             PROVE  WorkerOK(q, i)'
  BY DEF WorkersInv, WorkerOK
<1>1. PICK p, w : p = Current(t) /\ w = SubSuite(p, next[t])
  OBVIOUS
<1>2. /\ p \in Parallel /\ next[t] \in DOMAIN Sub[p] /\ Home[p] = t /\ pc[t] = "spawn"
      /\ w \in Thread \ {Root, t} /\ ~Active(w) /\ Waits(p)
      /\ pc' = [pc EXCEPT ![w] = "run"]
      /\ next' = [next EXCEPT ![t] = next[t] + 1]
  BY <1>1, SpawnEffect
<1>3. /\ pc \in [Thread -> PC] /\ next \in [Thread -> Nat \ {0}]
      /\ SubSuite(q, i) \in Thread /\ Home[q] \in Thread
      /\ Sub[q] \in Seq(Suite)
  BY WorkerFacts, HomeMaps, SuiteAssumption DEF TreeInv, SuiteInv, TypeOK
<1>4. CASE SubSuite(q, i) = w
  <2>1. q = p /\ i = next[t]
    BY <1>1, <1>2, <1>4, WorkerFacts
  <2> QED BY <1>2, <1>3, <2>1, SpawnWaits DEF WorkerOK
<1>5. CASE SubSuite(q, i) # w
  <2>1. Active(SubSuite(q, i)) /\ pc'[SubSuite(q, i)] = pc[SubSuite(q, i)]
    BY <1>2, <1>3, <1>5 DEF Active
  <2>2. WorkerOK(q, i)
    BY DEF TreeInv, WorkersInv
  <2>3. Waits(q)' /\ pc'[Home[q]] = pc[Home[q]] /\ Waits(q)
    BY <2>1, <2>2, SpawnWaits DEF WorkerOK
  <2> QED BY <1>2, <1>3, <2>1, <2>2, <2>3 DEF WorkerOK
<1> QED BY <1>4, <1>5

\* The wrappers of the new thread are the new one and those of its parent.
LEMMA SpawnWalk ==
  ASSUME TreeInv, NEW t \in Thread, Spawn(t)
  PROVE  WalkInv'
<1>1. PICK p, w : p = Current(t) /\ w = SubSuite(p, next[t])
  OBVIOUS
<1>2. /\ p \in Parallel /\ next[t] \in DOMAIN Sub[p] /\ Home[p] = t /\ pc[t] = "spawn"
      /\ w \in Thread \ {Root, t} /\ ~Active(w) /\ Waits(p) /\ w \in Workers(p)
      /\ pc' = [pc EXCEPT ![w] = "run"]
      /\ chain' = [chain EXCEPT ![w] = <<p>> \o chain[t]]
  BY <1>1, SpawnEffect, WorkerFacts
<1>3. /\ pc \in [Thread -> PC] /\ chain \in [Thread -> Seq(Lock)]
      /\ OuterChain \in Seq(Lock) /\ chain[Root] = OuterChain /\ p \in Lock
  BY <1>2, ParallelAssumption DEF TreeInv, PTypeOK, SuiteInv, TypeOK, WalkInv, Lock
<1>4. ASSUME NEW u \in Thread \ {Root, w}, Active(u)'
      PROVE  WalkOK(u)'
  <2>1. WalkOK(u) /\ chain'[u] = chain[u]
    BY <1>2, <1>3, <1>4 DEF Active, TreeInv, WalkInv
  <2>2. ASSUME NEW j \in 1 .. Depth(u)
        PROVE  Waits(chain[u][j])'
    <3>1. PICK q \in Parallel : q = chain[u][j] /\ Waits(q)
      BY <2>1 DEF WalkOK
    <3>2. Waits(q)'
      BY <3>1, SpawnWaits
    <3> QED BY <2>1, <3>1, <3>2 DEF Waits, Current
  <2> QED BY <2>1, <2>2 DEF WalkOK, Depth, Walker, Waits, Current
<1>5. WalkOK(w)'
  <2>1. /\ chain'[w] = <<p>> \o chain[t] /\ chain'[w] \in Seq(Lock)
        /\ Len(chain'[w]) = Len(chain[t]) + 1 /\ chain'[w][1] = p
        /\ \A j \in 1 .. Len(chain[t]) : chain'[w][j + 1] = chain[t][j]
    BY <1>2, <1>3
  <2>2. Waits(p)'
    BY <1>2, SpawnWaits
  <2>3. CASE t = Root
    BY <1>2, <1>3, <2>1, <2>2, <2>3 DEF WalkOK, Depth, Walker, Waits, Current
  <2>4. CASE t # Root
    <3>1. WalkOK(t)
      BY <1>2, <2>4 DEF TreeInv, WalkInv, Active
    <3>2. /\ Depth(t) \in Nat /\ Depth(w)' = Depth(t) + 1 /\ Depth(t) >= 1
          /\ Depth(t) <= Len(chain[t])
      BY <1>3, <2>1, <3>1 DEF Depth, WalkOK
    <3>3. ASSUME NEW j \in 1 .. Depth(t)
          PROVE  /\ chain'[w][j + 1] = chain[t][j] /\ chain[t][j] \in Parallel
                 /\ Waits(chain[w][j + 1])'
                 /\ Walker(w, j + 1)' = Walker(t, j)
                 /\ Walker(t, j) \in Workers(chain[t][j])
      <4>1. chain'[w][j + 1] = chain[t][j]
        BY <1>3, <2>1, <3>2
      <4>2. PICK q \in Parallel : q = chain[t][j] /\ Waits(q)
        BY <3>1 DEF WalkOK
      <4>3. Waits(q)'
        BY <4>2, SpawnWaits
      <4>4. Waits(chain[w][j + 1])'
        BY <4>1, <4>2, <4>3 DEF Waits, Current
      <4>5. Walker(w, j + 1)' = Walker(t, j)
        <5>1. CASE j = 1
          BY <1>2, <2>1, <5>1 DEF Walker
        <5>2. CASE j # 1
          <6>1. j - 1 \in 1 .. Len(chain[t]) /\ (j - 1) + 1 = j /\ j + 1 # 1
            BY <3>2, <5>2
          <6>2. chain'[w][j] = chain[t][j - 1]
            BY <2>1, <6>1
          <6> QED BY <5>2, <6>1, <6>2 DEF Walker
        <5> QED BY <5>1, <5>2
      <4> QED BY <3>1, <4>1, <4>2, <4>4, <4>5 DEF WalkOK
    <3>4. ASSUME NEW k \in 2 .. Depth(t) + 1
          PROVE  /\ chain'[w][k] \in Parallel /\ Waits(chain[w][k])'
                 /\ Walker(w, k)' \in Workers(chain'[w][k])
      <4>1. PICK j \in 1 .. Depth(t) : k = j + 1
        BY <3>2
      <4> QED BY <3>3, <4>1
    <3>5. Home[chain'[w][Depth(t) + 1]] = Root
      BY <3>1, <3>2, <3>3 DEF WalkOK
    <3>6. ASSUME NEW k \in 1 .. Depth(w)'
          PROVE  /\ chain'[w][k] \in Parallel /\ Waits(chain[w][k])'
                 /\ Walker(w, k)' \in Workers(chain'[w][k])
      <4>1. CASE k = 1
        BY <1>2, <2>1, <2>2, <4>1 DEF Walker, Waits, Current
      <4>2. CASE k # 1
        BY <3>2, <3>4, <4>2
      <4> QED BY <4>1, <4>2
    <3> QED BY <3>2, <3>5, <3>6 DEF WalkOK
  <2> QED BY <2>3, <2>4
<1> QED BY <1>2, <1>3, <1>4, <1>5 DEF WalkInv

-----------------------------------------------------------------------------
\* Types.

LEMMA LocalParallelTypes ==
  ASSUME TreeInv, NEW t \in Thread, LocalParallelStep(t)
  PROVE  SuiteInv'
<1> USE DEF PC, SuitePC, ParallelPC, UserPlace, OutputOp, ActivePC
<1>1. SuiteInv /\ Active(t) /\ call[t] = NoCall
  BY ParallelStepEffect DEF TreeInv
<1>2. Current(t) \in Suite
  BY <1>1, ActiveRuns
<1>3. CASE PStartRun(t)
  <2>1. PlainTypes' /\ pending' = pending /\ pc' = pc
    BY <1>1, <1>3 DEF PStartRun, PlainTypes, SuiteInv, TypeOK, locals, members
  <2>2. Issue(t, "initializeSuite", Len(Own[Current(t)]), FALSE, "setup")
    BY <1>3 DEF PStartRun
  <2>3. Len(Own[Current(t)]) \in Nat
    BY <1>2, SuiteAssumption
  <2> QED BY <1>1, <2>1, <2>2, <2>3, IssueInv
<1>4. CASE PSetupReturns(t)
  <2>1. PlainTypes' /\ pending' = pending
    BY <1>1, <1>4 DEF PSetupReturns, PlainTypes, SuiteInv, TypeOK, members
  <2>2. CASE Goto(t, "warn") /\ UNCHANGED call
    BY <1>1, <2>1, <2>2, StayInv
  <2>3. CASE Issue(t, "finishSuite", 0, FALSE, "spawn") /\ UNCHANGED pc
    BY <1>1, <2>1, <2>3, IssueInv
  <2> QED BY <1>4, <2>2, <2>3 DEF PSetupReturns
<1>5. CASE Warn(t)
  <2>1. PlainTypes' /\ pending' = pending
    BY <1>1, <1>5 DEF Warn, PlainTypes, SuiteInv, TypeOK, locals, members
  <2>2. CASE Goto(t, "tear_down") /\ UNCHANGED call
    BY <1>1, <2>1, <2>2, StayInv
  <2>3. CASE Issue(t, "printFailure", 0, FALSE, "tear_down") /\ UNCHANGED pc
    BY <1>1, <2>1, <2>3, IssueInv
  <2> QED BY <1>5, <2>2, <2>3 DEF Warn
<1>6. CASE PTearDownReturns(t)
  <2>1. PlainTypes' /\ pending' = pending /\ pc' = pc
    BY <1>1, <1>6 DEF PTearDownReturns, PlainTypes, SuiteInv, TypeOK, members
  <2>2. Issue(t, "finishSuite", 0, FALSE, "spawn")
    BY <1>6 DEF PTearDownReturns
  <2> QED BY <1>1, <2>1, <2>2, IssueInv
<1>7. CASE SpawnThrows(t)
  <2>1. PlainTypes' /\ pending' = pending /\ Goto(t, "unwinding") /\ call' = call
    BY <1>1, <1>7 DEF SpawnThrows, PlainTypes, SuiteInv, TypeOK, locals, members
  <2> QED BY <1>1, <2>1, StayInv
<1>8. CASE AllSpawned(t)
  <2>1. PlainTypes' /\ pending' = pending /\ Goto(t, "join") /\ call' = call
    BY <1>1, <1>8 DEF AllSpawned, PlainTypes, SuiteInv, TypeOK, members
  <2> QED BY <1>1, <2>1, StayInv
<1>9. CASE Join(t)
  <2>1. /\ UNCHANGED <<pending, asserts, thrown, positive, succeeded, continueAfterFail, call>>
        /\ \/ next' = [next EXCEPT ![t] = @ + 1] /\ pc' = pc
           \/ next' = next /\ Goto(t, "unwinding")
    BY <1>9 DEF Join, members
  <2>2. next \in [Thread -> Nat \ {0}]
    BY <1>1 DEF SuiteInv, TypeOK
  <2>3. next[t] + 1 \in Nat \ {0}
    BY <2>2
  <2>4. next' \in [Thread -> Nat \ {0}]
    BY <2>1, <2>2, <2>3
  <2>5. PlainTypes'
    BY <1>1, <2>1, <2>4 DEF PlainTypes, SuiteInv, TypeOK
  <2> QED BY <1>1, <2>1, <2>5, StayInv
<1>10. CASE AllJoined(t)
  <2> DEFINE more == <<>>
  <2>1. more \in Seq(Suite)
    OBVIOUS
  <2>2. /\ FinishHead(t, more) /\ next' = next
        /\ UNCHANGED <<asserts, thrown, members, call>>
    BY <1>10 DEF AllJoined
  <2> HIDE DEF more
  <2> QED BY <1>1, <2>1, <2>2, FinishHeadInv
<1>11. CASE Unwind(t)
  <2>1. PlainTypes' /\ pending' = pending /\ Goto(t, "unwound") /\ call' = call
    BY <1>1, <1>11 DEF Unwind, PlainTypes, SuiteInv, TypeOK, locals, members
  <2> QED BY <1>1, <2>1, StayInv
<1> QED BY <1>3, <1>4, <1>5, <1>6, <1>7, <1>8, <1>9, <1>10, <1>11
        DEF LocalParallelStep

\* The types of the variables this module adds.
RouteTypes ==
  /\ chain \in [Thread -> Seq(Lock)]
  /\ held \in [Thread -> Nat]
  /\ mutex \in [Lock -> Thread \cup {NoThread}]

LEMMA QuietTypes ==
  ASSUME TreeInv, NEW t \in Thread, QuietStep(t)
  PROVE  SuiteInv' /\ PTypeOK'
<1>1. SuiteInv /\ RouteTypes
  BY DEF TreeInv, PTypeOK, RouteTypes
<1>2. CASE SuiteStep(t) /\ UNCHANGED locks
  BY <1>1, <1>2, SuiteStepInv DEF SuiteInv, PTypeOK, RouteTypes, locks
<1>3. CASE LocalParallelStep(t)
  BY <1>1, <1>3, LocalParallelTypes, ParallelStepEffect
     DEF SuiteInv, PTypeOK, RouteTypes, locks
<1>4. CASE Acquire(t)
  <2>1. SuiteInv'
    BY <1>1, <1>4 DEF Acquire, vars, locals, members, SuiteInv, TypeOK, CallersRun
  <2>2. /\ held' = [held EXCEPT ![t] = @ + 1] /\ chain' = chain
        /\ \E l : mutex' = [mutex EXCEPT ![l] = t]
    BY <1>4 DEF Acquire
  <2>3. held[t] + 1 \in Nat
    BY <1>1 DEF RouteTypes
  <2>4. held' \in [Thread -> Nat] /\ chain' \in [Thread -> Seq(Lock)]
    BY <1>1, <2>2, <2>3 DEF RouteTypes
  <2>5. mutex' \in [Lock -> Thread \cup {NoThread}]
    BY <1>1, <2>2 DEF RouteTypes
  <2> QED BY <2>1, <2>4, <2>5 DEF SuiteInv, PTypeOK, RouteTypes
<1>5. CASE PCallReturns(t)
  <2>1. SuiteInv'
    BY <1>1, <1>5, CallReturnsInv DEF PCallReturns
  <2>2. /\ held' = [held EXCEPT ![t] = 0] /\ chain' = chain
        /\ mutex' = [l \in Lock |-> IF mutex[l] = t THEN NoThread ELSE mutex[l]]
    BY <1>5 DEF PCallReturns, Release
  <2>3. mutex' \in [Lock -> Thread \cup {NoThread}]
    BY <1>1, <2>2 DEF RouteTypes
  <2>4. held' \in [Thread -> Nat] /\ chain' \in [Thread -> Seq(Lock)]
    BY <1>1, <2>2 DEF RouteTypes
  <2> QED BY <2>1, <2>3, <2>4 DEF SuiteInv, PTypeOK, RouteTypes
<1>6. CASE Escapes(t)
  <2>1. SuiteInv'
    <3>1. Active(t) /\ "unwound" \in ActivePC
      BY <1>1, <1>6 DEF Escapes, SuiteInv, TypeOK, CallersRun, Active, ActivePC, PC, SuitePC
    <3>2. PlainTypes' /\ pending' = pending
      BY <1>1, <1>6 DEF Escapes, locals, members, PlainTypes, SuiteInv, TypeOK
    <3>3. Goto(t, "unwound") /\ call' = [call EXCEPT ![t] = NoCall]
      BY <1>6 DEF Escapes
    <3> QED BY <1>1, <3>1, <3>2, <3>3, StayInv, ConstantTypes
  <2>2. /\ held' = [held EXCEPT ![t] = 0] /\ chain' = chain
        /\ mutex' = [l \in Lock |-> IF mutex[l] = t THEN NoThread ELSE mutex[l]]
    BY <1>6 DEF Escapes, Release
  <2>3. mutex' \in [Lock -> Thread \cup {NoThread}]
    BY <1>1, <2>2 DEF RouteTypes
  <2>4. held' \in [Thread -> Nat] /\ chain' \in [Thread -> Seq(Lock)]
    BY <1>1, <2>2 DEF RouteTypes
  <2> QED BY <2>1, <2>3, <2>4 DEF SuiteInv, PTypeOK, RouteTypes
<1> QED BY <1>2, <1>3, <1>4, <1>5, <1>6 DEF QuietStep

LEMMA SpawnTypes ==
  ASSUME TreeInv, NEW t \in Thread, Spawn(t)
  PROVE  SuiteInv' /\ PTypeOK'
<1>1. PICK p, w : p = Current(t) /\ w = SubSuite(p, next[t])
  OBVIOUS
<1>2. /\ p \in Lock /\ w \in Thread \ {Root, t} /\ w \in Suite
      /\ pending' = [pending EXCEPT ![w] = <<w>>]
      /\ pc' = [pc EXCEPT ![w] = "run"]
      /\ next' = [next EXCEPT ![t] = next[t] + 1]
      /\ chain' = [chain EXCEPT ![w] = <<p>> \o chain[t]]
      /\ UNCHANGED <<asserts, thrown, members, call, held, mutex>>
  BY <1>1, SpawnEffect, WorkerFacts DEF Lock, members
<1>3. SuiteInv /\ RouteTypes
  BY DEF TreeInv, PTypeOK, RouteTypes
<1>4. <<p>> \o chain[t] \in Seq(Lock) /\ <<w>> \in Seq(Suite) /\ <<w>> # <<>>
  BY <1>2, <1>3 DEF RouteTypes
<1>5. PlainTypes'
  BY <1>2, <1>3 DEF PlainTypes, SuiteInv, TypeOK, members
<1>6. /\ pending' \in [Thread -> Seq(Suite)] /\ pc' \in [Thread -> PC]
      /\ \A u \in Thread : pc'[u] \in {"idle", "returned"} <=> pending'[u] = <<>>
      /\ CallersRun'
  BY <1>2, <1>3, <1>4 DEF SuiteInv, TypeOK, CallersRun, PC, SuitePC
<1>7. RouteTypes'
  BY <1>2, <1>3, <1>4 DEF RouteTypes
<1>8. call' \in [Thread -> OutputCall]
  BY <1>2, <1>3 DEF SuiteInv, TypeOK
<1> QED BY <1>5, <1>6, <1>7, <1>8 DEF SuiteInv, TypeOK, PlainTypes, PTypeOK, RouteTypes

-----------------------------------------------------------------------------
\* The tree invariant holds.

LEMMA PStepKinds ==
  ASSUME NEW t \in Thread, PStep(t)
  PROVE  QuietStep(t) \/ Spawn(t)
BY DEF PStep, PLocalStep, ParallelStep, QuietStep, LocalParallelStep

LEMMA InitTree == PInit => TreeInv
<1> SUFFICES ASSUME PInit PROVE TreeInv
  OBVIOUS
<1>1. SuiteInv
  BY InitSuiteInv DEF PInit
<1>2. /\ pc = [t \in Thread |-> IF t = Root THEN "run" ELSE "idle"]
      /\ pending = [t \in Thread |-> IF t = Root THEN <<Root>> ELSE <<>>]
      /\ call = [t \in Thread |-> NoCall] /\ chain[Root] = OuterChain
  BY ConstantTypes DEF PInit, Init
<1>3. PTypeOK
  BY <1>1, ParallelAssumption DEF PInit, PTypeOK, SuiteInv
<1>4. KindInv
  BY <1>2 DEF KindInv, KindOK, Waiting
<1>5. HomeInv
  BY <1>2, HomeMaps DEF HomeInv, IsHome
<1>6. WorkersInv
  BY <1>2, WorkerFacts DEF WorkersInv, WorkerOK, Active
<1>7. WalkInv
  BY <1>2 DEF WalkInv, Active
<1> QED BY <1>1, <1>3, <1>4, <1>5, <1>6, <1>7 DEF TreeInv

LEMMA TreeStutter == TreeInv /\ UNCHANGED pvars => TreeInv'
BY DEF pvars, vars, locals, members, TreeInv, SuiteInv, TypeOK, CallersRun, PTypeOK,
   KindInv, KindOK, Current, HomeInv, WorkersInv, WorkerOK, Waits, Active,
   WalkInv, WalkOK, Depth, Walker

LEMMA TreeStep ==
  ASSUME TreeInv, NEW t \in Thread, QuietStep(t) \/ Spawn(t)
  PROVE  TreeInv'
<1>1. CASE QuietStep(t)
  BY <1>1, QuietTypes, QuietKind, QuietHome, QuietWorkers, QuietWalk DEF TreeInv
<1>2. CASE Spawn(t)
  BY <1>2, SpawnTypes, SpawnKind, SpawnWorkers, SpawnWalk DEF TreeInv
<1> QED BY <1>1, <1>2

LEMMA TreeInvHolds == PSpec => []TreeInv
<1>1. TreeInv /\ [PNext]_pvars => TreeInv'
  BY TreeStutter, TreeStep, PStepKinds DEF PNext, PFinished
<1> QED BY <1>1, InitTree, PTL DEF PSpec

\* Types: the threads, their routes and the mutexes.
THEOREM PTypeCorrect == PSpec => []PTypeOK
BY TreeInvHolds, PTL DEF TreeInv

-----------------------------------------------------------------------------
\* Mutexes.

LockOK(t) ==
  /\ call[t] = NoCall => held[t] = 0
  /\ call[t] # NoCall => held[t] <= Len(Route(t))
  /\ \A l \in Lock :
       mutex[l] = t <=> \E i \in 1 .. held[t] : Route(t)[i] = l

LEMMA RouteType ==
  ASSUME RouteTypes, NEW t \in Thread
  PROVE  Route(t) \in Seq(Lock) /\ Len(Route(t)) \in Nat
<1>1. chain[t] \in Seq(Lock)
  BY DEF RouteTypes
<1>2. ASSUME Current(t) \in Parallel
      PROVE  <<Current(t)>> \o chain[t] \in Seq(Lock)
  BY <1>1, <1>2 DEF Lock
<1> QED BY <1>1, <1>2 DEF Route

\* A thread whose call and route stay as they are, and whose mutexes do.
LEMMA LockStays ==
  ASSUME NEW t \in Thread, LockOK(t),
         call'[t] = call[t], held'[t] = held[t], Route(t)' = Route(t),
         \A l \in Lock : mutex'[l] = t <=> mutex[l] = t
  PROVE  LockOK(t)'
BY DEF LockOK

\* A thread that has no mutex before and after a step.
LEMMA NoLock ==
  ASSUME NEW t \in Thread, RouteTypes', held'[t] = 0,
         \A l \in Lock : mutex'[l] # t
  PROVE  LockOK(t)'
<1>1. chain'[t] \in Seq(Lock)
  BY DEF RouteTypes
<1>2. Len(Route(t))' \in Nat
  BY <1>1 DEF Route
<1> QED BY <1>2 DEF LockOK

LEMMA LocksStep ==
  ASSUME TreeInv, TreeInv', LocksHeld, NEW t \in Thread, QuietStep(t) \/ Spawn(t)
  PROVE  LocksHeld'
<1> SUFFICES ASSUME NEW u \in Thread PROVE LockOK(u)'
  BY DEF LocksHeld, LockOK
<1>1. /\ RouteTypes /\ RouteTypes' /\ SuiteInv /\ NoThread \notin Thread
      /\ \A v \in Thread : LockOK(v)
  BY ParallelAssumption DEF TreeInv, PTypeOK, RouteTypes, LocksHeld, LockOK
<1>2. ASSUME call[u] = NoCall, UNCHANGED <<held, mutex>>
      PROVE  LockOK(u)'
  <2>1. held[u] = 0 /\ \A l \in Lock : mutex[l] # u
    BY <1>1, <1>2 DEF LockOK
  <2> QED BY <1>1, <1>2, <2>1, NoLock
<1>3. ASSUME call[u] # NoCall, pending'[u] = pending[u], pc'[u] = pc[u],
             call'[u] = call[u], chain'[u] = chain[u], UNCHANGED <<held, mutex>>
      PROVE  LockOK(u)'
  <2>1. Route(u)' = Route(u)
    BY <1>3 DEF Route, Current
  <2> QED BY <1>1, <1>3, <2>1, LockStays
<1>4. CASE (SuiteStep(t) /\ UNCHANGED locks) \/ LocalParallelStep(t)
  <2>1. /\ call[t] = NoCall /\ Alone(t) /\ UNCHANGED <<chain, held, mutex>>
    BY <1>1, <1>4, SuiteStepEffect, ParallelStepEffect DEF locks
  <2> QED BY <1>2, <1>3, <2>1 DEF Alone
<1>5. CASE Spawn(t)
  <2>1. PICK w : w = SubSuite(Current(t), next[t])
    OBVIOUS
  <2>2. /\ UNCHANGED <<call, held, mutex>> /\ call[w] = NoCall /\ w \in Thread
        /\ pending' = [pending EXCEPT ![w] = <<w>>]
        /\ pc' = [pc EXCEPT ![w] = "run"]
        /\ chain' = [chain EXCEPT ![w] = <<Current(t)>> \o chain[t]]
    BY <1>5, <2>1, SpawnEffect
  <2>3. u # w => pending'[u] = pending[u] /\ pc'[u] = pc[u] /\ chain'[u] = chain[u]
    BY <1>1, <2>2 DEF SuiteInv, TypeOK, RouteTypes
  <2> QED BY <1>2, <1>3, <2>2, <2>3
<1>6. CASE Acquire(t)
  <2>1. PICK l : l = Route(t)[held[t] + 1]
    OBVIOUS
  <2>2. /\ call[t] # NoCall /\ held[t] < Len(Route(t))
        /\ mutex[l] = NoThread /\ mutex' = [mutex EXCEPT ![l] = t]
        /\ held' = [held EXCEPT ![t] = @ + 1]
        /\ UNCHANGED <<pending, pc, call, chain>>
    BY <1>6, <2>1 DEF Acquire, vars
  <2>3. /\ held[t] \in Nat /\ Route(t) \in Seq(Lock) /\ Len(Route(t)) \in Nat
        /\ l \in Lock
    BY <1>1, <2>1, <2>2, RouteType DEF RouteTypes
  <2>4. Route(u)' = Route(u)
    BY <2>2 DEF Route, Current
  <2>5. CASE u = t
    <3>1. held'[t] = held[t] + 1
      BY <1>1, <2>2 DEF RouteTypes
    <3>2. ASSUME NEW k \in Lock
          PROVE  mutex'[k] = t <=> \E i \in 1 .. held[t] + 1 : Route(t)[i] = k
      <4>1. mutex[k] = t <=> \E i \in 1 .. held[t] : Route(t)[i] = k
        BY <1>1 DEF LockOK
      <4>2. 1 .. held[t] + 1 = (1 .. held[t]) \cup {held[t] + 1}
        BY <2>3
      <4>3. mutex'[k] = t <=> mutex[k] = t \/ k = l
        BY <1>1, <2>2, <2>3 DEF RouteTypes
      <4> QED BY <2>1, <4>1, <4>2, <4>3
    <3> QED BY <2>2, <2>3, <2>4, <2>5, <3>1, <3>2 DEF LockOK
  <2>6. CASE u # t
    <3>1. held'[u] = held[u] /\ \A k \in Lock : mutex'[k] = u <=> mutex[k] = u
      BY <1>1, <2>2, <2>6 DEF RouteTypes
    <3> QED BY <1>1, <2>2, <2>4, <3>1, LockStays
  <2> QED BY <2>5, <2>6
<1>7. CASE PCallReturns(t) \/ Escapes(t)
  <2>1. /\ held' = [held EXCEPT ![t] = 0] /\ UNCHANGED <<pending, chain>>
        /\ mutex' = [l \in Lock |-> IF mutex[l] = t THEN NoThread ELSE mutex[l]]
        /\ \E p \in PC : pc' = [pc EXCEPT ![t] = p]
        /\ call' = [call EXCEPT ![t] = NoCall]
    <3>1. CASE PCallReturns(t)
      BY <1>1, <3>1 DEF PCallReturns, CallReturns, Release, Goto, locals, SuiteInv, TypeOK, OutputCall
    <3>2. CASE Escapes(t)
      BY <3>2 DEF Escapes, Release, Goto, locals, PC, SuitePC
    <3> QED BY <1>7, <3>1, <3>2
  <2>2. CASE u = t
    BY <1>1, <2>1, <2>2, NoLock DEF RouteTypes
  <2>3. CASE u # t
    <3>1. /\ held'[u] = held[u] /\ pc'[u] = pc[u] /\ call'[u] = call[u]
      BY <1>1, <2>1, <2>3 DEF RouteTypes, SuiteInv, TypeOK
    <3>2. \A k \in Lock : mutex'[k] = u <=> mutex[k] = u
      BY <1>1, <2>1, <2>3
    <3>3. Route(u)' = Route(u)
      BY <2>1, <3>1 DEF Route, Current
    <3> QED BY <1>1, <3>1, <3>2, <3>3, LockStays
  <2> QED BY <2>2, <2>3
<1> QED BY <1>4, <1>5, <1>6, <1>7 DEF QuietStep

LEMMA InitLocks == PInit => LocksHeld
<1> SUFFICES ASSUME PInit, NEW t \in Thread PROVE LockOK(t)
  BY DEF LocksHeld, LockOK
<1>1. held[t] = 0 /\ call[t] = NoCall /\ \A l \in Lock : mutex[l] = NoThread
  BY DEF PInit, Init
<1> QED BY <1>1, ParallelAssumption DEF LockOK

LEMMA LocksStutter == LocksHeld /\ UNCHANGED pvars => LocksHeld'
<1> SUFFICES ASSUME LocksHeld, UNCHANGED pvars, NEW t \in Thread PROVE LockOK(t)'
  BY DEF LocksHeld, LockOK
<1>1. UNCHANGED <<pending, pc, call, chain, held, mutex>>
  BY DEF pvars, vars, locals
<1>2. Route(t)' = Route(t)
  BY <1>1 DEF Route, Current
<1>3. LockOK(t)
  BY DEF LocksHeld, LockOK
<1> QED BY <1>1, <1>2, <1>3, LockStays

\* A thread owns the mutexes it has locked on the way of its call, in that
\* order, and none between two calls, however its calls end.
THEOREM LocksAreHeld == PSpec => []LocksHeld
<1>1. TreeInv /\ TreeInv' /\ LocksHeld /\ [PNext]_pvars => LocksHeld'
  BY LocksStutter, LocksStep, PStepKinds DEF PNext, PFinished
<1> QED BY <1>1, InitLocks, TreeInvHolds, PTL DEF PSpec

-----------------------------------------------------------------------------
\* What the tree and the mutexes give.

\* A worker that calls has, around the Output, the wrapper that belongs to the
\* ParallelSuite at which Root waits; so Root itself does not call.
LEMMA CallersShareLock ==
  ASSUME TreeInv, NEW t \in Thread \ {Root}, call[t] # NoCall
  PROVE  /\ call[Root] = NoCall /\ Current(Root) \in Lock
         /\ \E i \in 1 .. Len(Route(t)) : Route(t)[i] = Current(Root)
<1> DEFINE d == Depth(t)  l == chain[t][d]
<1>1. Active(t) /\ WalkOK(t)
  BY DEF TreeInv, KindInv, KindOK, WalkInv, Active
<1>2. chain[t] \in Seq(Lock) /\ d \in 1 .. Len(chain[t]) /\ d \in 1 .. Depth(t)
  BY <1>1, ParallelAssumption DEF WalkOK, Depth, TreeInv, PTypeOK
<1>3. l \in Parallel /\ Waits(l) /\ Home[l] = Root
  BY <1>1, <1>2 DEF WalkOK
<1>4. Current(Root) = l /\ pc[Root] \in Waiting \cup {"unwound"}
  BY <1>3 DEF Waits
<1>5. call[Root] = NoCall
  BY <1>4, ConstantTypes DEF TreeInv, KindInv, KindOK
<1>6. \E i \in 1 .. Len(Route(t)) : Route(t)[i] = l
  <2>1. CASE Route(t) = chain[t]
    BY <1>2, <2>1
  <2>2. CASE Route(t) = <<Current(t)>> \o chain[t] /\ Current(t) \in Parallel
    <3>1. /\ Len(Route(t)) = Len(chain[t]) + 1
          /\ Route(t)[d + 1] = l
      BY <1>2, <2>2
    <3> QED BY <1>2, <3>1
  <2> QED BY <2>1, <2>2 DEF Route
<1> QED BY <1>3, <1>4, <1>5, <1>6 DEF Lock

LEMMA Exclusion == TreeInv /\ LocksHeld => MutualExclusion
<1> SUFFICES ASSUME TreeInv, LocksHeld, NEW t \in Thread, NEW u \in Thread,
                    Inside(t), Inside(u), t # u
             PROVE  FALSE
  BY DEF MutualExclusion
<1>1. t # Root /\ u # Root
  BY CallersShareLock DEF Inside
<1>2. mutex[Current(Root)] = t
  BY <1>1, CallersShareLock DEF Inside, LocksHeld
<1>3. mutex[Current(Root)] = u
  BY <1>1, CallersShareLock DEF Inside, LocksHeld
<1> QED BY <1>2, <1>3

\* However ParallelSuites are nested, and whatever mutexes lie between, no two
\* threads are inside the real Output at once.
THEOREM OutputIsExclusive == PSpec => []MutualExclusion
BY Exclusion, TreeInvHolds, LocksAreHeld, PTL

LEMMA Joined == TreeInv => WorkersJoined
<1> SUFFICES ASSUME TreeInv, NEW p \in Parallel, NEW w \in Workers(p),
                    pc[w] \notin Ended \cup {"idle"}
             PROVE  \E t \in Thread : /\ IsParallel(t) /\ Current(t) = p
                                      /\ pc[t] \in {"spawn", "join", "unwinding"}
  BY DEF WorkersJoined
<1>1. PICK i \in DOMAIN Sub[p] : w = SubSuite(p, i)
  BY DEF Workers, ToSet, SubSuite
<1>2. Active(w) /\ pc[w] # "unwound"
  BY DEF Active, Ended
<1>3. Waits(p) /\ pc[Home[p]] # "unwound"
  BY <1>1, <1>2 DEF TreeInv, WorkersInv, WorkerOK
<1>4. Home[p] \in Thread
  BY SuiteAssumption, HomeMaps
<1> QED BY <1>3, <1>4 DEF Waits, Waiting, IsParallel

\* No worker outlives the run() that started it, however that run() is left.
THEOREM WorkersAreJoined == PSpec => []WorkersJoined
BY Joined, TreeInvHolds, PTL

\* An exception that ends a worker reaches the caller of run(): run() does not
\* return normally while some worker has ended with an exception.
THEOREM WorkersAreHeard == PSpec => []WorkerExceptionsSurface
<1>1. TreeInv => WorkerExceptionsSurface
  <2> SUFFICES ASSUME TreeInv, pc[Root] = "returned",
                      NEW t \in Thread, pc[t] = "unwound"
               PROVE  FALSE
    BY DEF WorkerExceptionsSurface
  <2>1. t # Root /\ Active(t)
    BY DEF Active
  <2>2. WalkOK(t)
    BY <2>1 DEF TreeInv, WalkInv
  <2>3. Depth(t) \in 1 .. Depth(t)
    BY <2>2, ParallelAssumption DEF WalkOK, Depth, TreeInv, PTypeOK
  <2>4. Waits(chain[t][Depth(t)]) /\ Home[chain[t][Depth(t)]] = Root
    BY <2>2, <2>3 DEF WalkOK
  <2> QED BY <2>4 DEF Waits, Waiting
<1> QED BY <1>1, TreeInvHolds, PTL
==============================================================================
