---------------------------- MODULE ParallelSuite ----------------------------
(***************************************************************************)
(* ParallelSuite::run and SynchronizedOutput: one std::async worker per    *)
(* sub-suite, joined in order, all of them behind a mutex per              *)
(* ParallelSuite.  A SynchronizedOutput wraps the Output its creator was   *)
(* given, so a nested worker takes one mutex after the other on its way to *)
(* the real Output; chain[t] lists them from the thread's side.  Suites    *)
(* that are not parallel behave as in module TestSuite.                    *)
(***************************************************************************)
EXTENDS TestSuite, FiniteSets

CONSTANTS
  OuterChain,  \* the wrappers around the real Output before run() is called
  AsyncFails,  \* may std::async throw std::system_error?
  NoThread     \* the owner of a free mutex

\* The mutexes: a SynchronizedOutput is named for the ParallelSuite it is for.
Lock == Parallel \cup ToSet(OuterChain)

SubSuite(p, i) == Sub[p][i]

\* home gives every suite the thread it runs on: no suite object, whose members
\* are not synchronized, is shared by two threads.
IsHome(home) ==
  /\ home[Root] = Root
  /\ \A s \in Suite : \A i \in DOMAIN Sub[s] :
       home[SubSuite(s, i)] = IF s \in Parallel THEN SubSuite(s, i) ELSE home[s]

\* The wrappers are distinct objects, and a suite is a sub-suite of one
\* ParallelSuite, once, at most.
ASSUME ParallelAssumption ==
  /\ OuterChain \in Seq(Lock)
  /\ \A i, j \in DOMAIN OuterChain : OuterChain[i] = OuterChain[j] => i = j
  /\ ToSet(OuterChain) \cap Parallel = {}
  /\ AsyncFails \in BOOLEAN
  /\ NoThread \notin Thread
  /\ \A p, q \in Parallel : \A i \in DOMAIN Sub[p], j \in DOMAIN Sub[q] :
       SubSuite(p, i) = SubSuite(q, j) => p = q /\ i = j
  /\ \A p \in Parallel : Root \notin ToSet(Sub[p])
  /\ \E home \in [Suite -> Thread] : IsHome(home)

VARIABLES
  chain,  \* the SynchronizedOutputs around the Output a thread was given
  held,   \* how many mutexes of its route a thread has locked
  mutex   \* the owner of every SynchronizedOutput::outputMutex

pvars == <<vars, chain, held, mutex>>
locks == <<chain, held, mutex>>

PInit ==
  /\ Init
  /\ chain = [t \in Thread |-> IF t = Root THEN OuterChain ELSE <<>>]
  /\ held = [t \in Thread |-> 0]
  /\ mutex = [l \in Lock |-> NoThread]

-----------------------------------------------------------------------------
\* SynchronizedOutput.

\* The mutexes between a thread's call and the real Output.  The hooks of a
\* ParallelSuite assert on its own wrapper, run() itself uses the one outside.
Route(t) ==
  IF /\ Current(t) \in Parallel /\ pc[t] \in UserPlace
     /\ call[t].op \in {"printSuccess", "printFailure"}
    THEN <<Current(t)>> \o chain[t]
    ELSE chain[t]

\* The thread executes a member function of the real Output.
Inside(t) == call[t] # NoCall /\ held[t] = Len(Route(t))

\* MUTANT: the lock_guard does not wait.
Acquire_NoWait(t) ==
  /\ call[t] # NoCall /\ held[t] < Len(Route(t))
  /\ LET l == Route(t)[held[t] + 1] IN mutex' = [mutex EXCEPT ![l] = t]
  /\ held' = [held EXCEPT ![t] = @ + 1]
  /\ UNCHANGED <<vars, chain>>

\* The lock_guard of the next SynchronizedOutput on the way.
Acquire(t) ==
  /\ call[t] # NoCall /\ held[t] < Len(Route(t))
  /\ LET l == Route(t)[held[t] + 1] IN
       mutex[l] = NoThread /\ mutex' = [mutex EXCEPT ![l] = t]
  /\ held' = [held EXCEPT ![t] = @ + 1]
  /\ UNCHANGED <<vars, chain>>

\* MUTANT: only the innermost lock_guard unlocks.
Release_Leaks(t) ==
  /\ mutex' = IF held[t] = 0 THEN mutex
              ELSE [mutex EXCEPT ![Route(t)[held[t]]] = NoThread]
  /\ held' = [held EXCEPT ![t] = 0]
  /\ UNCHANGED chain

\* The destructors of the lock_guards of a call that has returned.
Release(t) ==
  /\ mutex' = [l \in Lock |-> IF mutex[l] = t THEN NoThread ELSE mutex[l]]
  /\ held' = [held EXCEPT ![t] = 0]
  /\ UNCHANGED chain

-----------------------------------------------------------------------------
\* ParallelSuite::run.

IsParallel(t) == pending[t] # <<>> /\ Current(t) \in Parallel

PStartRun(t) ==
  /\ At(t, "run") /\ IsParallel(t)
  /\ Issue(t, "initializeSuite", Len(Own[Current(t)]), FALSE, "setup")
  /\ UNCHANGED <<locals, pc, members, locks>>

\* setup() returned: warn about methods of the suite's own, then tear_down().
PSetupReturns(t) ==
  /\ At(t, "setup") /\ IsParallel(t)
  /\ asserts' = [asserts EXCEPT ![t] = 0]
  /\ \/ Goto(t, "warn") /\ UNCHANGED call
     \/ /\ "setup" \in DeclinesIn
        /\ Issue(t, "finishSuite", 0, FALSE, "spawn")
        /\ UNCHANGED pc
  /\ next' = [next EXCEPT ![t] = 1]
  /\ UNCHANGED <<pending, thrown, members, locks>>

Warn(t) ==
  /\ At(t, "warn")
  /\ IF Own[Current(t)] = <<>>
       THEN Goto(t, "tear_down") /\ UNCHANGED call
       ELSE Issue(t, "printFailure", 0, FALSE, "tear_down") /\ UNCHANGED pc
  /\ UNCHANGED <<locals, members, locks>>

PTearDownReturns(t) ==
  /\ At(t, "tear_down") /\ IsParallel(t)
  /\ asserts' = [asserts EXCEPT ![t] = 0]
  /\ Issue(t, "finishSuite", 0, FALSE, "spawn")
  /\ UNCHANGED <<pending, pc, next, thrown, members, locks>>

Workers(p) == ToSet(Sub[p])

\* MUTANT: the worker is given the Output that run() was given.
Spawn_Unwrapped(t) ==
  /\ At(t, "spawn") /\ next[t] <= Len(Sub[Current(t)])
  /\ LET w == SubSuite(Current(t), next[t]) IN
       /\ pending' = [pending EXCEPT ![w] = <<w>>]
       /\ pc' = [pc EXCEPT ![w] = "run"]
       /\ chain' = [chain EXCEPT ![w] = chain[t]]
  /\ next' = [next EXCEPT ![t] = @ + 1]
  /\ UNCHANGED <<asserts, thrown, members, call, held, mutex>>

\* std::async: the worker runs its suite on *output, the wrapper.
Spawn(t) ==
  /\ At(t, "spawn") /\ next[t] <= Len(Sub[Current(t)])
  /\ LET w == SubSuite(Current(t), next[t]) IN
       /\ pending' = [pending EXCEPT ![w] = <<w>>]
       /\ pc' = [pc EXCEPT ![w] = "run"]
       /\ chain' = [chain EXCEPT ![w] = <<Current(t)>> \o chain[t]]
  /\ next' = [next EXCEPT ![t] = @ + 1]
  /\ UNCHANGED <<asserts, thrown, members, call, held, mutex>>

\* std::async cannot start a thread and throws.
SpawnThrows(t) ==
  /\ AsyncFails
  /\ At(t, "spawn") /\ next[t] <= Len(Sub[Current(t)])
  /\ Goto(t, "unwinding")
  /\ UNCHANGED <<locals, members, call, locks>>

\* MUTANT: the loop may end one worker short.
AllSpawned_Early(t) ==
  /\ At(t, "spawn") /\ next[t] >= Len(Sub[Current(t)])
  /\ next' = [next EXCEPT ![t] = 1]
  /\ Goto(t, "join")
  /\ UNCHANGED <<pending, asserts, thrown, members, call, locks>>

AllSpawned(t) ==
  /\ At(t, "spawn") /\ next[t] > Len(Sub[Current(t)])
  /\ next' = [next EXCEPT ![t] = 1]
  /\ Goto(t, "join")
  /\ UNCHANGED <<pending, asserts, thrown, members, call, locks>>

\* MUTANT: the future is waited for, its exception is not taken.
Join_Swallows(t) ==
  /\ At(t, "join") /\ next[t] <= Len(Sub[Current(t)])
  /\ LET w == SubSuite(Current(t), next[t]) IN pc[w] \in Ended
  /\ next' = [next EXCEPT ![t] = @ + 1]
  /\ UNCHANGED <<pending, pc, asserts, thrown, members, call, locks>>

\* MUTANT: the loop waits for one future for ever.
Join_Stuck(t) ==
  /\ At(t, "join") /\ next[t] <= Len(Sub[Current(t)])
  /\ LET w == SubSuite(Current(t), next[t]) IN
       \/ pc[w] = "returned" /\ UNCHANGED pc
       \/ pc[w] = "unwound" /\ Goto(t, "unwinding")
  /\ UNCHANGED <<next, pending, asserts, thrown, members, call, locks>>

\* MUTANT: the future is not waited for.
Join_NoWait(t) ==
  /\ At(t, "join") /\ next[t] <= Len(Sub[Current(t)])
  /\ next' = [next EXCEPT ![t] = @ + 1]
  /\ UNCHANGED <<pending, pc, asserts, thrown, members, call, locks>>

\* future.get(): wait for the worker; an exception of its is thrown here.
Join(t) ==
  /\ At(t, "join") /\ next[t] <= Len(Sub[Current(t)])
  /\ LET w == SubSuite(Current(t), next[t]) IN
       \/ pc[w] = "returned" /\ next' = [next EXCEPT ![t] = @ + 1] /\ UNCHANGED pc
       \/ pc[w] = "unwound" /\ Goto(t, "unwinding") /\ UNCHANGED next
  /\ UNCHANGED <<pending, asserts, thrown, members, call, locks>>

AllJoined(t) ==
  /\ At(t, "join") /\ next[t] > Len(Sub[Current(t)])
  /\ FinishHead(t, <<>>)
  /\ UNCHANGED <<next, asserts, thrown, members, call, locks>>

\* MUTANT: the futures do not wait when they are destroyed.
Unwind_Detached(t) ==
  /\ At(t, "unwinding")
  /\ Goto(t, "unwound")
  /\ UNCHANGED <<locals, members, call, locks>>

\* The destructors of the futures block until every worker has ended.
Unwind(t) ==
  /\ At(t, "unwinding")
  /\ \A w \in Workers(Current(t)) : pc[w] \in Ended \cup {"idle"}
  /\ Goto(t, "unwound")
  /\ UNCHANGED <<locals, members, call, locks>>

ParallelStep(t) ==
  \/ PStartRun(t) \/ PSetupReturns(t) \/ Warn(t) \/ PTearDownReturns(t)
  \/ Spawn(t) \/ SpawnThrows(t) \/ AllSpawned(t) \/ Join(t) \/ AllJoined(t)
  \/ Unwind(t)

-----------------------------------------------------------------------------
\* A printing Output: the call has its effect and returns through the guards.
PCallReturns(t) == Inside(t) /\ CallReturns(t) /\ Release(t)

\* Everything but the Output's own work.
PLocalStep(t) ==
  \/ SuiteStep(t) /\ UNCHANGED locks
  \/ ParallelStep(t) \/ Acquire(t)

PStep(t) == PLocalStep(t) \/ PCallReturns(t)

PFinished == pc[Root] \in Ended /\ UNCHANGED pvars

PNext == PFinished \/ \E t \in Thread : PStep(t)

\* A mutex is not fair, but the other threads end: weak fairness is enough.
PFairness == \A t \in Thread : WF_pvars(PStep(t))

PSpec == PInit /\ [][PNext]_pvars
PFairSpec == PSpec /\ PFairness

-----------------------------------------------------------------------------
\* Type correctness of the threads' routes and of the mutexes.
PTypeOK ==
  /\ TypeOK
  /\ chain \in [Thread -> Seq(Lock)]
  /\ held \in [Thread -> Nat]
  /\ mutex \in [Lock -> Thread \cup {NoThread}]

\* A thread owns the first mutexes of the route of its call, as many as it has
\* locked, and none between two calls: every lock_guard is undone, also when
\* the call ends in an exception.
LocksHeld ==
  \A t \in Thread :
    /\ call[t] = NoCall => held[t] = 0
    /\ call[t] # NoCall => held[t] <= Len(Route(t))
    /\ \A l \in Lock :
         mutex[l] = t <=> \E i \in 1 .. held[t] : Route(t)[i] = l

\* SynchronizedOutput keeps the promise of its comment: however ParallelSuites
\* are nested, no two threads are inside the real Output at once.
MutualExclusion ==
  \A t, u \in Thread : Inside(t) /\ Inside(u) => t = u

\* The wrapper and the suites a worker uses belong to the ParallelSuite object
\* whose run() started it: no worker outlives that run(), even if it throws.
WorkersJoined ==
  \A p \in Parallel : \A w \in Workers(p) :
    pc[w] \notin Ended \cup {"idle"} =>
      \E t \in Thread : /\ IsParallel(t) /\ Current(t) = p
                        /\ pc[t] \in {"spawn", "join", "unwinding"}

\* An exception that ends a worker is not lost: the caller of run() gets one.
WorkerExceptionsSurface ==
  pc[Root] = "returned" => \A t \in Thread : pc[t] # "unwound"

\* A thread that waits for another one: for a mutex, for the worker whose future
\* it gets, or for the workers whose futures it destroys.
Blocked(t) ==
  \/ /\ call[t] # NoCall /\ held[t] < Len(Route(t))
     /\ mutex[Route(t)[held[t] + 1]] # NoThread
  \/ /\ pc[t] = "join" /\ next[t] <= Len(Sub[Current(t)])
     /\ pc[SubSuite(Current(t), next[t])] \notin Ended
  \/ /\ pc[t] = "unwinding"
     /\ \E w \in Workers(Current(t)) : pc[w] \notin Ended \cup {"idle"}

\* Waiting for mutexes and for workers does not close a circle: as long as run()
\* is not over, some thread has work to do and waits for nobody.
NoDeadlock ==
  pc[Root] \notin Ended =>
    \E t \in Thread : pc[t] \notin Ended \cup {"idle"} /\ ~Blocked(t)

\* Seen from the real Output, the threads together keep the protocol.
PProtocol == INSTANCE OutputProtocol WITH
  calling <- [t \in Thread |-> IF Inside(t) THEN call[t].op ELSE "none"],
  phase <- [t \in Thread |-> PhaseOf(t)]
PImplementsProtocol == PProtocol!Spec
==============================================================================
