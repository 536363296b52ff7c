-------------------------- MODULE MCCollectorOutput --------------------------
(***************************************************************************)
(* Trees of suites for TLC that report to a CollectorOutput.               *)
(***************************************************************************)
EXTENDS HTMLOutput

\* Plain suites, two of them below the root and one below the first of these:
\* each runs the one method of the root.
PlainSuite == {"root", "mid", "leaf", "last"}
PlainSub == [root |-> <<"mid", "last">>, mid |-> <<"leaf">>, leaf |-> <<>>, last |-> <<>>]
PlainOwn == [root |-> <<"m1">>, mid |-> <<>>, leaf |-> <<>>, last |-> <<>>]

\* A ParallelSuite with two workers.
FlatSuite == {"par", "a", "b"}
FlatSub == [par |-> <<"a", "b">>, a |-> <<>>, b |-> <<>>]
FlatOwn == [par |-> <<>>, a |-> <<"m1">>, b |-> <<>>]

\* A ParallelSuite that was given a method of its own.
WarnOwn == [par |-> <<"m1">>, a |-> <<>>, b |-> <<>>]

Methods == {"m1", "m2"}
EveryTest == listTests[Root]
NoWrapper == <<>>
TestMainWrapper == <<"testMain">>
==============================================================================
