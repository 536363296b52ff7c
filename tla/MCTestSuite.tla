----------------------------- MODULE MCTestSuite -----------------------------
(***************************************************************************)
(* Trees of plain suites for TLC.                                          *)
(***************************************************************************)
EXTENDS TextOutput

\* A suite added twice below the root: it is run again with its members as the
\* first run left them, and its own sub-suite is run in between.
TwiceSuite == {"root", "twice", "leaf"}
TwiceSub == [root |-> <<"twice", "twice">>, twice |-> <<"leaf">>, leaf |-> <<>>]
TwiceOwn == [root |-> <<>>, twice |-> <<"m1">>, leaf |-> <<>>]

\* The root has a method, its sub-suite has another one.
PairSuite == {"root", "leaf"}
PairSub == [root |-> <<"leaf">>, leaf |-> <<>>]
PairOwn == [root |-> <<"m1">>, leaf |-> <<"m2">>]

Methods == {"m1", "m2"}

\* The scenarios of the methods; the root has none of its own, but is handed
\* the methods of the others.
Names == {"common", "special"}
Arguments == [m1 |-> "common", m2 |-> "special"]
Scenarios == [s \in Suite |-> IF s = "root" THEN <<>> ELSE <<"common", "special">>]

\* run(out, continueOnError): everything listTests() finds.
EveryTest == listTests[Root]
==============================================================================
