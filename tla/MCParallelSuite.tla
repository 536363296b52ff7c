--------------------------- MODULE MCParallelSuite ---------------------------
(***************************************************************************)
(* Trees with ParallelSuites for TLC.                                      *)
(***************************************************************************)
EXTENDS ParallelSuite

\* Below a plain root two ParallelSuites, one after the other; the first has
\* a ParallelSuite as a worker beside a plain suite, and a method of its own,
\* which it warns about: there is one selected method.
TreeSuite == {"root", "p", "q", "inner", "a", "b", "c"}
TreeSub == [root |-> <<"p", "q">>, p |-> <<"a", "inner">>, inner |-> <<"b">>,
            q |-> <<"c">>, a |-> <<>>, b |-> <<>>, c |-> <<>>]
TreeOwn == [s \in TreeSuite |-> IF s = "p" THEN <<"m1">> ELSE <<>>]

Methods == {"m1"}
EveryTest == listTests[Root]
NoWrapper == <<>>
==============================================================================
