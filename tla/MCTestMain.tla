----------------------------- MODULE MCTestMain -----------------------------
(***************************************************************************)
(* Suites and arguments for TLC.                                           *)
(***************************************************************************)
EXTENDS TestMain

SomeNames == {"a", "b", "ignored", "handled", "other"}
SomeTests == {"t1", "t2"}
SomeMatches == {<<"p1", "t1">>, <<"p2", "t2">>}

\* Two suites that may be registered under one name, one that is never listed
\* and one that is parallel and not run by default.
SomeEntries ==
  {[name |-> "a", flags |-> {}, tests |-> <<"t1", "t2">>, parallel |-> FALSE],
   [name |-> "a", flags |-> {"OMIT_LIST_TESTS"}, tests |-> <<"t2">>, parallel |-> FALSE],
   [name |-> "b", flags |-> {"OMIT_FROM_DEFAULT"}, tests |-> <<"t1">>, parallel |-> TRUE]}

Option(option, values) == [option : {option}, value : values]

\* Every option, the files of the lists among them.
AllArgs ==
  Option("help", {""})
  \cup Option("list-tests", {"cout", "file"})
  \cup Option("list-suites", {"cout", "file"})
  \cup Option("test-pattern", {"p1", "p2"})
  \cup Option("output-file", {"file"})
  \cup Option("output", {"colored", "unrecognized"})
  \cup Option("mode", {"debug", "unrecognized"})
  \cup Option("name", SomeNames)

\* Arguments of the test program's own.
NameArgs == Option("name", SomeNames)
==============================================================================
