--------------------------- MODULE CompilerFormat ---------------------------
(***************************************************************************)
(* CompilerOutput: how a failure is put into the format string that the    *)
(* compiler's messages have.  A string is a sequence whose members are the *)
(* placeholders and other characters.                                      *)
(***************************************************************************)
EXTENDS Integers, Sequences, SequencesExt

ARG_FILE == "%file"
ARG_LINE == "%line"
ARG_TEXT == "%text"
Placeholder == {ARG_FILE, ARG_LINE, ARG_TEXT}

FORMAT_GCC == <<ARG_FILE, ":", ARG_LINE, ":", " ", ARG_TEXT>>
FORMAT_MSVC == <<ARG_FILE, "(", ARG_LINE, ")", " ", ":", " ", ARG_TEXT>>

\* find and replace: the first occurrence, if there is one.
Replaced(string, arg, by) ==
  LET found == SelectInSeq(string, LAMBDA x : x = arg) IN
  IF found = 0 THEN string
  ELSE SubSeq(string, 1, found - 1) \o by \o SubSeq(string, found + 1, Len(string))

Text(assertion) ==
  IF assertion.errorMessage # <<>> THEN assertion.errorMessage ELSE assertion.userMessage

\* MUTANT: the text is put in first.
printFailure_TextFirst(format, assertion) ==
  Replaced(Replaced(Replaced(format, ARG_TEXT, Text(assertion)),
                    ARG_FILE, assertion.file), ARG_LINE, assertion.line)

\* printFailure: each replacement searches the result of the one before.
printFailure(format, assertion) ==
  Replaced(Replaced(Replaced(format, ARG_FILE, assertion.file), ARG_LINE, assertion.line),
           ARG_TEXT, Text(assertion))

\* printException: the suite for the file, line 0, the method if what() is empty.
printException(format, suite, method, what) ==
  printFailure(format, [file |-> suite, line |-> <<"0">>, errorMessage |-> what,
                        userMessage |-> method])

-----------------------------------------------------------------------------
\* Reference: all placeholders of a format replaced at once.
Filled(format, file, line, text) ==
  FlattenSeq([i \in DOMAIN format |->
    CASE format[i] = ARG_FILE -> file [] format[i] = ARG_LINE -> line
      [] format[i] = ARG_TEXT -> text [] OTHER -> <<format[i]>>])
=============================================================================
