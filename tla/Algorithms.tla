----------------------------- MODULE Algorithms -----------------------------
(***************************************************************************)
(* What the pure functions of the library promise, each against a          *)
(* reference definition: every state is one input, and nothing happens.    *)
(***************************************************************************)
EXTENDS Patterns, Comparisons, Formats, ValueText, XMLText, CompilerFormat

CONSTANTS
  Char,      \* the characters of names, patterns, texts and messages
  Name,      \* the names of tests
  Pattern,   \* the values of --test-pattern
  Utf16,     \* strings of UTF-16 code units
  XMLString, \* the texts in an XML report
  Floating,  \* floating-point values, NaN among them or not
  Span,      \* sequences of these
  Template,  \* the formats of a CompilerOutput
  Place,     \* what is put in for a file or a line
  Message    \* what is put in for a text

ASSUME InputAssumption ==
  /\ Name \subseteq Seq(Char)
  /\ Pattern \subseteq Seq(Char)
  /\ Star \in Char
  /\ Utf16 \subseteq Seq(CodeUnit)
  /\ XMLString \subseteq Seq(Char)
  /\ NaN \notin Int
  /\ Floating \subseteq Int \cup {NaN}
  /\ Span \subseteq Seq(Floating)
  /\ Template \cup Place \cup Message \subseteq Seq(Char)

\* A format has every placeholder at most once, and the name of a file or of a
\* suite has none.
ASSUME FormatAssumption ==
  /\ \A format \in Template : \A i, j \in DOMAIN format :
       format[i] = format[j] /\ format[i] \in Placeholder => i = j
  /\ \A place \in Place : ToSet(place) \cap Placeholder = {}

\* The types of operands whose values have texts of their own.
ASSUME DistinctAssumption == \A type \in Type : Distinct(type)

VARIABLE input

Init ==
  \/ \E name \in Name, pattern \in Pattern :
       input = [of |-> "matchesPattern", name |-> name, pattern |-> pattern]
  \/ \E type \in Signedness : \E x, y, max \in ValueOf(type) :
       input = [of |-> "inMaxDistance", type |-> type, source |-> x, compare |-> y,
                max |-> max]
  \/ \E units \in Utf16 : input = [of |-> "utf16_to_string", units |-> units]
  \/ \E text \in XMLString : input = [of |-> "escapeXML", text |-> text]
  \/ \E type \in {"double", "float"} : \E x, y \in Floating :
       input = [of |-> "isSame", type |-> type, x |-> x, y |-> y]
  \/ \E x, y \in Span : input = [of |-> "isSame", type |-> "span", x |-> x, y |-> y]
  \/ \E lower, upper, value \in Floating :
       input = [of |-> "inRange", lower |-> lower, upper |-> upper, value |-> value]
  \/ \E format \in Template, file, line \in Place, text, user \in Message :
       input = [of |-> "printFailure", format |-> format, file |-> file, line |-> line,
                text |-> text, user |-> user]
  \/ \E type \in Type : \E val \in Operand[type] :
       input = [of |-> "to_string", type |-> type, val |-> val]

Next == UNCHANGED input
Spec == Init /\ [][Next]_input

-----------------------------------------------------------------------------
\* A name that is the pattern with the wildcards filled in matches it, although
\* the search takes the first occurrence of every part; and if the pattern begins
\* and ends with a wildcard no other name does, be it one that has the parts in
\* another order or overlapping.  At an end without a wildcard the search is not
\* anchored, though the help says "Only full matches" (TestMain.cpp:73): whether
\* a name matches that has such a pattern only inside it is left open.
FullMatchesAreFound ==
  input.of = "matchesPattern" =>
    LET name == input.name
        pattern == input.pattern
        matches == matchesPattern(name, SplitPattern(pattern))
    IN  /\ Glob(name, pattern) => matches
        /\ OpenEnded(pattern) /\ matches => Glob(name, pattern)

\* TEST_ASSERT_DELTA accepts exactly the values within the distance, also in
\* unsigned types, where the difference wraps, and with a negative distance; in
\* a signed type unless the distance or the limit is too large for the type.
DistanceIsAbsolute ==
  input.of = "inMaxDistance" =>
    LET distance == Distance(input.source, input.compare)
        limit == Distance(input.max, 0)
    IN  input.type # "signed" \/ {distance, limit} \subseteq ValueOf("signed") =>
          inMaxDistance(input.type, input.source, input.compare, input.max)
          = {distance <= limit}

\* A well-formed UTF-16 string is printed as the same text in UTF-8, and so is
\* the UTF-32 string of its code points.
TextIsKept ==
  input.of = "utf16_to_string" /\ WellFormed(input.units) =>
    LET codes == DecodeUtf16(input.units) IN
    /\ IsUtf8Of(utf16_to_string(input.units), codes)
    /\ IsUtf8Of(utf32_to_string(codes), codes)

\* The operands in a failure message tell which values were compared: different
\* values of one type are printed as different texts, however they are nested.
TextTellsApart ==
  input.of = "to_string" =>
    \A other \in Operand[input.type] \ {input.val} :
      to_string[input.type][other] # to_string[input.type][input.val]

\* Every character of a text in an XML report is escaped exactly once, next to
\* another one or not, although the search skips four characters after any
\* replacement; and the search ends.
EscapedOnce ==
  input.of = "escapeXML" =>
    escapeXML(input.text) = Escaped(input.text) /\ EscapeEnds(input.text)

\* TEST_ASSERT_EQUALS accepts equal values only, in one order as in the other, and
\* it accepts a value of type double, also NaN, as the same as itself, and a value
\* of any type if it has no NaN in it.  Whether a NaN of type float or in a range
\* should be the same as itself is left open: it is not, though the Readme has the
\* macro support "comparison of *NaNs*" without a word on types (Readme.md:41).
SameMeansEqual ==
  input.of = "isSame" =>
    LET same(x, y) == isSame(input.type, x, y)
        numbers == IF input.type = "span" THEN Range(input.x) ELSE {input.x}
    IN  /\ same(input.x, input.y) <=> same(input.y, input.x)
        /\ same(input.x, input.y) => input.x = input.y
        /\ input.type = "double" \/ NaN \notin numbers => same(input.x, input.x)

\* A range assertion accepts the values between its limits in whichever order
\* these are given, and nothing if a limit or the value is not a number.
RangeEitherOrder ==
  input.of = "inRange" =>
    (inRange(input.lower, input.upper, input.value)
     <=> /\ NaN \notin {input.lower, input.upper, input.value}
         /\ input.value \in (input.lower .. input.upper) \cup (input.upper .. input.lower))

\* A compiler message has the file, the line and the text where the format asks
\* for them, also if the message of the assertion looks like a placeholder: the
\* text is put in last.  (A file or suite whose name looks like one is garbled.)
TemplateIsFilled ==
  input.of = "printFailure" =>
    LET assertion == [file |-> input.file, line |-> input.line, errorMessage |-> input.text,
                      userMessage |-> input.user]
        text == IF input.text = <<>> THEN input.user ELSE input.text
    IN  /\ printFailure(input.format, assertion)
             = Filled(input.format, input.file, input.line, text)
        /\ printException(input.format, input.file, input.user, input.text)
             = Filled(input.format, input.file, <<"0">>, text)
=============================================================================
