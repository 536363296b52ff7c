---------------------------- MODULE MCAlgorithms ----------------------------
(***************************************************************************)
(* Algorithms for TLC: every small input.                                  *)
(***************************************************************************)
EXTENDS Algorithms

CONSTANTS
  Plain,      \* the characters that are nothing special
  MaxLength,  \* BOUND: the length of names and patterns
  Unit,       \* UTF-16 code units
  MaxUnits,   \* BOUND: the length of UTF-16 strings
  MaxText,    \* BOUND: the length of XML texts
  MaxString   \* BOUND: the length of printed strings and vectors

MCChar == Plain \cup {Star, ":", "1", "2"} \cup Special \cup Placeholder
MCName == BoundedSeq(Plain, MaxLength)
MCPattern == BoundedSeq(Plain \cup {Star}, MaxLength)
MCUtf16 == BoundedSeq(Unit, MaxUnits)
MCXMLString == BoundedSeq(Special \cup Plain, MaxText)
MCFloating == {0, 1, 2, NaN}
MCSpan == BoundedSeq(MCFloating, 2)
MCTemplate ==
  {f \in BoundedSeq(Placeholder \cup {":"}, 4) :
     \A i, j \in DOMAIN f : f[i] = f[j] /\ f[i] \in Placeholder => i = j}
MCPlace == {<<"a">>, <<"1", "2">>}
MCMessage == BoundedSeq(Placeholder \cup {"a"}, 1) \cup {<<ARG_FILE, "a">>, <<ARG_TEXT, ARG_LINE>>}

\* Types whose to_string compiles: a template is an argument of one only if its
\* overload is declared earlier, so a vector is an argument of none.
PlainType == {Number, Boolean, String}
MCType ==
  LET pairs == {TupleTypeOf(<<a, b>>) : a, b \in {Number, String}}
      options == {OptionalOf(type) : type \in PlainType \cup pairs}
      vectors == {VectorOf(type) : type \in PlainType \cup options \cup {TupleTypeOf(<<Number, Number>>)}}
      variants == {VariantOf(<<Number, String>>), VariantOf(<<Boolean, OptionalOf(Number)>>)}
  IN  PlainType \cup pairs \cup options \cup vectors \cup variants

RECURSIVE NestingOf(_)
NestingOf(type) ==
  IF type.is \in {"number", "boolean", "string"} THEN 0
  ELSE 1 + Max({NestingOf(arg) : arg \in IF type.is \in {"tuple", "variant"}
                                            THEN Range(type.of) ELSE {type.of}})
MCNesting == [type \in MCType |-> NestingOf(type)]

\* Strings in a larger value are kept shorter, so that there are not too many.
RECURSIVE ValuesOf(_, _)
ValuesOf(type, length) ==
  CASE type.is = "number" -> {-1, 1, 11}
    [] type.is = "boolean" -> BOOLEAN
    [] type.is = "string" -> BoundedSeq(Letter, length)
    [] type.is = "tuple" ->
         {<<a, b>> : a \in ValuesOf(type.of[1], length), b \in ValuesOf(type.of[2], length)}
    [] type.is = "optional" ->
         {<<>>} \cup {<<a>> : a \in ValuesOf(type.of, IF type.of.is = "tuple" THEN 1 ELSE length)}
    [] type.is = "variant" ->
         UNION {{[index |-> i, value |-> a] : a \in ValuesOf(type.of[i], length)} :
                  i \in DOMAIN type.of}
    [] type.is = "vector" ->
         BoundedSeq(ValuesOf(type.of, 1), IF type.of.is = "optional" THEN 1 ELSE MaxString)
MCOperand == [type \in MCType |-> ValuesOf(type, MaxString)]
=============================================================================
