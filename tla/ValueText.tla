------------------------------ MODULE ValueText ------------------------------
(***************************************************************************)
(* Formats::to_string (formatting.h): the text of an operand in a failure  *)
(* message, chosen by the operand's type.  A text is a sequence of         *)
(* characters; the words "true", "false" and "empty" count as one.         *)
(***************************************************************************)
EXTENDS Integers, Sequences, SequencesExt

CONSTANTS
  Letter,   \* the characters of printed strings
  Type,     \* the types of operands
  Operand,  \* the values of every type
  Nesting   \* how deep the templates of a type are nested

\* Types: integers, truth values, strings, and templates of other types.  An optional is the
\* sequence of its at most one value, a vector that of its elements; a variant
\* holds a value of its index-th alternative.
Number == [is |-> "number"]
Boolean == [is |-> "boolean"]
String == [is |-> "string"]
TupleTypeOf(types) == [is |-> "tuple", of |-> types]
OptionalOf(type) == [is |-> "optional", of |-> type]
VariantOf(types) == [is |-> "variant", of |-> types]
VectorOf(type) == [is |-> "vector", of |-> type]

\* A type that is a template's argument, and so nested less deep.
ArgumentOf(type, arg) == arg \in Type /\ Nesting[arg] < Nesting[type]

\* The values that a type has, given those of the types it is made of.
HasValues(type) ==
  CASE type.is = "number" -> Operand[type] \subseteq Int
    [] type.is = "boolean" -> Operand[type] \subseteq BOOLEAN
    [] type.is = "string" -> Operand[type] \subseteq Seq(Letter)
    [] type.is = "tuple" ->
         /\ type.of \in Seq(Type) \ {<<>>}
         /\ \A i \in DOMAIN type.of : ArgumentOf(type, type.of[i])
         /\ \A val \in Operand[type] :
              /\ val = [i \in DOMAIN type.of |-> val[i]]
              /\ \A i \in DOMAIN type.of : val[i] \in Operand[type.of[i]]
    [] type.is = "optional" ->
         /\ ArgumentOf(type, type.of)
         /\ \A val \in Operand[type] : val = <<>> \/ \E x \in Operand[type.of] : val = <<x>>
    [] type.is = "variant" ->
         /\ type.of \in Seq(Type)
         /\ \A i \in DOMAIN type.of : ArgumentOf(type, type.of[i])
         /\ \A val \in Operand[type] : \E i \in DOMAIN type.of : \E x \in Operand[type.of[i]] :
              val = [index |-> i, value |-> x]
    [] type.is = "vector" ->
         ArgumentOf(type, type.of) /\ Operand[type] \subseteq Seq(Operand[type.of])

ASSUME OperandAssumption ==
  /\ Nesting \in [Type -> Nat]
  /\ \A type \in Type :
       /\ type.is \in {"number", "boolean", "string", "tuple", "optional", "variant", "vector"}
       /\ HasValues(type)

-----------------------------------------------------------------------------
\* The decimal digits that std::to_string and operator<< print of an integer.
Figure == <<"0", "1", "2", "3", "4", "5", "6", "7", "8", "9">>
Decimal[n \in Nat] ==
  IF n < 10 THEN <<Figure[n + 1]>> ELSE Append(Decimal[n \div 10], Figure[(n % 10) + 1])
Signed(n) == IF n < 0 THEN <<"-">> \o Decimal[-n] ELSE Decimal[n]

\* to_string of strings, views and literals: in single quotes, nothing escaped.
Quoted(string) == <<"'">> \o string \o <<"'">>

\* MUTANT: nothing is printed between the elements.
Separated_Dropped(texts) == FlattenSeq(texts)

\* toElementString, and the loop over a range: ", " before all but the first.
Separated(texts) ==
  FlattenSeq([i \in DOMAIN texts |-> IF i = 1 THEN texts[1] ELSE <<",", " ">> \o texts[i]])

\* The texts of a value's elements, each of a type of its own or all of one.
TupleTexts(text, type, val) == [i \in DOMAIN val |-> text[type.of[i]][val[i]]]
VectorTexts(text, type, val) == [i \in DOMAIN val |-> text[type.of][val[i]]]

\* to_string of one value, given the text of every value it is made of.
TextFrom(text, type, val) ==
  CASE type.is = "number" -> Signed(val)
    [] type.is = "boolean" -> IF val THEN <<"true">> ELSE <<"false">>
    [] type.is = "string" -> Quoted(val)
    [] type.is = "tuple" -> <<"{">> \o Separated(TupleTexts(text, type, val)) \o <<"}">>
    [] type.is = "optional" ->
         IF val = <<>> THEN <<"(", "empty", ")">> ELSE text[type.of][val[1]]
    [] type.is = "variant" -> text[type.of[val.index]][val.value]
    [] type.is = "vector" ->
         <<"(">> \o Decimal[Len(val)] \o <<")", " ", "[">>
         \o Separated(VectorTexts(text, type, val)) \o <<"]">>

to_string[type \in Type] == [val \in Operand[type] |-> TextFrom(to_string, type, val)]

-----------------------------------------------------------------------------
\* Reference: what the texts of a type begin with, by which the alternatives of
\* a variant and an optional's lack of a value are told apart.
OpeningFrom(opening, type) ==
  CASE type.is = "optional" -> {"empty"} \cup opening[type.of]
    [] type.is = "variant" -> UNION {opening[type.of[i]] : i \in DOMAIN type.of}
    [] OTHER -> {type.is}

Opening[type \in Type] == OpeningFrom(Opening, type)

\* Not so the strings that have quotes in them, optionals of optionals, and
\* variants two alternatives of which print alike.
Distinct(type) ==
  CASE type.is \in {"number", "boolean", "tuple", "vector"} -> TRUE
    [] type.is = "string" -> "'" \notin Letter
    [] type.is = "optional" -> "empty" \notin Opening[type.of]
    [] type.is = "variant" ->
         \A i, j \in DOMAIN type.of :
           Opening[type.of[i]] \cap Opening[type.of[j]] # {} => i = j
=============================================================================
