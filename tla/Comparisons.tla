---------------------------- MODULE Comparisons ----------------------------
(***************************************************************************)
(* The comparisons behind the assertions (comparisons.h): inMaxDistance in *)
(* the arithmetic of its type T, which is unsigned, signed so that it may  *)
(* overflow, or promoted to a wider int; inRange and isSame also for the   *)
(* floating-point value that is not a number.                              *)
(***************************************************************************)
EXTENDS Integers, Sequences

CONSTANTS
  Bits,  \* BOUND: the width of T (32 or 64)
  NaN    \* the floating-point value that compares with nothing

ASSUME BitsAssumption == Bits \in Nat \ {0}

Signedness == {"unsigned", "signed", "promoted"}
MinOf(type) == IF type = "unsigned" THEN 0 ELSE -(2^(Bits - 1))
MaxOf(type) == IF type = "unsigned" THEN 2^Bits - 1 ELSE 2^(Bits - 1) - 1
ValueOf(type) == MinOf(type) .. MaxOf(type)

Distance(x, y) == IF x > y THEN x - y ELSE y - x

\* MUTANT: the difference is not made positive.
Spread_Signed(type, source, compare) ==
  IF type = "unsigned" THEN (compare - source) % 2^Bits ELSE compare - source

\* (compare - source) * (compare > source ? 1 : -1): in an unsigned type -1 is
\* converted to its greatest value and the product wraps.
Spread(type, source, compare) ==
  IF type = "unsigned"
    THEN (((compare - source) % 2^Bits)
           * (IF compare > source THEN 1 ELSE 2^Bits - 1)) % 2^Bits
    ELSE (compare - source) * (IF compare > source THEN 1 ELSE -1)

\* The possible results: any, if a step overflows in a signed type.
inMaxDistance(type, source, compare, maxDistance) ==
  LET limit == IF maxDistance < 0 THEN -maxDistance ELSE maxDistance
      steps == {compare - source, Spread(type, source, compare), limit}
  IN  IF type = "signed" /\ ~(steps \subseteq ValueOf(type))
        THEN BOOLEAN ELSE {Spread(type, source, compare) <= limit}

\* The operators == and < of the floating-point types.
EqualTo(x, y) == x # NaN /\ x = y
LessThan(x, y) == x # NaN /\ y # NaN /\ x < y
AtMost(x, y) == LessThan(x, y) \/ EqualTo(x, y)

\* MUTANT: the limits are taken to be in order.
inRange_Ordered(lowerLimit, upperLimit, value) ==
  AtMost(lowerLimit, value) /\ AtMost(value, upperLimit)

\* inRange, and inRangeObject for classes.
inRange(lowerLimit, upperLimit, value) ==
  IF LessThan(lowerLimit, upperLimit)
    THEN AtMost(lowerLimit, value) /\ AtMost(value, upperLimit)
    ELSE AtMost(upperLimit, value) /\ AtMost(value, lowerLimit)

\* MUTANT: there is no overload for double.
isSame_General(type, x, y) ==
  IF type = "span"
    THEN Len(x) = Len(y) /\ \A i \in DOMAIN x : EqualTo(x[i], y[i])
    ELSE EqualTo(x, y)

\* isSame: the overload for double is used if both operands are doubles; two
\* floats fit the template better, as does a float with a double.
isSame(type, x, y) ==
  CASE type = "double" -> (x = NaN /\ y = NaN) \/ EqualTo(x, y)
    [] type = "float" -> EqualTo(x, y)
    [] type = "span" -> Len(x) = Len(y) /\ \A i \in DOMAIN x : EqualTo(x[i], y[i])
=============================================================================
