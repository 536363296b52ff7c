--------------------------- MODULE AlgorithmProofs ---------------------------
(***************************************************************************)
(* Proofs about module Algorithms, for every input.                        *)
(***************************************************************************)
EXTENDS Algorithms, Induction

\* The types of the inputs, each by itself.
LEMMA Inputs ==
  /\ Name \subseteq Seq(Char) /\ Pattern \subseteq Seq(Char)
  /\ Utf16 \subseteq Seq(CodeUnit)
  /\ XMLString \subseteq Seq(Char)
  /\ Span \subseteq Seq(Floating)
  /\ Template \cup Place \cup Message \subseteq Seq(Char)
BY InputAssumption, Zenon DEF InputAssumption

-----------------------------------------------------------------------------
\* Comparisons.

\* The unsigned product: -1 is the greatest value, so it turns the difference
\* that has wrapped back into the distance.
LEMMA WrappedBack ==
  ASSUME NEW M \in Int, NEW x \in 0 .. M - 1, NEW y \in 0 .. M - 1, ~(y > x)
  PROVE  (((y - x) % M) * (M - 1)) % M = x - y
<1>1. CASE x = y
  <2>1. (y - x) % M = 0
    BY <1>1
  <2>2. ((y - x) % M) * (M - 1) = 0
    BY <2>1
  <2> QED BY <1>1, <2>2
<1>2. CASE x # y
  <2>1. PICK d \in 1 .. M - 1 : d = x - y
    BY <1>2
  <2>2. (y - x) % M = M - d
    BY <2>1
  <2>3. (M - d) * (M - 1) = M * (M - 1 - d) + d
    BY <2>1
  <2>4. PICK k \in Int : k = M - 1 - d
    BY <2>1
  <2>5. (M * k + d) % M = d
    BY <2>1
  <2> QED BY <2>1, <2>2, <2>3, <2>4, <2>5
<1> QED BY <1>1, <1>2

LEMMA SpreadIsDistance ==
  ASSUME NEW type \in Signedness, NEW x \in ValueOf(type), NEW y \in ValueOf(type)
  PROVE  Spread(type, x, y) = Distance(x, y)
<1>1. 2^Bits \in Int /\ 2^(Bits - 1) \in Int
  BY BitsAssumption DEF BitsAssumption
<1>2. x \in Int /\ y \in Int
  BY <1>1 DEF ValueOf, MinOf, MaxOf
<1>3. CASE type = "unsigned"
  <2>1. x \in 0 .. 2^Bits - 1 /\ y \in 0 .. 2^Bits - 1
    BY <1>3 DEF ValueOf, MinOf, MaxOf
  <2>2. PICK M \in Int : M = 2^Bits
    BY <1>1
  <2>3. CASE y > x
    <3>1. (y - x) % M = y - x
      BY <2>1, <2>2, <2>3
    <3>2. (((y - x) % M) * 1) % M = y - x
      BY <3>1, <2>1, <2>2, <2>3
    <3> QED BY <1>2, <1>3, <2>2, <2>3, <3>2 DEF Spread, Distance
  <2>4. CASE ~(y > x)
    <3>1. (((y - x) % M) * (M - 1)) % M = x - y
      BY <2>1, <2>2, <2>4, WrappedBack
    <3>2. Distance(x, y) = x - y
      BY <1>2, <2>4 DEF Distance
    <3> QED BY <1>3, <2>2, <2>4, <3>1, <3>2 DEF Spread
  <2> QED BY <2>3, <2>4
<1>4. CASE type # "unsigned"
  <2>1. CASE y > x
    BY <1>2, <1>4, <2>1 DEF Spread, Distance
  <2>2. CASE ~(y > x)
    BY <1>2, <1>4, <2>2 DEF Spread, Distance
  <2> QED BY <2>1, <2>2
<1> QED BY <1>3, <1>4

\* For types of every width: the comparison accepts exactly the values within
\* the distance, where the distance and the limit are values of the type.
THEOREM DistancesAreAbsolute == Spec => []DistanceIsAbsolute
<1>1. ASSUME NEW type \in Signedness, NEW x \in ValueOf(type), NEW y \in ValueOf(type),
             NEW max \in ValueOf(type),
             type # "signed" \/ {Distance(x, y), Distance(max, 0)} \subseteq ValueOf("signed")
      PROVE  inMaxDistance(type, x, y, max) = {Distance(x, y) <= Distance(max, 0)}
  <2>1. x \in Int /\ y \in Int /\ max \in Int /\ 2^(Bits - 1) \in Int
    BY BitsAssumption DEF BitsAssumption, ValueOf, MinOf, MaxOf
  <2>2. (IF max < 0 THEN -max ELSE max) = Distance(max, 0)
    BY <2>1 DEF Distance
  <2>3. ASSUME type = "signed"
        PROVE  y - x \in ValueOf("signed")
    BY <1>1, <2>1, <2>3 DEF Distance, ValueOf, MinOf, MaxOf
  <2> QED BY <1>1, <2>2, <2>3, SpreadIsDistance DEF inMaxDistance
<1>2. Init => DistanceIsAbsolute
  <2> SUFFICES ASSUME Init, input.of = "inMaxDistance" PROVE DistanceIsAbsolute
    BY DEF DistanceIsAbsolute
  <2>1. PICK type \in Signedness : \E x, y, max \in ValueOf(type) :
          input = [of |-> "inMaxDistance", type |-> type, source |-> x, compare |-> y,
                   max |-> max]
    BY DEF Init
  <2>2. PICK x \in ValueOf(type), y \in ValueOf(type), max \in ValueOf(type) :
          input = [of |-> "inMaxDistance", type |-> type, source |-> x, compare |-> y,
                   max |-> max]
    BY <2>1
  <2> QED BY <1>1, <2>2 DEF DistanceIsAbsolute
<1>3. DistanceIsAbsolute /\ [Next]_input => DistanceIsAbsolute'
  BY DEF DistanceIsAbsolute, Next
<1> QED BY <1>2, <1>3, PTL DEF Spec

\* Whatever the limits: a range assertion accepts what lies between them.
THEOREM RangesEitherOrder == Spec => []RangeEitherOrder
<1>1. ASSUME NEW lower \in Floating, NEW upper \in Floating, NEW value \in Floating
      PROVE  inRange(lower, upper, value)
              <=> /\ NaN \notin {lower, upper, value}
                  /\ value \in (lower .. upper) \cup (upper .. lower)
  <2>1. /\ lower \in Int \/ lower = NaN
        /\ upper \in Int \/ upper = NaN
        /\ value \in Int \/ value = NaN
        /\ NaN \notin Int
    BY InputAssumption DEF InputAssumption
  <2>2. CASE NaN \in {lower, upper, value}
    BY <2>2 DEF inRange, AtMost, LessThan, EqualTo
  <2>3. CASE lower \in Int /\ upper \in Int /\ value \in Int
    <3>1. /\ lower # NaN /\ upper # NaN /\ value # NaN
      BY <2>1, <2>3
    <3>2. inRange(lower, upper, value) <=>
            IF lower < upper THEN lower <= value /\ value <= upper
                             ELSE upper <= value /\ value <= lower
      BY <2>3, <3>1 DEF inRange, AtMost, LessThan, EqualTo
    <3> QED BY <2>3, <3>1, <3>2
  <2> QED BY <2>1, <2>2, <2>3
<1>2. Init => RangeEitherOrder
  <2> SUFFICES ASSUME Init, input.of = "inRange" PROVE RangeEitherOrder
    BY DEF RangeEitherOrder
  <2>1. PICK lower \in Floating, upper \in Floating, value \in Floating :
          input = [of |-> "inRange", lower |-> lower, upper |-> upper, value |-> value]
    BY DEF Init
  <2> QED BY <1>1, <2>1 DEF RangeEitherOrder
<1>3. RangeEitherOrder /\ [Next]_input => RangeEitherOrder'
  BY DEF RangeEitherOrder, Next
<1> QED BY <1>2, <1>3, PTL DEF Spec

\* Whatever the operands: sameness is symmetric and means equality, and doubles
\* and what has no NaN in it are the same as themselves.
THEOREM SamenessMeansEquality == Spec => []SameMeansEqual
<1>1. ASSUME NEW type \in {"double", "float"}, NEW x, NEW y,
             input = [of |-> "isSame", type |-> type, x |-> x, y |-> y]
      PROVE  SameMeansEqual
  <2>1. input.type = type /\ input.x = x /\ input.y = y /\ type # "span"
    BY <1>1
  <2> QED BY <1>1, <2>1 DEF SameMeansEqual, isSame, EqualTo
<1>2. ASSUME NEW x \in Span, NEW y \in Span,
             input = [of |-> "isSame", type |-> "span", x |-> x, y |-> y]
      PROVE  SameMeansEqual
  <2>1. input.type = "span" /\ input.x = x /\ input.y = y
    BY <1>2
  <2>2. x \in Seq(Floating) /\ y \in Seq(Floating)
    BY Inputs
  <2>3. \A a, b \in {x, y} : isSame("span", a, b)
          <=> Len(a) = Len(b) /\ \A i \in DOMAIN a : a[i] # NaN /\ a[i] = b[i]
    BY DEF isSame, EqualTo
  <2>4. isSame("span", x, y) => x = y
    BY <2>2, <2>3
  <2>5. isSame("span", y, x) => x = y
    BY <2>2, <2>3
  <2>6. NaN \notin Range(x) => isSame("span", x, x)
    BY <2>3 DEF Range
  <2> QED BY <2>1, <2>4, <2>5, <2>6 DEF SameMeansEqual
<1>3. Init => SameMeansEqual
  BY <1>1, <1>2 DEF Init, SameMeansEqual
<1>4. SameMeansEqual /\ [Next]_input => SameMeansEqual'
  BY DEF SameMeansEqual, Next
<1> QED BY <1>3, <1>4, PTL DEF Spec

-----------------------------------------------------------------------------
\* Texts made by putting a text for every character.

Each(text, F) == [i \in DOMAIN text |-> F[text[i]]]
Put(text, F) == FlattenSeq(Each(text, F))

Puts(F, S, R) == \A c \in S : F[c] \in Seq(R)

LEMMA PutType ==
  ASSUME NEW S, NEW R, NEW F, Puts(F, S, R), NEW text \in Seq(S)
  PROVE  /\ Each(text, F) \in Seq(Seq(R))
         /\ Put(text, F) \in Seq(R)
<1>1. DOMAIN text = 1 .. Len(text) /\ Len(text) \in Nat
  OBVIOUS
<1>2. \A i \in 1 .. Len(text) : F[text[i]] \in Seq(R)
  BY DEF Puts
<1>3. [i \in 1 .. Len(text) |-> F[text[i]]] \in Seq(Seq(R))
  BY <1>1, <1>2
<1>4. Each(text, F) \in Seq(Seq(R))
  BY <1>1, <1>3 DEF Each
<1> QED BY <1>4, FlattenType DEF Put

IsJoined(f, x, y) ==
  /\ Len(f) = Len(x) + Len(y)
  /\ \A i \in 1 .. Len(x) : f[i] = x[i]
  /\ \A i \in 1 .. Len(y) : f[Len(x) + i] = y[i]

LEMMA JoinedFrom ==
  ASSUME NEW S, NEW x \in Seq(S), NEW y \in Seq(S), NEW f \in Seq(S), IsJoined(f, x, y)
  PROVE  f = x \o y
<1>0. /\ Len(f) = Len(x) + Len(y)
      /\ \A i \in 1 .. Len(x) : f[i] = x[i]
      /\ \A i \in 1 .. Len(y) : f[Len(x) + i] = y[i]
  BY DEF IsJoined
<1>1. Len(x) \in Nat /\ Len(y) \in Nat
  OBVIOUS
<1>2. x \o y \in Seq(S) /\ Len(x \o y) = Len(x) + Len(y)
  OBVIOUS
<1>3. ASSUME NEW i \in 1 .. Len(x) + Len(y)
      PROVE  f[i] = (x \o y)[i]
  <2>1. CASE i <= Len(x)
    <3>1. i \in 1 .. Len(x)
      BY <1>1, <2>1
    <3>2. (x \o y)[i] = x[i]
      BY <3>1
    <3> QED BY <1>0, <3>1, <3>2
  <2>2. CASE i > Len(x)
    <3>1. i - Len(x) \in 1 .. Len(y) /\ Len(x) + (i - Len(x)) = i
      BY <1>1, <2>2
    <3>2. (x \o y)[i] = y[i - Len(x)]
      BY <1>1, <2>2
    <3>3. f[Len(x) + (i - Len(x))] = y[i - Len(x)]
      BY <1>0, <3>1
    <3> QED BY <3>1, <3>2, <3>3
  <2> QED BY <1>1, <2>1, <2>2
<1> QED BY <1>0, <1>2, <1>3, SeqEqual

\* What is put for two texts, one behind the other.
LEMMA PutAppend ==
  ASSUME NEW S, NEW R, NEW F, Puts(F, S, R),
         NEW a \in Seq(S), NEW b \in Seq(S)
  PROVE  Put(a \o b, F) = Put(a, F) \o Put(b, F)
<1>1. Each(a, F) \in Seq(Seq(R)) /\ Each(b, F) \in Seq(Seq(R))
  BY PutType
<1>2. Each(a \o b, F) = Each(a, F) \o Each(b, F)
  <2>1. /\ Len(Each(a, F)) = Len(a) /\ Len(Each(b, F)) = Len(b)
        /\ Len(a) \in Nat /\ Len(b) \in Nat
    BY DEF Each
  <2>2. Each(a \o b, F) = [i \in 1 .. Len(a) + Len(b) |-> F[(a \o b)[i]]]
    BY DEF Each
  <2>3. ASSUME NEW i \in 1 .. Len(a)
        PROVE  Each(a \o b, F)[i] = Each(a, F)[i]
    <3>1. (a \o b)[i] = a[i]
      OBVIOUS
    <3> QED BY <2>2, <3>1 DEF Each
  <2>4. ASSUME NEW i \in 1 .. Len(b)
        PROVE  Each(a \o b, F)[Len(a) + i] = Each(b, F)[i]
    <3>1. (a \o b)[Len(a) + i] = b[i]
      OBVIOUS
    <3> QED BY <2>1, <2>2, <3>1 DEF Each
  <2>5. Each(a \o b, F) \in Seq(Seq(R)) /\ Len(Each(a \o b, F)) = Len(a) + Len(b)
    <3>1. a \o b \in Seq(S)
      OBVIOUS
    <3>2. Each(a \o b, F) \in Seq(Seq(R))
      BY <3>1, PutType
    <3> QED BY <2>1, <2>2, <3>2
  <2>6. PICK x \in Seq(Seq(R)), y \in Seq(Seq(R)) : x = Each(a, F) /\ y = Each(b, F)
    BY <1>1
  <2>7. PICK f \in Seq(Seq(R)) : f = Each(a \o b, F)
    BY <2>5
  <2>8. Len(x) = Len(a) /\ Len(y) = Len(b) /\ Len(f) = Len(a) + Len(b)
    BY <2>1, <2>5, <2>6, <2>7, Zenon
  <2>9. \A i \in 1 .. Len(x) : f[i] = x[i]
    BY <2>3, <2>6, <2>7, <2>8, Zenon
  <2>10. \A i \in 1 .. Len(y) : f[Len(x) + i] = y[i]
    BY <2>4, <2>6, <2>7, <2>8, Zenon
  <2>11. Len(f) = Len(x) + Len(y)
    BY <2>8
  <2>12. IsJoined(f, x, y)
    BY <2>9, <2>10, <2>11 DEF IsJoined
  <2>13. f = x \o y
    BY <2>12, JoinedFrom
  <2> QED BY <2>6, <2>7, <2>13
<1>3. FlattenSeq(Each(a, F) \o Each(b, F)) = FlattenSeq(Each(a, F)) \o FlattenSeq(Each(b, F))
  BY <1>1, FlattenConcat
<1> QED BY <1>2, <1>3 DEF Put

LEMMA PutOne ==
  ASSUME NEW S, NEW R, NEW F, Puts(F, S, R), NEW c \in S
  PROVE  Put(<<c>>, F) = F[c]
<1>1. Each(<<c>>, F) = <<F[c]>>
  BY DEF Each
<1> QED BY <1>1, FlattenOne DEF Put, Puts

\* The alphabet of the formats and texts, and of what is put into them.
Alphabet == Char \cup Placeholder
              \cup {"0", "\"", "'", "<", ">", "&", "q", "u", "o", "t", ";", "a", "p", "s", "l", "g", "m"}
Texts == Seq(Alphabet)
Free(arg) == Seq(Alphabet \ {arg})
Fills(F) == \A c \in Alphabet : F[c] \in Texts

LEMMA PutText ==
  ASSUME NEW F, Fills(F), NEW text \in Texts
  PROVE  Put(text, F) \in Texts
<1>1. Puts(F, Alphabet, Alphabet) /\ text \in Seq(Alphabet)
  BY DEF Fills, Texts, Puts
<1>2. Put(text, F) \in Seq(Alphabet)
  BY <1>1, PutType
<1> QED BY <1>2 DEF Texts

LEMMA PutFree ==
  ASSUME NEW arg, NEW F, \A c \in Alphabet \ {arg} : F[c] \in Free(arg),
         NEW text \in Free(arg)
  PROVE  Put(text, F) \in Free(arg)
<1>1. Puts(F, Alphabet \ {arg}, Alphabet \ {arg}) /\ text \in Seq(Alphabet \ {arg})
  BY DEF Free, Puts
<1>2. Put(text, F) \in Seq(Alphabet \ {arg})
  BY <1>1, PutType
<1> QED BY <1>2 DEF Free

LEMMA PutBoth ==
  ASSUME NEW F, Fills(F), NEW a \in Texts, NEW b \in Texts
  PROVE  Put(a \o b, F) = Put(a, F) \o Put(b, F)
<1>1. Puts(F, Alphabet, Alphabet) /\ a \in Seq(Alphabet) /\ b \in Seq(Alphabet)
  BY DEF Fills, Texts, Puts
<1> QED BY <1>1, PutAppend

LEMMA PutChar ==
  ASSUME NEW F, Fills(F), NEW c \in Alphabet
  PROVE  Put(<<c>>, F) = F[c]
<1>1. Puts(F, Alphabet, Alphabet)
  BY DEF Fills, Texts, Puts
<1> QED BY <1>1, PutOne

LEMMA TextsClosed ==
  /\ <<>> \in Texts
  /\ \A c \in Alphabet : <<c>> \in Texts
  /\ \A a, b \in Texts : a \o b \in Texts
BY DEF Texts

LEMMA FreeIsText ==
  ASSUME NEW arg, NEW text \in Free(arg)
  PROVE  text \in Texts
BY DEF Free, Texts

LEMMA PutNone ==
  ASSUME NEW F
  PROVE  Put(<<>>, F) = <<>>
<1>1. Each(<<>>, F) = <<>>
  BY DEF Each
<1> QED BY <1>1 DEF Put, FlattenSeq

LEMMA PutAgrees ==
  ASSUME NEW text, NEW F, NEW G, \A i \in DOMAIN text : F[text[i]] = G[text[i]]
  PROVE  Put(text, F) = Put(text, G)
BY DEF Put, Each

\* A text without its last character.
LEMMA Shorter ==
  ASSUME NEW text \in Texts, NEW k \in Nat, k + 1 <= Len(text)
  PROVE  /\ SubSeq(text, 1, k) \in Texts /\ text[k + 1] \in Alphabet
         /\ SubSeq(text, 1, k + 1) = SubSeq(text, 1, k) \o <<text[k + 1]>>
<1>1. text \in Seq(Alphabet)
  BY DEF Texts
<1>2. SubSeq(text, 1, k) \in Seq(Alphabet) /\ text[k + 1] \in Alphabet
  BY <1>1
<1>3. SubSeq(text, 1, k + 1) = SubSeq(text, 1, k) \o <<text[k + 1]>>
  BY <1>1
<1> QED BY <1>2, <1>3 DEF Texts

\* Every character for itself.
LEMMA PutSame ==
  ASSUME NEW F, \A c \in Alphabet : F[c] = <<c>>, NEW text \in Texts
  PROVE  Put(text, F) = text
<1> DEFINE T == {k \in Nat : k <= Len(text) => Put(SubSeq(text, 1, k), F) = SubSeq(text, 1, k)}
<1>0. Fills(F)
  BY TextsClosed DEF Fills
<1>1. 0 \in T
  <2>1. SubSeq(text, 1, 0) = <<>>
    BY DEF Texts
  <2> QED BY <2>1, PutNone
<1>2. ASSUME NEW k \in Nat, k \in T
      PROVE  k + 1 \in T
  <2> SUFFICES ASSUME k + 1 <= Len(text)
               PROVE  Put(SubSeq(text, 1, k + 1), F) = SubSeq(text, 1, k + 1)
    OBVIOUS
  <2>1. PICK a \in Texts, c \in Alphabet :
          /\ a = SubSeq(text, 1, k)
          /\ SubSeq(text, 1, k + 1) = a \o <<c>>
    BY Shorter
  <2>2. <<c>> \in Texts
    BY TextsClosed, Zenon
  <2>3. Put(a \o <<c>>, F) = Put(a, F) \o Put(<<c>>, F)
    BY <1>0, <2>2, PutBoth, Zenon
  <2>4. Put(<<c>>, F) = <<c>>
    BY <1>0, PutChar, Zenon
  <2>5. Put(a, F) = a
    <3>1. Len(text) \in Nat
      BY DEF Texts
    <3> QED BY <1>2, <2>1, <3>1
  <2> QED BY <2>1, <2>3, <2>4, <2>5, Zenon
<1>3. Nat \subseteq T
  <2> HIDE DEF T
  <2> QED BY <1>1, <1>2, SetInduction
<1>4. Len(text) \in Nat /\ SubSeq(text, 1, Len(text)) = text
  BY DEF Texts
<1>5. Put(SubSeq(text, 1, Len(text)), F) = SubSeq(text, 1, Len(text))
  BY <1>3, <1>4, SMTT(30)
<1> QED BY <1>4, <1>5

-----------------------------------------------------------------------------
\* The formats of CompilerOutput.

LEMMA NothingToReplace ==
  ASSUME NEW arg, NEW string \in Free(arg), NEW by
  PROVE  Replaced(string, arg, by) = string
<1>1. {i \in 1 .. Len(string) : string[i] = arg} = {}
  BY DEF Free
<1> QED BY <1>1 DEF Replaced, SelectInSeq

LEMMA FirstReplaced ==
  ASSUME NEW arg \in Alphabet, NEW a \in Free(arg), NEW b \in Texts, NEW by \in Texts
  PROVE  Replaced((a \o <<arg>>) \o b, arg, by) = (a \o by) \o b
<1>1. PICK s : s = (a \o <<arg>>) \o b
  OBVIOUS
<1>2. /\ s \in Seq(Alphabet) /\ Len(s) = Len(a) + 1 + Len(b)
      /\ Len(a) \in Nat /\ Len(b) \in Nat
      /\ a \in Seq(Alphabet) /\ b \in Seq(Alphabet) /\ s[Len(a) + 1] = arg
  BY <1>1 DEF Free, Texts
<1>3. \A i \in 1 .. Len(a) : s[i] = a[i] /\ s[i] # arg
  BY <1>1 DEF Free, Texts
<1>4. SelectInSeq(s, LAMBDA x : x = arg) = Len(a) + 1
  <2>1. PICK I : I = {i \in 1 .. Len(s) : s[i] = arg}
    OBVIOUS
  <2>2. Len(a) + 1 \in I /\ \A i \in I : i \in Int /\ Len(a) + 1 <= i
    BY <1>2, <1>3, <2>1
  <2>3. Min(I) = Len(a) + 1
    BY <1>2, <2>2 DEF Min
  <2> QED BY <2>1, <2>2, <2>3 DEF SelectInSeq
<1>5. SubSeq(s, 1, Len(a)) = a
  BY <1>1, <1>2, <1>3
<1>6. SubSeq(s, Len(a) + 2, Len(s)) = b
  <2>1. PICK r : r = SubSeq(s, Len(a) + 2, Len(s))
    OBVIOUS
  <2>2. r \in Seq(Alphabet) /\ Len(r) = Len(b)
    BY <1>2, <2>1
  <2>3. \A i \in 1 .. Len(r) : r[i] = b[i]
    BY <1>1, <1>2, <2>1, <2>2
  <2> QED BY <1>2, <2>1, <2>2, <2>3, SeqEqual
<1>7. Replaced(s, arg, by) = SubSeq(s, 1, Len(a)) \o by \o SubSeq(s, Len(a) + 2, Len(s))
  <2>1. Len(a) + 1 # 0 /\ (Len(a) + 1) - 1 = Len(a) /\ (Len(a) + 1) + 1 = Len(a) + 2
    BY <1>2
  <2> QED BY <1>4, <2>1, Zenon DEF Replaced
<1> QED BY <1>1, <1>5, <1>6, <1>7, Zenon

LEMMA WithoutArg ==
  ASSUME NEW arg, NEW text \in Texts, \A i \in 1 .. Len(text) : text[i] # arg
  PROVE  text \in Free(arg)
<1>1. \A i \in 1 .. Len(text) : text[i] \in Alphabet \ {arg}
  BY DEF Texts
<1>2. text = [i \in 1 .. Len(text) |-> text[i]] /\ Len(text) \in Nat
  BY DEF Texts
<1> QED BY <1>1, <1>2 DEF Free

\* A text before, at and behind a position.
LEMMA CutAt ==
  ASSUME NEW text \in Texts, NEW k \in 1 .. Len(text)
  PROVE  \E a, b \in Texts :
           /\ text = (a \o <<text[k]>>) \o b
           /\ Len(a) = k - 1 /\ \A i \in 1 .. Len(a) : a[i] = text[i]
           /\ Len(b) = Len(text) - k /\ \A i \in 1 .. Len(b) : b[i] = text[k + i]
<1>0. text \in Seq(Alphabet)
  BY DEF Texts
<1>1. PICK a, b : a = SubSeq(text, 1, k - 1) /\ b = SubSeq(text, k + 1, Len(text))
  OBVIOUS
<1>2. a \in Seq(Alphabet) /\ b \in Seq(Alphabet)
  BY <1>0, <1>1
<1>3. Len(a) = k - 1 /\ \A i \in 1 .. Len(a) : a[i] = text[i]
  BY <1>0, <1>1
<1>4. Len(b) = Len(text) - k /\ \A i \in 1 .. Len(b) : b[i] = text[k + i]
  BY <1>0, <1>1
<1>5. text = (a \o <<text[k]>>) \o b
  <2>1. PICK c \in Alphabet : c = text[k]
    BY <1>0
  <2>2. PICK s : s = (a \o <<c>>) \o b
    OBVIOUS
  <2>3. s \in Seq(Alphabet) /\ Len(s) = Len(text) /\ Len(a \o <<c>>) = k
    <3>1. a \o <<c>> \in Seq(Alphabet) /\ Len(a \o <<c>>) = k
      BY <1>0, <1>2, <1>3, <2>1
    <3>2. PICK d \in Seq(Alphabet) : d = a \o <<c>>
      BY <3>1
    <3>3. d \o b \in Seq(Alphabet) /\ Len(d \o b) = Len(d) + Len(b)
      BY <1>2
    <3>4. Len(d) = k /\ Len(b) = Len(text) - k /\ s = d \o b
      BY <1>4, <2>2, <3>1, <3>2
    <3>5. Len(s) = k + (Len(text) - k)
      BY <3>3, <3>4
    <3> QED BY <1>0, <3>1, <3>3, <3>4, <3>5
  <2>4. ASSUME NEW i \in 1 .. Len(text)
        PROVE  s[i] = text[i]
    <3>1. CASE i < k
      BY <1>0, <1>2, <1>3, <2>2, <3>1
    <3>2. CASE i = k
      BY <1>0, <1>2, <1>3, <2>1, <2>2, <3>2
    <3>3. CASE i > k
      <4>1. i - k \in 1 .. Len(b) /\ k + (i - k) = i
        BY <1>0, <1>4, <3>3
      <4>2. s[i] = b[i - k]
        BY <1>0, <1>2, <1>4, <2>2, <2>3, <3>3
      <4> QED BY <1>4, <4>1, <4>2
    <3> QED BY <1>0, <3>1, <3>2, <3>3
  <2>5. s = text
    BY <1>0, <2>3, <2>4, SeqEqual
  <2> QED BY <2>1, <2>2, <2>5
<1> QED BY <1>2, <1>3, <1>4, <1>5 DEF Texts

\* A text around its only placeholder of a kind.
LEMMA SplitAt ==
  ASSUME NEW text \in Texts, NEW k \in 1 .. Len(text),
         \A i \in 1 .. Len(text) : text[i] = text[k] => i = k
  PROVE  \E a, b \in Free(text[k]) : text = (a \o <<text[k]>>) \o b
<1>0. text \in Seq(Alphabet)
  BY DEF Texts
<1>1. PICK a \in Texts, b \in Texts :
        /\ text = (a \o <<text[k]>>) \o b
        /\ Len(a) = k - 1 /\ \A i \in 1 .. Len(a) : a[i] = text[i]
        /\ Len(b) = Len(text) - k /\ \A i \in 1 .. Len(b) : b[i] = text[k + i]
  BY CutAt
<1>4. a \in Free(text[k])
  <2>1. \A i \in 1 .. Len(a) : a[i] # text[k]
    BY <1>0, <1>1
  <2> QED BY <2>1, WithoutArg
<1>5. b \in Free(text[k])
  <2>1. \A i \in 1 .. Len(b) : b[i] # text[k]
    BY <1>0, <1>1
  <2> QED BY <2>1, WithoutArg
<1> QED BY <1>1, <1>4, <1>5

\* Replacing one placeholder in a text where the others are filled in.
LEMMA FillOne ==
  ASSUME NEW arg \in Alphabet, NEW by \in Texts, NEW F, Fills(F),
         F[arg] = <<arg>>, \A c \in Alphabet \ {arg} : F[c] \in Free(arg),
         NEW G, G[arg] = by, \A c \in Alphabet \ {arg} : G[c] = F[c],
         NEW format \in Texts,
         \A i, j \in DOMAIN format : format[i] = arg /\ format[j] = arg => i = j
  PROVE  Replaced(Put(format, F), arg, by) = Put(format, G)
<1>1. Fills(G)
  BY DEF Fills
<1>2. ASSUME NEW a \in Free(arg)
      PROVE  Put(a, F) \in Free(arg) /\ Put(a, G) = Put(a, F)
  <2>1. Put(a, F) \in Free(arg)
    BY PutFree
  <2>2. \A i \in DOMAIN a : G[a[i]] = F[a[i]]
    BY DEF Free
  <2> QED BY <2>1, <2>2, PutAgrees
<1>3. CASE \A i \in 1 .. Len(format) : format[i] # arg
  <2>1. format \in Free(arg)
    BY <1>3, WithoutArg, Zenon
  <2> QED BY <1>2, <2>1, NothingToReplace, Zenon
<1>4. CASE \E i \in 1 .. Len(format) : format[i] = arg
  <2>1. PICK k \in 1 .. Len(format) : format[k] = arg
    BY <1>4
  <2>2. \A i \in 1 .. Len(format) : format[i] = format[k] => i = k
    BY <2>1 DEF Texts
  <2>3. PICK a \in Free(arg), b \in Free(arg) : format = (a \o <<arg>>) \o b
    <3>1. \E a, b \in Free(format[k]) : format = (a \o <<format[k]>>) \o b
      BY <2>2, SplitAt
    <3> QED BY <2>1, <3>1, Zenon
  <2>4. a \in Texts /\ b \in Texts /\ <<arg>> \in Texts /\ a \o <<arg>> \in Texts
    BY FreeIsText, TextsClosed, Zenon
  <2>5. ASSUME NEW H, Fills(H)
        PROVE  Put(format, H) = (Put(a, H) \o H[arg]) \o Put(b, H)
    <3>1. Put((a \o <<arg>>) \o b, H) = Put(a \o <<arg>>, H) \o Put(b, H)
      BY <2>4, <2>5, PutBoth, Zenon
    <3>2. Put(a \o <<arg>>, H) = Put(a, H) \o Put(<<arg>>, H)
      BY <2>4, <2>5, PutBoth, Zenon
    <3>3. Put(<<arg>>, H) = H[arg]
      BY <2>5, PutChar, Zenon
    <3> QED BY <2>3, <3>1, <3>2, <3>3, Zenon
  <2>6. /\ Put(a, F) \in Free(arg) /\ Put(b, F) \in Texts
        /\ Put(a, G) = Put(a, F) /\ Put(b, G) = Put(b, F)
    BY <1>2, FreeIsText, Zenon
  <2>7. Replaced((Put(a, F) \o <<arg>>) \o Put(b, F), arg, by) = (Put(a, F) \o by) \o Put(b, F)
    BY <2>6, FirstReplaced, ZenonT(60)
  <2>8. Put(format, F) = (Put(a, F) \o <<arg>>) \o Put(b, F)
    BY <2>5, Zenon
  <2>9. Put(format, G) = (Put(a, F) \o by) \o Put(b, F)
    BY <1>1, <2>5, <2>6, Zenon
  <2> QED BY <2>7, <2>8, <2>9, Zenon
<1> QED BY <1>3, <1>4

\* What is put in has no placeholder, unless it is the text.
LEMMA InputTexts ==
  /\ Template \subseteq Texts
  /\ Message \subseteq Texts
  /\ \A place \in Place \cup {<<"0">>} :
       place \in Texts /\ \A arg \in Placeholder : place \in Free(arg)
<1>1. Char \subseteq Alphabet /\ "0" \in Alphabet /\ Placeholder \subseteq Alphabet
  BY DEF Alphabet
<1>2. ASSUME NEW text \in Seq(Char)
      PROVE  text \in Texts
  <2>1. Len(text) \in Nat /\ text = [i \in 1 .. Len(text) |-> text[i]]
        /\ \A i \in 1 .. Len(text) : text[i] \in Char
    OBVIOUS
  <2> QED BY <1>1, <2>1 DEF Texts
<1>3. Template \subseteq Texts /\ Message \subseteq Texts /\ Place \subseteq Texts
  BY <1>2, Inputs
<1>4. ASSUME NEW place \in Place, NEW arg \in Placeholder
      PROVE  place \in Free(arg)
  <2>1. ToSet(place) \cap Placeholder = {}
    BY FormatAssumption DEF FormatAssumption
  <2>2. \A i \in 1 .. Len(place) : place[i] # arg
    <3>1. DOMAIN place = 1 .. Len(place)
      BY <1>3 DEF Texts
    <3> QED BY <2>1, <3>1 DEF ToSet
  <2> QED BY <1>3, <2>2, WithoutArg
<1>5. <<"0">> \in Texts
  BY <1>1 DEF Texts
<1>6. ASSUME NEW arg \in Placeholder
      PROVE  <<"0">> \in Free(arg)
  <2>1. "0" # arg
    BY DEF Placeholder, ARG_FILE, ARG_LINE, ARG_TEXT
  <2> QED BY <1>1, <2>1 DEF Free
<1> QED BY <1>3, <1>4, <1>5, <1>6

LEMMA TemplateFilled ==
  ASSUME NEW format \in Template, NEW file \in Place, NEW line \in Place \cup {<<"0">>},
         NEW text \in Message
  PROVE  Replaced(Replaced(Replaced(format, ARG_FILE, file), ARG_LINE, line), ARG_TEXT, text)
           = Filled(format, file, line, text)
<1>1. /\ format \in Texts /\ file \in Texts /\ line \in Texts /\ text \in Texts
      /\ \A arg \in Placeholder : file \in Free(arg) /\ line \in Free(arg)
  BY InputTexts
<1>2. /\ ARG_FILE # ARG_LINE /\ ARG_FILE # ARG_TEXT /\ ARG_LINE # ARG_TEXT
      /\ Placeholder = {ARG_FILE, ARG_LINE, ARG_TEXT}
      /\ Placeholder \subseteq Alphabet
  BY DEF Placeholder, ARG_FILE, ARG_LINE, ARG_TEXT, Alphabet
<1>3. \A arg \in Placeholder : \A i, j \in DOMAIN format :
        format[i] = arg /\ format[j] = arg => i = j
  BY FormatAssumption DEF FormatAssumption
<1>4. \A c \in Alphabet : <<c>> \in Texts /\ \A arg : c # arg => <<c>> \in Free(arg)
  BY DEF Texts, Free
<1>5. PICK F0 : F0 = [c \in Alphabet |-> <<c>>]
  OBVIOUS
<1>6. PICK F1 : F1 = [c \in Alphabet |-> IF c = ARG_FILE THEN file ELSE <<c>>]
  OBVIOUS
<1>7. PICK F2 : F2 = [c \in Alphabet |-> IF c = ARG_FILE THEN file
                                         ELSE IF c = ARG_LINE THEN line ELSE <<c>>]
  OBVIOUS
<1>8. PICK F3 : F3 = [c \in Alphabet |-> IF c = ARG_FILE THEN file
                                         ELSE IF c = ARG_LINE THEN line
                                         ELSE IF c = ARG_TEXT THEN text ELSE <<c>>]
  OBVIOUS
<1>9. Put(format, F0) = format
  BY <1>1, <1>5, PutSame
<1>10. Replaced(Put(format, F0), ARG_FILE, file) = Put(format, F1)
  <2>1. Fills(F0) /\ F0[ARG_FILE] = <<ARG_FILE>> /\ F1[ARG_FILE] = file
    BY <1>2, <1>4, <1>5, <1>6 DEF Fills
  <2>2. \A c \in Alphabet \ {ARG_FILE} : F0[c] \in Free(ARG_FILE) /\ F1[c] = F0[c]
    BY <1>4, <1>5, <1>6
  <2>3. \A i, j \in DOMAIN format : format[i] = ARG_FILE /\ format[j] = ARG_FILE => i = j
    BY <1>2, <1>3
  <2> QED BY <1>1, <1>2, <2>1, <2>2, <2>3, FillOne
<1>11. Replaced(Put(format, F1), ARG_LINE, line) = Put(format, F2)
  <2>1. Fills(F1) /\ F1[ARG_LINE] = <<ARG_LINE>> /\ F2[ARG_LINE] = line
    BY <1>1, <1>2, <1>4, <1>6, <1>7 DEF Fills
  <2>2. \A c \in Alphabet \ {ARG_LINE} : F1[c] \in Free(ARG_LINE) /\ F2[c] = F1[c]
    BY <1>1, <1>2, <1>4, <1>6, <1>7
  <2>3. \A i, j \in DOMAIN format : format[i] = ARG_LINE /\ format[j] = ARG_LINE => i = j
    BY <1>2, <1>3
  <2> QED BY <1>1, <1>2, <2>1, <2>2, <2>3, FillOne
<1>12. Replaced(Put(format, F2), ARG_TEXT, text) = Put(format, F3)
  <2>1. Fills(F2) /\ F2[ARG_TEXT] = <<ARG_TEXT>> /\ F3[ARG_TEXT] = text
    BY <1>1, <1>2, <1>4, <1>7, <1>8 DEF Fills
  <2>2. \A c \in Alphabet \ {ARG_TEXT} : F2[c] \in Free(ARG_TEXT) /\ F3[c] = F2[c]
    BY <1>1, <1>2, <1>4, <1>7, <1>8
  <2>3. \A i, j \in DOMAIN format : format[i] = ARG_TEXT /\ format[j] = ARG_TEXT => i = j
    BY <1>2, <1>3
  <2> QED BY <1>1, <1>2, <2>1, <2>2, <2>3, FillOne
<1>13. Filled(format, file, line, text) = Put(format, F3)
  <2>1. \A i \in DOMAIN format : format[i] \in Alphabet
    BY <1>1 DEF Texts
  <2>2. \A c \in Alphabet :
          F3[c] = CASE c = ARG_FILE -> file [] c = ARG_LINE -> line
                    [] c = ARG_TEXT -> text [] OTHER -> <<c>>
    BY <1>2, <1>8
  <2>3. Each(format, F3) =
          [i \in DOMAIN format |->
             CASE format[i] = ARG_FILE -> file [] format[i] = ARG_LINE -> line
               [] format[i] = ARG_TEXT -> text [] OTHER -> <<format[i]>>]
    BY <2>1, <2>2 DEF Each
  <2> QED BY <2>3 DEF Filled, Put
<1> QED BY <1>9, <1>10, <1>11, <1>12, <1>13, Zenon

\* For all formats, and for messages of whatever length and content.
THEOREM TemplatesAreFilled == Spec => []TemplateIsFilled
<1>1. ASSUME NEW format \in Template, NEW file \in Place, NEW line \in Place,
             NEW text \in Message, NEW user \in Message,
             input = [of |-> "printFailure", format |-> format, file |-> file, line |-> line,
                      text |-> text, user |-> user]
      PROVE  TemplateIsFilled
  <2>1. PICK shown \in Message : shown = IF text # <<>> THEN text ELSE user
    OBVIOUS
  <2>2. printFailure(format, [file |-> file, line |-> line, errorMessage |-> text,
                              userMessage |-> user])
          = Filled(format, file, line, shown)
    BY <2>1, TemplateFilled DEF printFailure, Text
  <2>3. printException(format, file, user, text) = Filled(format, file, <<"0">>, shown)
    BY <2>1, TemplateFilled DEF printException, printFailure, Text
  <2> QED BY <1>1, <2>1, <2>2, <2>3 DEF TemplateIsFilled
<1>2. Init => TemplateIsFilled
  BY <1>1 DEF Init, TemplateIsFilled
<1>3. TemplateIsFilled /\ [Next]_input => TemplateIsFilled'
  BY DEF TemplateIsFilled, Next
<1> QED BY <1>2, <1>3, PTL DEF Spec

-----------------------------------------------------------------------------
\* The texts in an XML report.

LEMMA TextsAssociative ==
  ASSUME NEW a \in Texts, NEW b \in Texts, NEW c \in Texts
  PROVE  (a \o b) \o c = a \o (b \o c)
BY ConcatAssociative DEF Texts

\* What is before and behind a character.
IsAround(s, a, c, b) ==
  /\ Len(a) \in Nat /\ Len(b) \in Nat /\ Len(s) = Len(a) + 1 + Len(b)
  /\ s[Len(a) + 1] = c
  /\ \A i \in 1 .. Len(a) : s[i] = a[i]
  /\ SubSeq(s, 1, Len(a)) = a
  /\ SubSeq(s, Len(a) + 2, Len(s)) = b

LEMMA Around ==
  ASSUME NEW a \in Texts, NEW c \in Alphabet, NEW b \in Texts
  PROVE  IsAround((a \o <<c>>) \o b, a, c, b)
<1>0. PICK s : s = (a \o <<c>>) \o b
  OBVIOUS
<1>1. /\ s \in Seq(Alphabet) /\ Len(s) = Len(a) + 1 + Len(b)
      /\ Len(a) \in Nat /\ Len(b) \in Nat
      /\ a \in Seq(Alphabet) /\ b \in Seq(Alphabet) /\ s[Len(a) + 1] = c
  BY <1>0 DEF Texts
<1>2. \A i \in 1 .. Len(a) : s[i] = a[i]
  BY <1>0 DEF Texts
<1>3. SubSeq(s, 1, Len(a)) = a
  BY <1>1, <1>2
<1>4. SubSeq(s, Len(a) + 2, Len(s)) = b
  <2>1. PICK r : r = SubSeq(s, Len(a) + 2, Len(s))
    OBVIOUS
  <2>2. r \in Seq(Alphabet) /\ Len(r) = Len(b)
    BY <1>1, <2>1
  <2>3. \A i \in 1 .. Len(b) : s[Len(a) + 1 + i] = b[i]
    BY <1>0, <1>1
  <2>4. \A i \in 1 .. Len(r) : r[i] = b[i]
    BY <1>1, <2>1, <2>2, <2>3, SMTT(40)
  <2> QED BY <1>1, <2>1, <2>2, <2>4, SeqEqual
<1> QED BY <1>0, <1>1, <1>2, <1>3, <1>4 DEF IsAround

\* Texts that have nothing to escape.
PlainText == Seq(Alphabet \ Special)

Replaces(e) ==
  /\ e \in Texts /\ Len(e) \in Nat /\ 4 <= Len(e)
  /\ \A i \in 5 .. Len(e) : e[i] \notin Special

LEMMA SpecialIs == Special = {"\"", "'", "<", ">", "&"} /\ Special \subseteq Alphabet
BY DEF Special, Entity, Alphabet

LEMMA Four ==
  ASSUME NEW a \in Alphabet, NEW b \in Alphabet, NEW c \in Alphabet,
         NEW d \in Alphabet
  PROVE  Replaces(<<a, b, c, d>>)
<1>1. PICK x : x = <<a, b, c, d>>
  OBVIOUS
<1>2. x \in Seq(Alphabet) /\ Len(x) = 4
  BY <1>1
<1>3. \A i \in 5 .. 4 : x[i] \notin Special
  BY <1>1
<1> QED BY <1>1, <1>2, <1>3 DEF Replaces, Texts

LEMMA Five ==
  ASSUME NEW a \in Alphabet, NEW b \in Alphabet, NEW c \in Alphabet,
         NEW d \in Alphabet, NEW e \in Alphabet,
         e \notin Special
  PROVE  Replaces(<<a, b, c, d, e>>)
<1>1. PICK x : x = <<a, b, c, d, e>>
  OBVIOUS
<1>2. x \in Seq(Alphabet) /\ Len(x) = 5
  BY <1>1
<1>3. \A i \in 5 .. 5 : x[i] \notin Special
  BY <1>1
<1> QED BY <1>1, <1>2, <1>3 DEF Replaces, Texts

LEMMA Six ==
  ASSUME NEW a \in Alphabet, NEW b \in Alphabet, NEW c \in Alphabet,
         NEW d \in Alphabet, NEW e \in Alphabet, NEW f \in Alphabet,
         e \notin Special, f \notin Special
  PROVE  Replaces(<<a, b, c, d, e, f>>)
<1>1. PICK x : x = <<a, b, c, d, e, f>>
  OBVIOUS
<1>2. x \in Seq(Alphabet) /\ Len(x) = 6
  BY <1>1
<1>3. \A i \in 5 .. 6 : x[i] \notin Special
  BY <1>1
<1> QED BY <1>1, <1>2, <1>3 DEF Replaces, Texts

LEMMA EntityIs ==
  ASSUME NEW c \in Special
  PROVE  Replaces(Entity[c])
<1>1. /\ Entity["\""] = <<"&", "q", "u", "o", "t", ";">>
      /\ Entity["'"] = <<"&", "a", "p", "o", "s", ";">>
      /\ Entity["<"] = <<"&", "l", "t", ";">>
      /\ Entity[">"] = <<"&", "g", "t", ";">>
      /\ Entity["&"] = <<"&", "a", "m", "p", ";">>
  BY DEF Entity
<1>2. {"&", "q", "u", "o", "t", ";", "a", "p", "s", "l", "g", "m"} \subseteq Alphabet
  BY DEF Alphabet
<1>3. Replaces(<<"&", "q", "u", "o", "t", ";">>)
  BY <1>2, SpecialIs, Six
<1>4. Replaces(<<"&", "a", "p", "o", "s", ";">>)
  BY <1>2, SpecialIs, Six
<1>5. Replaces(<<"&", "l", "t", ";">>)
  BY <1>2, SpecialIs, Four
<1>6. Replaces(<<"&", "g", "t", ";">>)
  BY <1>2, SpecialIs, Four
<1>7. Replaces(<<"&", "a", "m", "p", ";">>)
  BY <1>2, SpecialIs, Five
<1> QED BY <1>1, <1>3, <1>4, <1>5, <1>6, <1>7, SpecialIs, Zenon

\* A text up to its first special character.
LEMMA FirstSpecial ==
  ASSUME NEW v \in Texts, v \notin PlainText
  PROVE  \E x \in PlainText, c \in Special, y \in Texts : v = (x \o <<c>>) \o y
<1>0. v \in Seq(Alphabet)
  BY DEF Texts
<1>1. PICK I : I = {i \in 1 .. Len(v) : v[i] \in Special}
  OBVIOUS
<1>2. I \in SUBSET Nat /\ I # {}
  <2>1. v = [i \in 1 .. Len(v) |-> v[i]] /\ Len(v) \in Nat
    BY <1>0
  <2>2. I # {}
    <3> SUFFICES ASSUME I = {} PROVE v \in PlainText
      OBVIOUS
    <3>1. \A i \in 1 .. Len(v) : v[i] \in Alphabet \ Special
      BY <1>0, <1>1
    <3> QED BY <2>1, <3>1 DEF PlainText
  <2> QED BY <1>1, <2>2
<1>3. PICK k \in I : \A m \in I : k <= m
  BY <1>2, LeastNatural
<1>4. k \in 1 .. Len(v) /\ v[k] \in Special
  BY <1>1
<1>5. PICK a \in Texts, b \in Texts :
        /\ v = (a \o <<v[k]>>) \o b
        /\ Len(a) = k - 1 /\ \A i \in 1 .. Len(a) : a[i] = v[i]
  BY <1>4, CutAt
<1>7. \A i \in 1 .. Len(a) : a[i] \in Alphabet \ Special
  BY <1>0, <1>1, <1>3, <1>4, <1>5
<1>8. a \in PlainText
  <2>1. a = [i \in 1 .. Len(a) |-> a[i]] /\ Len(a) \in Nat
    BY DEF Texts
  <2> QED BY <1>7, <2>1 DEF PlainText
<1> QED BY <1>4, <1>5, <1>8

Escapes == [c \in Alphabet |-> EscapedChar(c)]

LEMMA EscapesFill ==
  /\ Fills(Escapes)
  /\ \A c \in Special : c \in Alphabet /\ Escapes[c] = Entity[c]
  /\ \A c \in Alphabet \ Special : Escapes[c] = <<c>>
<1>1. \A c \in Special : c \in Alphabet /\ Escapes[c] = Entity[c]
  BY SpecialIs DEF Escapes, EscapedChar
<1>2. \A c \in Alphabet \ Special : Escapes[c] = <<c>>
  BY DEF Escapes, EscapedChar
<1>3. ASSUME NEW c \in Alphabet
      PROVE  Escapes[c] \in Texts
  <2>1. CASE c \in Special
    BY <1>1, <2>1, EntityIs, Zenon DEF Replaces
  <2>2. CASE c \notin Special
    BY <1>2, <2>2, TextsClosed, Zenon
  <2> QED BY <2>1, <2>2
<1> QED BY <1>1, <1>2, <1>3 DEF Fills

LEMMA PlainIs ==
  ASSUME NEW x \in PlainText
  PROVE  x \in Texts /\ Put(x, Escapes) = x /\ \A i \in 1 .. Len(x) : x[i] \notin Special
<1>1. x \in Texts /\ \A i \in 1 .. Len(x) : x[i] \in Alphabet /\ x[i] \notin Special
  BY DEF PlainText, Texts
<1>2. PICK F : F = [c \in Alphabet |-> <<c>>]
  OBVIOUS
<1>3. Put(x, F) = x
  BY <1>1, <1>2, PutSame
<1>4. \A i \in DOMAIN x : Escapes[x[i]] = F[x[i]]
  <2>1. DOMAIN x = 1 .. Len(x)
    BY DEF PlainText
  <2> QED BY <1>1, <1>2, <2>1, EscapesFill
<1>5. Put(x, Escapes) = Put(x, F)
  BY <1>4, PutAgrees
<1> QED BY <1>1, <1>3, <1>5

\* A round of the loop: w is behind the search but for characters that are not
\* special.
LEMMA EscapeNext ==
  ASSUME NEW w \in Texts, NEW x \in PlainText, NEW c \in Special, NEW y \in Texts,
         NEW pos \in 1 .. Len(w) + 1, \A p \in pos .. Len(w) : w[p] \notin Special
  PROVE  EscapeFirst([text |-> w \o ((x \o <<c>>) \o y), pos |-> pos])
           = [text |-> ((w \o x) \o Entity[c]) \o y, pos |-> Len(w) + Len(x) + 1 + Skip]
<1> DEFINE s == w \o ((x \o <<c>>) \o y)
           z == w \o x
           state == [text |-> s, pos |-> pos]
<1>1. x \in Texts /\ <<c>> \in Texts /\ x \o <<c>> \in Texts /\ z \in Texts /\ c \in Alphabet
  BY PlainIs, EscapesFill, TextsClosed, Zenon
<1>2. s = (z \o <<c>>) \o y
  <2>1. s = (w \o (x \o <<c>>)) \o y
    BY <1>1, TextsAssociative, ZenonT(60)
  <2>2. w \o (x \o <<c>>) = z \o <<c>>
    BY <1>1, TextsAssociative
  <2> QED BY <2>1, <2>2, Zenon
<1>3. /\ Len(z) \in Nat /\ Len(y) \in Nat /\ Len(s) = Len(z) + 1 + Len(y)
      /\ s[Len(z) + 1] = c
      /\ \A i \in 1 .. Len(z) : s[i] = z[i]
      /\ SubSeq(s, 1, Len(z)) = z
      /\ SubSeq(s, Len(z) + 2, Len(s)) = y
  <2> HIDE DEF z, s
  <2>1. PICK a \in Texts : a = z
    BY <1>1
  <2>2. IsAround((a \o <<c>>) \o y, a, c, y)
    BY <1>1, Around
  <2>3. IsAround(s, z, c, y)
    BY <1>2, <2>1, <2>2
  <2> QED BY <2>3 DEF IsAround
<1>4. /\ Len(w) \in Nat /\ Len(x) \in Nat /\ Len(z) = Len(w) + Len(x)
      /\ \A i \in 1 .. Len(w) : z[i] = w[i]
      /\ \A i \in 1 .. Len(x) : z[Len(w) + i] = x[i]
  BY <1>1 DEF Texts
<1> HIDE DEF z, s
<1>5. state.text = s /\ state.pos = pos
  OBVIOUS
<1>6. Found(state) = {p \in pos .. Len(s) : s[p] \in Special}
  BY <1>5 DEF Found
<1>7. Len(z) + 1 \in Found(state)
  BY <1>3, <1>4, <1>6
<1>8. ASSUME NEW q \in Found(state)
      PROVE  q \in Int /\ Len(z) + 1 <= q
  <2>1. q \in pos .. Len(s) /\ s[q] \in Special /\ q \in Nat /\ q >= 1
    BY <1>6
  <2>2. ASSUME q <= Len(w) PROVE FALSE
    BY <1>3, <1>4, <2>1, <2>2
  <2>3. ASSUME q > Len(w), q <= Len(z) PROVE FALSE
    <3>1. q - Len(w) \in 1 .. Len(x) /\ Len(w) + (q - Len(w)) = q /\ q \in 1 .. Len(z)
      BY <1>3, <1>4, <2>1, <2>3
    <3>2. s[q] = x[q - Len(w)]
      BY <1>3, <1>4, <3>1
    <3> QED BY <2>1, <3>1, <3>2, PlainIs
  <2> QED BY <1>3, <1>4, <2>1, <2>2, <2>3
<1>9. (CHOOSE p \in Found(state) : \A q \in Found(state) : p <= q) = Len(z) + 1
  <2>1. PICK F : F = Found(state)
    OBVIOUS
  <2>2. Len(z) + 1 \in F /\ Len(z) + 1 \in Int /\ \A q \in F : q \in Int /\ Len(z) + 1 <= q
    BY <1>3, <1>7, <1>8, <2>1
  <2>3. \A p \in F : (\A q \in F : p <= q) => p = Len(z) + 1
    BY <2>2
  <2>4. (CHOOSE p \in F : \A q \in F : p <= q) = Len(z) + 1
    BY <2>2, <2>3
  <2> QED BY <2>1, <2>4
<1>10. EscapeFirst(state) =
         [text |-> SubSeq(s, 1, (Len(z) + 1) - 1) \o Entity[s[Len(z) + 1]]
                     \o SubSeq(s, (Len(z) + 1) + 1, Len(s)),
          pos |-> (Len(z) + 1) + Skip]
  BY <1>5, <1>7, <1>9, Zenon DEF EscapeFirst
<1>11. (Len(z) + 1) - 1 = Len(z) /\ (Len(z) + 1) + 1 = Len(z) + 2
       /\ Len(z) + 1 = Len(w) + Len(x) + 1
  BY <1>3, <1>4
<1>12. EscapeFirst(state) = [text |-> (z \o Entity[c]) \o y,
                             pos |-> Len(w) + Len(x) + 1 + Skip]
  BY <1>3, <1>10, <1>11, Zenon
<1> QED BY <1>12, Zenon DEF z, s

\* How far the search has come after n rounds: u is escaped, v is not yet, and
\* the position is in what u became or right behind it.
Parts(state, text, n, u, v) ==
  LET w == Put(u, Escapes) IN
  /\ text = u \o v
  /\ state.text = w \o v
  /\ state.pos \in 1 .. Len(w) + 1
  /\ \A p \in state.pos .. Len(w) : w[p] \notin Special
  /\ n <= Len(u) \/ v \in PlainText

State == [text : Texts, pos : Nat \ {0}]
Processed(state, text, n) ==
  /\ state \in State
  /\ \E u, v \in Texts : Parts(state, text, n, u, v)

LEMMA StepProcessed ==
  ASSUME NEW text \in Texts, NEW n \in Nat, NEW state, Processed(state, text, n)
  PROVE  Processed(EscapeFirst(state), text, n + 1)
<1>1. PICK u \in Texts, v \in Texts : Parts(state, text, n, u, v)
  BY DEF Processed
<1>2. PICK w : w = Put(u, Escapes)
  OBVIOUS
<1>3. /\ text = u \o v
      /\ state.text = w \o v
      /\ state.pos \in 1 .. Len(w) + 1
      /\ \A p \in state.pos .. Len(w) : w[p] \notin Special
      /\ n <= Len(u) \/ v \in PlainText
  BY <1>1, <1>2, Zenon DEF Parts
<1>4. w \in Texts /\ Len(w) \in Nat /\ Len(u) \in Nat /\ Len(v) \in Nat
  <2>1. w \in Texts
    BY <1>2, PutText, EscapesFill
  <2> QED BY <2>1 DEF Texts
<1>5. state = [text |-> w \o v, pos |-> state.pos]
  BY <1>3 DEF Processed, State
<1>6. CASE v \in PlainText
  <2>1. Found(state) = {}
    <3>1. ASSUME NEW p \in state.pos .. Len(w \o v)
          PROVE  (w \o v)[p] \notin Special
      <4>1. CASE p <= Len(w)
        BY <1>3, <1>4, <4>1 DEF Texts
      <4>2. CASE p > Len(w)
        <5>1. p - Len(w) \in 1 .. Len(v) /\ (w \o v)[p] = v[p - Len(w)]
          BY <1>3, <1>4, <4>2, SMTT(40) DEF Texts
        <5> QED BY <1>6, <5>1, PlainIs
      <4> QED BY <1>3, <1>4, <4>1, <4>2
    <3> QED BY <1>3, <3>1 DEF Found
  <2>2. EscapeFirst(state) = state
    BY <2>1 DEF EscapeFirst
  <2>3. Parts(state, text, n + 1, u, v)
    BY <1>1, <1>6 DEF Parts
  <2> QED BY <2>2, <2>3 DEF Processed
<1>7. CASE v \notin PlainText
  <2>1. PICK x \in PlainText, c \in Special, y \in Texts : v = (x \o <<c>>) \o y
    BY <1>7, FirstSpecial
  <2>2. PICK new : new = [text |-> ((w \o x) \o Entity[c]) \o y, pos |-> Len(w) + Len(x) + 1 + Skip]
    OBVIOUS
  <2>3. EscapeFirst(state) = new
    <3>1. PICK pos \in 1 .. Len(w) + 1 : pos = state.pos
      BY <1>3
    <3>2. \A p \in pos .. Len(w) : w[p] \notin Special
      BY <1>3, <3>1
    <3>3. EscapeFirst([text |-> w \o ((x \o <<c>>) \o y), pos |-> pos]) = new
      BY <1>4, <2>2, <3>2, EscapeNext, ZenonT(60)
    <3> QED BY <1>5, <2>1, <3>1, <3>3, Zenon
  <2>4. /\ x \in Texts /\ Put(x, Escapes) = x /\ c \in Alphabet /\ <<c>> \in Texts
        /\ Put(<<c>>, Escapes) = Entity[c] /\ Fills(Escapes)
        /\ Replaces(Entity[c]) /\ Entity[c] \in Texts
    BY PlainIs, EscapesFill, PutChar, TextsClosed, EntityIs, Zenon DEF Replaces
  <2>5. PICK d : d = (u \o x) \o <<c>>
    OBVIOUS
  <2>6. PICK f : f = (w \o x) \o Entity[c]
    OBVIOUS
  <2>7. u \o x \in Texts /\ x \o <<c>> \in Texts /\ d \in Texts /\ w \o x \in Texts /\ f \in Texts
        /\ f \o y \in Texts
    BY <1>4, <2>4, <2>5, <2>6, TextsClosed, Zenon
  <2>8. f = Put(d, Escapes)
    <3>1. Put(d, Escapes) = Put(u \o x, Escapes) \o Put(<<c>>, Escapes)
      BY <2>4, <2>5, <2>7, PutBoth, Zenon
    <3>2. Put(u \o x, Escapes) = Put(u, Escapes) \o Put(x, Escapes)
      BY <2>4, PutBoth, Zenon
    <3> QED BY <1>2, <2>4, <2>6, <3>1, <3>2, Zenon
  <2>9. text = d \o y
    <3>1. PICK z \in Texts : z = x \o <<c>>
      BY <2>7
    <3>2. u \o (z \o y) = (u \o z) \o y
      BY TextsAssociative, ZenonT(60)
    <3>3. u \o (x \o <<c>>) = (u \o x) \o <<c>>
      BY <2>4, TextsAssociative, SMTT(40)
    <3> QED BY <1>3, <2>1, <2>5, <3>1, <3>2, <3>3, Zenon
  <2>10. PICK e : e = Entity[c]
    OBVIOUS
  <2>11. /\ Len(x) \in Nat /\ Len(e) \in Nat /\ 4 <= Len(e)
         /\ Len(f) = Len(w) + Len(x) + Len(e)
         /\ Len(d) = Len(u) + Len(x) + 1
         /\ \A i \in 1 .. Len(e) : f[Len(w) + Len(x) + i] = e[i]
         /\ \A i \in 5 .. Len(e) : e[i] \notin Special
    <3>1. e \in Texts /\ Len(e) \in Nat /\ 4 <= Len(e) /\ \A i \in 5 .. Len(e) : e[i] \notin Special
      BY <2>4, <2>10 DEF Replaces
    <3>2. Len(w \o x) = Len(w) + Len(x) /\ Len(x) \in Nat
      BY <1>4, <2>4 DEF Texts
    <3>3. Len(u \o x) = Len(u) + Len(x)
      BY <2>4 DEF Texts
    <3>4. PICK a \in Texts : a = w \o x
      BY <2>7
    <3>5. Len(a \o e) = Len(a) + Len(e) /\ \A i \in 1 .. Len(e) : (a \o e)[Len(a) + i] = e[i]
      BY <3>1 DEF Texts
    <3>6. PICK b \in Texts : b = u \o x
      BY <2>7
    <3>7. Len(b \o <<c>>) = Len(b) + 1
      BY <2>4 DEF Texts
    <3> QED BY <2>5, <2>6, <2>10, <3>1, <3>2, <3>3, <3>4, <3>5, <3>6, <3>7
  <2>12. new.text = f \o y /\ new.pos = Len(w) + Len(x) + 5
    <3>1. new.text = f \o y /\ new.pos = Len(w) + Len(x) + 1 + Skip
      BY <2>2, <2>6, Zenon
    <3>2. Len(w) + Len(x) + 1 + Skip = Len(w) + Len(x) + 5
      BY <1>4, <2>11 DEF Skip
    <3> QED BY <3>1, <3>2
  <2>13. new.pos \in 1 .. Len(f) + 1
    BY <1>4, <2>11, <2>12
  <2>14. ASSUME NEW p \in new.pos .. Len(f)
         PROVE  f[p] \notin Special
    <3>1. PICK i : i = p - (Len(w) + Len(x))
      OBVIOUS
    <3>2. i \in 5 .. Len(e) /\ i \in 1 .. Len(e) /\ Len(w) + Len(x) + i = p
      <4>1. /\ p \in Int /\ Len(w) + Len(x) + 5 <= p /\ p <= Len(w) + Len(x) + Len(e)
            /\ Len(w) \in Nat /\ Len(x) \in Nat /\ Len(e) \in Nat
        BY <1>4, <2>11, <2>12
      <4> QED BY <3>1, <4>1
    <3> QED BY <2>11, <3>2
  <2>15. n + 1 <= Len(d)
    BY <1>3, <1>4, <1>7, <2>11
  <2>16. Parts(new, text, n + 1, d, y)
    BY <2>8, <2>9, <2>12, <2>13, <2>14, <2>15, Zenon DEF Parts
  <2>17. new \in State
    <3>1. new = [text |-> f \o y, pos |-> Len(w) + Len(x) + 5]
      BY <2>2, <2>6, <2>12
    <3>2. Len(w) + Len(x) + 5 \in Nat \ {0}
      BY <1>4, <2>11
    <3> QED BY <2>7, <3>1, <3>2 DEF State
  <2> QED BY <2>3, <2>7, <2>16, <2>17 DEF Processed
<1> QED BY <1>6, <1>7

\* The rounds follow their recursion.
LEMMA RoundsAre ==
  ASSUME NEW text \in Texts
  PROVE  Rounds(text) = [n \in 0 .. Len(text) |->
                           IF n = 0 THEN [text |-> text, pos |-> 1]
                           ELSE EscapeFirst(Rounds(text)[n - 1])]
<1>1. Len(text) \in Nat /\ [text |-> text, pos |-> 1] \in State
  BY DEF Texts, State
<1>2. ASSUME NEW state \in State
      PROVE  EscapeFirst(state) \in State
  <2>1. PICK t \in Texts, pos \in Nat \ {0} : state.text = t /\ state.pos = pos
    BY DEF State
  <2>2. CASE Found(state) = {}
    BY <2>2 DEF EscapeFirst
  <2>3. CASE Found(state) # {}
    <3>1. Found(state) \in SUBSET Nat /\ \A p \in Found(state) : p \in 1 .. Len(t) /\ t[p] \in Special
      BY <2>1 DEF Found
    <3>2. PICK p : p = CHOOSE r \in Found(state) : \A q \in Found(state) : r <= q
      OBVIOUS
    <3>3. p \in Found(state)
      <4>1. \E n \in Found(state) : \A m \in Found(state) : n <= m
        BY <2>3, <3>1, LeastNatural
      <4> QED BY <3>2, <4>1
    <3>4. PICK e : e = Entity[t[p]]
      OBVIOUS
    <3>5. e \in Texts /\ p \in 1 .. Len(t)
      BY <3>1, <3>3, <3>4, EntityIs DEF Replaces
    <3>6. SubSeq(t, 1, p - 1) \in Texts /\ SubSeq(t, p + 1, Len(t)) \in Texts
      BY <3>5 DEF Texts
    <3>7. SubSeq(t, 1, p - 1) \o e \o SubSeq(t, p + 1, Len(t)) \in Texts
      BY <3>5, <3>6, TextsClosed, Zenon
    <3>8. p + Skip \in Nat \ {0}
      BY <3>5 DEF Skip
    <3>9. EscapeFirst(state) = [text |-> SubSeq(t, 1, p - 1) \o e \o SubSeq(t, p + 1, Len(t)),
                                pos |-> p + Skip]
      BY <2>1, <2>3, <3>2, <3>4, Zenon DEF EscapeFirst
    <3> QED BY <3>7, <3>8, <3>9 DEF State
  <2> QED BY <2>2, <2>3
<1>3. PICK step : step = [n \in 1 .. Len(text) |-> [state \in State |-> EscapeFirst(state)]]
  OBVIOUS
<1>4. step \in [1 .. Len(text) -> [State -> State]]
  BY <1>2, <1>3
<1>5. PICK f \in [0 .. Len(text) -> State] :
        IsRecursion(f, Len(text), [text |-> text, pos |-> 1], step)
  BY <1>1, <1>4, RecursionExists
<1>6. f = [n \in 0 .. Len(text) |->
             IF n = 0 THEN [text |-> text, pos |-> 1] ELSE EscapeFirst(f[n - 1])]
  <2>1. ASSUME NEW n \in 0 .. Len(text), n # 0
        PROVE  step[n][f[n - 1]] = EscapeFirst(f[n - 1])
    <3>1. n \in 1 .. Len(text) /\ f[n - 1] \in State
      BY <1>1, <2>1
    <3> QED BY <1>3, <3>1
  <2> QED BY <1>5, <2>1 DEF IsRecursion
<1> DEFINE Step(g) == [n \in 0 .. Len(text) |->
                         IF n = 0 THEN [text |-> text, pos |-> 1] ELSE EscapeFirst(g[n - 1])]
<1>7. Rounds(text) = CHOOSE g : g = Step(g)
  BY DEF Rounds
<1>8. f = Step(f)
  BY <1>6
<1>9. Rounds(text) = Step(Rounds(text))
  <2> HIDE DEF Step
  <2> QED BY <1>7, <1>8, Zenon
<1> QED BY <1>9

\* For texts of whatever length.
LEMMA TextEscaped ==
  ASSUME NEW text \in Texts
  PROVE  escapeXML(text) = Escaped(text) /\ EscapeEnds(text)
<1> DEFINE T == {n \in Nat : n <= Len(text) => Processed(Rounds(text)[n], text, n)}
<1>0. Len(text) \in Nat
  BY DEF Texts
<1>1. 0 \in T
  <2>1. Rounds(text)[0] = [text |-> text, pos |-> 1]
    BY <1>0, RoundsAre
  <2>2. Put(<<>>, Escapes) = <<>> /\ <<>> \in Texts
    BY PutNone, TextsClosed, Zenon
  <2>3. <<>> \o text = text /\ Len(<<>>) = 0
    BY DEF Texts
  <2>4. Parts(Rounds(text)[0], text, 0, <<>>, text)
    <3>1. 1 \in 1 .. Len(<<>>) + 1 /\ 1 .. Len(<<>>) = {} /\ 0 <= Len(<<>>)
      BY <2>3
    <3>2. Rounds(text)[0].text = text /\ Rounds(text)[0].pos = 1
      BY <2>1
    <3> QED BY <2>2, <2>3, <3>1, <3>2, Zenon DEF Parts
  <2>5. Rounds(text)[0] \in State
    BY <2>1 DEF State
  <2> QED BY <2>2, <2>4, <2>5 DEF Processed
<1>2. ASSUME NEW n \in Nat, n \in T
      PROVE  n + 1 \in T
  <2> SUFFICES ASSUME n + 1 <= Len(text)
               PROVE  Processed(Rounds(text)[n + 1], text, n + 1)
    OBVIOUS
  <2>1. n <= Len(text) /\ n + 1 \in 0 .. Len(text) /\ n + 1 # 0 /\ (n + 1) - 1 = n
    BY <1>0
  <2>2. Rounds(text)[n + 1] = EscapeFirst(Rounds(text)[n])
    BY <2>1, RoundsAre
  <2>3. Processed(Rounds(text)[n], text, n)
    BY <1>2, <2>1
  <2> QED BY <2>2, <2>3, StepProcessed
<1>3. Nat \subseteq T
  <2> HIDE DEF T
  <2> QED BY <1>1, <1>2, SetInduction
<1>4. PICK state : state = Rounds(text)[Len(text)]
  OBVIOUS
<1>5. Processed(state, text, Len(text))
  BY <1>0, <1>3, <1>4
<1>6. PICK u \in Texts, v \in Texts : Parts(state, text, Len(text), u, v)
  BY <1>5 DEF Processed
<1>7. PICK w : w = Put(u, Escapes)
  OBVIOUS
<1>8. /\ text = u \o v
      /\ state.text = w \o v
      /\ state.pos \in 1 .. Len(w) + 1
      /\ \A p \in state.pos .. Len(w) : w[p] \notin Special
      /\ Len(text) <= Len(u) \/ v \in PlainText
  BY <1>6, <1>7, Zenon DEF Parts
<1>9. v \in PlainText
  <2> SUFFICES ASSUME Len(text) <= Len(u) PROVE v \in PlainText
    BY <1>8
  <2>1. v = <<>>
    BY <1>8 DEF Texts
  <2> QED BY <2>1 DEF PlainText
<1>10. w \in Texts
  BY <1>7, PutText, EscapesFill
<1>11. state.text = Put(text, Escapes)
  <2>1. Put(u \o v, Escapes) = Put(u, Escapes) \o Put(v, Escapes)
    BY PutBoth, EscapesFill
  <2>2. Put(v, Escapes) = v
    BY <1>9, PlainIs
  <2> QED BY <1>7, <1>8, <2>1, <2>2, Zenon
<1>12. Put(text, Escapes) = Escaped(text)
  <2>1. \A i \in DOMAIN text : Escapes[text[i]] = EscapedChar(text[i])
    BY DEF Texts, Escapes
  <2> QED BY <2>1 DEF Put, Each, Escaped
<1>13. Found(state) = {}
  <2>1. ASSUME NEW p \in state.pos .. Len(w \o v)
        PROVE  (w \o v)[p] \notin Special
    <3>0. Len(w) \in Nat /\ Len(v) \in Nat
      BY <1>10 DEF Texts
    <3>1. CASE p <= Len(w)
      BY <1>8, <1>10, <3>0, <3>1 DEF Texts
    <3>2. CASE p > Len(w)
      <4>1. p - Len(w) \in 1 .. Len(v) /\ (w \o v)[p] = v[p - Len(w)]
        BY <1>8, <1>10, <3>0, <3>2 DEF Texts
      <4> QED BY <1>9, <4>1, PlainIs
    <3> QED BY <1>8, <3>0, <3>1, <3>2
  <2> QED BY <1>8, <2>1 DEF Found
<1> QED BY <1>4, <1>11, <1>12, <1>13 DEF escapeXML, EscapeEnds

THEOREM CharactersAreEscaped == Spec => []EscapedOnce
<1>1. Init => EscapedOnce
  <2> SUFFICES ASSUME Init, input.of = "escapeXML"
               PROVE  escapeXML(input.text) = Escaped(input.text) /\ EscapeEnds(input.text)
    BY DEF EscapedOnce
  <2>1. PICK text \in XMLString : input = [of |-> "escapeXML", text |-> text]
    BY DEF Init
  <2>2. text \in Texts
    <3>1. text \in Seq(Char) /\ Char \subseteq Alphabet
      BY Inputs DEF Alphabet
    <3> QED BY <3>1, SeqMonotonic DEF Texts
  <2> QED BY <2>1, <2>2, TextEscaped
<1>2. EscapedOnce /\ [Next]_input => EscapedOnce'
  BY DEF EscapedOnce, Next
<1> QED BY <1>1, <1>2, PTL DEF Spec

-----------------------------------------------------------------------------
\* Patterns.

Strings == Seq(Char)

LEMMA StringsClosed ==
  /\ <<>> \in Strings /\ Len(<<>>) = 0
  /\ \A a \in Strings : /\ Len(a) \in Nat /\ DOMAIN a = 1 .. Len(a)
                        /\ \A i \in 1 .. Len(a) : a[i] \in Char
                        /\ \A c \in Char : Append(a, c) \in Strings
BY DEF Strings

SplitState == [parts : Seq(Strings), rest : Strings]

\* One round of the splitting loop.
Splitted(s, c) ==
  IF c = Star THEN [parts |-> Append(s.parts, s.rest), rest |-> <<>>]
  ELSE [parts |-> s.parts, rest |-> Append(s.rest, c)]

LEMMA SplitsAre ==
  ASSUME NEW pattern \in Strings
  PROVE  /\ Splits(pattern) \in [0 .. Len(pattern) -> SplitState]
         /\ Splits(pattern)[0] = [parts |-> <<>>, rest |-> <<>>]
         /\ \A k \in 1 .. Len(pattern) :
              Splits(pattern)[k] = Splitted(Splits(pattern)[k - 1], pattern[k])
<1> DEFINE n == Len(pattern)
           base == [parts |-> <<>>, rest |-> <<>>]
           Step(g) == [k \in 0 .. n |->
                         IF k = 0 THEN base ELSE Splitted(g[k - 1], pattern[k])]
<1>1. n \in Nat /\ \A k \in 1 .. n : pattern[k] \in Char
  BY StringsClosed
<1>2. base \in SplitState
  BY StringsClosed DEF SplitState
<1>3. ASSUME NEW s \in SplitState, NEW c \in Char
      PROVE  Splitted(s, c) \in SplitState
  <2>1. PICK parts \in Seq(Strings), rest \in Strings : s.parts = parts /\ s.rest = rest
    BY DEF SplitState
  <2>2. Append(parts, rest) \in Seq(Strings) /\ <<>> \in Strings /\ Append(rest, c) \in Strings
    BY StringsClosed
  <2> QED BY <2>1, <2>2 DEF Splitted, SplitState
<1>4. PICK step : step = [k \in 1 .. n |-> [s \in SplitState |-> Splitted(s, pattern[k])]]
  OBVIOUS
<1>5. step \in [1 .. n -> [SplitState -> SplitState]]
  BY <1>1, <1>3, <1>4
<1> HIDE DEF base
<1>6. PICK f \in [0 .. n -> SplitState] : IsRecursion(f, n, base, step)
  BY <1>1, <1>2, <1>5, RecursionExists
<1>7. \A k \in 1 .. n : step[k][f[k - 1]] = Splitted(f[k - 1], pattern[k])
  BY <1>1, <1>4
<1>8. f = Step(f)
  <2>1. f = [k \in 0 .. n |-> IF k = 0 THEN base ELSE step[k][f[k - 1]]]
    BY <1>6 DEF IsRecursion
  <2> QED BY <1>1, <1>7, <2>1
<1>9. Splits(pattern) = CHOOSE g : g = Step(g)
  BY DEF Splits, base, Splitted
<1>10. Splits(pattern) = Step(Splits(pattern))
  <2> HIDE DEF Step
  <2> QED BY <1>8, <1>9, Zenon
<1>11. PICK g : g = Splits(pattern)
  OBVIOUS
<1>12. /\ g = [k \in 0 .. n |-> g[k]]
       /\ g[0] = base
       /\ \A k \in 1 .. n : g[k] = Splitted(g[k - 1], pattern[k])
  <2>1. g = [k \in 0 .. n |-> IF k = 0 THEN base ELSE Splitted(g[k - 1], pattern[k])]
    BY <1>10, <1>11
  <2>2. g = [k \in 0 .. n |-> g[k]] /\ g[0] = base
    BY <1>1, <2>1
  <2>3. ASSUME NEW k \in 1 .. n
        PROVE  g[k] = Splitted(g[k - 1], pattern[k])
    <3>1. k \in 0 .. n /\ k # 0
      BY <1>1
    <3> QED BY <2>1, <3>1, Zenon
  <2> QED BY <2>2, <2>3
<1>13. \A k \in 0 .. n : g[k] \in SplitState
  <2> DEFINE T == {k \in 0 .. n : g[k] \in SplitState}
  <2>1. 0 \in T
    BY <1>1, <1>2, <1>12
  <2>2. \A k \in 1 .. n : k - 1 \in T => k \in T
    <3> SUFFICES ASSUME NEW k \in 1 .. n, g[k - 1] \in SplitState PROVE g[k] \in SplitState
      BY <1>1
    <3> QED BY <1>1, <1>3, <1>12
  <2>3. \A k \in 0 .. n : k \in T
    <3> HIDE DEF T
    <3> QED BY <1>1, <2>1, <2>2, RangeInduction
  <2> QED BY <2>3
<1> QED BY <1>11, <1>12, <1>13 DEF base

Reached(name) == 0 .. Len(name) \cup {npos}

\* Where a part is found from pos on.
Places(name, part, pos) ==
  {p \in pos .. Len(name) - Len(part) : SubSeq(name, p + 1, p + Len(part)) = part}

LEMMA FindIs ==
  ASSUME NEW name \in Strings, NEW part \in Strings, NEW pos \in 0 .. Len(name)
  PROVE  IF Places(name, part, pos) = {} THEN Find(name, part, pos) = npos
         ELSE /\ Find(name, part, pos) \in Places(name, part, pos)
              /\ \A q \in Places(name, part, pos) : Find(name, part, pos) <= q
<1>1. CASE Places(name, part, pos) = {}
  BY <1>1 DEF Places, Find
<1>2. CASE Places(name, part, pos) # {}
  <2>1. PICK F : F = Places(name, part, pos)
    OBVIOUS
  <2>2. F \in SUBSET Nat
    BY <2>1, StringsClosed DEF Places
  <2>3. \E p \in F : \A q \in F : p <= q
    BY <1>2, <2>1, <2>2, LeastNatural
  <2>4. Find(name, part, pos) = CHOOSE p \in F : \A q \in F : p <= q
    BY <1>2, <2>1, Zenon DEF Find, Places
  <2> QED BY <1>2, <2>1, <2>3, <2>4
<1> QED BY <1>1, <1>2

LEMMA SearchOnIs ==
  ASSUME NEW name \in Strings, NEW part \in Strings, NEW pos \in Reached(name)
  PROVE  /\ SearchOn(name, pos, part) \in Reached(name)
         /\ pos = npos \/ Places(name, part, pos) = {} => SearchOn(name, pos, part) = npos
         /\ pos # npos /\ Places(name, part, pos) # {} =>
              /\ SearchOn(name, pos, part) \in 0 .. Len(name)
              /\ SearchOn(name, pos, part) - Len(part) \in Places(name, part, pos)
              /\ \A q \in Places(name, part, pos) : SearchOn(name, pos, part) - Len(part) <= q
<1>0. Len(name) \in Nat /\ Len(part) \in Nat
  BY StringsClosed
<1>1. CASE pos = npos \/ Places(name, part, pos) = {}
  <2>1. SearchOn(name, pos, part) = npos
    <3>1. pos # npos => Find(name, part, pos) = npos
      BY <1>1, FindIs DEF Reached
    <3> QED BY <3>1 DEF SearchOn
  <2> QED BY <1>1, <2>1 DEF Reached
<1>2. CASE pos # npos /\ Places(name, part, pos) # {}
  <2>1. PICK at : at = Find(name, part, pos)
    OBVIOUS
  <2>2. pos \in 0 .. Len(name)
    BY <1>2 DEF Reached
  <2>3. at \in Places(name, part, pos) /\ \A q \in Places(name, part, pos) : at <= q
    BY <1>2, <2>1, <2>2, FindIs
  <2>4. at \in Nat /\ at + Len(part) \in 0 .. Len(name) /\ at # npos
    BY <1>0, <2>2, <2>3 DEF Places, npos
  <2>5. SearchOn(name, pos, part) = at + Len(part)
    BY <1>2, <2>1, <2>4 DEF SearchOn
  <2>6. (at + Len(part)) - Len(part) = at
    BY <1>0, <2>4
  <2> QED BY <1>2, <2>3, <2>4, <2>5, <2>6 DEF Reached
<1> QED BY <1>1, <1>2

LEMMA SearchIs ==
  ASSUME NEW name \in Strings, NEW parts \in Seq(Strings)
  PROVE  /\ Search(name, parts) \in [0 .. Len(parts) -> Reached(name)]
         /\ Search(name, parts)[0] = 0
         /\ \A k \in 1 .. Len(parts) :
              Search(name, parts)[k] = SearchOn(name, Search(name, parts)[k - 1], parts[k])
<1> DEFINE n == Len(parts)
           S == Reached(name)
           Step(g) == [k \in 0 .. n |-> IF k = 0 THEN 0 ELSE SearchOn(name, g[k - 1], parts[k])]
<1>1. n \in Nat /\ \A k \in 1 .. n : parts[k] \in Strings
  OBVIOUS
<1>2. 0 \in S
  BY StringsClosed DEF Reached
<1>3. \A pos \in S : \A part \in Strings : SearchOn(name, pos, part) \in S
  BY SearchOnIs
<1>4. PICK step : step = [k \in 1 .. n |-> [pos \in S |-> SearchOn(name, pos, parts[k])]]
  OBVIOUS
<1>5. step \in [1 .. n -> [S -> S]]
  BY <1>1, <1>3, <1>4
<1> HIDE DEF S
<1>6. PICK f \in [0 .. n -> S] : IsRecursion(f, n, 0, step)
  BY <1>1, <1>2, <1>5, RecursionExists
<1>7. \A k \in 1 .. n : step[k][f[k - 1]] = SearchOn(name, f[k - 1], parts[k])
  BY <1>1, <1>4
<1>8. f = Step(f)
  <2>1. f = [k \in 0 .. n |-> IF k = 0 THEN 0 ELSE step[k][f[k - 1]]]
    BY <1>6 DEF IsRecursion
  <2>2. /\ f = [k \in 0 .. n |-> f[k]]
        /\ \A k \in 0 .. n : f[k] = IF k = 0 THEN 0 ELSE step[k][f[k - 1]]
    BY <2>1
  <2>3. ASSUME NEW k \in 0 .. n
        PROVE  f[k] = IF k = 0 THEN 0 ELSE SearchOn(name, f[k - 1], parts[k])
    <3>1. CASE k = 0
      BY <2>2, <3>1
    <3>2. CASE k # 0
      <4>1. k \in 1 .. n
        BY <1>1, <3>2
      <4>2. f[k] = step[k][f[k - 1]]
        BY <2>2, <3>2
      <4> QED BY <1>7, <3>2, <4>1, <4>2
    <3> QED BY <3>1, <3>2
  <2> QED BY <2>2, <2>3, ZenonT(60)
<1>9. Search(name, parts) = CHOOSE g : g = Step(g)
  BY DEF Search
<1>10. Search(name, parts) = Step(Search(name, parts))
  <2> HIDE DEF Step
  <2> QED BY <1>8, <1>9, Zenon
<1>11. PICK g : g = Search(name, parts)
  OBVIOUS
<1>12. /\ g = [k \in 0 .. n |-> g[k]]
       /\ g[0] = 0
       /\ \A k \in 1 .. n : g[k] = SearchOn(name, g[k - 1], parts[k])
  <2>1. g = Step(g)
    BY <1>10, <1>11
  <2> QED BY <1>1, <2>1
<1>13. \A k \in 0 .. n : g[k] \in S
  <2> DEFINE T == {k \in 0 .. n : g[k] \in S}
  <2>1. 0 \in T
    BY <1>1, <1>2, <1>12
  <2>2. \A k \in 1 .. n : k - 1 \in T => k \in T
    <3> SUFFICES ASSUME NEW k \in 1 .. n, g[k - 1] \in S PROVE g[k] \in S
      BY <1>1
    <3> QED BY <1>1, <1>3, <1>12
  <2>3. \A k \in 0 .. n : k \in T
    <3> HIDE DEF T
    <3> QED BY <1>1, <2>1, <2>2, RangeInduction
  <2> QED BY <2>3
<1> QED BY <1>11, <1>12, <1>13 DEF S

\* One round of the reference definition.
EndsNext(name, before, c) ==
  IF c = Star THEN {q \in 0 .. Len(name) : \E p \in before : p <= q}
  ELSE {q \in 1 .. Len(name) : q - 1 \in before /\ name[q] = c}

LEMMA EndsAre ==
  ASSUME NEW name \in Strings, NEW pattern \in Strings
  PROVE  /\ Ends(name, pattern)[0] = {0}
         /\ \A k \in 1 .. Len(pattern) :
              Ends(name, pattern)[k] = EndsNext(name, Ends(name, pattern)[k - 1], pattern[k])
<1> DEFINE n == Len(pattern)
           S == SUBSET (0 .. Len(name))
           Step(g) == [k \in 0 .. n |-> IF k = 0 THEN {0} ELSE EndsNext(name, g[k - 1], pattern[k])]
<1>1. n \in Nat /\ Len(name) \in Nat
  BY StringsClosed
<1>2. {0} \in S
  BY <1>1
<1>3. ASSUME NEW before \in S, NEW c
      PROVE  EndsNext(name, before, c) \in S
  BY <1>1 DEF EndsNext
<1>4. PICK step : step = [k \in 1 .. n |-> [before \in S |-> EndsNext(name, before, pattern[k])]]
  OBVIOUS
<1> HIDE DEF S
<1>5. step \in [1 .. n -> [S -> S]]
  BY <1>1, <1>3, <1>4
<1>6. PICK f \in [0 .. n -> S] : IsRecursion(f, n, {0}, step)
  BY <1>1, <1>2, <1>5, RecursionExists
<1>7. \A k \in 1 .. n : step[k][f[k - 1]] = EndsNext(name, f[k - 1], pattern[k])
  BY <1>1, <1>4
<1>8. f = Step(f)
  <2>1. f = [k \in 0 .. n |-> IF k = 0 THEN {0} ELSE step[k][f[k - 1]]]
    BY <1>6 DEF IsRecursion
  <2>2. ASSUME NEW k \in 0 .. n
        PROVE  (IF k = 0 THEN {0} ELSE step[k][f[k - 1]])
                 = (IF k = 0 THEN {0} ELSE EndsNext(name, f[k - 1], pattern[k]))
    <3>1. k # 0 => k \in 1 .. n
      BY <1>1
    <3> QED BY <1>7, <3>1, Zenon
  <2> QED BY <2>1, <2>2
<1>9. Ends(name, pattern) = CHOOSE g : g = Step(g)
  BY DEF Ends, EndsNext
<1>10. Ends(name, pattern) = Step(Ends(name, pattern))
  <2> HIDE DEF Step
  <2> QED BY <1>8, <1>9, Zenon
<1>11. PICK g : g = Ends(name, pattern)
  OBVIOUS
<1>12. g = [k \in 0 .. n |-> IF k = 0 THEN {0} ELSE EndsNext(name, g[k - 1], pattern[k])]
  BY <1>10, <1>11
<1>13. g[0] = {0}
  BY <1>1, <1>12
<1>14. ASSUME NEW k \in 1 .. n
       PROVE  g[k] = EndsNext(name, g[k - 1], pattern[k])
  <2>1. k \in 0 .. n /\ k # 0
    BY <1>1
  <2> QED BY <1>12, <2>1, Zenon
<1> QED BY <1>11, <1>13, <1>14

\* What has been found of some parts does not depend on the next one.
LEMMA SearchAppend ==
  ASSUME NEW name \in Strings, NEW parts \in Seq(Strings), NEW part \in Strings
  PROVE  Search(name, Append(parts, part))[Len(parts) + 1]
           = SearchOn(name, Search(name, parts)[Len(parts)], part)
<1>1. PICK n, more : n = Len(parts) /\ more = Append(parts, part)
  OBVIOUS
<1>2. n \in Nat /\ more \in Seq(Strings) /\ Len(more) = n + 1 /\ more[n + 1] = part
      /\ \A k \in 1 .. n : more[k] = parts[k]
  BY <1>1
<1>3. PICK f, g : f = Search(name, parts) /\ g = Search(name, more)
  OBVIOUS
<1>4. f[0] = 0 /\ \A k \in 1 .. n : f[k] = SearchOn(name, f[k - 1], parts[k])
  BY <1>1, <1>3, SearchIs
<1>5. g[0] = 0 /\ \A k \in 1 .. n + 1 : g[k] = SearchOn(name, g[k - 1], more[k])
  BY <1>2, <1>3, SearchIs
<1> DEFINE T == {k \in 0 .. n : g[k] = f[k]}
<1>6. 0 \in T
  BY <1>2, <1>4, <1>5
<1>7. \A k \in 1 .. n : k - 1 \in T => k \in T
  <2> SUFFICES ASSUME NEW k \in 1 .. n, g[k - 1] = f[k - 1] PROVE g[k] = f[k]
    BY <1>2
  <2>1. k \in 1 .. n + 1
    BY <1>2
  <2> QED BY <1>2, <1>4, <1>5, <2>1
<1>8. \A k \in 0 .. n : k \in T
  <2> HIDE DEF T
  <2> QED BY <1>2, <1>6, <1>7, RangeInduction
<1>9. g[n] = f[n]
  BY <1>2, <1>8
<1>10. g[n + 1] = SearchOn(name, g[(n + 1) - 1], more[n + 1]) /\ (n + 1) - 1 = n
  BY <1>2, <1>5
<1> QED BY <1>1, <1>2, <1>3, <1>9, <1>10

\* Where a part may end that begins at pos or later.
Reach(name, pos, rest) ==
  {q \in 0 .. Len(name) : pos # npos /\ q - Len(rest) \in Places(name, rest, pos)}

\* A part is found somewhere behind pos, and the search goes on behind the first
\* such place: from there on, a wildcard may end anywhere.
LEMMA StarReaches ==
  ASSUME NEW name \in Strings, NEW rest \in Strings, NEW pos \in Reached(name)
  PROVE  {q \in 0 .. Len(name) : \E p \in Reach(name, pos, rest) : p <= q}
           = Reach(name, SearchOn(name, pos, rest), <<>>)
<1>1. PICK new : new = SearchOn(name, pos, rest)
  OBVIOUS
<1>2. Len(name) \in Nat /\ Len(rest) \in Nat
  BY StringsClosed
<1>3. CASE pos = npos \/ Places(name, rest, pos) = {}
  <2>1. new = npos
    BY <1>1, <1>3, SearchOnIs
  <2>2. Reach(name, pos, rest) = {} /\ Reach(name, new, <<>>) = {}
    BY <1>3, <2>1 DEF Reach
  <2> QED BY <1>1, <2>2
<1>4. CASE pos # npos /\ Places(name, rest, pos) # {}
  <2>1. /\ new \in 0 .. Len(name)
        /\ new - Len(rest) \in Places(name, rest, pos)
        /\ \A q \in Places(name, rest, pos) : new - Len(rest) <= q
    BY <1>1, <1>4, SearchOnIs
  <2>2. new \in Reach(name, pos, rest) /\ \A q \in Reach(name, pos, rest) : q \in Nat /\ new <= q
    BY <1>2, <1>4, <2>1 DEF Reach
  <2>3. Reach(name, new, <<>>) = new .. Len(name)
    <3>1. new # npos
      BY <2>1 DEF npos
    <3>2. Len(<<>>) = 0 /\ \A q \in Int : SubSeq(name, q + 1, q + 0) = <<>>
      OBVIOUS
    <3>3. Places(name, <<>>, new) = new .. Len(name)
      BY <1>2, <2>1, <3>2 DEF Places
    <3> QED BY <1>2, <2>1, <3>1, <3>2, <3>3 DEF Reach
  <2> QED BY <1>1, <1>2, <2>1, <2>2, <2>3
<1> QED BY <1>3, <1>4

LEMMA CharReaches ==
  ASSUME NEW name \in Strings, NEW rest \in Strings, NEW pos \in Reached(name), NEW c \in Char
  PROVE  {q \in 1 .. Len(name) : q - 1 \in Reach(name, pos, rest) /\ name[q] = c}
           = Reach(name, pos, Append(rest, c))
<1>1. PICK more : more = Append(rest, c)
  OBVIOUS
<1>0. Len(name) \in Nat /\ Len(rest) \in Nat /\ Len(more) = Len(rest) + 1
  BY <1>1 DEF Strings
<1>2. /\ more[Len(rest) + 1] = c /\ \A i \in 1 .. Len(rest) : more[i] = rest[i]
      /\ name \in Seq(Char) /\ rest \in Seq(Char) /\ more \in Seq(Char)
  BY <1>1 DEF Strings
<1>3. CASE pos = npos
  BY <1>1, <1>3 DEF Reach
<1>4. CASE pos # npos
  <2>1. pos \in Nat
    BY <1>4 DEF Reached
  <2>2. ASSUME NEW q \in 1 .. Len(name), pos <= q - Len(more)
        PROVE  SubSeq(name, (q - Len(more)) + 1, (q - Len(more)) + Len(more)) = more
                 <=> /\ SubSeq(name, (q - Len(more)) + 1, (q - Len(more)) + Len(rest)) = rest
                     /\ name[q] = c
    <3>0. PICK j \in Nat : j = Len(more)
      BY <1>0
    <3>1. PICK p \in Nat : p = q - Len(more)
      BY <2>1, <2>2, <3>0
    <3>2. PICK m \in Nat : m = Len(rest)
      BY <1>0
    <3>3. q = p + m + 1 /\ Len(more) = m + 1 /\ p + m + 1 <= Len(name)
      BY <1>0, <3>1, <3>2
    <3>4. PICK a, b : a = SubSeq(name, p + 1, p + m + 1) /\ b = SubSeq(name, p + 1, p + m)
      OBVIOUS
    <3>5. /\ a \in Seq(Char) /\ Len(a) = m + 1 /\ \A i \in 1 .. m + 1 : a[i] = name[p + i]
          /\ b \in Seq(Char) /\ Len(b) = m /\ \A i \in 1 .. m : b[i] = name[p + i]
      <4>1. /\ a \in Seq(Char) /\ Len(a) = m + 1 /\ \A i \in 1 .. m + 1 : a[i] = name[p + i]
        BY <1>2, <3>3, <3>4
      <4>2. b \in Seq(Char) /\ Len(b) = m /\ \A i \in 1 .. m : b[i] = name[p + i]
        BY <1>2, <3>3, <3>4
      <4> QED BY <4>1, <4>2
    <3>6. ASSUME a = more
          PROVE  b = rest /\ name[q] = c
      <4>1. ASSUME NEW i \in 1 .. m
            PROVE  b[i] = rest[i]
        <5>1. i \in 1 .. m + 1 /\ i \in 1 .. Len(rest)
          BY <3>2
        <5>2. a[i] = name[p + i] /\ b[i] = name[p + i]
          BY <3>5, <5>1
        <5>3. more[i] = rest[i]
          BY <1>2, <5>1
        <5> QED BY <3>6, <5>2, <5>3
      <4>2. b = rest
        BY <1>2, <3>2, <3>5, <4>1, SeqEqual
      <4>3. name[q] = c
        BY <1>2, <3>2, <3>3, <3>5, <3>6
      <4> QED BY <4>2, <4>3
    <3>7. ASSUME b = rest, name[q] = c
          PROVE  a = more
      <4>1. ASSUME NEW i \in 1 .. m + 1
            PROVE  a[i] = more[i]
        <5>1. CASE i <= m
          <6>1. i \in 1 .. m /\ i \in 1 .. Len(rest)
            BY <3>2, <5>1
          <6>2. more[i] = rest[i]
            BY <1>2, <6>1
          <6>3. a[i] = b[i]
            BY <3>5, <6>1
          <6> QED BY <3>7, <6>2, <6>3
        <5>2. CASE i = m + 1
          <6>1. more[m + 1] = c
            BY <1>2, <3>2, SMTT(40)
          <6>2. m + 1 \in 1 .. m + 1 /\ p + (m + 1) = q
            BY <3>3
          <6>3. a[m + 1] = name[p + (m + 1)]
            BY <3>5, <6>2
          <6> QED BY <3>7, <5>2, <6>1, <6>2, <6>3
        <5> QED BY <5>1, <5>2
      <4> QED BY <1>2, <3>3, <3>5, <4>1, SeqEqual
    <3>8. /\ (q - Len(more)) + 1 = p + 1 /\ (q - Len(more)) + Len(more) = p + m + 1
          /\ (q - Len(more)) + Len(rest) = p + m
      BY <3>1, <3>2, <3>3
    <3> QED BY <3>4, <3>6, <3>7, <3>8, Zenon
  <2>3. ASSUME NEW q \in 0 .. Len(name)
        PROVE  q \in {p \in 1 .. Len(name) : p - 1 \in Reach(name, pos, rest) /\ name[p] = c}
                 <=> q \in Reach(name, pos, more)
    <3>1. CASE q >= 1 /\ pos <= q - Len(more)
      <4>1. q \in 1 .. Len(name) /\ q - 1 \in 0 .. Len(name) /\ (q - 1) - Len(rest) = q - Len(more)
            /\ q - Len(more) \in pos .. Len(name) - Len(rest)
            /\ q - Len(more) \in pos .. Len(name) - Len(more)
        BY <1>0, <2>1, <3>1
      <4> QED BY <1>4, <2>2, <3>1, <4>1 DEF Reach, Places
    <3>2. CASE ~(q >= 1 /\ pos <= q - Len(more))
      <4>1. ~(q - Len(more) \in pos .. Len(name) - Len(more))
        BY <1>0, <2>1, <3>2
      <4>2. ~(q >= 1 /\ (q - 1) - Len(rest) \in pos .. Len(name) - Len(rest))
        BY <1>0, <2>1, <3>2
      <4> QED BY <4>1, <4>2 DEF Reach, Places
    <3> QED BY <3>1, <3>2
  <2> QED BY <1>0, <1>1, <2>3 DEF Reach
<1> QED BY <1>3, <1>4

SplitReach(name, s) == Reach(name, Search(name, s.parts)[Len(s.parts)], s.rest)

LEMMA ReachNext ==
  ASSUME NEW name \in Strings, NEW s \in SplitState, NEW c \in Char
  PROVE  EndsNext(name, SplitReach(name, s), c) = SplitReach(name, Splitted(s, c))
<1>1. PICK parts \in Seq(Strings), rest \in Strings : s = [parts |-> parts, rest |-> rest]
  BY DEF SplitState
<1>2. PICK pos \in Reached(name) : pos = Search(name, parts)[Len(parts)]
  <2>1. Len(parts) \in 0 .. Len(parts)
    OBVIOUS
  <2> QED BY <2>1, SearchIs
<1>3. SplitReach(name, s) = Reach(name, pos, rest)
  BY <1>1, <1>2 DEF SplitReach
<1>4. CASE c = Star
  <2>1. Splitted(s, c) = [parts |-> Append(parts, rest), rest |-> <<>>]
    BY <1>1, <1>4 DEF Splitted
  <2>2. Search(name, Append(parts, rest))[Len(Append(parts, rest))] = SearchOn(name, pos, rest)
    <3>1. Len(Append(parts, rest)) = Len(parts) + 1
      OBVIOUS
    <3> QED BY <1>2, <3>1, SearchAppend
  <2>3. SplitReach(name, Splitted(s, c)) = Reach(name, SearchOn(name, pos, rest), <<>>)
    BY <2>1, <2>2 DEF SplitReach
  <2>4. EndsNext(name, SplitReach(name, s), c)
          = {q \in 0 .. Len(name) : \E p \in Reach(name, pos, rest) : p <= q}
    BY <1>3, <1>4 DEF EndsNext
  <2> QED BY <2>3, <2>4, StarReaches
<1>5. CASE c # Star
  <2>1. Splitted(s, c) = [parts |-> parts, rest |-> Append(rest, c)]
    BY <1>1, <1>5 DEF Splitted
  <2>2. SplitReach(name, Splitted(s, c)) = Reach(name, pos, Append(rest, c))
    BY <1>2, <2>1 DEF SplitReach
  <2>3. EndsNext(name, SplitReach(name, s), c)
          = {q \in 1 .. Len(name) : q - 1 \in Reach(name, pos, rest) /\ name[q] = c}
    BY <1>3, <1>5 DEF EndsNext
  <2> QED BY <2>2, <2>3, CharReaches
<1> QED BY <1>4, <1>5

Between(pattern) == (<<Star>> \o pattern) \o <<Star>>

LEMMA BetweenIs ==
  ASSUME NEW pattern \in Strings, Star \in Char
  PROVE  /\ Between(pattern) \in Strings /\ Len(Between(pattern)) = Len(pattern) + 2
         /\ Between(pattern)[1] = Star /\ Between(pattern)[Len(pattern) + 2] = Star
         /\ \A k \in 1 .. Len(pattern) : Between(pattern)[k + 1] = pattern[k]
BY DEF Between, Strings

\* After any number of a pattern's characters, the search is as far as the first
\* place where these can end.
LEMMA GreedyReaches ==
  ASSUME NEW name \in Strings, NEW pattern \in Strings, Star \in Char
  PROVE  \A k \in 0 .. Len(pattern) :
           Ends(name, Between(pattern))[k + 1] = SplitReach(name, Splits(pattern)[k])
<1>1. PICK n, N, G : n = Len(pattern) /\ N = Len(name) /\ G = Between(pattern)
  OBVIOUS
<1>2. /\ G \in Strings /\ Len(G) = n + 2 /\ G[1] = Star
      /\ \A k \in 1 .. n : G[k + 1] = pattern[k]
  BY <1>1, BetweenIs
<1>3. n \in Nat /\ N \in Nat /\ \A k \in 1 .. n : pattern[k] \in Char
  BY <1>1, StringsClosed
<1>4. PICK ends, split : ends = Ends(name, G) /\ split = Splits(pattern)
  OBVIOUS
<1>5. /\ ends[0] = {0}
      /\ \A k \in 1 .. n + 2 : ends[k] = EndsNext(name, ends[k - 1], G[k])
  BY <1>2, <1>4, EndsAre
<1>6. /\ split[0] = [parts |-> <<>>, rest |-> <<>>]
      /\ \A k \in 0 .. n : split[k] \in SplitState
      /\ \A k \in 1 .. n : split[k] = Splitted(split[k - 1], pattern[k])
  BY <1>1, <1>4, SplitsAre
<1> DEFINE T == {k \in 0 .. n : ends[k + 1] = SplitReach(name, split[k])}
<1>7. 0 \in T
  <2>1. ends[1] = 0 .. N
    <3>1. 1 \in 1 .. n + 2 /\ 1 - 1 = 0
      BY <1>3
    <3>2. ends[1] = EndsNext(name, {0}, Star)
      BY <1>2, <1>5, <3>1
    <3> QED BY <1>1, <1>3, <3>2 DEF EndsNext
  <2>2. Search(name, <<>>)[0] = 0
    <3>1. <<>> \in Seq(Strings)
      OBVIOUS
    <3> QED BY <3>1, SearchIs
  <2>3. SplitReach(name, split[0]) = Reach(name, 0, <<>>)
    BY <1>6, <2>2 DEF SplitReach
  <2>4. Reach(name, 0, <<>>) = 0 .. N
    <3>1. Len(<<>>) = 0 /\ \A q \in Int : SubSeq(name, q + 1, q + 0) = <<>>
      OBVIOUS
    <3>2. Places(name, <<>>, 0) = 0 .. N
      BY <1>1, <1>3, <3>1 DEF Places
    <3> QED BY <1>1, <1>3, <3>1, <3>2 DEF Reach, npos
  <2> QED BY <1>3, <2>1, <2>3, <2>4
<1>8. \A k \in 1 .. n : k - 1 \in T => k \in T
  <2> SUFFICES ASSUME NEW k \in 1 .. n, ends[k] = SplitReach(name, split[k - 1])
               PROVE  ends[k + 1] = SplitReach(name, split[k])
    BY <1>3
  <2>1. ends[k + 1] = EndsNext(name, ends[k], pattern[k])
    <3>1. k + 1 \in 1 .. n + 2 /\ (k + 1) - 1 = k
      BY <1>3
    <3> QED BY <1>2, <1>5, <3>1
  <2>2. k - 1 \in 0 .. n
    BY <1>3
  <2>3. split[k - 1] \in SplitState /\ pattern[k] \in Char
        /\ split[k] = Splitted(split[k - 1], pattern[k])
    BY <1>3, <1>6, <2>2
  <2> QED BY <2>1, <2>3, ReachNext
<1>9. \A k \in 0 .. n : k \in T
  <2> HIDE DEF T
  <2> QED BY <1>3, <1>7, <1>8, RangeInduction
<1> QED BY <1>1, <1>4, <1>9

\* For names and patterns of whatever length.
LEMMA SearchFinds ==
  ASSUME NEW name \in Strings, NEW pattern \in Strings, Star \in Char
  PROVE  matchesPattern(name, SplitPattern(pattern)) <=> Glob(name, Between(pattern))
<1>1. PICK n : n = Len(pattern) /\ n \in Nat
  BY StringsClosed
<1>2. PICK s \in SplitState : s = Splits(pattern)[n]
  <2>1. n \in 0 .. Len(pattern)
    BY <1>1
  <2> QED BY <2>1, SplitsAre
<1>3. PICK parts \in Seq(Strings), rest \in Strings : s = [parts |-> parts, rest |-> rest]
  BY DEF SplitState
<1>4. PICK pos \in Reached(name) : pos = Search(name, parts)[Len(parts)]
  <2>1. Len(parts) \in 0 .. Len(parts)
    OBVIOUS
  <2> QED BY <2>1, SearchIs
<1>5. PICK R : R = Reach(name, pos, rest)
  OBVIOUS
<1>6. Len(name) \in Nat /\ Len(rest) \in Nat
  BY StringsClosed
<1>7. Glob(name, Between(pattern)) <=> R # {}
  <2>1. PICK ends, G : ends = Ends(name, G) /\ G = Between(pattern)
    OBVIOUS
  <2>2. ends[n + 1] = R
    <3>1. n \in 0 .. Len(pattern)
      BY <1>1
    <3>2. ends[n + 1] = SplitReach(name, s)
      BY <1>1, <1>2, <2>1, <3>1, GreedyReaches
    <3> QED BY <1>3, <1>4, <1>5, <3>2 DEF SplitReach
  <2>3. G \in Strings /\ Len(G) = n + 2 /\ G[n + 2] = Star
    BY <1>1, <2>1, BetweenIs
  <2>4. ends[n + 2] = {q \in 0 .. Len(name) : \E p \in R : p <= q}
    <3>1. n + 2 \in 1 .. Len(G) /\ (n + 2) - 1 = n + 1
      BY <1>1, <2>3
    <3>2. ends[n + 2] = EndsNext(name, ends[(n + 2) - 1], G[n + 2])
      BY <2>1, <2>3, <3>1, EndsAre
    <3> QED BY <2>2, <2>3, <3>1, <3>2 DEF EndsNext
  <2>5. R \subseteq 0 .. Len(name)
    BY <1>5 DEF Reach
  <2>6. Glob(name, G) <=> Len(name) \in ends[n + 2]
    BY <2>1, <2>3 DEF Glob
  <2>7. Len(name) \in ends[n + 2] <=> R # {}
    <3>1. \A p \in R : p <= Len(name)
      BY <1>6, <2>5
    <3>2. Len(name) \in 0 .. Len(name)
      BY <1>6
    <3> QED BY <2>4, <3>1, <3>2, Zenon
  <2> QED BY <2>1, <2>6, <2>7
<1>8. matchesPattern(name, SplitPattern(pattern)) <=> R # {}
  <2>1. SplitPattern(pattern) = IF rest = <<>> THEN parts ELSE Append(parts, rest)
    BY <1>1, <1>2, <1>3 DEF SplitPattern
  <2>2. CASE rest = <<>>
    <3>1. matchesPattern(name, SplitPattern(pattern)) <=> pos # npos
      BY <1>4, <2>1, <2>2 DEF matchesPattern
    <3>2. pos # npos => pos \in R
      <4>1. Len(rest) = 0 /\ \A q \in Int : SubSeq(name, q + 1, q + 0) = <<>>
        BY <2>2
      <4>2. SUFFICES ASSUME pos # npos PROVE pos \in R
        OBVIOUS
      <4>3. pos \in 0 .. Len(name) /\ pos - Len(rest) = pos
        BY <4>1, <4>2 DEF Reached
      <4>4. pos \in Places(name, rest, pos)
        BY <1>6, <2>2, <4>1, <4>3 DEF Places
      <4> QED BY <1>5, <4>2, <4>3, <4>4 DEF Reach
    <3>3. R # {} => pos # npos
      BY <1>5 DEF Reach
    <3> QED BY <3>1, <3>2, <3>3
  <2>3. CASE rest # <<>>
    <3>1. matchesPattern(name, SplitPattern(pattern)) <=> SearchOn(name, pos, rest) # npos
      <4>1. Len(Append(parts, rest)) = Len(parts) + 1
        OBVIOUS
      <4>2. Search(name, Append(parts, rest))[Len(parts) + 1] = SearchOn(name, pos, rest)
        BY <1>4, SearchAppend
      <4> QED BY <2>1, <2>3, <4>1, <4>2 DEF matchesPattern
    <3>2. SearchOn(name, pos, rest) # npos <=> pos # npos /\ Places(name, rest, pos) # {}
      BY SearchOnIs DEF npos
    <3>3. R # {} <=> pos # npos /\ Places(name, rest, pos) # {}
      <4>1. ASSUME NEW q \in Places(name, rest, pos), pos # npos
            PROVE  q + Len(rest) \in R
        <5>1. pos \in Nat
          BY <4>1 DEF Reached
        <5>2. q + Len(rest) \in 0 .. Len(name) /\ (q + Len(rest)) - Len(rest) = q
          BY <1>6, <5>1 DEF Places
        <5> QED BY <1>5, <4>1, <5>2 DEF Reach
      <4> QED BY <1>5, <4>1 DEF Reach
    <3> QED BY <3>1, <3>2, <3>3
  <2> QED BY <2>2, <2>3
<1> QED BY <1>7, <1>8

\* More wildcards around a pattern let it end where it could, and one character on.
LEMMA BetweenEnds ==
  ASSUME NEW name \in Strings, NEW pattern \in Strings, Star \in Char
  PROVE  /\ \A k \in 0 .. Len(pattern) :
              Ends(name, pattern)[k] \subseteq Ends(name, Between(pattern))[k + 1]
         /\ pattern # <<>> /\ pattern[1] = Star =>
              \A k \in 1 .. Len(pattern) :
                Ends(name, pattern)[k] = Ends(name, Between(pattern))[k + 1]
<1>1. PICK n, N, G : n = Len(pattern) /\ N = Len(name) /\ G = Between(pattern)
  OBVIOUS
<1>2. /\ G \in Strings /\ Len(G) = n + 2 /\ G[1] = Star
      /\ \A k \in 1 .. n : G[k + 1] = pattern[k]
  BY <1>1, BetweenIs
<1>3. n \in Nat /\ N \in Nat
  BY <1>1, StringsClosed
<1>4. PICK f, g : f = Ends(name, pattern) /\ g = Ends(name, G)
  OBVIOUS
<1>5. f[0] = {0} /\ \A k \in 1 .. n : f[k] = EndsNext(name, f[k - 1], pattern[k])
  BY <1>1, <1>4, EndsAre
<1>6. g[0] = {0} /\ \A k \in 1 .. n + 2 : g[k] = EndsNext(name, g[k - 1], G[k])
  BY <1>2, <1>4, EndsAre
<1>7. \A k \in 1 .. n : g[k + 1] = EndsNext(name, g[k], pattern[k])
  <2>1. ASSUME NEW k \in 1 .. n
        PROVE  k + 1 \in 1 .. n + 2 /\ (k + 1) - 1 = k
    BY <1>3
  <2> QED BY <1>2, <1>6, <2>1
<1>8. g[1] = 0 .. N
  <2>1. 1 \in 1 .. n + 2 /\ 1 - 1 = 0
    BY <1>3
  <2>2. g[1] = EndsNext(name, {0}, Star)
    BY <1>2, <1>6, <2>1
  <2> QED BY <1>1, <1>3, <2>2 DEF EndsNext
<1>9. \A k \in 0 .. n : f[k] \subseteq g[k + 1]
  <2> DEFINE T == {k \in 0 .. n : f[k] \subseteq g[k + 1]}
  <2>1. 0 \in T
    BY <1>3, <1>5, <1>8
  <2>2. \A k \in 1 .. n : k - 1 \in T => k \in T
    <3> SUFFICES ASSUME NEW k \in 1 .. n, f[k - 1] \subseteq g[k] PROVE f[k] \subseteq g[k + 1]
      BY <1>3
    <3>1. f[k] = EndsNext(name, f[k - 1], pattern[k]) /\ g[k + 1] = EndsNext(name, g[k], pattern[k])
      BY <1>5, <1>7
    <3> QED BY <3>1 DEF EndsNext
  <2>3. \A k \in 0 .. n : k \in T
    <3> HIDE DEF T
    <3> QED BY <1>3, <2>1, <2>2, RangeInduction
  <2> QED BY <2>3
<1>10. ASSUME n >= 1, pattern[1] = Star
       PROVE  \A k \in 1 .. n : f[k] = g[k + 1]
  <2> DEFINE T == {k \in 0 .. n : k >= 1 => f[k] = g[k + 1]}
  <2>1. 0 \in T
    BY <1>3
  <2>2. f[1] = 0 .. N /\ g[2] = 0 .. N
    <3>1. 1 \in 1 .. n /\ 1 - 1 = 0 /\ 1 + 1 = 2
      BY <1>3, <1>10
    <3>2. f[1] = EndsNext(name, {0}, Star) /\ g[2] = EndsNext(name, 0 .. N, Star)
      BY <1>5, <1>7, <1>8, <1>10, <3>1
    <3> QED BY <1>1, <1>3, <3>2 DEF EndsNext
  <2>3. \A k \in 1 .. n : k - 1 \in T => k \in T
    <3> SUFFICES ASSUME NEW k \in 1 .. n, k - 1 >= 1 => f[k - 1] = g[(k - 1) + 1]
                 PROVE  f[k] = g[k + 1]
      BY <1>3
    <3>1. CASE k = 1
      BY <2>2, <3>1
    <3>2. CASE k # 1
      <4>1. f[k - 1] = g[k]
        BY <1>3, <3>2
      <4> QED BY <1>5, <1>7, <4>1
    <3> QED BY <3>1, <3>2
  <2>4. \A k \in 0 .. n : k \in T
    <3> HIDE DEF T
    <3> QED BY <1>3, <2>1, <2>3, RangeInduction
  <2> QED BY <1>3, <2>4
<1>11. pattern # <<>> => n >= 1
  BY <1>1, <1>3 DEF Strings
<1> QED BY <1>1, <1>4, <1>9, <1>10, <1>11

\* What is a pattern with the wildcards filled in has it inside, and has it
\* nowhere else if the pattern begins and ends with a wildcard.
LEMMA BetweenGlobs ==
  ASSUME NEW name \in Strings, NEW pattern \in Strings, Star \in Char
  PROVE  /\ Glob(name, pattern) => Glob(name, Between(pattern))
         /\ OpenEnded(pattern) /\ Glob(name, Between(pattern)) => Glob(name, pattern)
<1>1. PICK n, N, G : n = Len(pattern) /\ N = Len(name) /\ G = Between(pattern)
  OBVIOUS
<1>2. n \in Nat /\ N \in Nat /\ (pattern # <<>> => n >= 1)
  BY <1>1, StringsClosed DEF Strings
<1>3. PICK f, g : f = Ends(name, pattern) /\ g = Ends(name, G)
  OBVIOUS
<1>4. G \in Strings /\ Len(G) = n + 2 /\ G[n + 2] = Star
  BY <1>1, BetweenIs
<1>5. g[n + 2] = {q \in 0 .. N : \E p \in g[n + 1] : p <= q}
  <2>1. n + 2 \in 1 .. Len(G) /\ (n + 2) - 1 = n + 1
    BY <1>2, <1>4
  <2>2. g[n + 2] = EndsNext(name, g[(n + 2) - 1], G[n + 2])
    BY <1>3, <1>4, <2>1, EndsAre
  <2> QED BY <1>1, <1>4, <2>1, <2>2 DEF EndsNext
<1>6. /\ Glob(name, pattern) <=> N \in f[n]
      /\ Glob(name, G) <=> N \in g[n + 2]
  BY <1>1, <1>3, <1>4 DEF Glob
<1>7. N \in f[n] => N \in g[n + 2]
  <2>1. n \in 0 .. n /\ N \in 0 .. N /\ N <= N
    BY <1>2
  <2>2. f[n] \subseteq g[n + 1]
    BY <1>1, <1>3, <2>1, BetweenEnds
  <2> QED BY <1>5, <2>1, <2>2
<1>8. ASSUME OpenEnded(pattern), N \in g[n + 2]
      PROVE  N \in f[n]
  <2>1. n \in 1 .. n /\ pattern[1] = Star /\ pattern[n] = Star /\ pattern # <<>>
    BY <1>1, <1>2, <1>8 DEF OpenEnded
  <2>2. f[n] = g[n + 1]
    BY <1>1, <1>3, <2>1, BetweenEnds
  <2>3. f[n] = {q \in 0 .. N : \E p \in f[n - 1] : p <= q}
    <3>1. f[n] = EndsNext(name, f[n - 1], pattern[n])
      BY <1>1, <1>3, <2>1, EndsAre
    <3> QED BY <1>1, <2>1, <3>1 DEF EndsNext
  <2>4. PICK q \in f[n] : q <= N
    BY <1>5, <1>8, <2>2
  <2>5. f[n - 1] \subseteq 0 .. N
    <3>1. CASE n = 1
      BY <1>1, <1>2, <1>3, <3>1, EndsAre
    <3>2. CASE n # 1
      <4>1. n - 1 \in 1 .. n
        BY <1>2, <2>1, <3>2
      <4>2. f[n - 1] = EndsNext(name, f[(n - 1) - 1], pattern[n - 1])
        BY <1>1, <1>3, <4>1, EndsAre
      <4> QED BY <1>1, <1>2, <4>2 DEF EndsNext
    <3> QED BY <3>1, <3>2
  <2>6. PICK p \in f[n - 1] : p <= q
    BY <2>3, <2>4
  <2>7. p <= N /\ N \in 0 .. N
    BY <1>2, <2>5, <2>6
  <2> QED BY <2>3, <2>7
<1> QED BY <1>1, <1>6, <1>7, <1>8

\* For names and patterns of whatever length: the greedy search misses no full
\* match, and finds nothing else for a pattern between wildcards.
THEOREM FullMatchesFound == Spec => []FullMatchesAreFound
<1>1. Init => FullMatchesAreFound
  <2> SUFFICES ASSUME Init, input.of = "matchesPattern" PROVE FullMatchesAreFound
    BY DEF FullMatchesAreFound
  <2>1. PICK name \in Name, pattern \in Pattern :
          input = [of |-> "matchesPattern", name |-> name, pattern |-> pattern]
    BY DEF Init
  <2>2. name \in Strings /\ pattern \in Strings /\ Star \in Char
    BY InputAssumption, Inputs DEF InputAssumption, Strings
  <2>3. input.name = name /\ input.pattern = pattern
    BY <2>1
  <2> QED BY <2>2, <2>3, SearchFinds, BetweenGlobs DEF FullMatchesAreFound
<1>2. FullMatchesAreFound /\ [Next]_input => FullMatchesAreFound'
  BY DEF FullMatchesAreFound, Next
<1> QED BY <1>1, <1>2, PTL DEF Spec

-----------------------------------------------------------------------------
\* UTF-16, UTF-32 and UTF-8.

CodePoint == {code \in Nat : code < 1114112}
Bytes == Seq(Nat)
Codes == Seq(CodePoint)

LEMMA BytesClosed ==
  /\ <<>> \in Bytes /\ Len(<<>>) = 0
  /\ \A a \in Bytes : Len(a) \in Nat /\ \A i \in 1 .. Len(a) : a[i] \in Nat
  /\ \A a, b \in Bytes : a \o b \in Bytes
BY DEF Bytes

LEMMA CodesClosed ==
  /\ <<>> \in Codes
  /\ \A a \in Codes : Len(a) \in Nat /\ \A i \in 1 .. Len(a) : a[i] \in CodePoint
  /\ \A a \in Codes : \A c \in CodePoint : Append(a, c) \in Codes
BY DEF Codes

LEMMA CodePointIs == \A code \in CodePoint : code \in Nat
BY SMT DEF CodePoint

LEMMA ContinuationIs ==
  ASSUME NEW code \in Nat, NEW weight \in Nat \ {0}
  PROVE  Continuation(code, weight) \in Nat
<1>1. code \div weight \in Nat
  OBVIOUS
<1>2. PICK x \in Nat : x = code \div weight
  BY <1>1
<1>3. 128 + (x % 64) \in Nat
  OBVIOUS
<1> QED BY <1>2, <1>3 DEF Continuation

LEMMA Utf8Type ==
  ASSUME NEW code \in Nat
  PROVE  Utf8(code) \in Bytes
<1>1. /\ Continuation(code, 1) \in Nat /\ Continuation(code, 64) \in Nat
      /\ Continuation(code, 4096) \in Nat
  BY ContinuationIs, SMT
<1>2. /\ 192 + ((code \div 64) % 32) \in Nat /\ 224 + ((code \div 4096) % 16) \in Nat
      /\ 240 + ((code \div 262144) % 8) \in Nat
  BY SMT
<1>3. ASSUME NEW u \in Nat, NEW x \in Nat, NEW y \in Nat, NEW z \in Nat
      PROVE  <<u>> \in Bytes /\ <<u, x>> \in Bytes /\ <<u, y, x>> \in Bytes
             /\ <<u, z, y, x>> \in Bytes
  BY DEF Bytes
<1>4. <<63>> \in Bytes
  BY DEF Bytes
<1>5. PICK u, v, w : u = 192 + ((code \div 64) % 32) /\ v = 224 + ((code \div 4096) % 16)
                     /\ w = 240 + ((code \div 262144) % 8)
  BY SMT
<1>6. PICK x, y, z : x = Continuation(code, 1) /\ y = Continuation(code, 64)
                     /\ z = Continuation(code, 4096)
  BY SMT
<1>7. \/ Utf8(code) = <<code>> \/ Utf8(code) = <<u, x>> \/ Utf8(code) = <<v, y, x>>
      \/ Utf8(code) = <<w, z, y, x>> \/ Utf8(code) = <<63>>
  BY <1>5, <1>6, SMT DEF Utf8
<1>8. u \in Nat /\ v \in Nat /\ w \in Nat /\ x \in Nat /\ y \in Nat /\ z \in Nat
  BY <1>1, <1>2, <1>5, <1>6, SMT
<1> QED BY <1>3, <1>4, <1>7, <1>8, ZenonT(60)

LEMMA Printed32Is ==
  ASSUME NEW codes \in Codes
  PROVE  /\ Printed32(codes)[0] = <<>>
         /\ \A k \in 1 .. Len(codes) :
              Printed32(codes)[k] = Printed32(codes)[k - 1] \o Utf8(codes[k])
<1> DEFINE n == Len(codes)
           Step(g) == [k \in 0 .. n |-> IF k = 0 THEN <<>> ELSE g[k - 1] \o Utf8(codes[k])]
<1>1. n \in Nat /\ \A k \in 1 .. n : Utf8(codes[k]) \in Bytes
  BY CodesClosed, CodePointIs, Utf8Type
<1>2. <<>> \in Bytes
  BY BytesClosed
<1>3. \A a, b \in Bytes : a \o b \in Bytes
  BY BytesClosed
<1>4. PICK step : step = [k \in 1 .. n |-> [a \in Bytes |-> a \o Utf8(codes[k])]]
  OBVIOUS
<1>5. step \in [1 .. n -> [Bytes -> Bytes]]
  BY <1>1, <1>3, <1>4
<1>6. PICK f \in [0 .. n -> Bytes] : IsRecursion(f, n, <<>>, step)
  BY <1>1, <1>2, <1>5, RecursionExists
<1>7. ASSUME NEW k \in 1 .. n
      PROVE  step[k][f[k - 1]] = f[k - 1] \o Utf8(codes[k])
  <2>1. f[k - 1] \in Bytes
    BY <1>1
  <2> QED BY <1>4, <2>1, Zenon
<1>8. f = Step(f)
  <2>1. f = [k \in 0 .. n |-> IF k = 0 THEN <<>> ELSE step[k][f[k - 1]]]
    BY <1>6 DEF IsRecursion
  <2>2. ASSUME NEW k \in 0 .. n
        PROVE  (IF k = 0 THEN <<>> ELSE step[k][f[k - 1]])
                 = (IF k = 0 THEN <<>> ELSE f[k - 1] \o Utf8(codes[k]))
    <3>1. k # 0 => k \in 1 .. n
      BY <1>1
    <3> QED BY <1>7, <3>1, Zenon
  <2> QED BY <2>1, <2>2
<1>9. Printed32(codes) = CHOOSE g : g = Step(g)
  BY DEF Printed32
<1>10. Printed32(codes) = Step(Printed32(codes))
  <2> HIDE DEF Step
  <2> QED BY <1>8, <1>9, Zenon
<1>11. PICK g : g = Printed32(codes)
  OBVIOUS
<1>12. g = [k \in 0 .. n |-> IF k = 0 THEN <<>> ELSE g[k - 1] \o Utf8(codes[k])]
  BY <1>10, <1>11
<1>13. g[0] = <<>>
  BY <1>1, <1>12
<1>14. ASSUME NEW k \in 1 .. n
       PROVE  g[k] = g[k - 1] \o Utf8(codes[k])
  <2>1. k \in 0 .. n /\ k # 0
    BY <1>1
  <2> QED BY <1>12, <2>1, Zenon
<1> QED BY <1>11, <1>13, <1>14

Decoder == [codes : Seq(Int), bits : Int, more : Int]

LEMMA DecoderClosed ==
  ASSUME NEW s \in Decoder, NEW byte \in Nat
  PROVE  NextByte(s, byte) \in Decoder
<1>1. PICK codes \in Seq(Int), bits \in Int, more \in Int :
        s = [codes |-> codes, bits |-> bits, more |-> more]
  BY DEF Decoder
<1>2. ASSUME NEW b \in Int, NEW m \in Int
      PROVE  Taken(codes, b, m) \in Decoder
  BY DEF Taken, Decoder
<1>3. LeadBits(byte) \in Int /\ Following(byte) \in Int
  BY SMTT(40) DEF LeadBits, Following
<1>4. bits * 64 + (byte % 64) \in Int /\ more - 1 \in Int
  OBVIOUS
<1>5. [s EXCEPT !.more = -1] \in Decoder
  BY DEF Decoder
<1> QED BY <1>1, <1>2, <1>3, <1>4, <1>5 DEF NextByte

LEMMA Decoded8Is ==
  ASSUME NEW bytes \in Bytes
  PROVE  /\ Decoded8(bytes)[0] = [codes |-> <<>>, bits |-> 0, more |-> 0]
         /\ \A k \in 1 .. Len(bytes) :
              Decoded8(bytes)[k] = NextByte(Decoded8(bytes)[k - 1], bytes[k])
<1> DEFINE n == Len(bytes)
           base == [codes |-> <<>>, bits |-> 0, more |-> 0]
           Step(g) == [k \in 0 .. n |-> IF k = 0 THEN base ELSE NextByte(g[k - 1], bytes[k])]
<1>1. n \in Nat /\ \A k \in 1 .. n : bytes[k] \in Nat
  BY BytesClosed
<1>2. base \in Decoder
  BY DEF Decoder
<1>3. \A s \in Decoder : \A byte \in Nat : NextByte(s, byte) \in Decoder
  BY DecoderClosed
<1>4. PICK step : step = [k \in 1 .. n |-> [s \in Decoder |-> NextByte(s, bytes[k])]]
  OBVIOUS
<1>5. step \in [1 .. n -> [Decoder -> Decoder]]
  BY <1>1, <1>3, <1>4
<1>9. Decoded8(bytes) = CHOOSE g : g = Step(g)
  BY DEF Decoded8
<1> HIDE DEF base
<1>6. PICK f \in [0 .. n -> Decoder] : IsRecursion(f, n, base, step)
  BY <1>1, <1>2, <1>5, RecursionExists
<1>7. \A k \in 1 .. n : step[k][f[k - 1]] = NextByte(f[k - 1], bytes[k])
  BY <1>1, <1>4, SMTT(40)
<1>8. f = Step(f)
  <2>1. f = [k \in 0 .. n |-> IF k = 0 THEN base ELSE step[k][f[k - 1]]]
    BY <1>6 DEF IsRecursion
  <2>2. ASSUME NEW k \in 0 .. n
        PROVE  (IF k = 0 THEN base ELSE step[k][f[k - 1]])
                 = (IF k = 0 THEN base ELSE NextByte(f[k - 1], bytes[k]))
    <3>1. k # 0 => k \in 1 .. n
      BY <1>1
    <3> QED BY <1>7, <3>1, Zenon
  <2> QED BY <2>1, <2>2
<1>10. Decoded8(bytes) = Step(Decoded8(bytes))
  <2> HIDE DEF Step
  <2> QED BY <1>8, <1>9, Zenon
<1>11. PICK g : g = Decoded8(bytes)
  OBVIOUS
<1>12. g = [k \in 0 .. n |-> IF k = 0 THEN base ELSE NextByte(g[k - 1], bytes[k])]
  BY <1>10, <1>11
<1>13. g[0] = base
  BY <1>1, <1>12
<1>14. ASSUME NEW k \in 1 .. n
       PROVE  g[k] = NextByte(g[k - 1], bytes[k])
  <2>1. k \in 0 .. n /\ k # 0
    BY <1>1
  <2> QED BY <1>12, <2>1, Zenon
<1> QED BY <1>11, <1>13, <1>14 DEF base

\* What the reference makes of all bytes.
DecodedAll(bytes) == Decoded8(bytes)[Len(bytes)]
LEMMA DecodedPrefix ==
  ASSUME NEW a \in Bytes, NEW b \in Bytes
  PROVE  \A k \in 0 .. Len(a) : Decoded8(a \o b)[k] = Decoded8(a)[k]
<1>1. PICK m, n, c : m = Len(a) /\ n = Len(b) /\ c = a \o b
  OBVIOUS
<1>2. m \in Nat /\ n \in Nat /\ c \in Bytes /\ Len(c) = m + n
      /\ \A k \in 1 .. m : c[k] = a[k]
  BY <1>1 DEF Bytes
<1>3. PICK f, g : f = Decoded8(a) /\ g = Decoded8(c)
  OBVIOUS
<1>4. /\ f[0] = [codes |-> <<>>, bits |-> 0, more |-> 0]
      /\ \A k \in 1 .. m : f[k] = NextByte(f[k - 1], a[k])
  BY <1>1, <1>3, Decoded8Is
<1>5. /\ g[0] = [codes |-> <<>>, bits |-> 0, more |-> 0]
      /\ \A k \in 1 .. m + n : g[k] = NextByte(g[k - 1], c[k])
  BY <1>2, <1>3, Decoded8Is
<1> DEFINE T == {k \in 0 .. m : g[k] = f[k]}
<1>6. 0 \in T
  BY <1>2, <1>4, <1>5
<1>7. \A k \in 1 .. m : k - 1 \in T => k \in T
  <2> SUFFICES ASSUME NEW k \in 1 .. m, k - 1 \in T PROVE k \in T
    OBVIOUS
  <2>1. k \in 1 .. m + n /\ k \in 0 .. m
    BY <1>2
  <2>2. g[k] = f[k]
    BY <1>2, <1>4, <1>5, <2>1
  <2> QED BY <2>1, <2>2
<1>8. \A k \in 0 .. m : k \in T
  <2> HIDE DEF T
  <2> QED BY <1>2, <1>6, <1>7, RangeInduction
<1> QED BY <1>1, <1>3, <1>8

\* The bytes of a character stand for it.
Complete(codes) == [codes |-> codes, bits |-> 0, more |-> 0]

LEMMA TakenIs ==
  ASSUME NEW codes, NEW bits \in Int, NEW more \in Int
  PROVE  Taken(codes, bits, more)
           = IF more = 0 THEN Complete(Append(codes, bits))
             ELSE [codes |-> codes, bits |-> bits, more |-> more]
BY DEF Taken, Complete

\* The first byte.
LEMMA LeadIs ==
  ASSUME NEW codes, NEW byte \in Nat
  PROVE  /\ byte < 128 => NextByte(Complete(codes), byte) = Complete(Append(codes, byte))
         /\ 192 <= byte /\ byte < 224 =>
              NextByte(Complete(codes), byte) = [codes |-> codes, bits |-> byte - 192, more |-> 1]
         /\ 224 <= byte /\ byte < 240 =>
              NextByte(Complete(codes), byte) = [codes |-> codes, bits |-> byte - 224, more |-> 2]
         /\ 240 <= byte /\ byte < 248 =>
              NextByte(Complete(codes), byte) = [codes |-> codes, bits |-> byte - 240, more |-> 3]
<1>1. NextByte(Complete(codes), byte) = Taken(codes, LeadBits(byte), Following(byte))
  BY SMT DEF NextByte, Complete
<1>2. ASSUME byte < 128
      PROVE  LeadBits(byte) = byte /\ Following(byte) = 0
  BY <1>2, SMT DEF LeadBits, Following
<1>3. ASSUME 192 <= byte, byte < 224
      PROVE  LeadBits(byte) = byte - 192 /\ Following(byte) = 1
  <2>1. byte \div 32 = 6 /\ byte % 32 = byte - 192 /\ ~(byte < 128)
    BY <1>3, SMT
  <2> QED BY <2>1, SMT DEF LeadBits, Following
<1>4. ASSUME 224 <= byte, byte < 240
      PROVE  LeadBits(byte) = byte - 224 /\ Following(byte) = 2
  <2>1. byte \div 32 # 6 /\ byte \div 16 = 14 /\ byte % 16 = byte - 224 /\ ~(byte < 128)
    BY <1>4, SMT
  <2> QED BY <2>1, SMT DEF LeadBits, Following
<1>5. ASSUME 240 <= byte, byte < 248
      PROVE  LeadBits(byte) = byte - 240 /\ Following(byte) = 3
  <2>1. byte \div 32 # 6 /\ byte \div 16 # 14 /\ byte \div 8 = 30 /\ byte % 8 = byte - 240
        /\ ~(byte < 128)
    BY <1>5, SMT
  <2> QED BY <2>1, SMT DEF LeadBits, Following
<1> QED BY <1>1, <1>2, <1>3, <1>4, <1>5, TakenIs, SMT

\* Another byte: six more bits.
SixBits == 0 .. 63
ByteOf(six) == 128 + six
Joined(bits, six) == bits * 64 + six
Waiting(codes, bits, more) == [codes |-> codes, bits |-> bits, more |-> more]

LEMMA SixMore ==
  ASSUME NEW bits \in Nat, NEW six \in SixBits
  PROVE  ByteOf(six) \in Nat /\ Joined(bits, six) \in Nat
BY SMT DEF ByteOf, Joined, SixBits

LEMMA ByteTaken ==
  ASSUME NEW codes, NEW bits \in Nat, NEW more \in Nat \ {0}, NEW six \in SixBits
  PROVE  NextByte(Waiting(codes, bits, more), ByteOf(six))
           = Taken(codes, Joined(bits, six), more - 1)
<1>1. (128 + six) \div 64 = 2 /\ (128 + six) % 64 = six
  BY SMT DEF SixBits
<1> QED BY <1>1, SMT DEF NextByte, Waiting, ByteOf, Joined

LEMMA LastByte ==
  ASSUME NEW codes, NEW bits \in Nat, NEW six \in SixBits
  PROVE  NextByte(Waiting(codes, bits, 1), ByteOf(six)) = Complete(Append(codes, Joined(bits, six)))
<1>1. 1 \in Nat \ {0} /\ 1 - 1 = 0 /\ Joined(bits, six) \in Int
  BY SixMore, SMT
<1>2. NextByte(Waiting(codes, bits, 1), ByteOf(six)) = Taken(codes, Joined(bits, six), 1 - 1)
  BY <1>1, ByteTaken, Zenon
<1>3. Taken(codes, Joined(bits, six), 0) = Complete(Append(codes, Joined(bits, six)))
  BY <1>1, TakenIs, SMT
<1> QED BY <1>1, <1>2, <1>3, Zenon

LEMMA MiddleByte ==
  ASSUME NEW codes, NEW bits \in Nat, NEW more \in Nat, NEW six \in SixBits, more > 1
  PROVE  NextByte(Waiting(codes, bits, more), ByteOf(six)) = Waiting(codes, Joined(bits, six), more - 1)
<1>1. more \in Nat \ {0} /\ more - 1 # 0 /\ more - 1 \in Int /\ Joined(bits, six) \in Int
  BY SixMore, SMT
<1>2. NextByte(Waiting(codes, bits, more), ByteOf(six)) = Taken(codes, Joined(bits, six), more - 1)
  BY <1>1, ByteTaken, Zenon
<1>3. Taken(codes, Joined(bits, six), more - 1) = Waiting(codes, Joined(bits, six), more - 1)
  BY <1>1, TakenIs, SMT DEF Waiting
<1> QED BY <1>2, <1>3, Zenon

\* What the reference makes of more bytes.
LEMMA DecodedFrom ==
  ASSUME NEW a \in Bytes, NEW b \in Bytes
  PROVE  \E h : /\ h[0] = DecodedAll(a)
                /\ \A i \in 1 .. Len(b) : h[i] = NextByte(h[i - 1], b[i])
                /\ h[Len(b)] = DecodedAll(a \o b)
<1>1. PICK m, n, c, g : m = Len(a) /\ n = Len(b) /\ c = a \o b /\ g = Decoded8(c)
  OBVIOUS
<1>2. m \in Nat /\ n \in Nat /\ c \in Bytes /\ Len(c) = m + n
      /\ \A i \in 1 .. n : c[m + i] = b[i]
  BY <1>1 DEF Bytes
<1>3. \A k \in 1 .. m + n : g[k] = NextByte(g[k - 1], c[k])
  BY <1>1, <1>2, Decoded8Is
<1>4. g[m] = DecodedAll(a)
  <2>1. m \in 0 .. Len(a)
    BY <1>1, <1>2
  <2> QED BY <1>1, <2>1, DecodedPrefix DEF DecodedAll
<1>5. PICK h : h = [i \in 0 .. n |-> g[m + i]]
  OBVIOUS
<1>6. h[0] = g[m] /\ h[n] = g[m + n]
  BY <1>2, <1>5
<1>7. ASSUME NEW i \in 1 .. n
      PROVE  h[i] = NextByte(h[i - 1], b[i])
  <2>1. m + i \in 1 .. m + n /\ (m + i) - 1 = m + (i - 1) /\ i - 1 \in 0 .. n /\ i \in 0 .. n
    BY <1>2
  <2>2. g[m + i] = NextByte(g[(m + i) - 1], c[m + i])
    BY <1>3, <2>1
  <2> QED BY <1>2, <1>5, <2>1, <2>2
<1>8. g[m + n] = DecodedAll(a \o b)
  BY <1>1, <1>2 DEF DecodedAll
<1> QED BY <1>1, <1>4, <1>6, <1>7, <1>8

LEMMA OneByte ==
  ASSUME NEW a \in Bytes, NEW b1 \in Nat
  PROVE  DecodedAll(a \o <<b1>>) = NextByte(DecodedAll(a), b1)
<1>1. PICK b : b = <<b1>>
  OBVIOUS
<1>2. b \in Bytes /\ Len(b) = 1 /\ b[1] = b1
  BY <1>1 DEF Bytes
<1>3. PICK h : /\ h[0] = DecodedAll(a)
               /\ \A i \in 1 .. Len(b) : h[i] = NextByte(h[i - 1], b[i])
               /\ h[Len(b)] = DecodedAll(a \o b)
  BY <1>2, DecodedFrom, Zenon
<1>4. h[1] = NextByte(h[0], b1)
  BY <1>2, <1>3, SMT
<1> QED BY <1>1, <1>2, <1>3, <1>4, Zenon

LEMMA TwoBytes ==
  ASSUME NEW a \in Bytes, NEW b1 \in Nat, NEW b2 \in Nat
  PROVE  DecodedAll(a \o <<b1, b2>>) = NextByte(NextByte(DecodedAll(a), b1), b2)
<1>1. PICK b : b = <<b1, b2>>
  OBVIOUS
<1>2. b \in Bytes /\ Len(b) = 2 /\ b[1] = b1 /\ b[2] = b2
  BY <1>1 DEF Bytes
<1>3. PICK h : /\ h[0] = DecodedAll(a)
               /\ \A i \in 1 .. Len(b) : h[i] = NextByte(h[i - 1], b[i])
               /\ h[Len(b)] = DecodedAll(a \o b)
  BY <1>2, DecodedFrom, Zenon
<1>4. h[1] = NextByte(h[0], b1) /\ h[2] = NextByte(h[1], b2)
  BY <1>2, <1>3, SMT
<1> QED BY <1>1, <1>2, <1>3, <1>4, Zenon

LEMMA ThreeBytes ==
  ASSUME NEW a \in Bytes, NEW b1 \in Nat, NEW b2 \in Nat, NEW b3 \in Nat
  PROVE  DecodedAll(a \o <<b1, b2, b3>>) = NextByte(NextByte(NextByte(DecodedAll(a), b1), b2), b3)
<1>1. PICK b : b = <<b1, b2, b3>>
  OBVIOUS
<1>2. b \in Bytes /\ Len(b) = 3 /\ b[1] = b1 /\ b[2] = b2 /\ b[3] = b3
  BY <1>1 DEF Bytes
<1>3. PICK h : /\ h[0] = DecodedAll(a)
               /\ \A i \in 1 .. Len(b) : h[i] = NextByte(h[i - 1], b[i])
               /\ h[Len(b)] = DecodedAll(a \o b)
  BY <1>2, DecodedFrom, Zenon
<1>4. h[1] = NextByte(h[0], b1) /\ h[2] = NextByte(h[1], b2) /\ h[3] = NextByte(h[2], b3)
  BY <1>2, <1>3, SMT
<1> QED BY <1>1, <1>2, <1>3, <1>4, Zenon

LEMMA FourBytes ==
  ASSUME NEW a \in Bytes, NEW b1 \in Nat, NEW b2 \in Nat, NEW b3 \in Nat, NEW b4 \in Nat
  PROVE  DecodedAll(a \o <<b1, b2, b3, b4>>)
           = NextByte(NextByte(NextByte(NextByte(DecodedAll(a), b1), b2), b3), b4)
<1>1. PICK b : b = <<b1, b2, b3, b4>>
  OBVIOUS
<1>2. b \in Bytes /\ Len(b) = 4 /\ b[1] = b1 /\ b[2] = b2 /\ b[3] = b3 /\ b[4] = b4
  BY <1>1 DEF Bytes
<1>3. PICK h : /\ h[0] = DecodedAll(a)
               /\ \A i \in 1 .. Len(b) : h[i] = NextByte(h[i - 1], b[i])
               /\ h[Len(b)] = DecodedAll(a \o b)
  BY <1>2, DecodedFrom, Zenon
<1>4. /\ h[1] = NextByte(h[0], b1) /\ h[2] = NextByte(h[1], b2)
      /\ h[3] = NextByte(h[2], b3) /\ h[4] = NextByte(h[3], b4)
  BY <1>2, <1>3, SMT
<1> QED BY <1>1, <1>2, <1>3, <1>4, Zenon

\* Characters of two, three and four bytes, u the bits of the first one.
LEMMA TwoDecoded ==
  ASSUME NEW a \in Bytes, NEW codes, DecodedAll(a) = Complete(codes),
         NEW b \in Nat, NEW u \in Nat, NextByte(Complete(codes), b) = Waiting(codes, u, 1),
         NEW x \in SixBits
  PROVE  DecodedAll(a \o <<b, ByteOf(x)>>) = Complete(Append(codes, Joined(u, x)))
<1>1. ByteOf(x) \in Nat
  BY SixMore, Zenon
<1>2. DecodedAll(a \o <<b, ByteOf(x)>>) = NextByte(NextByte(DecodedAll(a), b), ByteOf(x))
  BY <1>1, TwoBytes, Zenon
<1> QED BY <1>2, LastByte, Zenon

LEMMA ThreeDecoded ==
  ASSUME NEW a \in Bytes, NEW codes, DecodedAll(a) = Complete(codes),
         NEW b \in Nat, NEW u \in Nat, NextByte(Complete(codes), b) = Waiting(codes, u, 2),
         NEW y \in SixBits, NEW x \in SixBits
  PROVE  DecodedAll(a \o <<b, ByteOf(y), ByteOf(x)>>)
           = Complete(Append(codes, Joined(Joined(u, y), x)))
<1>1. ByteOf(x) \in Nat /\ ByteOf(y) \in Nat /\ Joined(u, y) \in Nat
  BY SixMore, Zenon
<1>2. DecodedAll(a \o <<b, ByteOf(y), ByteOf(x)>>)
        = NextByte(NextByte(NextByte(DecodedAll(a), b), ByteOf(y)), ByteOf(x))
  BY <1>1, ThreeBytes, SMT
<1>3. 2 \in Nat /\ 2 > 1 /\ 2 - 1 = 1
  OBVIOUS
<1>4. NextByte(Waiting(codes, u, 2), ByteOf(y)) = Waiting(codes, Joined(u, y), 1)
  BY <1>3, MiddleByte, SMT
<1>5. NextByte(Waiting(codes, Joined(u, y), 1), ByteOf(x))
        = Complete(Append(codes, Joined(Joined(u, y), x)))
  BY <1>1, LastByte, Zenon
<1> QED BY <1>2, <1>4, <1>5, Zenon

LEMMA FourDecoded ==
  ASSUME NEW a \in Bytes, NEW codes, DecodedAll(a) = Complete(codes),
         NEW b \in Nat, NEW u \in Nat, NextByte(Complete(codes), b) = Waiting(codes, u, 3),
         NEW z \in SixBits, NEW y \in SixBits, NEW x \in SixBits
  PROVE  DecodedAll(a \o <<b, ByteOf(z), ByteOf(y), ByteOf(x)>>)
           = Complete(Append(codes, Joined(Joined(Joined(u, z), y), x)))
<1>1. /\ ByteOf(x) \in Nat /\ ByteOf(y) \in Nat /\ ByteOf(z) \in Nat
      /\ Joined(u, z) \in Nat /\ Joined(Joined(u, z), y) \in Nat
  BY SixMore, Zenon
<1>2. DecodedAll(a \o <<b, ByteOf(z), ByteOf(y), ByteOf(x)>>)
        = NextByte(NextByte(NextByte(NextByte(DecodedAll(a), b), ByteOf(z)), ByteOf(y)), ByteOf(x))
  BY <1>1, FourBytes, SMT
<1>3. 3 \in Nat /\ 3 > 1 /\ 3 - 1 = 2 /\ 2 \in Nat /\ 2 > 1 /\ 2 - 1 = 1
  OBVIOUS
<1>4. NextByte(Waiting(codes, u, 3), ByteOf(z)) = Waiting(codes, Joined(u, z), 2)
  BY <1>3, MiddleByte, SMT
<1>5. NextByte(Waiting(codes, Joined(u, z), 2), ByteOf(y))
        = Waiting(codes, Joined(Joined(u, z), y), 1)
  BY <1>1, <1>3, MiddleByte, SMT
<1>6. NextByte(Waiting(codes, Joined(Joined(u, z), y), 1), ByteOf(x))
        = Complete(Append(codes, Joined(Joined(Joined(u, z), y), x)))
  BY <1>1, LastByte, Zenon
<1> QED BY <1>2, <1>4, <1>5, <1>6, Zenon

LEMMA CharacterDecoded ==
  ASSUME NEW a \in Bytes, NEW codes, DecodedAll(a) = Complete(codes), NEW code \in CodePoint
  PROVE  DecodedAll(a \o Utf8(code)) = Complete(Append(codes, code))
<1>0. code \in Nat /\ code < 1114112
  BY SMT DEF CodePoint
<1>1. PICK x \in SixBits : x = code % 64
  BY <1>0, SMT DEF SixBits
<1>2. PICK y \in SixBits : y = (code \div 64) % 64
  BY <1>0, SMT DEF SixBits
<1>3. PICK z \in SixBits : z = (code \div 4096) % 64
  BY <1>0, SMT DEF SixBits
<1>4. /\ Continuation(code, 1) = ByteOf(x)
      /\ Continuation(code, 64) = ByteOf(y)
      /\ Continuation(code, 4096) = ByteOf(z)
  BY <1>0, <1>1, <1>2, <1>3, SMT DEF Continuation, ByteOf
<1>5. CASE code < 128
  <2>1. Utf8(code) = <<code>>
    BY <1>5, SMT DEF Utf8
  <2>2. NextByte(Complete(codes), code) = Complete(Append(codes, code))
    BY <1>0, <1>5, LeadIs, SMT
  <2>3. DecodedAll(a \o <<code>>) = NextByte(DecodedAll(a), code)
    BY <1>0, OneByte, SMT
  <2> QED BY <2>1, <2>2, <2>3, SMT
<1>6. CASE 128 <= code /\ code < 2048
  <2>1. PICK u \in Nat : u = (code \div 64) % 32 /\ u < 32
    BY <1>0, SMT
  <2>2. code = Joined(u, x)
    BY <1>0, <1>1, <1>6, <2>1, SMT DEF Joined
  <2>3. PICK b \in Nat : b = 192 + u
    BY <2>1, SMT
  <2>4. Utf8(code) = <<b, ByteOf(x)>>
    BY <1>0, <1>4, <1>6, <2>1, <2>3, SMT DEF Utf8
  <2>5. NextByte(Complete(codes), b) = Waiting(codes, u, 1)
    <3>1. 192 <= b /\ b < 224 /\ b - 192 = u
      BY <2>1, <2>3, SMT
    <3> QED BY <3>1, LeadIs, SMT DEF Waiting
  <2>6. DecodedAll(a \o <<b, ByteOf(x)>>) = Complete(Append(codes, Joined(u, x)))
    BY <2>5, TwoDecoded, SMT
  <2> QED BY <2>2, <2>4, <2>6, SMT
<1>7. CASE 2048 <= code /\ code < 65536
  <2>1. PICK u \in Nat : u = (code \div 4096) % 16 /\ u < 16
    BY <1>0, SMT
  <2>2. code = Joined(Joined(u, y), x)
    <3>1. code \div 64 = u * 64 + y
      BY <1>0, <1>2, <1>7, <2>1, SMT
    <3> QED BY <1>0, <1>1, <3>1, SMT DEF Joined
  <2>3. PICK b \in Nat : b = 224 + u
    BY <2>1, SMT
  <2>4. Utf8(code) = <<b, ByteOf(y), ByteOf(x)>>
    BY <1>0, <1>4, <1>7, <2>1, <2>3, SMT DEF Utf8
  <2>5. NextByte(Complete(codes), b) = Waiting(codes, u, 2)
    <3>1. 224 <= b /\ b < 240 /\ b - 224 = u
      BY <2>1, <2>3, SMT
    <3> QED BY <3>1, LeadIs, SMT DEF Waiting
  <2>6. DecodedAll(a \o <<b, ByteOf(y), ByteOf(x)>>)
          = Complete(Append(codes, Joined(Joined(u, y), x)))
    BY <2>5, ThreeDecoded, SMT
  <2> QED BY <2>2, <2>4, <2>6, SMT
<1>8. CASE 65536 <= code
  <2>1. PICK u \in Nat : u = (code \div 262144) % 8 /\ u < 8
    BY <1>0, SMT
  <2>2. code = Joined(Joined(Joined(u, z), y), x)
    <3>1. code \div 4096 = u * 64 + z
      BY <1>0, <1>3, <1>8, <2>1, SMT
    <3>2. code \div 64 = (code \div 4096) * 64 + y
      BY <1>0, <1>2, SMT
    <3>3. code = (code \div 64) * 64 + x
      BY <1>0, <1>1, SMT
    <3> QED BY <3>1, <3>2, <3>3, SMT DEF Joined
  <2>3. PICK b \in Nat : b = 240 + u
    BY <2>1, SMT
  <2>4. Utf8(code) = <<b, ByteOf(z), ByteOf(y), ByteOf(x)>>
    BY <1>0, <1>4, <1>8, <2>1, <2>3, SMT DEF Utf8
  <2>5. NextByte(Complete(codes), b) = Waiting(codes, u, 3)
    <3>1. 240 <= b /\ b < 248 /\ b - 240 = u
      BY <2>1, <2>3, SMT
    <3> QED BY <3>1, LeadIs, SMT DEF Waiting
  <2>6. DecodedAll(a \o <<b, ByteOf(z), ByteOf(y), ByteOf(x)>>)
          = Complete(Append(codes, Joined(Joined(Joined(u, z), y), x)))
    BY <2>5, FourDecoded, SMT
  <2> QED BY <2>2, <2>4, <2>6, SMT
<1> QED BY <1>0, <1>5, <1>6, <1>7, <1>8, SMT

LEMMA OneMore ==
  ASSUME NEW codes \in Codes, NEW k \in 1 .. Len(codes)
  PROVE  SubSeq(codes, 1, k) = Append(SubSeq(codes, 1, k - 1), codes[k])
<1>1. codes \in Seq(CodePoint) /\ codes[k] \in CodePoint
  BY CodesClosed DEF Codes
<1>2. 1 \in 1 .. Len(codes) /\ k \in 1 .. Len(codes) /\ k - 1 \in Int
      /\ \A i \in 1 .. k - 1 : i \in 1 .. Len(codes)
  BY <1>1
<1>3. SubSeq(codes, 1, k) = SubSeq(codes, 1, k - 1) \o <<codes[k]>>
  BY <1>1, <1>2, SubSeqRecursiveSecond
<1>4. SubSeq(codes, 1, k - 1) \in Seq(CodePoint)
  BY <1>1, <1>2, CodesClosed, SubSeqProperties
<1> QED BY <1>1, <1>3, <1>4, AppendIsConcat

\* The bytes printed for codes are the text of these.
LEMMA TextDecoded ==
  ASSUME NEW codes \in Codes
  PROVE  IsUtf8Of(utf32_to_string(codes), codes)
<1>1. PICK n, f : n = Len(codes) /\ f = Printed32(codes)
  OBVIOUS
<1>2. n \in Nat /\ \A k \in 1 .. n : codes[k] \in CodePoint
  BY <1>1, CodesClosed
<1>3. f[0] = <<>> /\ \A k \in 1 .. n : f[k] = f[k - 1] \o Utf8(codes[k])
  BY <1>1, Printed32Is
<1> DEFINE T == {k \in 0 .. n : /\ f[k] \in Bytes
                                /\ DecodedAll(f[k]) = Complete(SubSeq(codes, 1, k))}
<1>4. 0 \in T
  <2>1. DecodedAll(<<>>) = Complete(<<>>)
    BY BytesClosed, Decoded8Is DEF DecodedAll, Complete
  <2>2. SubSeq(codes, 1, 0) = <<>>
    BY SubSeqEmpty
  <2>3. 0 \in 0 .. n /\ f[0] \in Bytes
    BY <1>2, <1>3, BytesClosed
  <2> QED BY <1>3, <2>1, <2>2, <2>3, Zenon
<1>5. \A k \in 1 .. n : k - 1 \in T => k \in T
  <2> SUFFICES ASSUME NEW k \in 1 .. n, k - 1 \in T PROVE k \in T
    OBVIOUS
  <2>1. codes[k] \in CodePoint /\ codes[k] \in Nat
    BY <1>2, CodePointIs
  <2>2. f[k - 1] \in Bytes /\ DecodedAll(f[k - 1]) = Complete(SubSeq(codes, 1, k - 1))
    OBVIOUS
  <2>3. f[k] = f[k - 1] \o Utf8(codes[k])
    BY <1>3
  <2>4. f[k] \in Bytes
    BY <2>1, <2>2, <2>3, Utf8Type, BytesClosed
  <2>5. DecodedAll(f[k]) = Complete(Append(SubSeq(codes, 1, k - 1), codes[k]))
    BY <2>1, <2>2, <2>3, CharacterDecoded
  <2>6. Append(SubSeq(codes, 1, k - 1), codes[k]) = SubSeq(codes, 1, k)
    BY <1>1, OneMore
  <2>7. k \in 0 .. n
    BY <1>2
  <2> QED BY <2>4, <2>5, <2>6, <2>7, Zenon
<1>6. \A k \in 0 .. n : k \in T
  <2> HIDE DEF T
  <2> QED BY <1>2, <1>4, <1>5, RangeInduction
<1>7. DecodedAll(f[n]) = Complete(SubSeq(codes, 1, n))
  BY <1>2, <1>6
<1>8. SubSeq(codes, 1, n) = codes
  BY <1>1, <1>2 DEF Codes
<1> QED BY <1>1, <1>7, <1>8 DEF IsUtf8Of, utf32_to_string, DecodedAll, Complete

\* UTF-16.
Units == Seq(CodeUnit)

LEMMA UnitsAre ==
  ASSUME NEW units \in Units
  PROVE  Len(units) \in Nat /\ DOMAIN units = 1 .. Len(units)
         /\ \A k \in 1 .. Len(units) : units[k] \in CodeUnit
BY DEF Units

LEMMA CodeUnitIs == \A unit \in CodeUnit : unit \in Nat
BY SMT DEF CodeUnit

Printer == [code : Nat, result : Bytes]

LEMMA PrinterClosed ==
  ASSUME NEW s \in Printer, NEW unit \in CodeUnit
  PROVE  NextUnit(s, unit) \in Printer
<1>1. PICK code \in Nat, result \in Bytes : s = [code |-> code, result |-> result]
  BY DEF Printer
<1>2. unit \in Nat /\ HighCode(unit) \in Nat /\ unit % 1024 \in Nat
  BY CodeUnitIs, SMT DEF HighCode
<1>3. PICK high \in Nat : high = HighCode(unit)
  BY <1>2, SMT
<1>4. PICK shown \in Nat : shown = IF IsLow(unit) THEN s.code + (unit % 1024) ELSE unit
  BY <1>1, <1>2, SMT
<1>5. result \o Utf8(shown) \in Bytes
  BY Utf8Type, BytesClosed
<1>6. \/ NextUnit(s, unit) = [code |-> high, result |-> result]
      \/ NextUnit(s, unit) = [code |-> 0, result |-> result \o Utf8(shown)]
  <2>1. CASE IsHigh(unit)
    <3>1. NextUnit(s, unit) = [s EXCEPT !.code = high]
      BY <1>3, <2>1, SMT DEF NextUnit
    <3> QED BY <1>1, <3>1, SMT
  <2>2. CASE ~IsHigh(unit)
    <3>1. NextUnit(s, unit) = [code |-> 0, result |-> s.result \o Utf8(shown)]
      BY <1>4, <2>2, SMT DEF NextUnit
    <3> QED BY <1>1, <3>1, SMT
  <2> QED BY <2>1, <2>2, Zenon
<1>7. [code |-> high, result |-> result] \in Printer
      /\ [code |-> 0, result |-> result \o Utf8(shown)] \in Printer
  BY <1>5 DEF Printer
<1> QED BY <1>6, <1>7, Zenon

LEMMA Printed16Is ==
  ASSUME NEW units \in Units
  PROVE  /\ Printed16(units)[0] = [code |-> 0, result |-> <<>>]
         /\ \A k \in 0 .. Len(units) : Printed16(units)[k] \in Printer
         /\ \A k \in 1 .. Len(units) :
              Printed16(units)[k] = NextUnit(Printed16(units)[k - 1], units[k])
<1> DEFINE n == Len(units)
           base == [code |-> 0, result |-> <<>>]
           Step(g) == [k \in 0 .. n |-> IF k = 0 THEN base ELSE NextUnit(g[k - 1], units[k])]
<1>1. n \in Nat /\ \A k \in 1 .. n : units[k] \in CodeUnit
  BY UnitsAre
<1>2. base \in Printer
  BY BytesClosed DEF Printer
<1>3. \A s \in Printer : \A unit \in CodeUnit : NextUnit(s, unit) \in Printer
  BY PrinterClosed
<1>4. PICK step : step = [k \in 1 .. n |-> [s \in Printer |-> NextUnit(s, units[k])]]
  OBVIOUS
<1>5. step \in [1 .. n -> [Printer -> Printer]]
  BY <1>1, <1>3, <1>4
<1>9. Printed16(units) = CHOOSE g : g = Step(g)
  BY DEF Printed16
<1> HIDE DEF base
<1>6. PICK f \in [0 .. n -> Printer] : IsRecursion(f, n, base, step)
  BY <1>1, <1>2, <1>5, RecursionExists
<1>7. \A k \in 1 .. n : step[k][f[k - 1]] = NextUnit(f[k - 1], units[k])
  BY <1>1, <1>4
<1>8. f = Step(f)
  <2>1. f = [k \in 0 .. n |-> IF k = 0 THEN base ELSE step[k][f[k - 1]]]
    BY <1>6 DEF IsRecursion
  <2>2. ASSUME NEW k \in 0 .. n
        PROVE  (IF k = 0 THEN base ELSE step[k][f[k - 1]])
                 = (IF k = 0 THEN base ELSE NextUnit(f[k - 1], units[k]))
    <3>1. k # 0 => k \in 1 .. n
      BY <1>1
    <3> QED BY <1>7, <3>1, Zenon
  <2> QED BY <2>1, <2>2
<1>10. Printed16(units) = Step(Printed16(units))
  <2> HIDE DEF Step
  <2> QED BY <1>8, <1>9, Zenon
<1>11. PICK g : g = Printed16(units)
  OBVIOUS
<1>12. g = [k \in 0 .. n |-> IF k = 0 THEN base ELSE NextUnit(g[k - 1], units[k])]
  BY <1>10, <1>11
<1>13. g[0] = base
  BY <1>1, <1>12
<1>14. ASSUME NEW k \in 1 .. n
       PROVE  g[k] = NextUnit(g[k - 1], units[k])
  <2>1. k \in 0 .. n /\ k # 0
    BY <1>1
  <2> QED BY <1>12, <2>1, Zenon
<1> DEFINE T == {k \in 0 .. n : g[k] \in Printer}
<1>15. 0 \in T
  BY <1>1, <1>2, <1>13
<1>16. \A k \in 1 .. n : k - 1 \in T => k \in T
  <2> SUFFICES ASSUME NEW k \in 1 .. n, g[k - 1] \in Printer PROVE k \in T
    OBVIOUS
  <2>1. k \in 0 .. n /\ units[k] \in CodeUnit
    BY <1>1
  <2>2. g[k] \in Printer
    BY <1>14, <2>1, PrinterClosed
  <2> QED BY <2>1, <2>2
<1>17. \A k \in 0 .. n : k \in T
  <2> HIDE DEF T
  <2> QED BY <1>1, <1>15, <1>16, RangeInduction
<1> QED BY <1>11, <1>13, <1>14, <1>17 DEF base

\* The code point that unit k completes.
CodeAt(units, k) == IF IsLow(units[k]) THEN Supplementary(units[k - 1], units[k]) ELSE units[k]

\* The code of a pair, as it is put together over two rounds of the loop.
LEMMA PairIs ==
  ASSUME NEW high \in CodeUnit, NEW low \in CodeUnit, IsHigh(high), IsLow(low)
  PROVE  /\ Supplementary(high, low) \in CodePoint
         /\ HighCode(high) + (low % 1024) = Supplementary(high, low)
<1>1. high % 1024 = high - 55296 /\ low % 1024 = low - 56320
      /\ 55296 <= high /\ high < 56320 /\ 56320 <= low /\ low < 57344
  BY SMT DEF CodeUnit, IsHigh, IsLow
<1>2. high \in Nat /\ low \in Nat
  BY CodeUnitIs, SMT
<1> QED BY <1>1, <1>2, SMT DEF Supplementary, HighCode, CodePoint

LEMMA CodeAtIs ==
  ASSUME NEW units \in Units, WellFormed(units), NEW k \in 1 .. Len(units)
  PROVE  /\ CodeAt(units, k) \in CodePoint
         /\ IsLow(units[k]) => /\ k - 1 \in 1 .. Len(units) /\ IsHigh(units[k - 1])
                               /\ units[k - 1] \in CodeUnit
<1>1. units[k] \in CodeUnit /\ k \in DOMAIN units /\ Len(units) \in Nat
  BY UnitsAre
<1>2. ASSUME IsLow(units[k])
      PROVE  k - 1 \in 1 .. Len(units) /\ IsHigh(units[k - 1])
  <2>1. k > 1 /\ IsHigh(units[k - 1])
    BY <1>1, <1>2, Zenon DEF WellFormed
  <2> QED BY <1>1, <2>1
<1>3. ASSUME IsLow(units[k])
      PROVE  units[k - 1] \in CodeUnit
  BY <1>2, <1>3, UnitsAre
<1>4. units[k] \in CodePoint
  BY <1>1, SMT DEF CodeUnit, CodePoint
<1>5. CodeAt(units, k) \in CodePoint
  <2>1. CASE IsLow(units[k])
    <3>1. PICK high \in CodeUnit, low \in CodeUnit : high = units[k - 1] /\ low = units[k]
      BY <1>1, <1>3, <2>1
    <3>2. IsHigh(high) /\ IsLow(low)
      BY <1>2, <2>1, <3>1
    <3>3. Supplementary(high, low) \in CodePoint
      BY <3>2, PairIs, SMT
    <3> QED BY <2>1, <3>1, <3>3, Zenon DEF CodeAt
  <2>2. CASE ~IsLow(units[k])
    BY <1>4, <2>2, Zenon DEF CodeAt
  <2> QED BY <2>1, <2>2
<1> QED BY <1>2, <1>3, <1>5

LEMMA Decoded16Is ==
  ASSUME NEW units \in Units, WellFormed(units)
  PROVE  /\ Decoded16(units)[0] = <<>>
         /\ \A k \in 1 .. Len(units) :
              Decoded16(units)[k] = IF IsHigh(units[k]) THEN Decoded16(units)[k - 1]
                                    ELSE Append(Decoded16(units)[k - 1], CodeAt(units, k))
<1> DEFINE n == Len(units)
           Value(g, k) == IF IsHigh(units[k]) THEN g[k - 1] ELSE Append(g[k - 1], CodeAt(units, k))
           Step(g) == [k \in 0 .. n |-> IF k = 0 THEN <<>> ELSE Value(g, k)]
<1>1. n \in Nat /\ \A k \in 1 .. n : CodeAt(units, k) \in CodePoint
  BY UnitsAre, CodeAtIs
<1>2. <<>> \in Codes
  BY CodesClosed
<1>3. \A a \in Codes : \A c \in CodePoint : Append(a, c) \in Codes
  BY CodesClosed
<1>4. PICK step : step = [k \in 1 .. n |-> [a \in Codes |->
                            IF IsHigh(units[k]) THEN a ELSE Append(a, CodeAt(units, k))]]
  OBVIOUS
<1>5. step \in [1 .. n -> [Codes -> Codes]]
  BY <1>1, <1>3, <1>4
<1>6. PICK f \in [0 .. n -> Codes] : IsRecursion(f, n, <<>>, step)
  BY <1>1, <1>2, <1>5, RecursionExists
<1>7. \A k \in 1 .. n : step[k][f[k - 1]] = Value(f, k)
  BY <1>1, <1>4, SMTT(40)
<1>8. f = Step(f)
  <2>1. f = [k \in 0 .. n |-> IF k = 0 THEN <<>> ELSE step[k][f[k - 1]]]
    BY <1>6 DEF IsRecursion
  <2>2. ASSUME NEW k \in 0 .. n
        PROVE  (IF k = 0 THEN <<>> ELSE step[k][f[k - 1]]) = (IF k = 0 THEN <<>> ELSE Value(f, k))
    <3>1. k # 0 => k \in 1 .. n
      BY <1>1
    <3> HIDE DEF Value
    <3> QED BY <1>7, <3>1, Zenon
  <2> HIDE DEF Value
  <2> QED BY <2>1, <2>2
<1>9. Decoded16(units) = CHOOSE g : g = Step(g)
  BY DEF Decoded16, CodeAt
<1>10. Decoded16(units) = Step(Decoded16(units))
  <2> HIDE DEF Step
  <2> QED BY <1>8, <1>9, Zenon
<1>11. PICK g : g = Decoded16(units)
  OBVIOUS
<1>12. g = [k \in 0 .. n |-> IF k = 0 THEN <<>> ELSE Value(g, k)]
  BY <1>10, <1>11
<1>13. g[0] = <<>>
  <2> HIDE DEF Value
  <2> QED BY <1>1, <1>12
<1>14. ASSUME NEW k \in 1 .. n
       PROVE  g[k] = Value(g, k)
  <2>1. k \in 0 .. n /\ k # 0
    BY <1>1
  <2> HIDE DEF Value
  <2> QED BY <1>12, <2>1, Zenon
<1> QED BY <1>11, <1>13, <1>14

\* A round of the loop: nothing is printed for a high surrogate.
LEMMA HighKept ==
  ASSUME NEW s \in Printer, NEW unit, IsHigh(unit)
  PROVE  NextUnit(s, unit).result = s.result /\ NextUnit(s, unit).code = HighCode(unit)
<1>1. NextUnit(s, unit) = [s EXCEPT !.code = HighCode(unit)]
  BY SMT DEF NextUnit
<1> QED BY <1>1 DEF Printer

\* What a low surrogate adds to the code that is kept.
LowBits(unit) == unit % 1024

LEMMA LowPrinted ==
  ASSUME NEW s \in Printer, NEW unit, NEW code,
         ~IsHigh(unit), IsLow(unit), code = s.code + LowBits(unit)
  PROVE  NextUnit(s, unit).result = s.result \o Utf8(code)
<1>1. PICK text : text = s.result \o Utf8(code)
  OBVIOUS
<1>2. NextUnit(s, unit) = [code |-> 0, result |-> text]
  BY <1>1, SMT DEF NextUnit, LowBits
<1>3. NextUnit(s, unit).result = text
  BY <1>2
<1> QED BY <1>1, <1>3

LEMMA OtherPrinted ==
  ASSUME NEW s \in Printer, NEW unit, ~IsHigh(unit), ~IsLow(unit)
  PROVE  NextUnit(s, unit).result = s.result \o Utf8(unit)
<1>1. PICK text : text = s.result \o Utf8(unit)
  OBVIOUS
<1>2. NextUnit(s, unit) = [code |-> 0, result |-> text]
  BY <1>1, SMT DEF NextUnit
<1>3. NextUnit(s, unit).result = text
  BY <1>2
<1> QED BY <1>1, <1>3

\* As far as it has come, the loop has printed the text of the units, but for a
\* high surrogate that it still keeps.
LEMMA UnitsDecoded ==
  ASSUME NEW units \in Units, WellFormed(units)
  PROVE  /\ DecodeUtf16(units) \in Codes
         /\ IsUtf8Of(utf16_to_string(units), DecodeUtf16(units))
<1>1. PICK n, f, g : n = Len(units) /\ f = Printed16(units) /\ g = Decoded16(units)
  OBVIOUS
<1>2. n \in Nat /\ \A k \in 1 .. n : units[k] \in CodeUnit
  BY <1>1, UnitsAre
<1>3. /\ f[0] = [code |-> 0, result |-> <<>>]
      /\ \A k \in 0 .. n : f[k] \in Printer
      /\ \A k \in 1 .. n : f[k] = NextUnit(f[k - 1], units[k])
  BY <1>1, Printed16Is
<1>4. /\ g[0] = <<>>
      /\ \A k \in 1 .. n : g[k] = IF IsHigh(units[k]) THEN g[k - 1]
                                  ELSE Append(g[k - 1], CodeAt(units, k))
  BY <1>1, Decoded16Is
<1> DEFINE Printed(k) == /\ g[k] \in Codes
                         /\ DecodedAll(f[k].result) = Complete(g[k])
                         /\ k # 0 /\ IsHigh(units[k]) => f[k].code = HighCode(units[k])
           T == {k \in 0 .. n : Printed(k)}
<1>5. 0 \in T
  <2>1. DecodedAll(<<>>) = Complete(<<>>)
    BY BytesClosed, Decoded8Is DEF DecodedAll, Complete
  <2>2. 0 \in 0 .. n /\ g[0] \in Codes /\ f[0].result = <<>>
    BY <1>2, <1>3, <1>4, CodesClosed
  <2> QED BY <1>4, <2>1, <2>2
<1>6. \A k \in 1 .. n : k - 1 \in T => k \in T
  <2> SUFFICES ASSUME NEW k \in 1 .. n, k - 1 \in T PROVE Printed(k)
    BY <1>2
  <2>1. k - 1 \in 0 .. n /\ f[k - 1] \in Printer /\ f[k - 1].result \in Bytes
    BY <1>3 DEF Printer
  <2>2. g[k - 1] \in Codes /\ DecodedAll(f[k - 1].result) = Complete(g[k - 1])
    OBVIOUS
  <2>3. f[k] = NextUnit(f[k - 1], units[k]) /\ units[k] \in CodeUnit
    BY <1>2, <1>3
  <2>4. PICK s \in Printer, unit \in CodeUnit : s = f[k - 1] /\ unit = units[k]
    BY <2>1, <2>3
  <2>5. f[k] = NextUnit(s, unit)
    BY <2>3, <2>4
  <2>6. CASE IsHigh(units[k])
    <3>1. g[k] = g[k - 1]
      BY <1>4, <2>6
    <3>2. NextUnit(s, unit).result = s.result /\ NextUnit(s, unit).code = HighCode(unit)
      BY <2>4, <2>6, HighKept
    <3> QED BY <2>2, <2>4, <2>5, <3>1, <3>2, Zenon
  <2>7. CASE ~IsHigh(units[k])
    <3>1. g[k] = Append(g[k - 1], CodeAt(units, k))
      BY <1>4, <2>7
    <3>2. CodeAt(units, k) \in CodePoint
      BY <1>1, CodeAtIs, Zenon
    <3>3. f[k].result = f[k - 1].result \o Utf8(CodeAt(units, k))
      <4>1. CASE IsLow(units[k])
        <5>1. k - 1 \in 1 .. Len(units) /\ IsHigh(units[k - 1]) /\ units[k - 1] \in CodeUnit
          BY <1>1, <4>1, CodeAtIs, Zenon
        <5>2. k - 1 # 0
          BY <5>1, UnitsAre
        <5>3. PICK high \in CodeUnit : high = units[k - 1] /\ IsHigh(high)
          BY <5>1
        <5>4. s.code = HighCode(high)
          BY <2>4, <5>2, <5>3
        <5>5. HighCode(high) + (unit % 1024) = Supplementary(high, unit)
          BY <2>4, <4>1, <5>3, PairIs, SMT
        <5>6. PICK code : code = s.code + LowBits(unit)
          OBVIOUS
        <5>7. code = Supplementary(high, unit)
          BY <5>4, <5>5, <5>6, SMT DEF LowBits
        <5>8. code = CodeAt(units, k)
          BY <2>4, <4>1, <5>3, <5>7, Zenon DEF CodeAt
        <5>9. ~IsHigh(unit) /\ IsLow(unit)
          BY <2>4, <2>7, <4>1, Zenon
        <5>10. NextUnit(s, unit).result = s.result \o Utf8(code)
          BY <5>6, <5>9, LowPrinted, Zenon
        <5> QED BY <2>4, <2>5, <5>8, <5>10, Zenon
      <4>2. CASE ~IsLow(units[k])
        <5>1. NextUnit(s, unit).result = s.result \o Utf8(unit)
          <6>1. ~IsHigh(unit) /\ ~IsLow(unit)
            BY <2>4, <2>7, <4>2, Zenon
          <6> QED BY <6>1, OtherPrinted, SMT
        <5>2. unit = CodeAt(units, k)
          BY <2>4, <4>2, Zenon DEF CodeAt
        <5> QED BY <2>4, <2>5, <5>1, <5>2, Zenon
      <4> QED BY <4>1, <4>2
    <3>4. DecodedAll(f[k - 1].result \o Utf8(CodeAt(units, k)))
            = Complete(Append(g[k - 1], CodeAt(units, k)))
      BY <2>1, <2>2, <3>2, CharacterDecoded, Zenon
    <3>5. g[k] \in Codes
      BY <2>2, <3>1, <3>2, CodesClosed, Zenon
    <3> QED BY <2>7, <3>1, <3>3, <3>4, <3>5, Zenon
  <2> QED BY <2>6, <2>7
<1>7. \A k \in 0 .. n : k \in T
  <2> HIDE DEF T
  <2> QED BY <1>2, <1>5, <1>6, RangeInduction
<1>8. g[n] \in Codes /\ DecodedAll(f[n].result) = Complete(g[n])
  <2>1. n \in T
    BY <1>2, <1>7
  <2> QED BY <2>1
<1> QED BY <1>1, <1>8, Zenon DEF IsUtf8Of, utf16_to_string, DecodeUtf16, DecodedAll, Complete

\* A well-formed UTF-16 string of any length is printed as the same text in
\* UTF-8, and so is the UTF-32 string of its code points (formatting.cpp,
\* appendAsUtf8 and utf16_to_string).
THEOREM TextsAreKept == Spec => []TextIsKept
<1>1. Init => TextIsKept
  <2> SUFFICES ASSUME Init, input.of = "utf16_to_string", WellFormed(input.units)
               PROVE  /\ IsUtf8Of(utf16_to_string(input.units), DecodeUtf16(input.units))
                      /\ IsUtf8Of(utf32_to_string(DecodeUtf16(input.units)),
                                  DecodeUtf16(input.units))
    BY Zenon DEF TextIsKept
  <2>1. PICK units \in Utf16 : input = [of |-> "utf16_to_string", units |-> units]
    BY SMT DEF Init
  <2>2. input.units = units /\ units \in Units
    BY <2>1, Inputs DEF Units
  <2> QED BY <2>2, UnitsDecoded, TextDecoded, Zenon
<1>2. TextIsKept /\ [Next]_input => TextIsKept'
  BY DEF TextIsKept, Next
<1> QED BY <1>1, <1>2, PTL DEF Spec

-----------------------------------------------------------------------------
\* Decimal numerals.

Digit == {"0", "1", "2", "3", "4", "5", "6", "7", "8", "9"}
Continued(f, n) == IF n < 10 THEN <<Figure[n + 1]>> ELSE Append(f[n \div 10], Figure[(n % 10) + 1])

LEMMA FigureIs ==
  /\ \A i \in 1 .. 10 : Figure[i] \in Digit
  /\ \A i, j \in 1 .. 10 : Figure[i] = Figure[j] => i = j
BY DEF Figure, Digit

LEMMA TenthFalls ==
  ASSUME NEW n \in Nat
  PROVE  \E q \in Nat, r \in 0 .. 9 :
           q = n \div 10 /\ r = n % 10 /\ n = 10 * q + r /\ (~(n < 10) => q < n)
<1>1. PICK q, r : q = n \div 10 /\ r = n % 10
  OBVIOUS
<1>2. q \in Nat /\ r \in 0 .. 9 /\ n = 10 * q + r
  BY <1>1
<1>3. ~(n < 10) => q < n
  BY <1>2
<1> QED BY <1>1, <1>2, <1>3

LEMMA ContinuedTenth ==
  ASSUME NEW f, NEW n \in Nat, ~(n < 10)
  PROVE  Continued(f, n) = Append(f[n \div 10], Figure[(n % 10) + 1])
BY DEF Continued

LEMMA DecimalIs ==
  /\ Decimal \in [Nat -> Seq(Digit)]
  /\ \A n \in Nat : Decimal[n] = Continued(Decimal, n)
<1> DEFINE F == [Nat -> Seq(Digit)]
           Rank == [n \in Nat |-> n]
<1>1. ASSUME NEW f \in F, NEW n \in Nat
      PROVE  Continued(f, n) \in Seq(Digit)
  <2>1. CASE n < 10
    <3>1. Figure[n + 1] \in Digit
      <4>1. n + 1 \in 1 .. 10
        BY <2>1
      <4> QED BY <4>1, FigureIs
    <3>2. Continued(f, n) = <<Figure[n + 1]>>
      BY <2>1 DEF Continued
    <3> QED BY <3>1, <3>2
  <2>2. CASE ~(n < 10)
    <3>1. PICK q, c : q = n \div 10 /\ c = Figure[(n % 10) + 1]
      OBVIOUS
    <3>2. q \in Nat /\ (n % 10) + 1 \in 1 .. 10
      BY <3>1, TenthFalls
    <3>3. c \in Digit /\ f[q] \in Seq(Digit)
      BY <3>1, <3>2, FigureIs
    <3>4. Continued(f, n) = Append(f[q], c)
      BY <2>2, <3>1 DEF Continued
    <3> QED BY <3>3, <3>4
  <2> QED BY <2>1, <2>2
<1>2. PICK step : step = [f \in F |-> [n \in Nat |-> Continued(f, n)]]
  OBVIOUS
<1>3. step \in [F -> F]
  BY <1>1, <1>2
<1>4. ASSUME NEW f \in F, NEW g \in F, NEW n \in Nat,
             \A m \in Nat : Rank[m] < Rank[n] => f[m] = g[m]
      PROVE  step[f][n] = step[g][n]
  <2>1. ~(n < 10) => f[n \div 10] = g[n \div 10]
    BY <1>4, TenthFalls
  <2> QED BY <1>2, <2>1 DEF Continued
<1>5. \E f \in F : IsFixed(f, step)
  <2>1. Seq(Digit) # {} /\ Rank \in [Nat -> Nat]
    <3>1. <<>> \in Seq(Digit)
      OBVIOUS
    <3> QED BY <3>1
  <2>2. LooksBelow(step, Rank, Nat, Seq(Digit))
    BY <1>4 DEF LooksBelow
  <2>3. step \in [[Nat -> Seq(Digit)] -> [Nat -> Seq(Digit)]]
    BY <1>3
  <2> HIDE DEF Rank
  <2> QED BY <2>1, <2>2, <2>3, RankRecursion
<1>6. \E f \in F : f = [n \in Nat |-> Continued(f, n)]
  BY <1>2, <1>5 DEF IsFixed
<1>7. Decimal = [n \in Nat |-> Continued(Decimal, n)]
  <2>1. Decimal = CHOOSE f : f = [n \in Nat |-> Continued(f, n)]
    BY DEF Decimal, Continued
  <2> QED BY <1>6, <2>1
<1> DEFINE U == {n \in Nat : Decimal[n] \in Seq(Digit)}
<1>8. ASSUME NEW n \in Nat, \A m \in Nat : Rank[m] < Rank[n] => m \in U
      PROVE  n \in U
  <2>1. CASE n < 10
    <3>1. Figure[n + 1] \in Digit
      BY <2>1, FigureIs
    <3> QED BY <1>7, <2>1, <3>1 DEF Continued
  <2>2. CASE ~(n < 10)
    <3>1. PICK q, c : q = n \div 10 /\ c = Figure[(n % 10) + 1]
      OBVIOUS
    <3>2. q \in Nat /\ q < n /\ (n % 10) + 1 \in 1 .. 10
      BY <2>2, <3>1, TenthFalls
    <3>3. c \in Digit /\ Decimal[q] \in Seq(Digit)
      BY <1>8, <3>1, <3>2, FigureIs
    <3>4. Decimal[n] = Append(Decimal[q], c)
      <4>1. Decimal[n] = Continued(Decimal, n)
        BY <1>7
      <4>2. Continued(Decimal, n) = Append(Decimal[n \div 10], Figure[(n % 10) + 1])
        BY <2>2, ContinuedTenth
      <4> QED BY <3>1, <4>1, <4>2, Zenon
    <3>5. Append(Decimal[q], c) \in Seq(Digit)
      BY <3>3
    <3> QED BY <3>4, <3>5
  <2> QED BY <2>1, <2>2
<1>9. Nat \subseteq U
  <2>1. Rank \in [Nat -> Nat]
    OBVIOUS
  <2> HIDE DEF Rank, U
  <2> QED BY <1>8, <2>1, RankInduction
<1> QED BY <1>7, <1>9

\* The last figure and those before it.
LEMMA DecimalCases ==
  ASSUME NEW n \in Nat
  PROVE  \E q \in Nat, r \in 0 .. 9 :
           /\ n = 10 * q + r
           /\ \/ n < 10 /\ q = 0 /\ Decimal[n] = <<Figure[r + 1]>>
              \/ ~(n < 10) /\ q < n /\ Decimal[n] = Append(Decimal[q], Figure[r + 1])
<1>1. PICK q \in Nat, r \in 0 .. 9 :
        q = n \div 10 /\ r = n % 10 /\ n = 10 * q + r /\ (~(n < 10) => q < n)
  BY TenthFalls
<1>2. CASE n < 10
  <2>1. q = 0 /\ r = n
    BY <1>1, <1>2
  <2>2. Decimal[n] = <<Figure[n + 1]>>
    BY <1>2, DecimalIs DEF Continued
  <2> QED BY <1>1, <1>2, <2>1, <2>2
<1>3. CASE ~(n < 10)
  <2>1. Decimal[n] = Append(Decimal[n \div 10], Figure[(n % 10) + 1])
    <3>1. Decimal[n] = Continued(Decimal, n)
      BY DecimalIs
    <3> QED BY <1>3, <3>1, ContinuedTenth
  <2>2. Decimal[n] = Append(Decimal[q], Figure[r + 1])
    BY <1>1, <2>1, Zenon
  <2> QED BY <1>1, <1>3, <2>2
<1> QED BY <1>2, <1>3

LEMMA DecimalNonempty ==
  ASSUME NEW n \in Nat
  PROVE  Decimal[n] \in Seq(Digit) /\ Decimal[n] # <<>>
<1>1. Decimal[n] \in Seq(Digit)
  BY DecimalIs
<1>2. PICK q \in Nat, r \in 0 .. 9 :
        /\ n = 10 * q + r
        /\ \/ n < 10 /\ q = 0 /\ Decimal[n] = <<Figure[r + 1]>>
           \/ ~(n < 10) /\ q < n /\ Decimal[n] = Append(Decimal[q], Figure[r + 1])
  BY DecimalCases
<1>3. PICK s : s = Decimal[q]
  OBVIOUS
<1>4. s \in Seq(Digit)
  BY <1>3, DecimalIs
<1>5. Append(s, Figure[r + 1]) # <<>> /\ <<Figure[r + 1]>> # <<>>
  BY <1>4
<1> QED BY <1>1, <1>2, <1>3, <1>5, Zenon

\* Different numbers have different numerals.
LEMMA DecimalInjective ==
  ASSUME NEW m \in Nat, NEW n \in Nat, Decimal[m] = Decimal[n]
  PROVE  m = n
<1> DEFINE U == {k \in Nat : \A j \in Nat : Decimal[j] = Decimal[k] => j = k}
<1>1. ASSUME NEW k \in Nat, \A l \in Nat : l < k => l \in U
      PROVE  k \in U
  <2> SUFFICES ASSUME NEW j \in Nat, Decimal[j] = Decimal[k] PROVE j = k
    OBVIOUS
  <2>1. PICK q \in Nat, r \in 0 .. 9 :
          /\ k = 10 * q + r
          /\ \/ k < 10 /\ q = 0 /\ Decimal[k] = <<Figure[r + 1]>>
             \/ ~(k < 10) /\ q < k /\ Decimal[k] = Append(Decimal[q], Figure[r + 1])
    BY DecimalCases
  <2>2. PICK p \in Nat, o \in 0 .. 9 :
          /\ j = 10 * p + o
          /\ \/ j < 10 /\ p = 0 /\ Decimal[j] = <<Figure[o + 1]>>
             \/ ~(j < 10) /\ p < j /\ Decimal[j] = Append(Decimal[p], Figure[o + 1])
    BY DecimalCases
  <2>3. PICK s, t, c, d : s = Decimal[q] /\ t = Decimal[p] /\ c = Figure[r + 1] /\ d = Figure[o + 1]
    OBVIOUS
  <2>4. s \in Seq(Digit) /\ s # <<>> /\ t \in Seq(Digit) /\ t # <<>>
    BY <2>3, DecimalNonempty
  <2>5. Append(s, c) # <<d>> /\ Append(t, d) # <<c>>
    <3>1. Len(s) \in Nat \ {0} /\ Len(t) \in Nat \ {0}
      BY <2>4
    <3>2. Len(Append(s, c)) = Len(s) + 1 /\ Len(Append(t, d)) = Len(t) + 1
      BY <2>4
    <3>3. Len(<<c>>) = 1 /\ Len(<<d>>) = 1
      OBVIOUS
    <3>4. Len(Append(s, c)) # Len(<<d>>) /\ Len(Append(t, d)) # Len(<<c>>)
      BY <3>1, <3>2, <3>3
    <3> QED BY <3>4, Zenon
  <2>6. c = d => r = o
    <3>1. r + 1 \in 1 .. 10 /\ o + 1 \in 1 .. 10
      OBVIOUS
    <3>2. c = d => r + 1 = o + 1
      BY <2>3, <3>1, FigureIs
    <3> QED BY <3>2
  <2>7. CASE k < 10
    <3>1. Decimal[k] = <<c>> /\ q = 0
      BY <2>1, <2>3, <2>7
    <3>2. Decimal[j] # Append(t, d)
      BY <2>5, <3>1
    <3>3. Decimal[j] = <<d>> /\ p = 0
      BY <2>2, <2>3, <3>2
    <3>4. c = d
      BY <3>1, <3>3
    <3> QED BY <2>1, <2>2, <2>6, <3>1, <3>3, <3>4
  <2>8. CASE ~(k < 10)
    <3>1. Decimal[k] = Append(s, c) /\ q < k
      BY <2>1, <2>3, <2>8
    <3>2. Decimal[j] # <<d>>
      BY <2>5, <3>1
    <3>3. Decimal[j] = Append(t, d)
      BY <2>2, <2>3, <3>2
    <3>4. s = t /\ c = d
      BY <2>4, <3>1, <3>3, AppendInjective, SMTT(40)
    <3>5. q \in U
      BY <1>1, <3>1
    <3>6. p = q
      BY <2>3, <3>4, <3>5
    <3> QED BY <2>1, <2>2, <2>6, <3>4, <3>6
  <2> QED BY <2>7, <2>8
<1>2. PICK rank : rank = [k \in Nat |-> k]
  OBVIOUS
<1>3. Nat \subseteq U
  <2>1. \A k \in Nat : (\A l \in Nat : rank[l] < rank[k] => l \in U) => k \in U
    <3> HIDE DEF U
    <3> QED BY <1>1, <1>2
  <2>2. rank \in [Nat -> Nat]
    BY <1>2
  <2> HIDE DEF U
  <2> QED BY <2>1, <2>2, RankInduction
<1> QED BY <1>3

-----------------------------------------------------------------------------
\* Texts that begin alike.

LEMMA CancelLeft ==
  ASSUME NEW S, NEW s \in Seq(S), NEW u \in Seq(S), NEW v \in Seq(S), s \o u = s \o v
  PROVE  u = v
BY ConcatSimplifications

\* What is in A ends where something begins that is not.
EndsBefore(u, A) == u = <<>> \/ u[1] \notin A

SameText(a, u, b, v) == a \o u = b \o v

LEMMA PrefixesEqual ==
  ASSUME NEW S, NEW A \in SUBSET S, NEW a \in Seq(A), NEW b \in Seq(A),
         NEW u \in Seq(S), NEW v \in Seq(S), EndsBefore(u, A), EndsBefore(v, A),
         SameText(a, u, b, v)
  PROVE  a = b /\ u = v
<1>1. a \in Seq(S) /\ b \in Seq(S)
  OBVIOUS
<1>2. ASSUME NEW c \in Seq(A), NEW d \in Seq(A), NEW w \in Seq(S), NEW x \in Seq(S),
             EndsBefore(x, A), c \o w = d \o x
      PROVE  Len(c) <= Len(d)
  <2> SUFFICES ASSUME Len(d) < Len(c) PROVE FALSE
    OBVIOUS
  <2>1. c \in Seq(S) /\ d \in Seq(S)
    OBVIOUS
  <2>2. PICK k : k = Len(d) + 1
    OBVIOUS
  <2>3. k \in 1 .. Len(c) /\ k \in 1 .. Len(c) + Len(w)
    BY <2>2
  <2>4. (c \o w)[k] = c[k] /\ c[k] \in A
    BY <2>1, <2>3, ConcatProperties
  <2>5. Len(c \o w) = Len(c) + Len(w) /\ Len(d \o x) = Len(d) + Len(x)
    BY <2>1, ConcatProperties
  <2>6. Len(x) >= 1
    BY <1>2, <2>3, <2>5
  <2>7. k \in 1 .. Len(d) + Len(x) /\ ~(k <= Len(d)) /\ k - Len(d) = 1
    BY <2>2, <2>6, SMTT(40)
  <2>8. (d \o x)[k] = x[1]
    BY <2>1, <2>7, ConcatProperties
  <2>9. x # <<>>
    BY <2>6
  <2> QED BY <1>2, <2>4, <2>8, <2>9 DEF EndsBefore
<1>0. a \o u = b \o v
  BY DEF SameText
<1>3. Len(a) = Len(b)
  <2>1. Len(a) <= Len(b) /\ Len(b) <= Len(a)
    BY <1>0, <1>2
  <2> QED BY <2>1
<1>4. \A i \in 1 .. Len(a) : (a \o u)[i] = a[i] /\ (b \o v)[i] = b[i]
  BY <1>1, <1>3, ConcatProperties
<1>5. a = b
  <2>1. \A i \in 1 .. Len(a) : a[i] = b[i]
    BY <1>0, <1>4, Zenon
  <2> QED BY <1>3, <2>1, SeqEqual
<1>6. a \o u = a \o v
  BY <1>0, <1>5, Zenon
<1> QED BY <1>1, <1>5, <1>6, CancelLeft

LEMMA OneHead ==
  ASSUME NEW S, NEW c \in S, NEW d \in S, NEW u \in Seq(S), NEW v \in Seq(S),
         <<c>> \o u = <<d>> \o v
  PROVE  c = d /\ u = v
<1>1. (<<c>> \o u)[1] = c /\ (<<d>> \o v)[1] = d
  OBVIOUS
<1>2. c = d
  BY <1>1
<1>3. <<c>> \in Seq(S)
  OBVIOUS
<1> QED BY <1>2, <1>3, CancelLeft

-----------------------------------------------------------------------------
\* The texts of operands.

Token == Digit \cup Letter \cup {"-", "'", "{", "}", "(", ")", "[", "]", ",", " ",
                                 "empty", "true", "false"}

LEMMA NumberText ==
  ASSUME NEW f, NEW type, NEW val, type.is = "number"
  PROVE  TextFrom(f, type, val) = Signed(val)
BY DEF TextFrom

LEMMA BooleanText ==
  ASSUME NEW f, NEW type, NEW val, type.is = "boolean"
  PROVE  TextFrom(f, type, val) = IF val THEN <<"true">> ELSE <<"false">>
BY DEF TextFrom

LEMMA StringText ==
  ASSUME NEW f, NEW type, NEW val, type.is = "string"
  PROVE  TextFrom(f, type, val) = Quoted(val)
BY DEF TextFrom

LEMMA TupleText ==
  ASSUME NEW f, NEW type, NEW val, type.is = "tuple"
  PROVE  TextFrom(f, type, val) =
           <<"{">> \o Separated(TupleTexts(f, type, val)) \o <<"}">>
BY DEF TextFrom

LEMMA OptionalText ==
  ASSUME NEW f, NEW type, NEW val, type.is = "optional"
  PROVE  TextFrom(f, type, val) =
           IF val = <<>> THEN <<"(", "empty", ")">> ELSE f[type.of][val[1]]
BY DEF TextFrom

LEMMA VariantText ==
  ASSUME NEW f, NEW type, NEW val, type.is = "variant"
  PROVE  TextFrom(f, type, val) = f[type.of[val.index]][val.value]
BY DEF TextFrom

LEMMA VectorText ==
  ASSUME NEW f, NEW type, NEW val, type.is = "vector"
  PROVE  TextFrom(f, type, val) =
           <<"(">> \o Decimal[Len(val)] \o <<")", " ", "[">>
           \o Separated(VectorTexts(f, type, val)) \o <<"]">>
BY DEF TextFrom

\* The shape of the values of a type, and of the types it is made of.
LEMMA Shapes ==
  ASSUME NEW type \in Type
  PROVE  /\ type.is \in {"number", "boolean", "string", "tuple", "optional", "variant", "vector"}
         /\ type.is = "number" => Operand[type] \subseteq Int
         /\ type.is = "boolean" => Operand[type] \subseteq BOOLEAN
         /\ type.is = "string" => Operand[type] \subseteq Seq(Letter)
         /\ type.is = "tuple" =>
              /\ type.of \in Seq(Type) \ {<<>>}
              /\ \A i \in DOMAIN type.of : ArgumentOf(type, type.of[i])
              /\ \A val \in Operand[type] :
                   /\ val = [i \in DOMAIN type.of |-> val[i]]
                   /\ \A i \in DOMAIN type.of : val[i] \in Operand[type.of[i]]
         /\ type.is = "optional" =>
              /\ ArgumentOf(type, type.of)
              /\ \A val \in Operand[type] : val = <<>> \/ \E x \in Operand[type.of] : val = <<x>>
         /\ type.is = "variant" =>
              /\ type.of \in Seq(Type)
              /\ \A i \in DOMAIN type.of : ArgumentOf(type, type.of[i])
              /\ \A val \in Operand[type] :
                   \E i \in DOMAIN type.of : \E x \in Operand[type.of[i]] :
                     val = [index |-> i, value |-> x]
         /\ type.is = "vector" =>
              ArgumentOf(type, type.of) /\ Operand[type] \subseteq Seq(Operand[type.of])
<1>1. HasValues(type) /\ type.is \in {"number", "boolean", "string", "tuple", "optional", "variant", "vector"}
  BY OperandAssumption
<1>2. CASE type.is = "number"
  BY <1>1, <1>2 DEF HasValues
<1>3. CASE type.is = "boolean"
  BY <1>1, <1>3 DEF HasValues
<1>4. CASE type.is = "string"
  BY <1>1, <1>4 DEF HasValues
<1>5. CASE type.is = "tuple"
  BY <1>1, <1>5 DEF HasValues
<1>6. CASE type.is = "optional"
  BY <1>1, <1>6 DEF HasValues
<1>7. CASE type.is = "variant"
  BY <1>1, <1>7 DEF HasValues
<1>8. CASE type.is = "vector"
  BY <1>1, <1>8 DEF HasValues
<1> QED BY <1>1, <1>2, <1>3, <1>4, <1>5, <1>6, <1>7, <1>8

Known(f, type) ==
  \A arg \in Type : ArgumentOf(type, arg) => \A x \in Operand[arg] : f[arg][x] \in Seq(Token)
Alike(f, g, type) ==
  \A arg \in Type : ArgumentOf(type, arg) => \A x \in Operand[arg] : f[arg][x] = g[arg][x]

\* The values that the text of a value is put together from.
LEMMA TupleParts ==
  ASSUME NEW type \in Type, NEW val \in Operand[type], type.is = "tuple"
  PROVE  \E n \in Nat \ {0} :
           /\ n = Len(type.of) /\ DOMAIN val = 1 .. n /\ val = [i \in 1 .. n |-> val[i]]
           /\ \A i \in 1 .. n : /\ type.of[i] \in Type /\ ArgumentOf(type, type.of[i])
                                /\ val[i] \in Operand[type.of[i]]
<1>1. PICK of : of = type.of
  OBVIOUS
<1>2. of \in Seq(Type) /\ of # <<>>
  BY <1>1, Shapes
<1>3. DOMAIN of = 1 .. Len(of) /\ Len(of) \in Nat \ {0}
  BY <1>2
<1>4. val = [i \in DOMAIN of |-> val[i]] /\ \A i \in DOMAIN of : val[i] \in Operand[of[i]]
  BY <1>1, Shapes
<1>5. DOMAIN val = DOMAIN of
  BY <1>4
<1>6. \A i \in DOMAIN of : of[i] \in Type /\ ArgumentOf(type, of[i])
  BY <1>1, <1>2, Shapes
<1> QED BY <1>1, <1>3, <1>4, <1>5, <1>6

LEMMA OptionalParts ==
  ASSUME NEW type \in Type, NEW val \in Operand[type], type.is = "optional"
  PROVE  /\ type.of \in Type /\ ArgumentOf(type, type.of)
         /\ val = <<>> \/ \E x \in Operand[type.of] : val = <<x>> /\ val[1] = x /\ val # <<>>
<1>1. ArgumentOf(type, type.of) /\ (val = <<>> \/ \E x \in Operand[type.of] : val = <<x>>)
  BY Shapes
<1> QED BY <1>1 DEF ArgumentOf

LEMMA VariantParts ==
  ASSUME NEW type \in Type, NEW val \in Operand[type], type.is = "variant"
  PROVE  \E i \in DOMAIN type.of : \E x \in Operand[type.of[i]] :
           /\ type.of[i] \in Type /\ ArgumentOf(type, type.of[i])
           /\ val = [index |-> i, value |-> x] /\ val.index = i /\ val.value = x
<1>0. PICK i \in DOMAIN type.of : \E x \in Operand[type.of[i]] : val = [index |-> i, value |-> x]
  BY Shapes
<1>1. PICK x \in Operand[type.of[i]] : val = [index |-> i, value |-> x]
  BY <1>0
<1>2. ArgumentOf(type, type.of[i]) /\ type.of[i] \in Type
  BY Shapes DEF ArgumentOf
<1>3. val.index = i /\ val.value = x
  BY <1>1
<1> QED BY <1>1, <1>2, <1>3

LEMMA VectorParts ==
  ASSUME NEW type \in Type, NEW val \in Operand[type], type.is = "vector"
  PROVE  /\ type.of \in Type /\ ArgumentOf(type, type.of)
         /\ val \in Seq(Operand[type.of]) /\ Len(val) \in Nat /\ DOMAIN val = 1 .. Len(val)
         /\ \A i \in 1 .. Len(val) : val[i] \in Operand[type.of]
<1>1. val \in Seq(Operand[type.of]) /\ ArgumentOf(type, type.of)
  BY Shapes
<1> QED BY <1>1 DEF ArgumentOf

LEMMA TextAlike ==
  ASSUME NEW f, NEW g, NEW type \in Type, NEW val \in Operand[type], Alike(f, g, type)
  PROVE  TextFrom(f, type, val) = TextFrom(g, type, val)
<1>1. CASE type.is = "tuple"
  <2>1. PICK n \in Nat \ {0} :
           /\ n = Len(type.of) /\ DOMAIN val = 1 .. n /\ val = [i \in 1 .. n |-> val[i]]
           /\ \A i \in 1 .. n : /\ type.of[i] \in Type /\ ArgumentOf(type, type.of[i])
                                /\ val[i] \in Operand[type.of[i]]
    BY <1>1, TupleParts
  <2>2. \A i \in DOMAIN val : f[type.of[i]][val[i]] = g[type.of[i]][val[i]]
    BY <2>1 DEF Alike
  <2>3. TupleTexts(f, type, val) = TupleTexts(g, type, val)
    BY <2>2 DEF TupleTexts
  <2> QED BY <1>1, <2>3, TupleText, Zenon
<1>2. CASE type.is = "optional"
  <2>1. val # <<>> => f[type.of][val[1]] = g[type.of][val[1]]
    BY <1>2, OptionalParts DEF Alike
  <2> QED BY <1>2, <2>1, OptionalText, ZenonT(60)
<1>3. CASE type.is = "variant"
  <2>1. f[type.of[val.index]][val.value] = g[type.of[val.index]][val.value]
    BY <1>3, VariantParts, Zenon DEF Alike
  <2> QED BY <1>3, <2>1, VariantText, ZenonT(60)
<1>4. CASE type.is = "vector"
  <2>1. \A i \in DOMAIN val : f[type.of][val[i]] = g[type.of][val[i]]
    BY <1>4, VectorParts DEF Alike
  <2>2. VectorTexts(f, type, val) = VectorTexts(g, type, val)
    BY <2>1 DEF VectorTexts
  <2> QED BY <1>4, <2>2, VectorText, Zenon
<1>5. CASE type.is = "number"
  BY <1>5, NumberText
<1>6. CASE type.is = "boolean"
  BY <1>6, BooleanText
<1>7. CASE type.is = "string"
  BY <1>7, StringText
<1> QED BY <1>1, <1>2, <1>3, <1>4, <1>5, <1>6, <1>7, Shapes

LEMMA DigitsAreTokens == ASSUME NEW s \in Seq(Digit) PROVE s \in Seq(Token)
<1>1. Digit \subseteq Token
  BY DEF Token
<1> QED BY <1>1

LEMMA LettersAreTokens == ASSUME NEW s \in Seq(Letter) PROVE s \in Seq(Token)
<1>1. Letter \subseteq Token
  BY DEF Token
<1> QED BY <1>1

LEMMA MarksAreTokens ==
  /\ <<"-">> \in Seq(Token) /\ <<"'">> \in Seq(Token) /\ <<"{">> \in Seq(Token)
  /\ <<"}">> \in Seq(Token) /\ <<"(">> \in Seq(Token) /\ <<"]">> \in Seq(Token)
  /\ <<")", " ", "[">> \in Seq(Token) /\ <<",", " ">> \in Seq(Token)
  /\ <<"(", "empty", ")">> \in Seq(Token) /\ <<"true">> \in Seq(Token)
  /\ <<"false">> \in Seq(Token)
<1> DEFINE Mark == {"-", "'", "{", "}", "(", ")", "[", "]", ",", " ", "empty", "true", "false"}
<1>1. Mark \subseteq Token
  BY DEF Token
<1>2. /\ <<"-">> \in Seq(Mark) /\ <<"'">> \in Seq(Mark) /\ <<"{">> \in Seq(Mark)
      /\ <<"}">> \in Seq(Mark) /\ <<"(">> \in Seq(Mark) /\ <<"]">> \in Seq(Mark)
  OBVIOUS
<1>3. /\ <<")", " ", "[">> \in Seq(Mark) /\ <<",", " ">> \in Seq(Mark)
      /\ <<"(", "empty", ")">> \in Seq(Mark) /\ <<"true">> \in Seq(Mark)
      /\ <<"false">> \in Seq(Mark)
  OBVIOUS
<1> HIDE DEF Mark
<1>4. \A s \in Seq(Mark) : s \in Seq(Token)
  BY <1>1
<1> QED BY <1>2, <1>3, <1>4

LEMMA TokensJoined ==
  ASSUME NEW a \in Seq(Token), NEW b \in Seq(Token)
  PROVE  a \o b \in Seq(Token)
OBVIOUS

\* The elements of a list, each with the comma before it.
Piece(texts, i) == IF i = 1 THEN texts[1] ELSE <<",", " ">> \o texts[i]
Pieces(texts) == [i \in DOMAIN texts |-> Piece(texts, i)]

LEMMA PiecesType ==
  ASSUME NEW texts \in Seq(Seq(Token))
  PROVE  /\ Pieces(texts) \in Seq(Seq(Token)) /\ Len(Pieces(texts)) = Len(texts)
         /\ Separated(texts) = FlattenSeq(Pieces(texts))
         /\ Separated(texts) \in Seq(Token)
<1>2. DOMAIN texts = 1 .. Len(texts) /\ Len(texts) \in Nat
  OBVIOUS
<1>3. ASSUME NEW i \in 1 .. Len(texts)
      PROVE  Piece(texts, i) \in Seq(Token)
  <2>1. texts[i] \in Seq(Token) /\ (i = 1 => texts[1] \in Seq(Token))
    BY <1>2
  <2>2. <<",", " ">> \o texts[i] \in Seq(Token)
    BY <2>1, MarksAreTokens, TokensJoined
  <2> QED BY <2>1, <2>2 DEF Piece
<1>4. Pieces(texts) \in [1 .. Len(texts) -> Seq(Token)]
  BY <1>2, <1>3 DEF Pieces
<1>5. Pieces(texts) \in Seq(Seq(Token)) /\ Len(Pieces(texts)) = Len(texts)
  BY <1>2, <1>4
<1>6. Separated(texts) = FlattenSeq(Pieces(texts))
  BY DEF Separated, Pieces, Piece
<1> QED BY <1>5, <1>6, FlattenType

LEMMA TextType ==
  ASSUME NEW f, NEW type \in Type, NEW val \in Operand[type], Known(f, type)
  PROVE  TextFrom(f, type, val) \in Seq(Token)
<1>0. ASSUME NEW a \in Seq(Token), NEW b \in Seq(Token), NEW c \in Seq(Token)
      PROVE  a \o b \o c \in Seq(Token)
  OBVIOUS
<1>1. CASE type.is = "tuple"
  <2>1. PICK texts : texts = TupleTexts(f, type, val)
    OBVIOUS
  <2>2. texts \in Seq(Seq(Token))
    <3>1. PICK n \in Nat \ {0} :
           /\ n = Len(type.of) /\ DOMAIN val = 1 .. n /\ val = [i \in 1 .. n |-> val[i]]
           /\ \A i \in 1 .. n : /\ type.of[i] \in Type /\ ArgumentOf(type, type.of[i])
                                /\ val[i] \in Operand[type.of[i]]
      BY <1>1, TupleParts
    <3>2. \A i \in 1 .. n : f[type.of[i]][val[i]] \in Seq(Token)
      BY <3>1 DEF Known
    <3>3. texts \in [1 .. n -> Seq(Token)]
      BY <2>1, <3>1, <3>2 DEF TupleTexts
    <3> QED BY <3>3
  <2>3. <<"{">> \o Separated(texts) \o <<"}">> \in Seq(Token)
    BY <1>0, <2>2, PiecesType, MarksAreTokens
  <2> QED BY <1>1, <2>1, <2>3, TupleText, Zenon
<1>2. CASE type.is = "optional"
  <2>1. val # <<>> => f[type.of][val[1]] \in Seq(Token)
    BY <1>2, OptionalParts DEF Known
  <2> QED BY <1>2, <2>1, MarksAreTokens, OptionalText, Zenon
<1>3. CASE type.is = "variant"
  <2>1. f[type.of[val.index]][val.value] \in Seq(Token)
    BY <1>3, VariantParts, Zenon DEF Known
  <2> QED BY <1>3, <2>1, VariantText, Zenon
<1>4. CASE type.is = "vector"
  <2>1. PICK texts, dec : texts = VectorTexts(f, type, val) /\ dec = Decimal[Len(val)]
    OBVIOUS
  <2>2. texts \in Seq(Seq(Token))
    <3>2. \A i \in 1 .. Len(val) : f[type.of][val[i]] \in Seq(Token)
      BY <1>4, VectorParts DEF Known
    <3>3. texts \in [1 .. Len(val) -> Seq(Token)] /\ Len(val) \in Nat
      BY <1>4, <2>1, <3>2, VectorParts DEF VectorTexts
    <3> QED BY <3>3
  <2>3. dec \in Seq(Token)
    <3>1. Len(val) \in Nat
      BY <1>4, VectorParts
    <3>2. dec \in Seq(Digit)
      BY <2>1, <3>1, DecimalIs
    <3> QED BY <3>2, DigitsAreTokens
  <2>4. <<"(">> \o dec \o <<")", " ", "[">> \o Separated(texts) \o <<"]">> \in Seq(Token)
    BY <1>0, <2>2, <2>3, PiecesType, MarksAreTokens
  <2> QED BY <1>4, <2>1, <2>4, VectorText, Zenon
<1>5. CASE type.is = "number"
  <2>1. val \in Int
    BY <1>5, Shapes
  <2>2. CASE val < 0
    <3>1. PICK dec : dec = Decimal[-val]
      OBVIOUS
    <3>2. dec \in Seq(Digit)
      BY <2>1, <2>2, <3>1, DecimalIs
    <3>3. dec \in Seq(Token)
      BY <3>2, DigitsAreTokens
    <3>4. <<"-">> \o dec \in Seq(Token)
      BY <3>3, MarksAreTokens, TokensJoined
    <3> QED BY <1>5, <2>2, <3>1, <3>4, NumberText DEF Signed
  <2>3. CASE ~(val < 0)
    <3>1. Decimal[val] \in Seq(Digit)
      BY <2>1, <2>3, DecimalIs
    <3>2. Decimal[val] \in Seq(Token)
      BY <3>1, DigitsAreTokens
    <3> QED BY <1>5, <2>3, <3>2, NumberText DEF Signed
  <2> QED BY <2>2, <2>3
<1>6. CASE type.is = "boolean"
  BY <1>6, MarksAreTokens, BooleanText, Zenon
<1>7. CASE type.is = "string"
  <2>1. val \in Seq(Token)
    BY <1>7, Shapes, LettersAreTokens
  <2>2. Quoted(val) \in Seq(Token)
    BY <1>0, <2>1, MarksAreTokens DEF Quoted
  <2> QED BY <1>7, <2>2, StringText
<1> QED BY <1>1, <1>2, <1>3, <1>4, <1>5, <1>6, <1>7, Shapes

\* The recursive definition has a solution, and its texts are texts.
Printable == UNION {{<<type, val>> : val \in Operand[type]} : type \in Type}
Nested(h) == [type \in Type |-> [val \in Operand[type] |-> h[<<type, val>>]]]
Described(f) == [type \in Type |-> [val \in Operand[type] |-> TextFrom(f, type, val)]]
IsDescribed(f) == f = Described(f)

LEMMA PrintableIs ==
  /\ \A type \in Type : \A val \in Operand[type] : <<type, val>> \in Printable
  /\ \A p \in Printable : p[1] \in Type /\ p[2] \in Operand[p[1]] /\ p = <<p[1], p[2]>>
BY DEF Printable

LEMMA NestedIs ==
  ASSUME NEW h, NEW type \in Type, NEW val \in Operand[type]
  PROVE  Nested(h)[type][val] = h[<<type, val>>]
BY DEF Nested

LEMMA DescribedExists == \E f : IsDescribed(f)
<1> DEFINE S == Seq(Token)
           F == [Printable -> S]
<1>1. PICK rank : rank = [p \in Printable |-> Nesting[p[1]]]
  OBVIOUS
<1>2. rank \in [Printable -> Nat]
  BY <1>1, PrintableIs, OperandAssumption
<1>3. PICK step : step = [h \in F |-> [p \in Printable |-> TextFrom(Nested(h), p[1], p[2])]]
  OBVIOUS
<1>4. ASSUME NEW h \in F, NEW p \in Printable
      PROVE  TextFrom(Nested(h), p[1], p[2]) \in S
  <2>1. p[1] \in Type /\ p[2] \in Operand[p[1]]
    BY PrintableIs
  <2>2. ASSUME NEW arg \in Type, NEW x \in Operand[arg]
        PROVE  Nested(h)[arg][x] \in Seq(Token)
    <3>1. <<arg, x>> \in Printable
      BY PrintableIs
    <3>2. h[<<arg, x>>] \in Seq(Token)
      BY <3>1
    <3> QED BY <3>2, NestedIs, Zenon
  <2>3. Known(Nested(h), p[1])
    BY <2>2 DEF Known
  <2> QED BY <2>1, <2>3, TextType
<1>5. step \in [F -> F]
  BY <1>3, <1>4
<1>6. LooksBelow(step, rank, Printable, S)
  <2> SUFFICES ASSUME NEW g \in F, NEW h \in F, NEW p \in Printable,
                      \A q \in Printable : rank[q] < rank[p] => g[q] = h[q]
               PROVE  step[g][p] = step[h][p]
    BY DEF LooksBelow
  <2>1. p[1] \in Type /\ p[2] \in Operand[p[1]]
    BY PrintableIs
  <2>2. ASSUME NEW arg \in Type, ArgumentOf(p[1], arg), NEW x \in Operand[arg]
        PROVE  Nested(g)[arg][x] = Nested(h)[arg][x]
    <3>1. <<arg, x>> \in Printable /\ <<arg, x>>[1] = arg
      BY PrintableIs
    <3>2. rank[<<arg, x>>] < rank[p]
      BY <1>1, <2>2, <3>1 DEF ArgumentOf
    <3>3. g[<<arg, x>>] = h[<<arg, x>>]
      BY <3>1, <3>2
    <3> QED BY <3>3, NestedIs, Zenon
  <2>3. Alike(Nested(g), Nested(h), p[1])
    BY <2>2 DEF Alike
  <2>4. TextFrom(Nested(g), p[1], p[2]) = TextFrom(Nested(h), p[1], p[2])
    BY <2>1, <2>3, TextAlike
  <2> QED BY <1>3, <2>4
<1>7. PICK h \in F : IsFixed(h, step)
  <2>1. S # {}
    <3>1. <<>> \in Seq(Token)
      OBVIOUS
    <3> QED BY <3>1
  <2> HIDE DEF S
  <2> QED BY <1>2, <1>5, <1>6, <2>1, RankRecursion
<1>8. ASSUME NEW type \in Type, NEW val \in Operand[type]
      PROVE  h[<<type, val>>] = TextFrom(Nested(h), type, val)
  <2>1. PICK p : p = <<type, val>>
    OBVIOUS
  <2>2. p \in Printable /\ p[1] = type /\ p[2] = val
    BY <2>1, PrintableIs
  <2>3. h[p] = step[h][p]
    BY <1>7, Zenon DEF IsFixed
  <2>4. step[h][p] = TextFrom(Nested(h), p[1], p[2])
    BY <1>3, <2>2
  <2> QED BY <2>1, <2>2, <2>3, <2>4, Zenon
<1>9. Nested(h) = Described(Nested(h))
  <2>1. PICK n : n = Nested(h)
    OBVIOUS
  <2>2. \A type \in Type : \A val \in Operand[type] : h[<<type, val>>] = TextFrom(n, type, val)
    BY <1>8, <2>1
  <2>3. Nested(h) = Described(n)
    BY <2>2 DEF Nested, Described
  <2> QED BY <2>1, <2>3
<1> QED BY <1>9 DEF IsDescribed

LEMMA TextsDescribed == IsDescribed(to_string)
<1>1. to_string = CHOOSE f : IsDescribed(f)
  BY Zenon DEF to_string, IsDescribed, Described
<1> QED BY <1>1, DescribedExists

LEMMA TextIs ==
  ASSUME NEW type \in Type, NEW val \in Operand[type]
  PROVE  to_string[type][val] = TextFrom(to_string, type, val)
<1>1. PICK f : f = to_string
  OBVIOUS
<1>2. f = Described(f)
  BY <1>1, TextsDescribed DEF IsDescribed
<1>3. PICK g : g = Described(f)
  OBVIOUS
<1>4. g[type][val] = TextFrom(f, type, val)
  BY <1>3 DEF Described
<1> QED BY <1>1, <1>2, <1>3, <1>4, Zenon

LEMMA TextsAreTokens ==
  ASSUME NEW type \in Type
  PROVE  \A val \in Operand[type] : to_string[type][val] \in Seq(Token)
<1> DEFINE U == {t \in Type : \A val \in Operand[t] : to_string[t][val] \in Seq(Token)}
<1>1. ASSUME NEW t \in Type, \A arg \in Type : Nesting[arg] < Nesting[t] => arg \in U
      PROVE  t \in U
  <2>1. Known(to_string, t)
    BY <1>1 DEF Known, ArgumentOf
  <2>2. ASSUME NEW val \in Operand[t]
        PROVE  to_string[t][val] \in Seq(Token)
    <3>1. TextFrom(to_string, t, val) \in Seq(Token)
      BY <2>1, TextType
    <3> QED BY <3>1, TextIs, Zenon
  <2> QED BY <2>2
<1>2. Type \subseteq U
  <2>1. Nesting \in [Type -> Nat]
    BY OperandAssumption
  <2> HIDE DEF U
  <2> QED BY <1>1, <2>1, RankInduction
<1> QED BY <1>2

LEMMA ElementTexts ==
  ASSUME NEW type \in Type, NEW val \in Operand[type]
  PROVE  /\ type.is = "tuple" =>
              /\ TupleTexts(to_string, type, val) \in Seq(Seq(Token))
              /\ Separated(TupleTexts(to_string, type, val)) \in Seq(Token)
         /\ type.is = "vector" =>
              /\ VectorTexts(to_string, type, val) \in Seq(Seq(Token))
              /\ Separated(VectorTexts(to_string, type, val)) \in Seq(Token)
<1>1. CASE type.is = "tuple"
  <2>1. PICK texts : texts = TupleTexts(to_string, type, val)
    OBVIOUS
  <2>2. PICK n \in Nat \ {0} :
          DOMAIN val = 1 .. n /\ \A i \in 1 .. n : /\ type.of[i] \in Type
                                                  /\ val[i] \in Operand[type.of[i]]
    BY <1>1, TupleParts
  <2>3. \A i \in 1 .. n : to_string[type.of[i]][val[i]] \in Seq(Token)
    BY <2>2, TextsAreTokens
  <2>4. texts \in [1 .. n -> Seq(Token)]
    BY <2>1, <2>2, <2>3 DEF TupleTexts
  <2>5. texts \in Seq(Seq(Token))
    BY <2>4
  <2> QED BY <1>1, <2>1, <2>5, PiecesType
<1>2. CASE type.is = "vector"
  <2>1. PICK texts : texts = VectorTexts(to_string, type, val)
    OBVIOUS
  <2>2. \A i \in 1 .. Len(val) : to_string[type.of][val[i]] \in Seq(Token)
    BY <1>2, VectorParts, TextsAreTokens
  <2>3. texts \in [1 .. Len(val) -> Seq(Token)] /\ Len(val) \in Nat
    BY <1>2, <2>1, <2>2, VectorParts DEF VectorTexts
  <2>4. texts \in Seq(Seq(Token))
    BY <2>3
  <2> QED BY <1>2, <2>1, <2>4, PiecesType
<1> QED BY <1>1, <1>2

Associate(a, b, c) == (a \o b) \o c = a \o (b \o c)

LEMMA TokensAssociate ==
  ASSUME NEW a \in Seq(Token), NEW b \in Seq(Token), NEW c \in Seq(Token)
  PROVE  Associate(a, b, c)
BY ConcatAssociative DEF Associate

AllAssociate(a, b, c, d, e) == a \o b \o c \o d \o e = a \o (b \o (c \o d \o e))

LEMMA VectorJoined ==
  ASSUME NEW a \in Seq(Token), NEW b \in Seq(Token), NEW c \in Seq(Token),
         NEW d \in Seq(Token), NEW e \in Seq(Token)
  PROVE  /\ AllAssociate(a, b, c, d, e)
         /\ c \o d \o e \in Seq(Token)
<1>1. PICK cd : cd = c \o d
  OBVIOUS
<1>2. cd \in Seq(Token) /\ cd \o e \in Seq(Token) /\ a \o b \in Seq(Token)
  BY <1>1
<1>3. Associate(a \o b, c, d) /\ Associate(a \o b, cd, e) /\ Associate(a, b, cd \o e)
  BY <1>2, TokensAssociate
<1>4. a \o b \o c \o d = a \o b \o cd
  BY <1>1, <1>3, Zenon DEF Associate
<1>5. (a \o b \o cd) \o e = a \o (b \o (cd \o e))
  BY <1>3, Zenon DEF Associate
<1>6. AllAssociate(a, b, c, d, e)
  BY <1>1, <1>4, <1>5, Zenon DEF AllAssociate
<1> QED BY <1>1, <1>2, <1>6, Zenon

LEMMA Headed ==
  ASSUME NEW c, NEW s \in Seq(Token), NEW text, text = <<c>> \o s
  PROVE  /\ text # <<>> /\ text[1] = c
         /\ s # <<>> => text[2] = s[1] /\ Len(text) >= 2
<1>1. Len(text) = Len(s) + 1 /\ text[1] = c
  OBVIOUS
<1>2. s # <<>> => Len(s) \in Nat \ {0}
  OBVIOUS
<1>3. s # <<>> => text[2] = s[1]
  BY <1>2
<1> QED BY <1>1, <1>2, <1>3

-----------------------------------------------------------------------------
\* What the texts of a type begin with.

Label == {"number", "boolean", "string", "tuple", "vector", "optional", "variant", "empty"}
IsOpening(f) == f = [type \in Type |-> OpeningFrom(f, type)]

LEMMA TemplatesOf ==
  ASSUME NEW type \in Type
  PROVE  /\ type.is \in Label
         /\ type.is = "optional" => type.of \in Type /\ Nesting[type.of] < Nesting[type]
         /\ type.is = "variant" =>
              \A i \in DOMAIN type.of : type.of[i] \in Type /\ Nesting[type.of[i]] < Nesting[type]
BY Shapes DEF ArgumentOf, Label

LEMMA OpeningIs ==
  ASSUME NEW type \in Type
  PROVE  Opening[type] = OpeningFrom(Opening, type)
<1> DEFINE S == SUBSET Label
           F == [Type -> S]
<1>1. PICK step : step = [f \in F |-> [t \in Type |-> OpeningFrom(f, t)]]
  OBVIOUS
<1>2. ASSUME NEW f \in F, NEW t \in Type
      PROVE  OpeningFrom(f, t) \in S
  <2>1. CASE t.is = "optional"
    <3>1. f[t.of] \in SUBSET Label
      BY <2>1, TemplatesOf
    <3>2. "empty" \in Label
      BY DEF Label
    <3> QED BY <2>1, <3>1, <3>2 DEF OpeningFrom
  <2>2. CASE t.is = "variant"
    <3>1. \A i \in DOMAIN t.of : f[t.of[i]] \in SUBSET Label
      BY <2>2, TemplatesOf
    <3>2. UNION {f[t.of[i]] : i \in DOMAIN t.of} \in SUBSET Label
      BY <3>1
    <3> QED BY <2>2, <3>2 DEF OpeningFrom
  <2>3. CASE t.is # "optional" /\ t.is # "variant"
    <3>1. OpeningFrom(f, t) = {t.is}
      BY <2>3 DEF OpeningFrom
    <3> QED BY <3>1, TemplatesOf
  <2> QED BY <2>1, <2>2, <2>3
<1>3. step \in [F -> F]
  BY <1>1, <1>2
<1>4. LooksBelow(step, Nesting, Type, S)
  <2> SUFFICES ASSUME NEW f \in F, NEW g \in F, NEW t \in Type,
                      \A arg \in Type : Nesting[arg] < Nesting[t] => f[arg] = g[arg]
               PROVE  step[f][t] = step[g][t]
    BY DEF LooksBelow
  <2>1. OpeningFrom(f, t) = OpeningFrom(g, t)
    <3>1. CASE t.is = "optional"
      <4>1. f[t.of] = g[t.of]
        BY <3>1, TemplatesOf
      <4> QED BY <3>1, <4>1 DEF OpeningFrom
    <3>2. CASE t.is = "variant"
      <4>1. \A i \in DOMAIN t.of : f[t.of[i]] = g[t.of[i]]
        BY <3>2, TemplatesOf
      <4>2. {f[t.of[i]] : i \in DOMAIN t.of} = {g[t.of[i]] : i \in DOMAIN t.of}
        BY <4>1
      <4> QED BY <3>2, <4>2 DEF OpeningFrom
    <3>3. CASE t.is # "optional" /\ t.is # "variant"
      BY <3>3 DEF OpeningFrom
    <3> QED BY <3>1, <3>2, <3>3
  <2> QED BY <1>1, <2>1
<1>5. PICK f \in F : IsFixed(f, step)
  <2>1. S # {}
    OBVIOUS
  <2>2. Nesting \in [Type -> Nat]
    BY OperandAssumption
  <2> HIDE DEF S
  <2> QED BY <1>3, <1>4, <2>1, <2>2, RankRecursion
<1>6. IsOpening(f)
  <2>1. f = step[f]
    BY <1>5 DEF IsFixed
  <2>2. step[f] = [t \in Type |-> OpeningFrom(f, t)]
    BY <1>1
  <2> QED BY <2>1, <2>2, Zenon DEF IsOpening
<1>7. Opening = CHOOSE g : IsOpening(g)
  BY Zenon DEF Opening, IsOpening
<1>8. IsOpening(Opening)
  BY <1>6, <1>7
<1>9. PICK g, h : g = Opening /\ h = [t \in Type |-> OpeningFrom(g, t)]
  OBVIOUS
<1>10. g = h
  BY <1>8, <1>9, Zenon DEF IsOpening
<1>11. h[type] = OpeningFrom(g, type)
  BY <1>9
<1> QED BY <1>9, <1>10, <1>11, Zenon

\* The label that the first two tokens of a text tell.
LabelOf(a, b) ==
  IF a \in {"true", "false"} THEN "boolean"
  ELSE IF a = "'" THEN "string"
  ELSE IF a = "{" THEN "tuple"
  ELSE IF a = "(" THEN IF b = "empty" THEN "empty" ELSE "vector"
  ELSE "number"

Opens(text, labels) ==
  /\ text \in Seq(Token) /\ text # <<>> /\ text[1] \notin {",", "}", "]"}
  /\ text[1] = "(" => Len(text) >= 2
  /\ LabelOf(text[1], text[2]) \in labels

LEMMA NumberOpens ==
  ASSUME NEW val \in Int
  PROVE  Opens(Signed(val), {"number"})
<1>1. CASE val < 0
  <2>1. PICK dec : dec = Decimal[-val]
    OBVIOUS
  <2>2. dec \in Seq(Digit)
    BY <1>1, <2>1, DecimalIs
  <2>3. dec \in Seq(Token)
    BY <2>2, DigitsAreTokens
  <2>4. PICK text : text = <<"-">> \o dec
    OBVIOUS
  <2>5. text \in Seq(Token) /\ text # <<>> /\ text[1] = "-"
    BY <2>3, <2>4, MarksAreTokens, TokensJoined, Headed
  <2>6. Opens(text, {"number"})
    BY <2>5 DEF Opens, LabelOf
  <2> QED BY <1>1, <2>1, <2>4, <2>6 DEF Signed
<1>2. CASE ~(val < 0)
  <2>1. PICK dec : dec = Decimal[val]
    OBVIOUS
  <2>2. dec \in Seq(Digit) /\ dec # <<>>
    BY <1>2, <2>1, DecimalNonempty
  <2>3. dec \in Seq(Token)
    BY <2>2, DigitsAreTokens
  <2>4. dec[1] \in Digit
    BY <2>2
  <2>5. Opens(dec, {"number"})
    BY <2>2, <2>3, <2>4 DEF Opens, LabelOf, Digit
  <2> QED BY <1>2, <2>1, <2>5 DEF Signed
<1> QED BY <1>1, <1>2

LEMMA TextOpens ==
  ASSUME NEW type \in Type
  PROVE  \A val \in Operand[type] : Opens(to_string[type][val], Opening[type])
<1> DEFINE U == {t \in Type : \A val \in Operand[t] : Opens(to_string[t][val], Opening[t])}
<1>1. ASSUME NEW t \in Type, \A arg \in Type : Nesting[arg] < Nesting[t] => arg \in U
      PROVE  t \in U
  <2> SUFFICES ASSUME NEW val \in Operand[t]
               PROVE  Opens(to_string[t][val], Opening[t])
    OBVIOUS
  <2>1. PICK text, opening : text = to_string[t][val] /\ opening = Opening[t]
    OBVIOUS
  <2>2. text = TextFrom(to_string, t, val) /\ opening = OpeningFrom(Opening, t)
    BY <2>1, TextIs, OpeningIs
  <2>3. text \in Seq(Token)
    BY <2>1, TextsAreTokens
  <2>4. CASE t.is \in {"number", "boolean", "string", "tuple", "vector"}
    <3>1. opening = {t.is}
      BY <2>2, <2>4 DEF OpeningFrom
    <3>2. CASE t.is = "number"
      BY <2>1, <2>2, <3>1, <3>2, NumberText, NumberOpens, Shapes
    <3>3. CASE t.is = "boolean"
      <4>1. text = <<"true">> \/ text = <<"false">>
        BY <2>2, <3>3, BooleanText
      <4>2. text # <<>> /\ text[1] \in {"true", "false"}
        BY <4>1
      <4> QED BY <2>1, <2>3, <3>1, <3>3, <4>2 DEF Opens, LabelOf
    <3>4. CASE t.is = "string"
      <4>1. val \in Seq(Token)
        BY <3>4, Shapes, LettersAreTokens
      <4>2. text = <<"'">> \o val \o <<"'">>
        BY <2>2, <3>4, StringText DEF Quoted
      <4>3. text # <<>> /\ text[1] = "'"
        BY <4>1, <4>2
      <4> QED BY <2>1, <2>3, <3>1, <3>4, <4>3 DEF Opens, LabelOf
    <3>5. CASE t.is = "tuple"
      <4>1. PICK texts : texts = Separated(TupleTexts(to_string, t, val))
        OBVIOUS
      <4>2. text = <<"{">> \o texts \o <<"}">>
        BY <2>2, <3>5, <4>1, TupleText
      <4>3. texts \in Seq(Token)
        BY <4>1, <3>5, ElementTexts
      <4>4. text # <<>> /\ text[1] = "{"
        <5>1. PICK s : s = texts \o <<"}">>
          OBVIOUS
        <5>2. s \in Seq(Token) /\ text = <<"{">> \o s
          <6>1. s \in Seq(Token) /\ Associate(<<"{">>, texts, <<"}">>)
            BY <4>3, <5>1, MarksAreTokens, TokensJoined, TokensAssociate
          <6> QED BY <4>2, <5>1, <6>1, Zenon DEF Associate
        <5> QED BY <5>2, Headed
      <4> QED BY <2>1, <2>3, <3>1, <3>5, <4>4 DEF Opens, LabelOf
    <3>6. CASE t.is = "vector"
      <4>1. PICK dec, texts : /\ dec = Decimal[Len(val)]
                              /\ texts = Separated(VectorTexts(to_string, t, val))
        OBVIOUS
      <4>2. dec \in Seq(Digit) /\ dec # <<>>
        BY <3>6, <4>1, VectorParts, DecimalNonempty
      <4>3. dec[1] \in Digit /\ dec \in Seq(Token) /\ Len(dec) \in Nat \ {0}
        BY <4>2, DigitsAreTokens
      <4>4. text = <<"(">> \o dec \o <<")", " ", "[">> \o texts \o <<"]">>
        BY <2>2, <3>6, <4>1, VectorText
      <4>5. texts \in Seq(Token)
        BY <4>1, <3>6, ElementTexts
      <4>6. PICK after : after = <<")", " ", "[">> \o texts \o <<"]">>
        OBVIOUS
      <4>7. after \in Seq(Token) /\ text = <<"(">> \o (dec \o after)
        <5>1. <<"(">> \in Seq(Token) /\ <<")", " ", "[">> \in Seq(Token) /\ <<"]">> \in Seq(Token)
          BY MarksAreTokens
        <5>2. PICK a, c, e : a = <<"(">> /\ c = <<")", " ", "[">> /\ e = <<"]">>
          OBVIOUS
        <5>3. AllAssociate(a, dec, c, texts, e) /\ c \o texts \o e \in Seq(Token)
          BY <4>3, <4>5, <5>1, <5>2, VectorJoined
        <5> QED BY <4>4, <4>6, <5>2, <5>3, Zenon DEF AllAssociate
      <4>8. PICK tail : tail = dec \o after
        OBVIOUS
      <4>9. tail \in Seq(Token) /\ tail[1] = dec[1] /\ Len(tail) \in Nat \ {0}
        BY <4>3, <4>7, <4>8
      <4>10. text # <<>> /\ text[1] = "(" /\ text[2] = tail[1] /\ Len(text) >= 2
        BY <4>7, <4>8, <4>9
      <4>11. text[2] # "empty"
        BY <4>3, <4>9, <4>10 DEF Digit
      <4> QED BY <2>1, <2>3, <3>1, <3>6, <4>10, <4>11 DEF Opens, LabelOf
    <3> QED BY <2>4, <3>2, <3>3, <3>4, <3>5, <3>6
  <2>5. CASE t.is = "optional"
    <3>1. opening = {"empty"} \cup Opening[t.of]
      BY <2>2, <2>5 DEF OpeningFrom
    <3>2. CASE val = <<>>
      <4>1. text = <<"(", "empty", ")">>
        BY <2>2, <2>5, <3>2, OptionalText
      <4>2. text # <<>> /\ text[1] = "(" /\ text[2] = "empty" /\ Len(text) = 3
        BY <4>1
      <4> QED BY <2>1, <2>3, <3>1, <4>2 DEF Opens, LabelOf
    <3>3. CASE val # <<>>
      <4>1. PICK x \in Operand[t.of] : val[1] = x
        BY <2>5, <3>3, OptionalParts
      <4>2. text = to_string[t.of][x]
        BY <2>2, <2>5, <3>3, <4>1, OptionalText
      <4>3. t.of \in U
        BY <1>1, <2>5, TemplatesOf
      <4>4. Opens(text, Opening[t.of])
        BY <4>2, <4>3
      <4> QED BY <2>1, <3>1, <4>4 DEF Opens
    <3> QED BY <3>2, <3>3
  <2>6. CASE t.is = "variant"
    <3>1. opening = UNION {Opening[t.of[i]] : i \in DOMAIN t.of}
      BY <2>2, <2>6 DEF OpeningFrom
    <3>2. PICK i \in DOMAIN t.of : \E x \in Operand[t.of[i]] :
            t.of[i] \in Type /\ val.index = i /\ val.value = x
      BY <2>6, VariantParts
    <3>3. PICK x \in Operand[t.of[i]] : val.index = i /\ val.value = x
      BY <3>2
    <3>4. text = to_string[t.of[i]][x]
      BY <2>2, <2>6, <3>3, VariantText
    <3>5. t.of[i] \in U
      BY <1>1, <2>6, TemplatesOf
    <3>6. Opens(text, Opening[t.of[i]])
      BY <3>4, <3>5
    <3>7. Opening[t.of[i]] \subseteq opening
      BY <3>1
    <3> QED BY <2>1, <3>6, <3>7 DEF Opens
  <2> QED BY <2>4, <2>5, <2>6, Shapes
<1>2. Type \subseteq U
  <2>1. Nesting \in [Type -> Nat]
    BY OperandAssumption
  <2> HIDE DEF U
  <2> QED BY <1>1, <2>1, RankInduction
<1> QED BY <1>2

-----------------------------------------------------------------------------
\* Equal texts have equal elements.

LEMMA LabelTold ==
  ASSUME NEW s, NEW t, NEW A, NEW B, NEW u \in Seq(Token), NEW v \in Seq(Token),
         Opens(s, A), Opens(t, B), s \o u = t \o v
  PROVE  A \cap B # {}
<1>1. ASSUME NEW w, NEW labels, Opens(w, labels), NEW x \in Seq(Token)
      PROVE  LabelOf((w \o x)[1], (w \o x)[2]) \in labels
  <2>1. w \in Seq(Token) /\ w # <<>> /\ (w[1] = "(" => Len(w) >= 2)
        /\ LabelOf(w[1], w[2]) \in labels
    BY <1>1 DEF Opens
  <2>2. (w \o x)[1] = w[1]
    BY <2>1
  <2>3. w[1] = "(" => (w \o x)[2] = w[2]
    BY <2>1
  <2>4. LabelOf((w \o x)[1], (w \o x)[2]) = LabelOf(w[1], w[2])
    BY <2>2, <2>3 DEF LabelOf
  <2> QED BY <2>1, <2>4
<1>2. LabelOf((s \o u)[1], (s \o u)[2]) \in A
  BY <1>1
<1>3. LabelOf((t \o v)[1], (t \o v)[2]) \in B
  BY <1>1
<1> QED BY <1>2, <1>3

\* The text after k of the elements.
After(texts, k, w) == FlattenSeq(SubSeq(Pieces(texts), k + 1, Len(texts))) \o w

IsNext(texts, k, w) == After(texts, k, w) = Piece(texts, k + 1) \o After(texts, k + 1, w)

LEMMA AfterIs ==
  ASSUME NEW texts \in Seq(Seq(Token)), NEW w \in Seq(Token), NEW k \in 0 .. Len(texts)
  PROVE  /\ After(texts, k, w) \in Seq(Token)
         /\ k = 0 => After(texts, k, w) = Separated(texts) \o w
         /\ k = Len(texts) => After(texts, k, w) = w
         /\ k < Len(texts) => IsNext(texts, k, w) /\ Piece(texts, k + 1) \in Seq(Token)
<1>1. PICK pieces, n : pieces = Pieces(texts) /\ n = Len(texts)
  OBVIOUS
<1>2. pieces \in Seq(Seq(Token)) /\ Len(pieces) = n /\ n \in Nat /\ k \in 0 .. n
  BY <1>1, PiecesType
<1>3. ASSUME NEW j \in 0 .. n
      PROVE  SubSeq(pieces, j + 1, n) \in Seq(Seq(Token))
  BY <1>2
<1>4. \A j \in 0 .. n : FlattenSeq(SubSeq(pieces, j + 1, n)) \in Seq(Token)
  BY <1>3, FlattenType
<1>5. After(texts, k, w) \in Seq(Token)
  BY <1>1, <1>2, <1>4, TokensJoined DEF After
<1>6. ASSUME k = 0 PROVE After(texts, k, w) = Separated(texts) \o w
  <2>0. k + 1 = 1
    BY <1>6
  <2>1. SubSeq(pieces, 1, n) = pieces
    BY <1>2
  <2>2. Separated(texts) = FlattenSeq(pieces)
    BY <1>1, PiecesType
  <2> QED BY <1>1, <2>0, <2>1, <2>2, Zenon DEF After
<1>7. ASSUME k = n PROVE After(texts, k, w) = w
  <2>1. SubSeq(pieces, k + 1, n) = <<>>
    BY <1>2, <1>7
  <2>2. FlattenSeq(<<>>) = <<>>
    BY DEF FlattenSeq
  <2>3. After(texts, k, w) = <<>> \o w
    BY <1>1, <2>1, <2>2, Zenon DEF After
  <2> QED BY <2>3
<1>8. ASSUME k < n
      PROVE  IsNext(texts, k, w) /\ Piece(texts, k + 1) \in Seq(Token)
  <2>1. PICK head, rest : head = <<pieces[k + 1]>> /\ rest = SubSeq(pieces, (k + 1) + 1, n)
    OBVIOUS
  <2>2. k + 1 \in 1 .. n /\ k + 1 \in 0 .. n
    BY <1>2, <1>8
  <2>3. pieces[k + 1] = Piece(texts, k + 1) /\ pieces[k + 1] \in Seq(Token)
    BY <1>1, <1>2, <2>2 DEF Pieces
  <2>4. head \in Seq(Seq(Token)) /\ rest \in Seq(Seq(Token))
    BY <1>3, <2>1, <2>2, <2>3
  <2>5. SubSeq(pieces, k + 1, n) = head \o rest
    BY <1>2, <1>8, <2>1, <2>2, <2>4
  <2>6. FlattenSeq(head \o rest) = FlattenSeq(head) \o FlattenSeq(rest)
    BY <2>4, FlattenConcat
  <2>7. FlattenSeq(head) = pieces[k + 1]
    BY <2>1, <2>3, FlattenOne
  <2>8. FlattenSeq(rest) \in Seq(Token)
    BY <2>4, FlattenType
  <2>9. Associate(pieces[k + 1], FlattenSeq(rest), w)
    BY <2>3, <2>8, TokensAssociate
  <2>10. After(texts, k, w) = (pieces[k + 1] \o FlattenSeq(rest)) \o w
    BY <1>1, <2>5, <2>6, <2>7, Zenon DEF After
  <2>11. After(texts, k + 1, w) = FlattenSeq(rest) \o w
    BY <1>1, <2>1, Zenon DEF After
  <2>12. IsNext(texts, k, w)
    BY <2>3, <2>9, <2>10, <2>11, Zenon DEF IsNext, Associate
  <2> QED BY <2>3, <2>12
<1> QED BY <1>1, <1>5, <1>6, <1>7, <1>8

\* What a text is followed by does not go on with its figures.
Behind(u) == u \in Seq(Token) /\ EndsBefore(u, Digit)

\* A text tells where it ends, and what it is.
Apart(s, t) == \A w, x : Behind(w) /\ Behind(x) /\ s \o w = t \o x => s = t /\ w = x

Comma == ","
Closing == {"}", "]"}
Begins(s) == s \in Seq(Token) /\ s # <<>> /\ s[1] # Comma /\ s[1] \notin Closing

LEMMA FirstOf ==
  ASSUME NEW a \in Seq(Token), NEW b \in Seq(Token), a # <<>>
  PROVE  /\ a \o b \in Seq(Token) /\ (a \o b)[1] = a[1] /\ a \o b # <<>>
         /\ Len(a \o b) = Len(a) + Len(b)
<1>1. Len(a) >= 1 /\ Len(a) \in Nat /\ Len(b) \in Nat
  OBVIOUS
<1>2. a \o b \in Seq(Token) /\ Len(a \o b) = Len(a) + Len(b)
  OBVIOUS
<1>3. (a \o b)[1] = a[1]
  BY <1>1
<1> QED BY <1>1, <1>2, <1>3

LEMMA ClosingIs ==
  ASSUME NEW c \in Closing
  PROVE  <<c>> \in Seq(Token) /\ c \notin Digit /\ c # Comma
<1>1. c = "}" \/ c = "]"
  BY DEF Closing
<1>2. <<c>> \in Seq(Token)
  BY <1>1, MarksAreTokens
<1>3. c \notin Digit
  BY <1>1 DEF Digit
<1>4. c # Comma
  BY <1>1 DEF Comma
<1> QED BY <1>2, <1>3, <1>4

Marked == <<",", " ">>

LEMMA MarkedIs ==
  /\ Marked \in Seq(Token) /\ Marked # <<>> /\ Marked[1] = Comma /\ Comma \notin Digit
  /\ \A texts, i : Piece(texts, i) = IF i = 1 THEN texts[1] ELSE Marked \o texts[i]
<1>1. Marked \in Seq(Token)
  BY MarksAreTokens DEF Marked
<1>2. Marked # <<>> /\ Marked[1] = ","
  BY DEF Marked
<1>3. "," \notin Digit
  BY DEF Digit
<1>4. \A texts, i : Piece(texts, i) = IF i = 1 THEN texts[1] ELSE Marked \o texts[i]
  BY Zenon DEF Marked, Piece
<1> QED BY <1>1, <1>2, <1>3, <1>4, Zenon DEF Comma

LEMMA Steps ==
  ASSUME NEW k \in Nat, NEW m \in Nat, k < m
  PROVE  /\ 1 <= k + 1 /\ k + 1 <= m /\ k + 1 \in Nat /\ k <= m
         /\ k + 1 \in 1 .. m /\ k + 1 \in 0 .. m /\ k \in 0 .. m
OBVIOUS

LEMMA LengthIs == ASSUME NEW texts \in Seq(Seq(Token)) PROVE Len(texts) \in Nat
OBVIOUS

\* The end of a list, and what follows it.
Closed(w, c, u) == c \in Closing /\ u \in Seq(Token) /\ w = <<c>> \o u

LEMMA ClosedIs ==
  ASSUME NEW w, NEW c, NEW u, Closed(w, c, u)
  PROVE  c \in Closing /\ u \in Seq(Token) /\ w \in Seq(Token) /\ w[1] = c /\ <<c>> \in Seq(Token)
<1>1. c \in Closing /\ u \in Seq(Token) /\ w = <<c>> \o u
  BY DEF Closed
<1>2. <<c>> \in Seq(Token)
  BY <1>1, ClosingIs
<1> QED BY <1>1, <1>2, TokensJoined, Headed

LEMMA AfterBehind ==
  ASSUME NEW texts \in Seq(Seq(Token)), NEW w, NEW c, NEW u, Closed(w, c, u),
         NEW k \in Nat, NEW n \in Nat, n = Len(texts), 1 <= k, k <= n
  PROVE  /\ Behind(After(texts, k, w))
         /\ k < n => After(texts, k, w)[1] = Comma
<1>2. c \in Closing /\ w \in Seq(Token)
  BY ClosedIs
<1>3. w # <<>> /\ w[1] = c
  BY Headed, ClosedIs DEF Closed
<1>4. k \in 0 .. Len(texts) /\ k + 1 # 1
  OBVIOUS
<1>5. After(texts, k, w) \in Seq(Token)
  BY <1>2, <1>4, AfterIs
<1>6. CASE k = n
  <2>1. After(texts, k, w) = w
    BY <1>2, <1>4, <1>6, AfterIs
  <2>2. c \notin Digit
    BY <1>2, ClosingIs
  <2>3. Behind(w)
    BY <1>2, <1>3, <2>2 DEF Behind, EndsBefore
  <2>4. ~(k < n)
    BY <1>6
  <2> QED BY <2>1, <2>3, <2>4, Zenon
<1>7. CASE k < n
  <2>1. PICK after, next, text :
          /\ after = After(texts, k, w) /\ next = After(texts, k + 1, w) /\ text = texts[k + 1]
    OBVIOUS
  <2>2. IsNext(texts, k, w)
    BY <1>2, <1>4, <1>7, AfterIs
  <2>3. after = (Marked \o text) \o next
    BY <1>4, <2>1, <2>2, MarkedIs DEF IsNext
  <2>4. text \in Seq(Token) /\ next \in Seq(Token)
    <3>1. k + 1 \in 0 .. Len(texts) /\ k + 1 \in 1 .. Len(texts)
      BY <1>7
    <3> QED BY <1>2, <2>1, <3>1, AfterIs
  <2>5. after[1] = Comma
    <3>1. PICK piece : piece = Marked \o text
      OBVIOUS
    <3>2. piece \in Seq(Token) /\ piece[1] = Comma /\ piece # <<>>
      BY <2>4, <3>1, MarkedIs, FirstOf
    <3>3. (piece \o next)[1] = Comma
      BY <2>4, <3>2, FirstOf
    <3> QED BY <2>3, <3>1, <3>3, Zenon
  <2>7. Behind(after)
    BY <1>5, <2>1, <2>5, MarkedIs DEF Behind, EndsBefore
  <2> QED BY <2>1, <2>5, <2>7
<1> QED BY <1>6, <1>7

\* What is left begins with a comma, with the next element or with what closes the list.
LEMMA AfterBegins ==
  ASSUME NEW texts \in Seq(Seq(Token)), NEW w, NEW c, NEW u, Closed(w, c, u),
         NEW k \in Nat, k < Len(texts), \A i \in 1 .. Len(texts) : Begins(texts[i])
  PROVE  After(texts, k, w)[1] \notin Closing
<1>1. /\ Len(texts) \in Nat /\ k \in 0 .. Len(texts) /\ k + 1 \in 0 .. Len(texts)
      /\ 1 \in 1 .. Len(texts)
  BY LengthIs
<1>2. w \in Seq(Token)
  BY ClosedIs
<1>3. ASSUME k = 0
      PROVE  After(texts, k, w)[1] \notin Closing
  <2>1. PICK after, next, text :
          after = After(texts, k, w) /\ next = After(texts, k + 1, w) /\ text = texts[1]
    OBVIOUS
  <2>2. IsNext(texts, k, w) /\ next \in Seq(Token)
    BY <1>1, <1>2, <2>1, AfterIs, Zenon
  <2>3. after = text \o next
    <3>1. k + 1 = 1
      BY <1>3
    <3> QED BY <2>1, <2>2, <3>1, MarkedIs, Zenon DEF IsNext
  <2>4. Begins(text)
    BY <1>1, <2>1, Zenon
  <2>5. after[1] = text[1]
    BY <2>2, <2>3, <2>4, FirstOf DEF Begins
  <2> QED BY <2>1, <2>4, <2>5, Zenon DEF Begins
<1>4. ASSUME k # 0
      PROVE  After(texts, k, w)[1] \notin Closing
  <2>1. After(texts, k, w)[1] = Comma
    <3>1. 1 <= k /\ k <= Len(texts)
      BY <1>1, <1>4
    <3> QED BY <1>1, <3>1, AfterBehind
  <2>2. Comma \notin Closing
    BY ClosingIs
  <2> QED BY <2>1, <2>2, Zenon
<1> QED BY <1>3, <1>4

LEMMA ElementIn ==
  ASSUME NEW texts \in Seq(Seq(Token)), NEW i \in 1 .. Len(texts)
  PROVE  texts[i] \in Seq(Token)
OBVIOUS

\* One more element of two lists.
LEMMA NextElement ==
  ASSUME NEW p \in Seq(Seq(Token)), NEW q \in Seq(Seq(Token)),
         NEW w, NEW x, NEW c, NEW u, NEW v, Closed(w, c, u), Closed(x, c, v),
         NEW k \in Nat, k < Len(p), k < Len(q), Apart(p[k + 1], q[k + 1]),
         After(p, k, w) = After(q, k, x)
  PROVE  p[k + 1] = q[k + 1] /\ After(p, k + 1, w) = After(q, k + 1, x)
<1>1. /\ Len(p) \in Nat /\ k \in 0 .. Len(p) /\ k + 1 \in 1 .. Len(p)
      /\ 1 <= k + 1 /\ k + 1 <= Len(p) /\ k + 1 \in Nat
      /\ Len(q) \in Nat /\ k \in 0 .. Len(q) /\ k + 1 \in 1 .. Len(q) /\ k + 1 <= Len(q)
  BY Steps, LengthIs, Zenon
<1>2. w \in Seq(Token) /\ x \in Seq(Token)
  BY ClosedIs
<1>3. PICK s, t, a, b : /\ s = p[k + 1] /\ t = q[k + 1]
                        /\ a = After(p, k + 1, w) /\ b = After(q, k + 1, x)
  OBVIOUS
<1>4. s \in Seq(Token) /\ t \in Seq(Token)
  <2>1. p[k + 1] \in Seq(Token) /\ q[k + 1] \in Seq(Token)
    BY <1>1, ElementIn, Zenon
  <2> QED BY <1>3, <2>1, Zenon
<1>5. Behind(a) /\ Behind(b)
  BY <1>1, <1>3, AfterBehind, Zenon
<1>6. IsNext(p, k, w) /\ IsNext(q, k, x)
  BY <1>1, <1>2, AfterIs, Zenon
<1>7. s \o a = t \o b
  <2>1. CASE k = 0
    <3>1. k + 1 = 1
      BY <2>1
    <3> QED BY <1>3, <1>6, <3>1, MarkedIs, Zenon DEF IsNext
  <2>2. CASE k # 0
    <3>1. k + 1 # 1
      BY <2>2
    <3>2. (Marked \o s) \o a = (Marked \o t) \o b
      BY <1>3, <1>6, <3>1, MarkedIs, Zenon DEF IsNext
    <3>3. Marked \in Seq(Token) /\ a \in Seq(Token) /\ b \in Seq(Token)
      BY <1>5, MarkedIs DEF Behind
    <3>4. Associate(Marked, s, a) /\ Associate(Marked, t, b)
      BY <1>4, <3>3, TokensAssociate
    <3>5. Marked \o (s \o a) = Marked \o (t \o b)
      BY <3>2, <3>4, Zenon DEF Associate
    <3>6. s \o a \in Seq(Token) /\ t \o b \in Seq(Token)
      BY <1>4, <3>3, TokensJoined
    <3> QED BY <3>3, <3>5, <3>6, CancelLeft
  <2> QED BY <2>1, <2>2
<1>8. s = t /\ a = b
  BY <1>3, <1>5, <1>7, Zenon DEF Apart
<1> QED BY <1>3, <1>8, Zenon

\* The texts at hand in two lists.
Comparable(p, q) ==
  /\ \A i \in 1 .. Len(p) : Begins(p[i])
  /\ \A i \in 1 .. Len(q) : Begins(q[i])
  /\ \A i \in 1 .. Len(p) : i \in 1 .. Len(q) => Apart(p[i], q[i])

LEMMA Elements ==
  ASSUME NEW p \in Seq(Seq(Token)), NEW q \in Seq(Seq(Token)),
         NEW w, NEW x, NEW c, NEW u, NEW v, Closed(w, c, u), Closed(x, c, v),
         Comparable(p, q),
         Separated(p) \o w = Separated(q) \o x
  PROVE  p = q /\ u = v
<1>1. PICK m, n : m = Len(p) /\ n = Len(q)
  OBVIOUS
<1>2. m \in Nat /\ n \in Nat
  BY <1>1, LengthIs
<1>3. /\ w \in Seq(Token) /\ x \in Seq(Token) /\ w[1] = c /\ x[1] = c /\ <<c>> \in Seq(Token)
      /\ c \in Closing /\ u \in Seq(Token) /\ v \in Seq(Token)
  BY ClosedIs
<1> DEFINE T == {k \in Nat : k <= m /\ k <= n =>
                   (\A i \in 1 .. k : p[i] = q[i]) /\ After(p, k, w) = After(q, k, x)}
<1>4. 0 \in T
  <2>1. 0 \in 0 .. Len(p) /\ 0 \in 0 .. Len(q)
    BY <1>1, <1>2
  <2>2. After(p, 0, w) = Separated(p) \o w /\ After(q, 0, x) = Separated(q) \o x
    BY <1>3, <2>1, AfterIs
  <2>3. After(p, 0, w) = After(q, 0, x)
    BY <2>2, Zenon
  <2> QED BY <2>3
<1>5. ASSUME NEW k \in Nat, k \in T
      PROVE  k + 1 \in T
  <2> SUFFICES ASSUME k + 1 <= m, k + 1 <= n
               PROVE  (\A i \in 1 .. k + 1 : p[i] = q[i]) /\ After(p, k + 1, w) = After(q, k + 1, x)
    OBVIOUS
  <2>1. k < m /\ k < n
    BY <1>2
  <2>2. (\A i \in 1 .. k : p[i] = q[i]) /\ After(p, k, w) = After(q, k, x)
    BY <1>2, <1>5, <2>1
  <2>3. Apart(p[k + 1], q[k + 1])
    <3>1. k + 1 \in 1 .. Len(p) /\ k + 1 \in 1 .. Len(q)
      BY <1>1, <1>2, <2>1, Steps
    <3> QED BY <3>1, Zenon DEF Comparable
  <2>4. p[k + 1] = q[k + 1] /\ After(p, k + 1, w) = After(q, k + 1, x)
    <3> HIDE DEF T
    <3>1. k < Len(p) /\ k < Len(q)
      BY <1>1, <2>1
    <3>2. After(p, k, w) = After(q, k, x)
      BY <2>2
    <3> QED BY <2>3, <3>1, <3>2, NextElement
  <2> QED BY <2>2, <2>4
<1>6. Nat \subseteq T
  <2> HIDE DEF T
  <2> QED BY <1>4, <1>5, SetInduction
<1>7. ~(m < n)
  <2> SUFFICES ASSUME m < n PROVE FALSE
    OBVIOUS
  <2>1. After(p, m, w) = After(q, m, x)
    BY <1>2, <1>6
  <2>2. After(p, m, w) = w
    <3>1. m \in 0 .. Len(p) /\ m = Len(p)
      BY <1>1, <1>2
    <3> QED BY <1>3, <3>1, AfterIs
  <2>3. After(q, m, x)[1] \notin Closing
    BY <1>1, <1>2, AfterBegins, Zenon DEF Comparable
  <2> QED BY <1>3, <2>1, <2>2, <2>3, Zenon
<1>8. ~(n < m)
  <2> SUFFICES ASSUME n < m PROVE FALSE
    OBVIOUS
  <2>1. After(p, n, w) = After(q, n, x)
    BY <1>2, <1>6
  <2>2. After(q, n, x) = x
    <3>1. n \in 0 .. Len(q) /\ n = Len(q)
      BY <1>1, <1>2
    <3> QED BY <1>3, <3>1, AfterIs
  <2>3. After(p, n, w)[1] \notin Closing
    BY <1>1, <1>2, AfterBegins, Zenon DEF Comparable
  <2> QED BY <1>3, <2>1, <2>2, <2>3, Zenon
<1>9. m = n
  BY <1>2, <1>7, <1>8
<1>10. (\A i \in 1 .. m : p[i] = q[i]) /\ After(p, m, w) = After(q, m, x)
  BY <1>2, <1>6, <1>9
<1>11. p = q
  BY <1>1, <1>9, <1>10, SeqEqual
<1>12. w = x
  <2>1. m \in 0 .. Len(p) /\ m = Len(p) /\ m \in 0 .. Len(q) /\ m = Len(q)
    BY <1>1, <1>2, <1>9
  <2>2. After(p, m, w) = w /\ After(q, m, x) = x
    BY <1>3, <2>1, AfterIs
  <2> QED BY <1>10, <2>2, Zenon
<1>13. u = v
  BY <1>3, <1>12, CancelLeft DEF Closed
<1> QED BY <1>11, <1>13

-----------------------------------------------------------------------------
\* Different values have different texts.

IsApart(type) ==
  \A x, y \in Operand[type] : \A u, v :
    Behind(u) /\ Behind(v) /\ to_string[type][x] \o u = to_string[type][y] \o v => x = y /\ u = v

LEMMA BehindNothing == Behind(<<>>)
BY DEF Behind, EndsBefore

LEMMA TextTells ==
  ASSUME NEW type \in Type, IsApart(type), NEW x \in Operand[type], NEW y \in Operand[type],
         NEW s, s = to_string[type][x], NEW t, t = to_string[type][y]
  PROVE  Begins(s) /\ Apart(s, t) /\ (s = t => x = y)
<1>1. Opens(s, Opening[type])
  BY TextOpens
<1>2. s[1] \notin {",", "}", "]"} /\ s \in Seq(Token) /\ s # <<>>
  BY <1>1 DEF Opens
<1>3. Begins(s)
  BY <1>2, Zenon DEF Begins, Comma, Closing
<1>4. Apart(s, t)
  <2> SUFFICES ASSUME NEW w, NEW z, Behind(w), Behind(z), s \o w = t \o z
               PROVE  s = t /\ w = z
    BY DEF Apart
  <2>1. x = y /\ w = z
    BY Zenon DEF IsApart
  <2> QED BY <2>1
<1>5. s = t => x = y
  BY BehindNothing, Zenon DEF IsApart
<1> QED BY <1>3, <1>4, <1>5

DecimalThen(n, u) == Decimal[n] \o u

LEMMA DecimalsApart ==
  ASSUME NEW m \in Nat, NEW n \in Nat, NEW u, NEW v, Behind(u), Behind(v),
         DecimalThen(m, u) = DecimalThen(n, v)
  PROVE  m = n /\ u = v
<1>1. PICK a, b : a = Decimal[m] /\ b = Decimal[n]
  OBVIOUS
<1>2. a \in Seq(Digit) /\ b \in Seq(Digit)
  BY <1>1, DecimalIs
<1>3. Digit \in SUBSET Token
  BY DEF Token
<1>4. u \in Seq(Token) /\ v \in Seq(Token) /\ EndsBefore(u, Digit) /\ EndsBefore(v, Digit)
  BY DEF Behind
<1>5. a = b /\ u = v
  <2>1. SameText(a, u, b, v)
    BY <1>1, Zenon DEF DecimalThen, SameText
  <2> QED BY <1>2, <1>3, <1>4, <2>1, PrefixesEqual
<1> QED BY <1>1, <1>5, DecimalInjective

LEMMA NumbersApart ==
  ASSUME NEW m \in Int, NEW n \in Int, NEW u, NEW v, Behind(u), Behind(v),
         Signed(m) \o u = Signed(n) \o v
  PROVE  m = n /\ u = v
<1> DEFINE Minus == <<"-">>
<1>1. u \in Seq(Token) /\ v \in Seq(Token) /\ Minus \in Seq(Token)
  BY MarksAreTokens DEF Behind
<1>2. ASSUME NEW k \in Int, k < 0, NEW w \in Seq(Token)
      PROVE  /\ -k \in Nat /\ Decimal[-k] \o w \in Seq(Token)
             /\ Signed(k) \o w = Minus \o (Decimal[-k] \o w)
             /\ (Signed(k) \o w)[1] = "-"
  <2>1. PICK j : j = -k
    OBVIOUS
  <2>2. j \in Nat
    BY <1>2, <2>1
  <2>3. PICK dec : dec = Decimal[j]
    OBVIOUS
  <2>4. dec \in Seq(Token)
    BY <2>2, <2>3, DecimalIs, DigitsAreTokens
  <2>5. Associate(Minus, dec, w)
    BY <1>1, <1>2, <2>4, TokensAssociate
  <2>6. Signed(k) = Minus \o dec
    BY <1>2, <2>1, <2>3 DEF Signed
  <2>7. Signed(k) \o w = Minus \o (dec \o w)
    BY <2>5, <2>6, Zenon DEF Associate
  <2>8. dec \o w \in Seq(Token)
    BY <1>2, <2>4, TokensJoined
  <2>9. (Minus \o (dec \o w))[1] = "-"
    BY <2>8, Headed
  <2> QED BY <2>1, <2>2, <2>3, <2>7, <2>8, <2>9, Zenon
<1>3. ASSUME NEW k \in Int, ~(k < 0), NEW w \in Seq(Token)
      PROVE  k \in Nat /\ Signed(k) = Decimal[k] /\ (Signed(k) \o w)[1] # "-"
  <2>1. k \in Nat /\ Signed(k) = Decimal[k]
    BY <1>3 DEF Signed
  <2>2. PICK dec : dec = Decimal[k]
    OBVIOUS
  <2>3. dec \in Seq(Digit) /\ dec # <<>>
    BY <2>1, <2>2, DecimalNonempty
  <2>4. dec[1] \in Digit /\ dec \in Seq(Token)
    BY <2>3, DigitsAreTokens
  <2>5. (dec \o w)[1] = dec[1]
    BY <1>3, <2>3, <2>4, FirstOf
  <2>6. "-" \notin Digit
    BY DEF Digit
  <2> QED BY <2>1, <2>2, <2>4, <2>5, <2>6, Zenon
<1>4. CASE m < 0 /\ n < 0
  <2>1. Minus \o (Decimal[-m] \o u) = Minus \o (Decimal[-n] \o v)
    BY <1>1, <1>2, <1>4, Zenon
  <2>2. Decimal[-m] \o u \in Seq(Token) /\ Decimal[-n] \o v \in Seq(Token) /\ -m \in Nat /\ -n \in Nat
    BY <1>1, <1>2, <1>4
  <2>3. Decimal[-m] \o u = Decimal[-n] \o v
    <3> HIDE DEF Minus
    <3> QED BY <1>1, <2>1, <2>2, CancelLeft
  <2>4. -m = -n /\ u = v
    <3>1. DecimalThen(-m, u) = DecimalThen(-n, v)
      BY <2>3, Zenon DEF DecimalThen
    <3> QED BY <2>2, <3>1, DecimalsApart
  <2> QED BY <2>4
<1>5. CASE ~(m < 0) /\ ~(n < 0)
  <2>1. m \in Nat /\ n \in Nat /\ Decimal[m] \o u = Decimal[n] \o v
    BY <1>1, <1>3, <1>5
  <2>2. DecimalThen(m, u) = DecimalThen(n, v)
    BY <2>1, Zenon DEF DecimalThen
  <2> QED BY <2>1, <2>2, DecimalsApart
<1>6. (m < 0) <=> (n < 0)
  <2>1. ASSUME m < 0, ~(n < 0) PROVE FALSE
    <3>1. (Signed(m) \o u)[1] = "-" /\ (Signed(n) \o v)[1] # "-"
      BY <1>1, <1>2, <1>3, <2>1
    <3> QED BY <3>1, Zenon
  <2>2. ASSUME ~(m < 0), n < 0 PROVE FALSE
    <3>1. (Signed(m) \o u)[1] # "-" /\ (Signed(n) \o v)[1] = "-"
      BY <1>1, <1>2, <1>3, <2>2
    <3> QED BY <3>1, Zenon
  <2> QED BY <2>1, <2>2
<1> QED BY <1>4, <1>5, <1>6

LEMMA StringsApart ==
  ASSUME NEW x \in Seq(Letter), NEW y \in Seq(Letter), "'" \notin Letter,
         NEW u \in Seq(Token), NEW v \in Seq(Token), Quoted(x) \o u = Quoted(y) \o v
  PROVE  x = y /\ u = v
<1>1. PICK quote : quote = <<"'">>
  OBVIOUS
<1>2. quote \in Seq(Token) /\ x \in Seq(Token) /\ y \in Seq(Token)
  BY <1>1, MarksAreTokens, LettersAreTokens
<1>3. ASSUME NEW z \in Seq(Token), NEW w \in Seq(Token)
      PROVE  /\ Quoted(z) \o w = quote \o (z \o (quote \o w))
             /\ quote \o w \in Seq(Token) /\ z \o (quote \o w) \in Seq(Token)
  <2>1. quote \o z \in Seq(Token) /\ quote \o w \in Seq(Token)
        /\ z \o (quote \o w) \in Seq(Token)
    BY <1>2, <1>3, TokensJoined
  <2>2. Associate(quote \o z, quote, w) /\ Associate(quote, z, quote \o w)
    BY <1>2, <1>3, <2>1, TokensAssociate
  <2>3. Quoted(z) = quote \o z \o quote
    BY <1>1 DEF Quoted
  <2> QED BY <2>1, <2>2, <2>3, Zenon DEF Associate
<1>4. quote \o (x \o (quote \o u)) = quote \o (y \o (quote \o v))
  BY <1>2, <1>3, Zenon
<1>5. x \o (quote \o u) = y \o (quote \o v)
  <2>1. PICK a, b : a = x \o (quote \o u) /\ b = y \o (quote \o v)
    OBVIOUS
  <2>2. a \in Seq(Token) /\ b \in Seq(Token)
    BY <1>2, <1>3, <2>1
  <2>3. quote \o a = quote \o b
    BY <1>4, <2>1, Zenon
  <2>4. a = b
    BY <1>2, <2>2, <2>3, CancelLeft
  <2> QED BY <2>1, <2>4, Zenon
<1>6. ASSUME NEW w \in Seq(Token)
      PROVE  EndsBefore(quote \o w, Letter)
  <2>1. (quote \o w)[1] = "'"
    BY <1>1, <1>6, Headed
  <2> QED BY <2>1, Zenon DEF EndsBefore
<1>7. Letter \in SUBSET Token
  BY DEF Token
<1>8. x = y /\ quote \o u = quote \o v
  <2>1. PICK a, b : a = quote \o u /\ b = quote \o v
    OBVIOUS
  <2>2. a \in Seq(Token) /\ b \in Seq(Token) /\ EndsBefore(a, Letter) /\ EndsBefore(b, Letter)
    BY <1>3, <1>6, <2>1
  <2>3. SameText(x, a, y, b)
    BY <1>5, <2>1, Zenon DEF SameText
  <2>4. x = y /\ a = b
    BY <1>7, <2>2, <2>3, PrefixesEqual
  <2> QED BY <2>1, <2>4, Zenon
<1> QED BY <1>2, <1>8, CancelLeft

LEMMA TuplesApart ==
  ASSUME NEW type \in Type, type.is = "tuple",
         \A arg \in Type : ArgumentOf(type, arg) => IsApart(arg)
  PROVE  IsApart(type)
<1> SUFFICES ASSUME NEW x \in Operand[type], NEW y \in Operand[type], NEW u, NEW v,
                    Behind(u), Behind(v), to_string[type][x] \o u = to_string[type][y] \o v
             PROVE  x = y /\ u = v
  BY DEF IsApart
<1>1. PICK n \in Nat \ {0} :
        /\ n = Len(type.of) /\ DOMAIN x = 1 .. n /\ x = [i \in 1 .. n |-> x[i]]
        /\ \A i \in 1 .. n : /\ type.of[i] \in Type /\ ArgumentOf(type, type.of[i])
                             /\ x[i] \in Operand[type.of[i]]
  BY TupleParts
<1>2. PICK k \in Nat \ {0} :
        /\ k = Len(type.of) /\ DOMAIN y = 1 .. k /\ y = [i \in 1 .. k |-> y[i]]
        /\ \A i \in 1 .. k : /\ type.of[i] \in Type /\ ArgumentOf(type, type.of[i])
                             /\ y[i] \in Operand[type.of[i]]
  BY TupleParts, SMTT(40)
<1>3. k = n
  BY <1>1, <1>2
<1>4. PICK p, q, c : p = TupleTexts(to_string, type, x) /\ q = TupleTexts(to_string, type, y) /\ c = "}"
  OBVIOUS
<1>5. p \in Seq(Seq(Token)) /\ q \in Seq(Seq(Token))
      /\ Separated(p) \in Seq(Token) /\ Separated(q) \in Seq(Token)
  BY <1>4, ElementTexts
<1>6. Len(p) = n /\ Len(q) = n
  <2>1. DOMAIN p = 1 .. n /\ DOMAIN q = 1 .. n
    BY <1>1, <1>2, <1>3, <1>4, ZenonT(60) DEF TupleTexts
  <2> QED BY <1>5, <2>1, SMTT(40)
<1>7. \A i \in 1 .. n : p[i] = to_string[type.of[i]][x[i]] /\ q[i] = to_string[type.of[i]][y[i]]
  BY <1>1, <1>2, <1>3, <1>4, ZenonT(60) DEF TupleTexts
<1>8. ASSUME NEW i \in 1 .. n
      PROVE  /\ Begins(p[i]) /\ Begins(q[i]) /\ Apart(p[i], q[i])
             /\ p[i] = q[i] => x[i] = y[i]
  <2>1. PICK arg : arg = type.of[i]
    BY SMTT(40)
  <2>2. arg \in Type /\ IsApart(arg) /\ x[i] \in Operand[arg] /\ y[i] \in Operand[arg]
    BY <1>1, <1>2, <1>3, <2>1
  <2>3. p[i] = to_string[arg][x[i]] /\ q[i] = to_string[arg][y[i]]
    BY <1>7, <2>1
  <2> QED BY <2>2, <2>3, TextTells, SMTT(40)
<1>9. c \in Closing /\ u \in Seq(Token) /\ v \in Seq(Token) /\ <<c>> \in Seq(Token)
  BY <1>4, ClosingIs DEF Closing, Behind
<1>10. PICK w, z : w = <<c>> \o u /\ z = <<c>> \o v
  OBVIOUS
<1>11. Closed(w, c, u) /\ Closed(z, c, v) /\ w \in Seq(Token) /\ z \in Seq(Token)
  BY <1>9, <1>10, TokensJoined DEF Closed
<1>12. Separated(p) \o w = Separated(q) \o z
  <2>1. PICK open, a, b : open = <<"{">> /\ a = Separated(p) /\ b = Separated(q)
    OBVIOUS
  <2>2. open \in Seq(Token) /\ a \in Seq(Token) /\ b \in Seq(Token)
    BY <1>5, <2>1, MarksAreTokens
  <2>3. to_string[type][x] = open \o a \o <<c>> /\ to_string[type][y] = open \o b \o <<c>>
    BY <1>4, <2>1, TextIs, TupleText, Zenon
  <2>4. /\ open \o a \in Seq(Token) /\ open \o b \in Seq(Token)
        /\ a \o w \in Seq(Token) /\ b \o z \in Seq(Token)
    BY <1>11, <2>2, TokensJoined
  <2>5. /\ Associate(open \o a, <<c>>, u) /\ Associate(open \o b, <<c>>, v)
        /\ Associate(open, a, w) /\ Associate(open, b, z)
    BY <1>9, <1>11, <2>2, <2>4, TokensAssociate
  <2>6. open \o (a \o w) = open \o (b \o z)
    BY <1>10, <2>3, <2>5, Zenon DEF Associate
  <2>7. a \o w = b \o z
    BY <2>2, <2>4, <2>6, CancelLeft
  <2> QED BY <2>1, <2>7, Zenon
<1>13. p = q /\ u = v
  <2>1. Comparable(p, q)
    BY <1>6, <1>8 DEF Comparable
  <2> QED BY <1>5, <1>11, <1>12, <2>1, Elements
<1>14. \A i \in 1 .. n : x[i] = y[i]
  BY <1>8, <1>13
<1> QED BY <1>1, <1>2, <1>3, <1>13, <1>14

LEMMA VectorsApart ==
  ASSUME NEW type \in Type, type.is = "vector",
         \A arg \in Type : ArgumentOf(type, arg) => IsApart(arg)
  PROVE  IsApart(type)
<1> SUFFICES ASSUME NEW x \in Operand[type], NEW y \in Operand[type], NEW u, NEW v,
                    Behind(u), Behind(v), to_string[type][x] \o u = to_string[type][y] \o v
             PROVE  x = y /\ u = v
  BY DEF IsApart
<1>1. PICK arg, m, n : arg = type.of /\ m = Len(x) /\ n = Len(y)
  OBVIOUS
<1>2. /\ arg \in Type /\ ArgumentOf(type, arg)
      /\ x \in Seq(Operand[arg]) /\ m \in Nat /\ DOMAIN x = 1 .. m
      /\ \A i \in 1 .. m : x[i] \in Operand[arg]
      /\ y \in Seq(Operand[arg]) /\ n \in Nat /\ DOMAIN y = 1 .. n
      /\ \A i \in 1 .. n : y[i] \in Operand[arg]
  BY <1>1, VectorParts
<1>3. IsApart(arg)
  BY <1>2
<1>4. PICK p, q, c : p = VectorTexts(to_string, type, x) /\ q = VectorTexts(to_string, type, y) /\ c = "]"
  OBVIOUS
<1>5. p \in Seq(Seq(Token)) /\ q \in Seq(Seq(Token))
      /\ Separated(p) \in Seq(Token) /\ Separated(q) \in Seq(Token)
  BY <1>4, ElementTexts
<1>6. Len(p) = m /\ Len(q) = n
  <2>1. DOMAIN p = 1 .. m /\ DOMAIN q = 1 .. n
    BY <1>2, <1>4 DEF VectorTexts
  <2> QED BY <1>2, <1>5, <2>1
<1>7. /\ \A i \in 1 .. m : p[i] = to_string[arg][x[i]]
      /\ \A i \in 1 .. n : q[i] = to_string[arg][y[i]]
  BY <1>1, <1>2, <1>4 DEF VectorTexts
<1>8. /\ \A i \in 1 .. m : Begins(p[i])
      /\ \A i \in 1 .. n : Begins(q[i])
      /\ \A i \in 1 .. m : i \in 1 .. n => Apart(p[i], q[i]) /\ (p[i] = q[i] => x[i] = y[i])
  <2>1. ASSUME NEW i \in 1 .. m PROVE Begins(p[i])
    <3>1. x[i] \in Operand[arg] /\ p[i] = to_string[arg][x[i]]
      BY <1>2, <1>7
    <3> QED BY <1>2, <1>3, <3>1, TextTells
  <2>2. ASSUME NEW i \in 1 .. n PROVE Begins(q[i])
    <3>1. y[i] \in Operand[arg] /\ q[i] = to_string[arg][y[i]]
      BY <1>2, <1>7
    <3> QED BY <1>2, <1>3, <3>1, TextTells
  <2>3. ASSUME NEW i \in 1 .. m, i \in 1 .. n
        PROVE  Apart(p[i], q[i]) /\ (p[i] = q[i] => x[i] = y[i])
    <3>1. x[i] \in Operand[arg] /\ y[i] \in Operand[arg]
      BY <1>2, <2>3
    <3>2. p[i] = to_string[arg][x[i]] /\ q[i] = to_string[arg][y[i]]
      BY <1>7, <2>3
    <3>3. PICK a, b, s, t : /\ a = x[i] /\ b = y[i]
                            /\ s = to_string[arg][a] /\ t = to_string[arg][b]
      OBVIOUS
    <3>4. Apart(s, t) /\ (s = t => a = b)
      <4>1. arg \in Type /\ a \in Operand[arg] /\ b \in Operand[arg]
        BY <1>2, <3>1, <3>3, Zenon
      <4> QED BY <1>3, <3>3, <4>1, TextTells, SMTT(60)
    <3> QED BY <3>2, <3>3, <3>4, Zenon
  <2> QED BY <2>1, <2>2, <2>3
<1>9. c \in Closing /\ u \in Seq(Token) /\ v \in Seq(Token) /\ <<c>> \in Seq(Token)
  BY <1>4, ClosingIs DEF Closing, Behind
<1>10. PICK w, z : w = <<c>> \o u /\ z = <<c>> \o v
  OBVIOUS
<1>11. Closed(w, c, u) /\ Closed(z, c, v) /\ w \in Seq(Token) /\ z \in Seq(Token)
  BY <1>9, <1>10, TokensJoined DEF Closed
<1>12. PICK open, between, d, e, a, b :
         /\ open = <<"(">> /\ between = <<")", " ", "[">>
         /\ d = Decimal[m] /\ e = Decimal[n] /\ a = Separated(p) /\ b = Separated(q)
  OBVIOUS
<1>13. /\ open \in Seq(Token) /\ between \in Seq(Token) /\ between # <<>> /\ between[1] \notin Digit
       /\ a \in Seq(Token) /\ b \in Seq(Token)
  <2>1. between # <<>> /\ between[1] = ")"
    BY <1>12
  <2>2. ")" \notin Digit
    BY DEF Digit
  <2> QED BY <1>5, <1>12, <2>1, <2>2, MarksAreTokens
<1>14. d \in Seq(Token) /\ e \in Seq(Token)
  BY <1>2, <1>12, DecimalIs, DigitsAreTokens
<1>15. /\ to_string[type][x] = open \o d \o between \o a \o <<c>>
       /\ to_string[type][y] = open \o e \o between \o b \o <<c>>
  BY <1>1, <1>4, <1>12, TextIs, VectorText, Zenon
<1> DEFINE Grouped(dec, list, rest) ==
             (open \o dec \o between \o list \o <<c>>) \o rest
             = open \o (dec \o (between \o (list \o (<<c>> \o rest))))
<1>16. ASSUME NEW dec \in Seq(Token), NEW list \in Seq(Token), NEW rest \in Seq(Token)
       PROVE  /\ Grouped(dec, list, rest)
              /\ between \o (list \o (<<c>> \o rest)) \in Seq(Token)
              /\ dec \o (between \o (list \o (<<c>> \o rest))) \in Seq(Token)
              /\ list \o (<<c>> \o rest) \in Seq(Token)
              /\ Behind(between \o (list \o (<<c>> \o rest)))
  <2>1. PICK l : l = list \o (<<c>> \o rest)
    OBVIOUS
  <2>2. PICK f, g : f = open \o dec /\ g = f \o between
    OBVIOUS
  <2>3. <<c>> \o rest \in Seq(Token) /\ f \in Seq(Token)
    BY <1>9, <1>13, <1>16, <2>2, TokensJoined
  <2>4. l \in Seq(Token) /\ g \in Seq(Token)
    BY <1>13, <1>16, <2>1, <2>2, <2>3, TokensJoined
  <2>5. g \o list \in Seq(Token) /\ between \o l \in Seq(Token)
    BY <1>13, <1>16, <2>4, TokensJoined
  <2>6. dec \o (between \o l) \in Seq(Token)
    BY <1>16, <2>5, TokensJoined
  <2>7. /\ Associate(g \o list, <<c>>, rest) /\ Associate(g, list, <<c>> \o rest)
        /\ Associate(f, between, l) /\ Associate(open, dec, between \o l)
    BY <1>9, <1>13, <1>16, <2>3, <2>4, <2>5, TokensAssociate
  <2>8. (g \o list \o <<c>>) \o rest = g \o l
    BY <2>1, <2>7, Zenon DEF Associate
  <2>9. g \o l = open \o (dec \o (between \o l))
    BY <2>2, <2>7, Zenon DEF Associate
  <2>10. Behind(between \o l)
    BY <1>13, <2>4, <2>5, FirstOf DEF Behind, EndsBefore
  <2> QED BY <2>1, <2>2, <2>4, <2>5, <2>6, <2>8, <2>9, <2>10, Zenon
<1>17. PICK r, s : r = between \o (a \o w) /\ s = between \o (b \o z)
  OBVIOUS
<1>18. open \o (d \o r) = open \o (e \o s)
  <2>1. Grouped(d, a, u) /\ Grouped(e, b, v)
    <3> HIDE DEF Grouped
    <3> QED BY <1>9, <1>13, <1>14, <1>16
  <2> QED BY <1>10, <1>15, <1>17, <2>1, Zenon
<1>19. /\ Behind(r) /\ Behind(s) /\ d \o r \in Seq(Token) /\ e \o s \in Seq(Token)
       /\ a \o w \in Seq(Token) /\ b \o z \in Seq(Token)
  BY <1>9, <1>10, <1>13, <1>14, <1>16, <1>17
<1>20. d \o r = e \o s
  BY <1>13, <1>18, <1>19, CancelLeft
<1>21. m = n /\ r = s
  <2>1. DecimalThen(m, r) = DecimalThen(n, s)
    BY <1>12, <1>20, Zenon DEF DecimalThen
  <2> QED BY <1>2, <1>19, <2>1, DecimalsApart
<1>22. a \o w = b \o z
  BY <1>13, <1>17, <1>19, <1>21, CancelLeft, ZenonT(60)
<1>23. p = q /\ u = v
  <2>1. Separated(p) \o w = Separated(q) \o z
    BY <1>12, <1>22, Zenon
  <2>2. Comparable(p, q)
    BY <1>6, <1>8 DEF Comparable
  <2> QED BY <1>5, <1>11, <2>1, <2>2, Elements
<1>24. x = y
  <2>1. \A i \in 1 .. m : x[i] = y[i]
    BY <1>8, <1>21, <1>23
  <2> QED BY <1>1, <1>2, <1>21, <2>1, SeqEqual
<1> QED BY <1>23, <1>24

TextThen(type, val, u) == to_string[type][val] \o u

LEMMA ApartTexts ==
  ASSUME NEW type, IsApart(type), NEW x \in Operand[type], NEW y \in Operand[type],
         NEW u, NEW v, Behind(u), Behind(v), TextThen(type, x, u) = TextThen(type, y, v)
  PROVE  x = y /\ u = v
BY ZenonT(60) DEF IsApart, TextThen

LEMMA OptionalsApart ==
  ASSUME NEW type \in Type, type.is = "optional",
         \A arg \in Type : ArgumentOf(type, arg) => IsApart(arg)
  PROVE  IsApart(type)
<1> SUFFICES ASSUME NEW x \in Operand[type], NEW y \in Operand[type], NEW u, NEW v,
                    Behind(u), Behind(v), to_string[type][x] \o u = to_string[type][y] \o v
             PROVE  x = y /\ u = v
  BY DEF IsApart
<1>1. PICK arg, s, t : arg = type.of /\ s = to_string[type][x] /\ t = to_string[type][y]
  OBVIOUS
<1>2. arg \in Type /\ IsApart(arg)
  BY <1>1, OptionalParts
<1>3. s \o u = t \o v /\ u \in Seq(Token) /\ v \in Seq(Token)
  BY <1>1 DEF Behind
<1>4. "empty" \notin Opening[arg]
  BY <1>1, DistinctAssumption DEF Distinct
<1>5. ASSUME NEW val \in Operand[type], val = <<>>
      PROVE  to_string[type][val] = <<"(", "empty", ")">> /\ Opens(to_string[type][val], {"empty"})
  <2>1. PICK text : text = <<"(", "empty", ")">>
    OBVIOUS
  <2>2. to_string[type][val] = text
    BY <1>5, <2>1, TextIs, OptionalText, Zenon
  <2>3. text \in Seq(Token)
    BY <2>1, MarksAreTokens
  <2>4. text # <<>> /\ text[1] = "(" /\ text[2] = "empty" /\ Len(text) = 3
    BY <2>1
  <2>5. Opens(text, {"empty"})
    BY <2>3, <2>4 DEF Opens, LabelOf
  <2> QED BY <2>1, <2>2, <2>5, Zenon
<1>6. ASSUME NEW val \in Operand[type], val # <<>>
      PROVE  \E o \in Operand[arg] : /\ val = <<o>> /\ to_string[type][val] = to_string[arg][o]
                                     /\ Opens(to_string[type][val], Opening[arg])
  <2>1. PICK o \in Operand[arg] : val = <<o>> /\ val[1] = o
    BY <1>1, <1>6, OptionalParts
  <2>2. to_string[type][val] = to_string[arg][o]
    <3>1. to_string[type][val] = TextFrom(to_string, type, val)
      BY TextIs
    <3>2. TextFrom(to_string, type, val) = to_string[type.of][val[1]]
      BY <1>6, OptionalText
    <3> QED BY <1>1, <2>1, <3>1, <3>2, Zenon
  <2>3. Opens(to_string[arg][o], Opening[arg])
    BY <1>2, TextOpens
  <2> QED BY <2>1, <2>2, <2>3, Zenon
<1>7. CASE x = <<>> /\ y = <<>>
  <2>1. s = t /\ s \in Seq(Token)
    BY <1>1, <1>7, TextsAreTokens
  <2> QED BY <1>3, <1>7, <2>1, CancelLeft
<1>8. CASE x = <<>> /\ y # <<>>
  <2>1. Opens(s, {"empty"}) /\ Opens(t, Opening[arg])
    BY <1>1, <1>5, <1>6, <1>8
  <2>2. {"empty"} \cap Opening[arg] # {}
    BY <1>3, <2>1, LabelTold
  <2> QED BY <1>4, <2>2
<1>9. CASE x # <<>> /\ y = <<>>
  <2>1. Opens(t, {"empty"}) /\ Opens(s, Opening[arg])
    BY <1>1, <1>5, <1>6, <1>9
  <2>2. Opening[arg] \cap {"empty"} # {}
    BY <1>3, <2>1, LabelTold
  <2> QED BY <1>4, <2>2
<1>10. CASE x # <<>> /\ y # <<>>
  <2>1. PICK o \in Operand[arg] : x = <<o>> /\ s = to_string[arg][o]
    BY <1>1, <1>6, <1>10
  <2>2. PICK p \in Operand[arg] : y = <<p>> /\ t = to_string[arg][p]
    BY <1>1, <1>6, <1>10
  <2>3. o = p /\ u = v
    <3>1. TextThen(arg, o, u) = TextThen(arg, p, v)
      BY <1>3, <2>1, <2>2, Zenon DEF TextThen
    <3> QED BY <1>2, <3>1, ApartTexts
  <2> QED BY <2>1, <2>2, <2>3
<1> QED BY <1>7, <1>8, <1>9, <1>10

LEMMA VariantsApart ==
  ASSUME NEW type \in Type, type.is = "variant",
         \A arg \in Type : ArgumentOf(type, arg) => IsApart(arg)
  PROVE  IsApart(type)
<1> SUFFICES ASSUME NEW x \in Operand[type], NEW y \in Operand[type], NEW u, NEW v,
                    Behind(u), Behind(v), to_string[type][x] \o u = to_string[type][y] \o v
             PROVE  x = y /\ u = v
  BY DEF IsApart
<1>1. u \in Seq(Token) /\ v \in Seq(Token)
  BY DEF Behind
<1>2. ASSUME NEW val \in Operand[type]
      PROVE  \E i \in DOMAIN type.of : \E o \in Operand[type.of[i]] :
               /\ val = [index |-> i, value |-> o] /\ type.of[i] \in Type /\ IsApart(type.of[i])
               /\ to_string[type][val] = to_string[type.of[i]][o]
  <2>1. PICK i \in DOMAIN type.of : \E o \in Operand[type.of[i]] :
           /\ type.of[i] \in Type /\ ArgumentOf(type, type.of[i])
           /\ val = [index |-> i, value |-> o] /\ val.index = i /\ val.value = o
    BY VariantParts
  <2>2. PICK o \in Operand[type.of[i]] :
           /\ type.of[i] \in Type /\ ArgumentOf(type, type.of[i])
           /\ val = [index |-> i, value |-> o] /\ val.index = i /\ val.value = o
    BY <2>1
  <2>3. to_string[type][val] = to_string[type.of[i]][o]
    <3>1. to_string[type][val] = TextFrom(to_string, type, val)
      BY TextIs
    <3>2. TextFrom(to_string, type, val) = to_string[type.of[val.index]][val.value]
      BY VariantText
    <3> QED BY <2>2, <3>1, <3>2, Zenon
  <2> QED BY <2>2, <2>3
<1>3. PICK i \in DOMAIN type.of : \E o \in Operand[type.of[i]] :
        /\ x = [index |-> i, value |-> o] /\ type.of[i] \in Type /\ IsApart(type.of[i])
        /\ to_string[type][x] = to_string[type.of[i]][o]
  BY <1>2, SMTT(40)
<1>4. PICK o \in Operand[type.of[i]] :
        /\ x = [index |-> i, value |-> o] /\ type.of[i] \in Type /\ IsApart(type.of[i])
        /\ to_string[type][x] = to_string[type.of[i]][o]
  BY <1>3
<1>5. PICK j \in DOMAIN type.of : \E p \in Operand[type.of[j]] :
        /\ y = [index |-> j, value |-> p] /\ type.of[j] \in Type /\ IsApart(type.of[j])
        /\ to_string[type][y] = to_string[type.of[j]][p]
  BY <1>2, SMTT(40)
<1>6. PICK p \in Operand[type.of[j]] :
        /\ y = [index |-> j, value |-> p] /\ type.of[j] \in Type /\ IsApart(type.of[j])
        /\ to_string[type][y] = to_string[type.of[j]][p]
  BY <1>5
<1>7. to_string[type.of[i]][o] \o u = to_string[type.of[j]][p] \o v
  BY <1>4, <1>6, Zenon
<1>8. i = j
  <2>1. Opens(to_string[type.of[i]][o], Opening[type.of[i]])
        /\ Opens(to_string[type.of[j]][p], Opening[type.of[j]])
    BY <1>4, <1>6, TextOpens, ZenonT(60)
  <2>2. Opening[type.of[i]] \cap Opening[type.of[j]] # {}
    BY <1>1, <1>7, <2>1, LabelTold, ZenonT(60)
  <2> QED BY <2>2, DistinctAssumption, ZenonT(60) DEF Distinct
<1>9. o = p /\ u = v
  <2>1. PICK arg : arg = type.of[i]
    OBVIOUS
  <2>2. o \in Operand[arg] /\ p \in Operand[arg] /\ IsApart(arg)
    BY <1>4, <1>6, <1>8, <2>1, ZenonT(60)
  <2>3. to_string[arg][o] \o u = to_string[arg][p] \o v
    BY <1>7, <1>8, <2>1, Zenon
  <2> QED BY <2>2, <2>3, ZenonT(60) DEF IsApart
<1> QED BY <1>4, <1>6, <1>8, <1>9

LEMMA TextsApart ==
  ASSUME NEW type \in Type
  PROVE  IsApart(type)
<1> DEFINE U == {t \in Type : IsApart(t)}
<1>1. ASSUME NEW t \in Type, \A arg \in Type : Nesting[arg] < Nesting[t] => arg \in U
      PROVE  t \in U
  <2>1. \A arg \in Type : ArgumentOf(t, arg) => IsApart(arg)
    BY <1>1 DEF ArgumentOf
  <2>2. CASE t.is = "number"
    <3> SUFFICES ASSUME NEW x \in Operand[t], NEW y \in Operand[t], NEW u, NEW v,
                        Behind(u), Behind(v), to_string[t][x] \o u = to_string[t][y] \o v
                 PROVE  x = y /\ u = v
      BY DEF IsApart
    <3>1. x \in Int /\ y \in Int
      BY <2>2, Shapes
    <3>2. Signed(x) \o u = Signed(y) \o v
      <4>1. to_string[t][x] = Signed(x) /\ to_string[t][y] = Signed(y)
        BY <2>2, TextIs, NumberText
      <4> QED BY <4>1, Zenon
    <3> QED BY <3>1, <3>2, NumbersApart
  <2>3. CASE t.is = "boolean"
    <3> SUFFICES ASSUME NEW x \in Operand[t], NEW y \in Operand[t], NEW u, NEW v,
                        Behind(u), Behind(v), to_string[t][x] \o u = to_string[t][y] \o v
                 PROVE  x = y /\ u = v
      BY DEF IsApart
    <3>1. x \in BOOLEAN /\ y \in BOOLEAN
      BY <2>3, Shapes
    <3>2. PICK a, b : a = (IF x THEN "true" ELSE "false") /\ b = (IF y THEN "true" ELSE "false")
      OBVIOUS
    <3>3. to_string[t][x] = <<a>> /\ to_string[t][y] = <<b>>
      BY <2>3, <3>2, TextIs, BooleanText
    <3>4. a \in Token /\ b \in Token
      BY <3>2 DEF Token
    <3>5. a = b /\ u = v
      BY <3>3, <3>4, OneHead, SMTT(40) DEF Behind
    <3> QED BY <3>1, <3>2, <3>5
  <2>4. CASE t.is = "string"
    <3> SUFFICES ASSUME NEW x \in Operand[t], NEW y \in Operand[t], NEW u, NEW v,
                        Behind(u), Behind(v), to_string[t][x] \o u = to_string[t][y] \o v
                 PROVE  x = y /\ u = v
      BY DEF IsApart
    <3>1. x \in Seq(Letter) /\ y \in Seq(Letter) /\ "'" \notin Letter
      BY <2>4, Shapes, DistinctAssumption DEF Distinct
    <3>2. Quoted(x) \o u = Quoted(y) \o v
      <4>1. to_string[t][x] = Quoted(x) /\ to_string[t][y] = Quoted(y)
        BY <2>4, TextIs, StringText
      <4> QED BY <4>1, Zenon
    <3> QED BY <3>1, <3>2, StringsApart, ZenonT(60) DEF Behind
  <2>5. CASE t.is = "tuple"
    BY <2>1, <2>5, TuplesApart
  <2>6. CASE t.is = "optional"
    BY <2>1, <2>6, OptionalsApart
  <2>7. CASE t.is = "variant"
    BY <2>1, <2>7, VariantsApart
  <2>8. CASE t.is = "vector"
    BY <2>1, <2>8, VectorsApart
  <2> QED BY <2>2, <2>3, <2>4, <2>5, <2>6, <2>7, <2>8, Shapes
<1>2. Type \subseteq U
  <2>1. Nesting \in [Type -> Nat]
    BY OperandAssumption
  <2> HIDE DEF U
  <2> QED BY <1>1, <2>1, RankInduction
<1> QED BY <1>2

\* Formats::to_string gives different values of a type different texts, whatever
\* values, types and nesting of templates there are: a text tells where it ends,
\* so what follows it in a tuple or a vector is not mistaken for a part of it.
THEOREM TextsTellApart == Spec => []TextTellsApart
<1>1. ASSUME NEW type \in Type, NEW x \in Operand[type], NEW y \in Operand[type],
             to_string[type][x] = to_string[type][y]
      PROVE  x = y
  BY <1>1, TextsApart, TextTells
<1>2. Init => TextTellsApart
  <2> SUFFICES ASSUME Init, input.of = "to_string" PROVE TextTellsApart
    BY DEF TextTellsApart
  <2>1. PICK type \in Type : \E val \in Operand[type] : input = [of |-> "to_string", type |-> type, val |-> val]
    BY DEF Init
  <2>2. input.type \in Type /\ input.val \in Operand[input.type]
    BY <2>1
  <2> QED BY <1>1, <2>2 DEF TextTellsApart
<1>3. TextTellsApart /\ [Next]_input => TextTellsApart'
  BY DEF TextTellsApart, Next
<1> QED BY <1>2, <1>3, PTL DEF Spec
=============================================================================
