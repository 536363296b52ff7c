------------------------------ MODULE Induction ------------------------------
(***************************************************************************)
(* Induction over the natural numbers, from the fact that they are well    *)
(* founded, and what it yields about concatenated sequences.               *)
(***************************************************************************)
EXTENDS Integers, Sequences, SequencesExt, SequenceTheorems, WellFoundedInduction, TLAPS

Below == {ss \in Nat \X Nat : ss[1] < ss[2]}

LEMMA NatWellFounded == IsWellFoundedOn(Below, Nat)
BY NatLessThanWellFounded DEF OpToRel, Below

\* Every set of natural numbers has a least element.
LEMMA LeastNatural ==
  ASSUME NEW T \in SUBSET Nat, T # {}
  PROVE  \E n \in T : \A m \in T : n <= m
<1>1. PICK n \in T : \A m \in T : ~ (<<m, n>> \in Below)
  BY NatWellFounded, WFMin
<1>2. \A m \in T : /\ <<m, n>> \in Nat \X Nat
                   /\ <<m, n>>[1] = m /\ <<m, n>>[2] = n
  OBVIOUS
<1>3. \A m \in T : ~(m < n)
  BY <1>1, <1>2 DEF Below
<1> QED BY <1>1, <1>3

\* Induction, for a set of natural numbers.
LEMMA SetInduction ==
  ASSUME NEW T, 0 \in T, \A n \in Nat : n \in T => n + 1 \in T
  PROVE  Nat \subseteq T
<1> SUFFICES ASSUME Nat \ T # {} PROVE FALSE
  OBVIOUS
<1>1. PICK n \in Nat \ T : \A m \in Nat \ T : n <= m
  <2>1. Nat \ T \in SUBSET Nat
    OBVIOUS
  <2> QED BY <2>1, LeastNatural
<1>2. n # 0 /\ n - 1 \in Nat
  BY <1>1
<1>3. n - 1 \in T
  BY <1>1, <1>2
<1> QED BY <1>1, <1>2, <1>3

\* Induction over what has a rank.
LEMMA RankInduction ==
  ASSUME NEW D, NEW rank \in [D -> Nat], NEW U,
         \A x \in D : (\A y \in D : rank[y] < rank[x] => y \in U) => x \in U
  PROVE  D \subseteq U
<1> DEFINE T == {k \in Nat : \A x \in D : rank[x] < k => x \in U}
<1>1. 0 \in T
  OBVIOUS
<1>2. ASSUME NEW k \in Nat, k \in T
      PROVE  k + 1 \in T
  <2> SUFFICES ASSUME NEW x \in D, rank[x] < k + 1 PROVE x \in U
    OBVIOUS
  <2>1. \A y \in D : rank[y] < rank[x] => y \in U
    BY <1>2
  <2> QED BY <2>1
<1>3. Nat \subseteq T
  <2> HIDE DEF T
  <2> QED BY <1>1, <1>2, SetInduction
<1>4. ASSUME NEW x \in D PROVE x \in U
  <2>1. rank[x] + 1 \in T
    BY <1>3
  <2> QED BY <2>1
<1> QED BY <1>4

\* Functions defined by recursion, each value from those of lower rank.
LooksBelow(step, rank, D, S) ==
  \A f, g \in [D -> S] : \A x \in D :
    (\A y \in D : rank[y] < rank[x] => f[y] = g[y]) => step[f][x] = step[g][x]

IsFixed(f, step) == f = step[f]

LEMMA RankRecursion ==
  ASSUME NEW D, NEW S, S # {}, NEW rank \in [D -> Nat],
         NEW step \in [[D -> S] -> [D -> S]],
         LooksBelow(step, rank, D, S)
  PROVE  \E f \in [D -> S] : IsFixed(f, step)
<1> USE DEF LooksBelow
<1> DEFINE Upto(f, k) == \A x \in D : rank[x] < k => f[x] = step[f][x]
           T == {k \in Nat : \E f \in [D -> S] : Upto(f, k)}
<1>1. 0 \in T
  <2>1. PICK some \in S : TRUE
    OBVIOUS
  <2>3. [x \in D |-> some] \in [D -> S]
    OBVIOUS
  <2>2. \A x \in D : ~(rank[x] < 0)
    OBVIOUS
  <2> QED BY <2>2, <2>3
<1>2. ASSUME NEW k \in Nat, k \in T
      PROVE  k + 1 \in T
  <2>1. PICK f \in [D -> S] : Upto(f, k)
    BY <1>2
  <2>2. PICK g \in [D -> S] : g = step[f]
    OBVIOUS
  <2>3. ASSUME NEW x \in D, rank[x] < k + 1
        PROVE  g[x] = step[g][x]
    <3>1. \A y \in D : rank[y] < rank[x] => f[y] = g[y]
      BY <2>1, <2>2, <2>3
    <3> QED BY <2>2, <3>1
  <2>4. Upto(g, k + 1)
    BY <2>3
  <2> QED BY <2>4
<1>3. Nat \subseteq T
  <2> HIDE DEF T
  <2> QED BY <1>1, <1>2, SetInduction
<1>4. ASSUME NEW f \in [D -> S], NEW g \in [D -> S], NEW j \in Nat, NEW k \in Nat,
             Upto(f, j), Upto(g, k)
      PROVE  \A x \in D : rank[x] < j /\ rank[x] < k => f[x] = g[x]
  <2> DEFINE U == {x \in D : rank[x] < j /\ rank[x] < k => f[x] = g[x]}
  <2>1. ASSUME NEW x \in D, \A y \in D : rank[y] < rank[x] => y \in U
        PROVE  x \in U
    <3> SUFFICES ASSUME rank[x] < j, rank[x] < k PROVE f[x] = g[x]
      OBVIOUS
    <3>1. \A y \in D : rank[y] < rank[x] => f[y] = g[y]
      BY <2>1
    <3>2. step[f][x] = step[g][x]
      BY <3>1
    <3> QED BY <1>4, <3>2
  <2>2. D \subseteq U
    <3> HIDE DEF U
    <3> QED BY <2>1, RankInduction
  <2> QED BY <2>2
<1> DEFINE Chosen(x) == CHOOSE f \in [D -> S] : Upto(f, rank[x] + 1)
<1>5. ASSUME NEW x \in D
      PROVE  Chosen(x) \in [D -> S] /\ Upto(Chosen(x), rank[x] + 1)
  <2>1. rank[x] + 1 \in T
    BY <1>3
  <2>2. \E f \in [D -> S] : Upto(f, rank[x] + 1)
    BY <2>1
  <2> HIDE DEF Upto
  <2> QED BY <2>2
<1> HIDE DEF Chosen, T
<1>6. PICK h : h = [x \in D |-> Chosen(x)[x]]
  OBVIOUS
<1>7. h \in [D -> S]
  BY <1>5, <1>6
<1>8. ASSUME NEW x \in D
      PROVE  h[x] = step[h][x]
  <2>1. PICK f \in [D -> S] : f = Chosen(x) /\ Upto(f, rank[x] + 1)
    BY <1>5
  <2>2. ASSUME NEW y \in D, rank[y] < rank[x]
        PROVE  f[y] = h[y]
    <3>1. PICK g \in [D -> S] : g = Chosen(y) /\ Upto(g, rank[y] + 1)
      BY <1>5
    <3>2. rank[x] + 1 \in Nat /\ rank[y] + 1 \in Nat /\ rank[y] < rank[x] + 1 /\ rank[y] < rank[y] + 1
      BY <2>2
    <3>3. f[y] = g[y]
      <4> HIDE DEF Upto
      <4> QED BY <1>4, <2>1, <3>1, <3>2
    <3> QED BY <1>6, <3>1, <3>3
  <2>3. step[f][x] = step[h][x]
    BY <1>7, <2>2
  <2>4. f[x] = step[f][x]
    BY <2>1
  <2> QED BY <1>6, <2>1, <2>3, <2>4
<1>9. h = step[h]
  BY <1>7, <1>8
<1> QED BY <1>7, <1>9 DEF IsFixed

-----------------------------------------------------------------------------
\* Functions defined by recursion over 0 .. n, each value from the one before.

IsRecursion(f, n, base, step) ==
  f = [k \in 0 .. n |-> IF k = 0 THEN base ELSE step[k][f[k - 1]]]

LEMMA RecursionExists ==
  ASSUME NEW n \in Nat, NEW S, NEW base \in S, NEW step \in [1 .. n -> [S -> S]]
  PROVE  \E f \in [0 .. n -> S] : IsRecursion(f, n, base, step)
<1> DEFINE Holds(f, i) == f[i] = IF i = 0 THEN base ELSE step[i][f[i - 1]]
           Has(k) == \E f \in [0 .. k -> S] : \A i \in 0 .. k : Holds(f, i)
           T == {k \in Nat : k <= n => Has(k)}
<1>1. 0 \in T
  <2>1. [i \in 0 .. 0 |-> base] \in [0 .. 0 -> S]
    OBVIOUS
  <2>2. \A i \in 0 .. 0 : Holds([j \in 0 .. 0 |-> base], i)
    OBVIOUS
  <2>3. Has(0)
    BY <2>1, <2>2
  <2> QED BY <2>3
<1>2. ASSUME NEW k \in Nat, k \in T
      PROVE  k + 1 \in T
  <2> SUFFICES ASSUME k + 1 <= n PROVE Has(k + 1)
    OBVIOUS
  <2>1. PICK f \in [0 .. k -> S] : \A i \in 0 .. k : Holds(f, i)
    BY <1>2
  <2>2. PICK last : last = step[k + 1][f[k]]
    OBVIOUS
  <2>3. last \in S
    BY <2>2
  <2>4. PICK g : g = [i \in 0 .. k + 1 |-> IF i = k + 1 THEN last ELSE f[i]]
    OBVIOUS
  <2>5. g \in [0 .. k + 1 -> S]
    BY <2>3, <2>4
  <2>6. ASSUME NEW i \in 0 .. k + 1
        PROVE  Holds(g, i)
    <3>1. CASE i = k + 1
      BY <2>2, <2>4, <3>1
    <3>2. CASE i # k + 1
      <4>1. i \in 0 .. k /\ (i # 0 => i - 1 \in 0 .. k + 1 /\ i - 1 # k + 1)
        BY <3>2
      <4>2. Holds(f, i)
        BY <2>1, <4>1
      <4> QED BY <2>4, <3>2, <4>1, <4>2
    <3> QED BY <3>1, <3>2
  <2> QED BY <2>5, <2>6
<1>3. Nat \subseteq T
  <2> HIDE DEF T
  <2> QED BY <1>1, <1>2, SetInduction
<1>4. PICK f \in [0 .. n -> S] : \A i \in 0 .. n : Holds(f, i)
  BY <1>3
<1>5. f = [i \in 0 .. n |-> f[i]]
  OBVIOUS
<1>6. [i \in 0 .. n |-> f[i]]
        = [i \in 0 .. n |-> IF i = 0 THEN base ELSE step[i][f[i - 1]]]
  BY <1>4
<1> QED BY <1>5, <1>6 DEF IsRecursion

\* Induction over 0 .. n.
LEMMA RangeInduction ==
  ASSUME NEW n \in Nat, NEW T, 0 \in T, \A k \in 1 .. n : k - 1 \in T => k \in T
  PROVE  \A k \in 0 .. n : k \in T
<1> DEFINE U == {k \in Nat : k <= n => k \in T}
<1>1. 0 \in U
  OBVIOUS
<1>2. \A k \in Nat : k \in U => k + 1 \in U
  <2> SUFFICES ASSUME NEW k \in Nat, k \in U, k + 1 <= n PROVE k + 1 \in T
    OBVIOUS
  <2>1. k + 1 \in 1 .. n /\ (k + 1) - 1 = k
    OBVIOUS
  <2> QED BY <2>1
<1>3. Nat \subseteq U
  <2> HIDE DEF U
  <2> QED BY <1>1, <1>2, SetInduction
<1> QED BY <1>3

-----------------------------------------------------------------------------
\* FlattenSeq, by its partial results.

IsFlattening(f, seqs) ==
  \A i \in DOMAIN f : f[i] = IF i = 1 THEN seqs[i] ELSE f[i - 1] \o seqs[i]

LEMMA FlatteningExists ==
  ASSUME NEW S, NEW seqs \in Seq(Seq(S))
  PROVE  \E f \in [1 .. Len(seqs) -> Seq(S)] : IsFlattening(f, seqs)
<1> DEFINE Has(k) == \E f \in [1 .. k -> Seq(S)] : IsFlattening(f, seqs)
           T == {k \in Nat : k <= Len(seqs) => Has(k)}
<1>1. 0 \in T
  <2>1. [i \in 1 .. 0 |-> <<>>] \in [1 .. 0 -> Seq(S)]
    OBVIOUS
  <2>2. IsFlattening([i \in 1 .. 0 |-> <<>>], seqs)
    BY DEF IsFlattening
  <2>3. Has(0)
    BY <2>1, <2>2
  <2> QED BY <2>3
<1>2. ASSUME NEW k \in Nat, k \in T
      PROVE  k + 1 \in T
  <2> SUFFICES ASSUME k + 1 <= Len(seqs) PROVE Has(k + 1)
    OBVIOUS
  <2>1. PICK f \in [1 .. k -> Seq(S)] : IsFlattening(f, seqs)
    BY <1>2
  <2>2. seqs[k + 1] \in Seq(S)
    OBVIOUS
  <2>3. PICK last : last = IF k = 0 THEN seqs[k + 1] ELSE f[k] \o seqs[k + 1]
    OBVIOUS
  <2>4. last \in Seq(S)
    BY <2>2, <2>3
  <2>5. PICK g : g = [i \in 1 .. k + 1 |-> IF i = k + 1 THEN last ELSE f[i]]
    OBVIOUS
  <2>6. g \in [1 .. k + 1 -> Seq(S)]
    BY <2>4, <2>5
  <2>7. ASSUME NEW i \in 1 .. k + 1
        PROVE  g[i] = IF i = 1 THEN seqs[i] ELSE g[i - 1] \o seqs[i]
    <3>1. CASE i = k + 1
      BY <2>3, <2>5, <3>1
    <3>2. CASE i # k + 1
      <4>1. i \in 1 .. k /\ (i # 1 => i - 1 \in 1 .. k + 1 /\ i - 1 # k + 1)
        BY <3>2
      <4>2. f[i] = IF i = 1 THEN seqs[i] ELSE f[i - 1] \o seqs[i]
        BY <2>1, <4>1 DEF IsFlattening
      <4> QED BY <2>5, <3>2, <4>1, <4>2
    <3> QED BY <3>1, <3>2
  <2>8. IsFlattening(g, seqs)
    BY <2>6, <2>7 DEF IsFlattening
  <2> QED BY <2>6, <2>8
<1>3. Nat \subseteq T
  <2> HIDE DEF T
  <2> QED BY <1>1, <1>2, SetInduction
<1> QED BY <1>3

\* There is only one.
LEMMA FlatteningUnique ==
  ASSUME NEW seqs, NEW n \in Nat, NEW f, NEW g,
         DOMAIN f = 1 .. n, DOMAIN g = 1 .. n, IsFlattening(f, seqs), IsFlattening(g, seqs)
  PROVE  \A i \in 1 .. n : f[i] = g[i]
<1> DEFINE T == {k \in Nat : k + 1 \in 1 .. n => f[k + 1] = g[k + 1]}
<1>0. ASSUME NEW i \in 1 .. n
      PROVE  /\ f[i] = IF i = 1 THEN seqs[i] ELSE f[i - 1] \o seqs[i]
             /\ g[i] = IF i = 1 THEN seqs[i] ELSE g[i - 1] \o seqs[i]
  <2>1. i \in DOMAIN f /\ i \in DOMAIN g
    OBVIOUS
  <2> QED BY <2>1 DEF IsFlattening
<1>1. 0 \in T
  <2>1. 1 \in 1 .. n => f[1] = seqs[1] /\ g[1] = seqs[1]
    BY <1>0
  <2> QED BY <2>1
<1>2. ASSUME NEW k \in Nat, k \in T
      PROVE  k + 1 \in T
  <2> SUFFICES ASSUME (k + 1) + 1 \in 1 .. n PROVE f[(k + 1) + 1] = g[(k + 1) + 1]
    OBVIOUS
  <2>1. PICK i : i = (k + 1) + 1
    OBVIOUS
  <2>2. i \in 1 .. n /\ i # 1 /\ i - 1 = k + 1 /\ i - 1 \in 1 .. n
    BY <2>1
  <2>3. f[i - 1] = g[i - 1]
    BY <1>2, <2>2
  <2>4. f[i] = f[i - 1] \o seqs[i] /\ g[i] = g[i - 1] \o seqs[i]
    BY <1>0, <2>2
  <2> QED BY <2>1, <2>3, <2>4
<1>3. Nat \subseteq T
  <2> HIDE DEF T
  <2> QED BY <1>1, <1>2, SetInduction
<1>4. ASSUME NEW i \in 1 .. n
      PROVE  f[i] = g[i]
  <2>1. i - 1 \in T /\ (i - 1) + 1 = i
    BY <1>3
  <2> QED BY <2>1
<1> QED BY <1>4

\* The result is the last of them.
LEMMA FlattenLast ==
  ASSUME NEW S, NEW seqs \in Seq(Seq(S)), seqs # <<>>,
         NEW f \in [1 .. Len(seqs) -> Seq(S)], IsFlattening(f, seqs)
  PROVE  FlattenSeq(seqs) = f[Len(seqs)]
<1> DEFINE n == Len(seqs)
           Step(g) == [i \in 1 .. n |-> IF i = 1 THEN seqs[i] ELSE g[i - 1] \o seqs[i]]
           flatten == CHOOSE g : g = Step(g)
<1>1. f = Step(f)
  BY DEF IsFlattening
<1>2. flatten = Step(flatten)
  <2> HIDE DEF Step
  <2> QED BY <1>1, Zenon
<1>3. DOMAIN flatten = 1 .. n /\ IsFlattening(flatten, seqs)
  <2>1. PICK g : g = flatten /\ g = Step(g)
    <3> HIDE DEF Step, flatten
    <3> QED BY <1>2, Zenon
  <2>2. g = Step(g)
    BY <2>1, Zenon
  <2>3. DOMAIN g = 1 .. n
    BY <2>2
  <2>4. \A i \in 1 .. n : g[i] = IF i = 1 THEN seqs[i] ELSE g[i - 1] \o seqs[i]
    BY <2>2
  <2>5. IsFlattening(g, seqs)
    <3> SUFFICES ASSUME NEW i \in DOMAIN g
                 PROVE  g[i] = IF i = 1 THEN seqs[i] ELSE g[i - 1] \o seqs[i]
      BY DEF IsFlattening
    <3> QED BY <2>3, <2>4
  <2> QED BY <2>1, <2>3, <2>5
<1>4. n \in Nat /\ n # 0 /\ n \in 1 .. n
  OBVIOUS
<1>5. flatten[n] = f[n]
  <2> HIDE DEF flatten
  <2> QED BY <1>3, <1>4, FlatteningUnique
<1>6. FlattenSeq(seqs) = flatten[n]
  BY <1>4 DEF FlattenSeq
<1> QED BY <1>5, <1>6

LEMMA FlattenType ==
  ASSUME NEW S, NEW seqs \in Seq(Seq(S))
  PROVE  FlattenSeq(seqs) \in Seq(S)
<1>1. CASE seqs = <<>>
  <2>1. FlattenSeq(seqs) = <<>>
    BY <1>1 DEF FlattenSeq
  <2> QED BY <2>1
<1>2. CASE seqs # <<>>
  <2>1. PICK f \in [1 .. Len(seqs) -> Seq(S)] : IsFlattening(f, seqs)
    BY FlatteningExists
  <2>2. FlattenSeq(seqs) = f[Len(seqs)] /\ Len(seqs) \in 1 .. Len(seqs)
    BY <1>2, <2>1, FlattenLast
  <2> QED BY <2>2
<1> QED BY <1>1, <1>2

LEMMA FlattenOne ==
  ASSUME NEW S, NEW seq \in Seq(S)
  PROVE  FlattenSeq(<<seq>>) = seq
<1>1. <<seq>> \in Seq(Seq(S)) /\ <<seq>> # <<>> /\ Len(<<seq>>) = 1 /\ <<seq>>[1] = seq
  OBVIOUS
<1>2. PICK f \in [1 .. Len(<<seq>>) -> Seq(S)] : IsFlattening(f, <<seq>>)
  BY <1>1, FlatteningExists
<1>3. FlattenSeq(<<seq>>) = f[Len(<<seq>>)]
  BY <1>1, <1>2, FlattenLast
<1>4. 1 \in DOMAIN f /\ f[1] = <<seq>>[1]
  BY <1>1, <1>2 DEF IsFlattening
<1> QED BY <1>1, <1>3, <1>4

\* Flattening takes concatenation to concatenation.
LEMMA FlattenConcat ==
  ASSUME NEW S, NEW a \in Seq(Seq(S)), NEW b \in Seq(Seq(S))
  PROVE  FlattenSeq(a \o b) = FlattenSeq(a) \o FlattenSeq(b)
<1>1. CASE a = <<>>
  <2>1. a \o b = b /\ FlattenSeq(a) = <<>>
    BY <1>1 DEF FlattenSeq
  <2>2. FlattenSeq(b) \in Seq(S)
    BY FlattenType
  <2> QED BY <2>1, <2>2
<1>2. CASE b = <<>>
  <2>1. a \o b = a /\ FlattenSeq(b) = <<>>
    BY <1>2 DEF FlattenSeq
  <2>2. FlattenSeq(a) \in Seq(S)
    BY FlattenType
  <2> QED BY <2>1, <2>2
<1>3. CASE a # <<>> /\ b # <<>>
  <2>1. PICK f \in [1 .. Len(a) -> Seq(S)] : IsFlattening(f, a)
    BY FlatteningExists
  <2>2. PICK g \in [1 .. Len(b) -> Seq(S)] : IsFlattening(g, b)
    BY FlatteningExists
  <2>3. FlattenSeq(a) = f[Len(a)] /\ FlattenSeq(b) = g[Len(b)]
    BY <1>3, <2>1, <2>2, FlattenLast
  <2>4. PICK m, n : m = Len(a) /\ n = Len(b)
    OBVIOUS
  <2>5. m \in Nat \ {0} /\ n \in Nat \ {0} /\ a \o b \in Seq(Seq(S)) /\ Len(a \o b) = m + n
        /\ a \o b # <<>>
    BY <1>3, <2>4
  <2>6. PICK h : h = [i \in 1 .. m + n |-> IF i <= m THEN f[i] ELSE f[m] \o g[i - m]]
    OBVIOUS
  <2>7. h \in [1 .. m + n -> Seq(S)]
    <3>1. f \in [1 .. m -> Seq(S)] /\ g \in [1 .. n -> Seq(S)]
      BY <2>4
    <3>2. ASSUME NEW i \in 1 .. m + n
          PROVE  (IF i <= m THEN f[i] ELSE f[m] \o g[i - m]) \in Seq(S)
      <4>1. CASE i <= m
        BY <2>5, <3>1, <4>1
      <4>2. CASE ~(i <= m)
        <5>1. f[m] \in Seq(S) /\ g[i - m] \in Seq(S)
          BY <2>5, <3>1, <4>2
        <5> QED BY <4>2, <5>1
      <4> QED BY <4>1, <4>2
    <3> QED BY <2>6, <3>2
  <2>8. ASSUME NEW i \in 1 .. m + n
        PROVE  h[i] = IF i = 1 THEN (a \o b)[i] ELSE h[i - 1] \o (a \o b)[i]
    <3>1. CASE i <= m
      <4>1. i \in DOMAIN f /\ (a \o b)[i] = a[i] /\ h[i] = f[i]
        BY <2>4, <2>5, <2>6, <3>1
      <4>2. f[i] = IF i = 1 THEN a[i] ELSE f[i - 1] \o a[i]
        BY <2>1, <4>1 DEF IsFlattening
      <4>3. i # 1 => h[i - 1] = f[i - 1]
        BY <2>5, <2>6, <3>1
      <4> QED BY <4>1, <4>2, <4>3
    <3>2. CASE i = m + 1
      <4>1. h[i] = f[m] \o g[1] /\ h[i - 1] = f[m] /\ i # 1
        <5>1. /\ i \in 1 .. m + n /\ ~(i <= m) /\ i - m = 1 /\ i - 1 = m /\ i # 1
              /\ m \in 1 .. m + n
          BY <2>5, <3>2
        <5>2. h[i] = f[m] \o g[i - m]
          BY <2>6, <5>1, Zenon
        <5>3. h[i - 1] = f[m]
          <6>1. m <= m
            BY <2>5
          <6> QED BY <2>6, <5>1, <6>1
        <5> QED BY <5>1, <5>2, <5>3
      <4>3. (a \o b)[i] = b[1] /\ 1 \in DOMAIN g
        BY <2>4, <2>5, <3>2
      <4>2. g[1] = b[1]
        BY <2>2, <4>3 DEF IsFlattening
      <4> QED BY <4>1, <4>2, <4>3
    <3>3. CASE i > m + 1
      <4>1. PICK j : j = i - m
        OBVIOUS
      <4>2. j \in 1 .. n /\ j # 1 /\ j - 1 \in 1 .. n /\ i - 1 \in 1 .. m + n /\ ~(i - 1 <= m)
            /\ (i - 1) - m = j - 1 /\ m \in 1 .. m
        BY <2>5, <3>3, <4>1
      <4>3. h[i] = f[m] \o g[j]
        <5>1. ~(i <= m)
          BY <2>5, <3>3
        <5>2. h[i] = f[m] \o g[i - m]
          BY <2>6, <5>1, Zenon
        <5> QED BY <4>1, <5>2
      <4>4. h[i - 1] = f[m] \o g[j - 1]
        BY <2>6, <4>2
      <4>5. (a \o b)[i] = b[j]
        BY <2>4, <2>5, <3>3, <4>1, <4>2
      <4>6. g[j] = g[j - 1] \o b[j]
        <5>1. j \in DOMAIN g
          BY <2>4, <4>2
        <5> QED BY <2>2, <4>2, <5>1 DEF IsFlattening
      <4>7. PICK x, y, z : x = f[m] /\ y = g[j - 1] /\ z = b[j]
        OBVIOUS
      <4>8. x \in Seq(S) /\ y \in Seq(S) /\ z \in Seq(S)
        <5>1. f \in [1 .. m -> Seq(S)] /\ g \in [1 .. n -> Seq(S)] /\ b \in [1 .. n -> Seq(S)]
          BY <2>4
        <5> QED BY <4>2, <4>7, <5>1
      <4>9. (x \o y) \o z = x \o (y \o z)
        BY <4>8, ConcatAssociative, SMTT(40)
      <4>10. h[i] = h[i - 1] \o (a \o b)[i]
        <5>1. h[i] = x \o (y \o z)
          BY <4>3, <4>6, <4>7
        <5>2. h[i - 1] \o (a \o b)[i] = (x \o y) \o z
          BY <4>4, <4>5, <4>7, Zenon
        <5> QED BY <4>9, <5>1, <5>2, Zenon
      <4>11. i # 1
        BY <2>5, <3>3
      <4> QED BY <4>10, <4>11
    <3>4. i <= m \/ i = m + 1 \/ i > m + 1
      BY <2>5
    <3> QED BY <3>1, <3>2, <3>3, <3>4
  <2>9. IsFlattening(h, a \o b)
    <3>1. DOMAIN h = 1 .. m + n
      BY <2>7
    <3> QED BY <2>8, <3>1 DEF IsFlattening
  <2>10. FlattenSeq(a \o b) = h[m + n]
    <3>1. h \in [1 .. Len(a \o b) -> Seq(S)]
      BY <2>5, <2>7
    <3>2. FlattenSeq(a \o b) = h[Len(a \o b)]
      BY <2>5, <2>9, <3>1, FlattenLast
    <3> QED BY <2>5, <3>2
  <2>11. h[m + n] = f[m] \o g[n]
    <3>1. m + n \in 1 .. m + n /\ ~(m + n <= m) /\ (m + n) - m = n
      BY <2>5
    <3> QED BY <2>6, <3>1
  <2> QED BY <2>3, <2>4, <2>10, <2>11
<1> QED BY <1>1, <1>2, <1>3
==============================================================================
