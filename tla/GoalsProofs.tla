----------------------------- MODULE GoalsProofs ------------------------------
(***************************************************************************)
(* The goals and the braces of the proof engine: its variables have their  *)
(* types (TypeOK), no goal is lost or shown twice (GoalsAccounted), and    *)
(* braces match (BracesMatch); the last two when no interrupt arrives.     *)
(*                                                                         *)
(* The three are about lists that the code filters and concatenates.  What *)
(* a recursive function computes is shown by induction over a set: the set *)
(* of the arguments for which the claim holds.  A state of the proof comes *)
(* from a step or from an undo action, of the undo stack or of an open     *)
(* transaction: ProofOver(S, A) says which states those are, and StepsOver *)
(* that the steps stay there.                                              *)
(***************************************************************************)
EXTENDS FocusProofs

-----------------------------------------------------------------------------
(* Induction, on numbers and on lists.                                     *)

LEMMA NatClosed ==
  ASSUME NEW S, 0 \in S, \A n \in Nat : n \in S => n + 1 \in S
  PROVE  \A n \in Nat : n \in S
  <1> DEFINE D == Nat \ S
  <1>1. ASSUME D # {} PROVE FALSE
    <2>1. PICK m \in D : \A k \in D : <<k, m>> \notin OpToRel(<, Nat)
      BY <1>1, NatLessThanWellFounded, WFMin
    <2>2. m \in Nat \ {0}
      BY <2>1
    <2>3. m - 1 \in Nat /\ m - 1 < m /\ (m - 1) + 1 = m
      BY <2>2
    <2>4. <<m - 1, m>> \in OpToRel(<, Nat)
      BY <2>2, <2>3 DEF OpToRel
    <2>5. m - 1 \in S
      BY <2>1, <2>3, <2>4
    <2> QED BY <2>1, <2>3, <2>5
  <1> QED BY <1>1

\* The same up to a bound
LEMMA UpTo ==
  ASSUME NEW b \in Nat, NEW S, 0 \in S, \A n \in 1..b : n - 1 \in S => n \in S
  PROVE  \A n \in 0..b : n \in S
  <1> DEFINE T == {n \in Nat : n <= b => n \in S}
  <1>1. 0 \in T
    OBVIOUS
  <1>2. ASSUME NEW n \in Nat, n \in T PROVE n + 1 \in T
    <2>1. CASE n + 1 <= b
      <3>1. n + 1 \in 1..b /\ (n + 1) - 1 = n /\ n <= b
        BY <2>1
      <3> QED BY <1>2, <3>1
    <2> QED BY <2>1
  <1> HIDE DEF T
  <1>3. \A n \in Nat : n \in T
    BY <1>1, <1>2, NatClosed
  <1> QED BY <1>3 DEF T

LEMMA FrontAndLast ==
  ASSUME NEW E, NEW l \in Seq(E), l # <<>>
  PROVE  /\ Front(l) \in Seq(E) /\ Len(Front(l)) = Len(l) - 1 /\ Last(l) \in E
         /\ l = Append(Front(l), Last(l))
         /\ Last(l) = l[Len(l)]
         /\ \A i \in 1..(Len(l) - 1) : Front(l)[i] = l[i]
  <1> DEFINE f == Front(l)
             a == Append(f, Last(l))
  <1>1. Len(l) \in Nat \ {0} /\ DOMAIN l = 1..Len(l)
    BY EmptySeq, LenProperties
  <1>2. \A i \in 1..Len(l) : l[i] \in E
    BY ElementOfSeq
  <1>3. Last(l) \in E /\ Last(l) = l[Len(l)]
    BY <1>1, <1>2 DEF Last
  <1>4. /\ f \in Seq(E) /\ Len(f) = Len(l) - 1
        /\ \A i \in 1..(Len(l) - 1) : f[i] = l[i]
    <2>1. 1 \in Int /\ Len(l) - 1 \in Int /\ \A i \in 1..(Len(l) - 1) : l[i] \in E
      BY <1>1, <1>2
    <2> QED BY <1>1, <2>1, SubSeqProperties DEF Front
  <1> HIDE DEF f
  <1>5. /\ a \in Seq(E) /\ Len(a) = Len(f) + 1 /\ a[Len(f) + 1] = Last(l)
        /\ \A i \in 1..Len(f) : a[i] = f[i]
    BY <1>3, <1>4, AppendProperties
  <1> HIDE DEF a
  <1>6. Len(a) = Len(l) /\ \A i \in 1..Len(l) : a[i] = l[i]
    <2>1. Len(a) = Len(l) /\ a[Len(l)] = l[Len(l)]
      BY <1>1, <1>3, <1>4, <1>5
    <2>2. \A n \in Nat : \A i \in 1..n : i = n \/ i \in 1..(n - 1)
      OBVIOUS
    <2>3. \A i \in 1..Len(l) : i = Len(l) \/ i \in 1..(Len(l) - 1)
      BY <1>1, <2>2
    <2> QED BY <1>4, <1>5, <2>1, <2>3
  <1>7. a = l
    BY <1>5, <1>6, SeqEqual
  <1> QED BY <1>3, <1>4, <1>7 DEF a, f

LEMMA FrontOfAppend ==
  ASSUME NEW E, NEW l \in Seq(E), NEW x \in E
  PROVE  Front(Append(l, x)) = l /\ Last(Append(l, x)) = x
  <1> DEFINE m == Append(l, x)
             n == Len(l)
  <1>1. /\ m \in Seq(E) /\ m # <<>> /\ Len(m) = n + 1 /\ m[n + 1] = x
        /\ \A i \in 1..n : m[i] = l[i]
    BY AppendProperties
  <1>2. n \in Nat
    BY LenProperties
  <1> HIDE DEF m
  <1>3. /\ Front(m) \in Seq(E) /\ Len(Front(m)) = Len(m) - 1
        /\ Last(m) = m[Len(m)]
        /\ \A i \in 1..(Len(m) - 1) : Front(m)[i] = m[i]
    BY <1>1, FrontAndLast
  <1>4. Len(m) - 1 = n
    BY <1>1, <1>2
  <1>5. Front(m) = l
    BY <1>1, <1>3, <1>4, SeqEqual
  <1> QED BY <1>1, <1>3, <1>5 DEF m

\* Lists are made by adding elements at the end.
LEMMA ListsClosed ==
  ASSUME NEW E, NEW Q, <<>> \in Q,
         \A l \in Seq(E), x \in E : l \in Q => Append(l, x) \in Q
  PROVE  \A l \in Seq(E) : l \in Q
  <1> DEFINE T == {n \in Nat : \A l \in Seq(E) : Len(l) = n => l \in Q}
  <1>1. 0 \in T
    BY EmptySeq
  <1>2. ASSUME NEW n \in Nat, n \in T PROVE n + 1 \in T
    <2>1. ASSUME NEW l \in Seq(E), Len(l) = n + 1 PROVE l \in Q
      <3>1. l # <<>>
        BY <2>1, EmptySeq
      <3>2. Front(l) \in Seq(E) /\ Len(Front(l)) = n /\ Last(l) \in E
        BY <2>1, <3>1, FrontAndLast
      <3>3. l = Append(Front(l), Last(l))
        BY <2>1, <3>1, FrontAndLast
      <3>4. Front(l) \in Q
        BY <1>2, <3>2
      <3>5. Append(Front(l), Last(l)) \in Q
        BY <3>2, <3>4
      <3> QED BY <3>3, <3>5
    <2> QED BY <2>1
  <1> HIDE DEF T
  <1>3. \A n \in Nat : n \in T
    BY <1>1, <1>2, NatClosed
  <1>4. ASSUME NEW l \in Seq(E) PROVE l \in Q
    <2>1. Len(l) \in Nat
      BY LenProperties
    <2> QED BY <1>3, <2>1 DEF T
  <1> QED BY <1>4
-----------------------------------------------------------------------------
(* List.filter.                                                            *)

\* f holds the filtered prefixes of l, up to the length b
Filters(f, l, S, b) ==
  f = [i \in 0..b |->
         IF i = 0 THEN <<>> ELSE IF l[i] \in S THEN Append(f[i - 1], l[i]) ELSE f[i - 1]]

LEMMA FiltersExist ==
  ASSUME NEW l, NEW S, NEW b \in Nat
  PROVE  \E f : Filters(f, l, S, b)
  <1> DEFINE T == {n \in Nat : \E f : Filters(f, l, S, n)}
  <1>1. 0 \in T
    <2> DEFINE f == [i \in 0..0 |-> <<>>]
    <2>1. Filters(f, l, S, 0)
      BY DEF Filters
    <2> QED BY <2>1
  <1>2. ASSUME NEW n \in Nat, n \in T PROVE n + 1 \in T
    <2>1. PICK f : Filters(f, l, S, n)
      BY <1>2
    <2> DEFINE z == IF l[n + 1] \in S THEN Append(f[n], l[n + 1]) ELSE f[n]
               h == [i \in 0 .. n + 1 |-> IF i = n + 1 THEN z ELSE f[i]]
    <2>2. \A i \in 0..n : f[i] = IF i = 0 THEN <<>>
                                 ELSE IF l[i] \in S THEN Append(f[i - 1], l[i]) ELSE f[i - 1]
      BY <2>1, Zenon DEF Filters
    <2>3. h[n] = f[n]
      OBVIOUS
    <2>4. ASSUME NEW i \in 0 .. n + 1
          PROVE  h[i] = IF i = 0 THEN <<>>
                        ELSE IF l[i] \in S THEN Append(h[i - 1], l[i]) ELSE h[i - 1]
      <3>1. CASE i = n + 1
        <4>1. h[i] = z /\ i # 0 /\ i - 1 = n
          BY <3>1
        <4> HIDE DEF h
        <4> QED BY <2>3, <3>1, <4>1
      <3>2. CASE i # n + 1
        <4>1. i \in 0..n /\ h[i] = f[i]
          BY <3>2
        <4>2. i # 0 => h[i - 1] = f[i - 1]
          BY <4>1
        <4> HIDE DEF h
        <4> QED BY <2>2, <4>1, <4>2
      <3> QED BY <3>1, <3>2
    <2>5. Filters(h, l, S, n + 1)
      <3>1. h = [i \in 0 .. n + 1 |-> h[i]]
        BY Zenon
      <3> HIDE DEF h
      <3> QED BY <2>4, <3>1, Zenon DEF Filters
    <2> QED BY <2>5
  <1> HIDE DEF T
  <1>3. b \in T
    BY <1>1, <1>2, NatClosed
  <1> QED BY <1>3 DEF T

LEMMA FilterIs ==
  ASSUME NEW l, NEW S, Len(l) \in Nat
  PROVE  \E f : /\ Filter(l, S) = f[Len(l)]
                /\ f[0] = <<>>
                /\ \A i \in 1..Len(l) :
                     f[i] = IF l[i] \in S THEN Append(f[i - 1], l[i]) ELSE f[i - 1]
  <1> DEFINE n == Len(l)
             f == CHOOSE f : Filters(f, l, S, n)
  <1>1. Filters(f, l, S, n)
    BY FiltersExist
  <1>2. Filter(l, S) = f[n]
    BY DEF Filter, Filters
  <1> HIDE DEF f
  <1>3. \A i \in 0..n : f[i] = IF i = 0 THEN <<>>
                               ELSE IF l[i] \in S THEN Append(f[i - 1], l[i]) ELSE f[i - 1]
    BY <1>1, Zenon DEF Filters
  <1>4. 0 \in 0..n /\ \A i \in 1..n : i \in 0..n /\ i # 0
    OBVIOUS
  <1>5. f[0] = <<>>
    BY <1>3, <1>4
  <1>6. \A i \in 1..n : f[i] = IF l[i] \in S THEN Append(f[i - 1], l[i]) ELSE f[i - 1]
    BY <1>3, <1>4
  <1> QED BY <1>2, <1>5, <1>6

\* Filtering looks at each element once, in order.
LEMMA FilterEmpty ==
  ASSUME NEW S
  PROVE  Filter(<<>>, S) = <<>>
  <1>1. Len(<<>>) = 0
    OBVIOUS
  <1> QED BY <1>1, FilterIs

LEMMA FilterAppend ==
  ASSUME NEW E, NEW l \in Seq(E), NEW x \in E, NEW S
  PROVE  Filter(Append(l, x), S) = IF x \in S THEN Append(Filter(l, S), x) ELSE Filter(l, S)
  <1> DEFINE m == Append(l, x)
             n == Len(l)
  <1>1. /\ n \in Nat /\ Len(m) = n + 1 /\ m[n + 1] = x
        /\ \A i \in 1..n : m[i] = l[i]
    BY AppendProperties, LenProperties
  <1> HIDE DEF m, n
  <1>2. PICK f : /\ Filter(l, S) = f[n]
                 /\ f[0] = <<>>
                 /\ \A i \in 1..n : f[i] = IF l[i] \in S THEN Append(f[i - 1], l[i]) ELSE f[i - 1]
    BY <1>1, FilterIs DEF n
  <1>3. PICK h : /\ Filter(m, S) = h[n + 1]
                 /\ h[0] = <<>>
                 /\ \A i \in 1 .. n + 1 :
                      h[i] = IF m[i] \in S THEN Append(h[i - 1], m[i]) ELSE h[i - 1]
    BY <1>1, FilterIs
  <1>4. \A i \in 0..n : h[i] = f[i]
    <2> DEFINE T == {i \in 0..n : h[i] = f[i]}
    <2>1. 0 \in T
      BY <1>1, <1>2, <1>3
    <2>2. ASSUME NEW i \in 1..n, i - 1 \in T PROVE i \in T
      <3>1. i \in 1 .. n + 1 /\ i \in 0..n
        BY <1>1
      <3>2. h[i - 1] = f[i - 1] /\ m[i] = l[i]
        BY <1>1, <2>2
      <3>3. h[i] = f[i]
        BY <1>2, <1>3, <3>1, <3>2
      <3> QED BY <3>1, <3>3
    <2> HIDE DEF T
    <2>3. \A i \in 0..n : i \in T
      BY <1>1, <2>1, <2>2, UpTo
    <2> QED BY <2>3 DEF T
  <1>5. n + 1 \in 1 .. n + 1 /\ (n + 1) - 1 = n /\ n \in 0..n
    BY <1>1
  <1>6. h[n + 1] = IF x \in S THEN Append(h[n], x) ELSE h[n]
    BY <1>1, <1>3, <1>5
  <1>7. h[n] = f[n]
    BY <1>4, <1>5
  <1> QED BY <1>2, <1>3, <1>6, <1>7 DEF m, n

LEMMA FilterIsSeq ==
  ASSUME NEW E, NEW l \in Seq(E), NEW S
  PROVE  Filter(l, S) \in Seq(E \intersect S) /\ Filter(l, S) \in Seq(E)
  <1> DEFINE Q == {k \in Seq(E) : Filter(k, S) \in Seq(E \intersect S)}
  <1>1. <<>> \in Q
    BY FilterEmpty, EmptySeq
  <1>2. ASSUME NEW k \in Seq(E), NEW x \in E, k \in Q PROVE Append(k, x) \in Q
    <2>1. Append(k, x) \in Seq(E)
      BY AppendProperties
    <2>2. Filter(k, S) \in Seq(E \intersect S)
      BY <1>2
    <2>3. Filter(Append(k, x), S) = IF x \in S THEN Append(Filter(k, S), x) ELSE Filter(k, S)
      BY FilterAppend
    <2>4. x \in S => Append(Filter(k, S), x) \in Seq(E \intersect S)
      BY <2>2, AppendProperties
    <2> QED BY <2>1, <2>2, <2>3, <2>4
  <1> HIDE DEF Q
  <1>3. l \in Q
    BY <1>1, <1>2, ListsClosed
  <1>4. Seq(E \intersect S) \subseteq Seq(E)
    BY SeqMonotonic
  <1> QED BY <1>3, <1>4 DEF Q
-----------------------------------------------------------------------------
(* How often a goal is in a list.                                          *)

LEMMA OccurrencesEmpty ==
  ASSUME NEW g
  PROVE  Occurrences(g, <<>>) = 0
  <1>1. {i \in DOMAIN <<>> : <<>>[i] = g} = {}
    BY EmptySeq, LenProperties
  <1> QED BY <1>1, FS_EmptySet, Zenon DEF Occurrences

LEMMA OccurrencesAppend ==
  ASSUME NEW E, NEW l \in Seq(E), NEW x \in E, NEW g
  PROVE  /\ Occurrences(g, l) \in Nat
         /\ Occurrences(g, Append(l, x))
              = IF x = g THEN Occurrences(g, l) + 1 ELSE Occurrences(g, l)
  <1> DEFINE n == Len(l)
             m == Append(l, x)
             D == {i \in 1..n : l[i] = g}
             F == {i \in 1 .. n + 1 : m[i] = g}
  <1>1. /\ n \in Nat /\ Len(m) = n + 1 /\ m[n + 1] = x /\ m \in Seq(E)
        /\ \A i \in 1..n : m[i] = l[i]
    BY AppendProperties, LenProperties
  <1>2. DOMAIN l = 1..n /\ DOMAIN m = 1 .. n + 1
    BY <1>1, LenProperties
  <1>3. Occurrences(g, l) = Cardinality(D) /\ Occurrences(g, m) = Cardinality(F)
    BY <1>2 DEF Occurrences
  <1> HIDE DEF m, n
  <1>4. IsFiniteSet(D) /\ n + 1 \notin D
    <2>1. IsFiniteSet(1..n)
      BY <1>1, FS_Interval
    <2>2. D \in SUBSET (1..n) /\ n + 1 \notin 1..n
      BY <1>1
    <2> QED BY <2>1, <2>2, FS_Subset
  <1>5. F = IF x = g THEN D \union {n + 1} ELSE D
    <2>1. \A i : i \in 1 .. n + 1 <=> i \in 1..n \/ i = n + 1
      BY <1>1
    <2>2. \A i \in 1..n : i # n + 1
      BY <1>1
    <2> QED BY <1>1, <2>1, <2>2
  <1>6. Cardinality(D) \in Nat
    BY <1>4, FS_CardinalityType
  <1> HIDE DEF D, F
  <1>7. Cardinality(D \union {n + 1}) = Cardinality(D) + 1
    BY <1>4, FS_AddElement
  <1> QED BY <1>3, <1>5, <1>6, <1>7 DEF m

LEMMA OccurrencesIsNat ==
  ASSUME NEW E, NEW l \in Seq(E), NEW g
  PROVE  Occurrences(g, l) \in Nat
  <1>1. CASE l = <<>>
    BY <1>1, OccurrencesEmpty
  <1>2. CASE l # <<>>
    <2>1. PICK k \in Seq(E), x \in E : l = Append(k, x)
      BY <1>2, SequenceEmptyOrAppend
    <2>2. /\ Occurrences(g, k) \in Nat
          /\ Occurrences(g, l) = IF x = g THEN Occurrences(g, k) + 1 ELSE Occurrences(g, k)
      BY <2>1, OccurrencesAppend
    <2> QED BY <2>2
  <1> QED BY <1>1, <1>2

LEMMA OccurrencesConcat ==
  ASSUME NEW E, NEW a \in Seq(E), NEW b \in Seq(E), NEW g
  PROVE  Occurrences(g, a \o b) = Occurrences(g, a) + Occurrences(g, b)
  <1> DEFINE Q == {k \in Seq(E) : Occurrences(g, a \o k) = Occurrences(g, a) + Occurrences(g, k)}
  <1>1. <<>> \in Q
    <2>1. a \o <<>> = a /\ <<>> \in Seq(E)
      BY ConcatEmptySeq, EmptySeq
    <2>2. Occurrences(g, a) \in Nat
      BY OccurrencesIsNat
    <2>3. Occurrences(g, a \o <<>>) = Occurrences(g, a) + Occurrences(g, <<>>)
      BY <2>1, <2>2, OccurrencesEmpty
    <2> QED BY <2>1, <2>3
  <1>2. ASSUME NEW k \in Seq(E), NEW x \in E, k \in Q PROVE Append(k, x) \in Q
    <2>1. a \o Append(k, x) = Append(a \o k, x)
      <3>1. <<x>> \in Seq(E) /\ a \o k \in Seq(E)
        BY ConcatProperties
      <3>2. Append(k, x) = k \o <<x>> /\ Append(a \o k, x) = (a \o k) \o <<x>>
        BY <3>1, AppendIsConcat
      <3>3. a \o (k \o <<x>>) = (a \o k) \o <<x>>
        BY <3>1, ConcatAssociative
      <3> QED BY <3>2, <3>3
    <2>2. a \o k \in Seq(E) /\ Append(k, x) \in Seq(E)
      BY ConcatProperties, AppendProperties
    <2> DEFINE d == IF x = g THEN 1 ELSE 0
    <2>3. Occurrences(g, Append(k, x)) = Occurrences(g, k) + d
      <3>1. Occurrences(g, k) \in Nat
        BY OccurrencesIsNat
      <3> QED BY <3>1, OccurrencesAppend
    <2>4. Occurrences(g, Append(a \o k, x)) = Occurrences(g, a \o k) + d
      <3> DEFINE c == a \o k
      <3>1. c \in Seq(E)
        BY <2>2
      <3> HIDE DEF c
      <3>2. Occurrences(g, c) \in Nat
        BY <3>1, OccurrencesIsNat
      <3>3. Occurrences(g, Append(c, x)) = Occurrences(g, c) + d
        BY <3>1, <3>2, OccurrencesAppend
      <3> QED BY <3>3 DEF c
    <2>5. Occurrences(g, a) \in Nat /\ Occurrences(g, k) \in Nat /\ d \in Nat
      BY OccurrencesIsNat
    <2>6. Occurrences(g, a \o k) = Occurrences(g, a) + Occurrences(g, k)
      BY <1>2
    <2> HIDE DEF d
    <2>7. Occurrences(g, a \o Append(k, x)) = Occurrences(g, a) + Occurrences(g, Append(k, x))
      BY <2>1, <2>3, <2>4, <2>5, <2>6
    <2> QED BY <2>2, <2>7
  <1> HIDE DEF Q
  <1>3. b \in Q
    BY <1>1, <1>2, ListsClosed
  <1> QED BY <1>3 DEF Q

\* A list without the goal
LEMMA OccurrencesNone ==
  ASSUME NEW E, NEW l \in Seq(E), NEW g, g \notin E
  PROVE  Occurrences(g, l) = 0
  <1>1. DOMAIN l = 1..Len(l) /\ \A i \in 1..Len(l) : l[i] \in E
    BY LenProperties, ElementOfSeq
  <1>2. {i \in DOMAIN l : l[i] = g} = {}
    BY <1>1
  <1> QED BY <1>2, FS_EmptySet, Zenon DEF Occurrences

\* A list that has the goal at one place
LEMMA OccurrencesOne ==
  ASSUME NEW l, NEW g, NEW k \in DOMAIN l, \A i \in DOMAIN l : l[i] = g <=> i = k
  PROVE  Occurrences(g, l) = 1
  <1>1. {i \in DOMAIN l : l[i] = g} = {k}
    OBVIOUS
  <1> QED BY <1>1, FS_Singleton, Zenon DEF Occurrences

\* Filtering neither loses nor adds what it keeps.
LEMMA OccurrencesFilter ==
  ASSUME NEW E, NEW l \in Seq(E), NEW S, NEW g
  PROVE  Occurrences(g, Filter(l, S)) = IF g \in S THEN Occurrences(g, l) ELSE 0
  <1>1. CASE g \notin S
    <2>1. Filter(l, S) \in Seq(E \intersect S) /\ g \notin E \intersect S
      BY <1>1, FilterIsSeq
    <2>2. Occurrences(g, Filter(l, S)) = 0
      BY <2>1, OccurrencesNone
    <2> QED BY <1>1, <2>2
  <1>2. CASE g \in S
    <2> DEFINE Q == {k \in Seq(E) : Occurrences(g, Filter(k, S)) = Occurrences(g, k)}
    <2>1. <<>> \in Q
      BY FilterEmpty, EmptySeq
    <2>2. ASSUME NEW k \in Seq(E), NEW x \in E, k \in Q PROVE Append(k, x) \in Q
      <3>1. Append(k, x) \in Seq(E)
        BY AppendProperties
      <3>2. Filter(k, S) \in Seq(E)
        BY FilterIsSeq
      <3>3. Filter(Append(k, x), S) = IF x \in S THEN Append(Filter(k, S), x) ELSE Filter(k, S)
        BY FilterAppend
      <3>4. Occurrences(g, Append(k, x))
              = IF x = g THEN Occurrences(g, k) + 1 ELSE Occurrences(g, k)
        BY OccurrencesAppend
      <3>5. Occurrences(g, Append(Filter(k, S), x))
              = IF x = g THEN Occurrences(g, Filter(k, S)) + 1 ELSE Occurrences(g, Filter(k, S))
        BY <3>2, OccurrencesAppend
      <3>6. Occurrences(g, Filter(k, S)) = Occurrences(g, k)
        BY <2>2
      <3>7. Occurrences(g, Filter(Append(k, x), S)) = Occurrences(g, Append(k, x))
        BY <1>2, <3>3, <3>4, <3>5, <3>6
      <3> QED BY <3>1, <3>7
    <2> HIDE DEF Q
    <2>3. l \in Q
      BY <2>1, <2>2, ListsClosed
    <2> QED BY <1>2, <2>3 DEF Q
  <1> QED BY <1>1, <1>2
-----------------------------------------------------------------------------
(* unroll_focus: the goals of a state once every focus is left.            *)

\* The lists of goals around the focused ones have their elements in E.
Around(s, E) ==
  \A i \in 1..Len(s.focus) : s.focus[i].left \in Seq(E) /\ s.focus[i].right \in Seq(E)

\* One focus left: that at depth k, the last one at depth 1
Layer(s, k) == s.focus[Len(s.focus) + 1 - k]
Peeled(s, k, l) == Undefined(s, Layer(s, k).left \o l \o Layer(s, k).right)

\* v holds the views of s with its last focuses left, up to b of them
Unrolls(v, s, b) == v = [k \in 0..b |-> IF k = 0 THEN s.comb ELSE Peeled(s, k, v[k - 1])]

LEMMA UnrollsExist ==
  ASSUME NEW s, NEW b \in Nat
  PROVE  \E v : Unrolls(v, s, b)
  <1> DEFINE T == {n \in Nat : \E v : Unrolls(v, s, n)}
  <1>1. 0 \in T
    <2> DEFINE v == [k \in 0..0 |-> s.comb]
    <2>1. Unrolls(v, s, 0)
      BY DEF Unrolls
    <2> QED BY <2>1
  <1>2. ASSUME NEW n \in Nat, n \in T PROVE n + 1 \in T
    <2>1. PICK v : Unrolls(v, s, n)
      BY <1>2
    <2> DEFINE z == Peeled(s, n + 1, v[n])
               w == [k \in 0 .. n + 1 |-> IF k = n + 1 THEN z ELSE v[k]]
    <2>2. \A k \in 0..n : v[k] = IF k = 0 THEN s.comb ELSE Peeled(s, k, v[k - 1])
      BY <2>1, Zenon DEF Unrolls
    <2>3. w[n] = v[n]
      OBVIOUS
    <2>4. ASSUME NEW k \in 0 .. n + 1
          PROVE  w[k] = IF k = 0 THEN s.comb ELSE Peeled(s, k, w[k - 1])
      <3>1. CASE k = n + 1
        <4>1. w[k] = z /\ k # 0 /\ k - 1 = n
          BY <3>1
        <4> HIDE DEF w
        <4> QED BY <2>3, <3>1, <4>1
      <3>2. CASE k # n + 1
        <4>1. k \in 0..n /\ w[k] = v[k]
          BY <3>2
        <4>2. k # 0 => w[k - 1] = v[k - 1]
          BY <4>1
        <4> HIDE DEF w
        <4> QED BY <2>2, <4>1, <4>2
      <3> QED BY <3>1, <3>2
    <2>5. Unrolls(w, s, n + 1)
      <3>1. w = [k \in 0 .. n + 1 |-> w[k]]
        BY Zenon
      <3> HIDE DEF w
      <3> QED BY <2>4, <3>1, Zenon DEF Unrolls
    <2> QED BY <2>5
  <1> HIDE DEF T
  <1>3. b \in T
    BY <1>1, <1>2, NatClosed
  <1> QED BY <1>3 DEF T

LEMMA UnrolledIs ==
  ASSUME NEW s, Len(s.focus) \in Nat
  PROVE  \E v : /\ Unrolled(s) = v[Len(s.focus)]
                /\ v[0] = s.comb
                /\ \A k \in 1..Len(s.focus) : v[k] = Peeled(s, k, v[k - 1])
  <1> DEFINE n == Len(s.focus)
             v == CHOOSE v : Unrolls(v, s, n)
  <1>1. Unrolls(v, s, n)
    BY UnrollsExist
  <1>2. Unrolled(s) = v[n]
    BY DEF Unrolled, Unrolls, Peeled, Layer
  <1> HIDE DEF v
  <1>3. \A k \in 0..n : v[k] = IF k = 0 THEN s.comb ELSE Peeled(s, k, v[k - 1])
    BY <1>1, Zenon DEF Unrolls
  <1>4. 0 \in 0..n /\ \A k \in 1..n : k \in 0..n /\ k # 0
    OBVIOUS
  <1>5. v[0] = s.comb
    BY <1>3, <1>4
  <1>6. \A k \in 1..n : v[k] = Peeled(s, k, v[k - 1])
    BY <1>3, <1>4
  <1> QED BY <1>2, <1>5, <1>6

\* Leaving one focus adds what is around.
LEMMA PeeledCounts ==
  ASSUME NEW E, NEW s, Len(s.focus) \in Nat, Around(s, E), NEW k \in 1..Len(s.focus),
         NEW l \in Seq(E)
  PROVE  /\ Peeled(s, k, l) \in Seq(E)
         /\ \A g \in s.goals :
              Occurrences(g, Peeled(s, k, l))
                = Occurrences(g, Layer(s, k).left) + Occurrences(g, l)
                    + Occurrences(g, Layer(s, k).right)
  <1> DEFINE a == Layer(s, k).left
             b == Layer(s, k).right
             n == Len(s.focus)
             m == (a \o l) \o b
  <1>1. a \in Seq(E) /\ b \in Seq(E)
    <2>1. n + 1 - k \in 1..n
      OBVIOUS
    <2> QED BY <2>1 DEF Around, Layer
  <1> HIDE DEF a, b, n
  <1>2. a \o l \in Seq(E) /\ m \in Seq(E)
    BY <1>1, ConcatProperties
  <1>3. Peeled(s, k, l) = Filter(m, s.goals)
    BY DEF Peeled, Undefined, a, b
  <1>4. Peeled(s, k, l) \in Seq(E)
    BY <1>2, <1>3, FilterIsSeq
  <1>5. ASSUME NEW g \in s.goals
        PROVE  Occurrences(g, Peeled(s, k, l))
                 = Occurrences(g, a) + Occurrences(g, l) + Occurrences(g, b)
    <2>1. Occurrences(g, Filter(m, s.goals)) = Occurrences(g, m)
      <3> HIDE DEF m
      <3> QED BY <1>2, OccurrencesFilter
    <2>2. Occurrences(g, m) = Occurrences(g, a \o l) + Occurrences(g, b)
      BY <1>1, <1>2, OccurrencesConcat
    <2>3. Occurrences(g, a \o l) = Occurrences(g, a) + Occurrences(g, l)
      BY <1>1, OccurrencesConcat
    <2> QED BY <1>3, <2>1, <2>2, <2>3
  <1> QED BY <1>4, <1>5 DEF a, b

\* Two states with the same focus stack
Alike(s, t, E) ==
  /\ t.focus = s.focus /\ Len(s.focus) \in Nat /\ Around(s, E)
  /\ s.comb \in Seq(E) /\ t.comb \in Seq(E)

\* What is around counts the same for every view.
LEMMA SameViews ==
  ASSUME NEW E, NEW s, NEW t, Alike(s, t, E),
         NEW g, g \in s.goals, g \in t.goals, Occurrences(g, t.comb) = Occurrences(g, s.comb)
  PROVE  Occurrences(g, Unrolled(t)) = Occurrences(g, Unrolled(s))
  <1> DEFINE n == Len(s.focus)
  <1> USE DEF Alike
  <1>1. PICK v : /\ Unrolled(s) = v[n]
                 /\ v[0] = s.comb
                 /\ \A k \in 1..n : v[k] = Peeled(s, k, v[k - 1])
    BY UnrolledIs
  <1>2. PICK w : /\ Unrolled(t) = w[n]
                 /\ w[0] = t.comb
                 /\ \A k \in 1..n : w[k] = Peeled(t, k, w[k - 1])
    BY UnrolledIs
  <1> DEFINE T == {k \in 0..n : /\ v[k] \in Seq(E) /\ w[k] \in Seq(E)
                                /\ Occurrences(g, w[k]) = Occurrences(g, v[k])}
  <1>3. 0 \in T
    BY <1>1, <1>2
  <1>4. ASSUME NEW k \in 1..n, k - 1 \in T PROVE k \in T
    <2> DEFINE x == v[k - 1]
               y == w[k - 1]
    <2>1. x \in Seq(E) /\ y \in Seq(E) /\ Occurrences(g, y) = Occurrences(g, x)
      BY <1>4
    <2>2. v[k] = Peeled(s, k, x) /\ w[k] = Peeled(t, k, y)
      BY <1>1, <1>2
    <2> HIDE DEF x, y
    <2>3. /\ Peeled(s, k, x) \in Seq(E)
          /\ Occurrences(g, Peeled(s, k, x))
               = Occurrences(g, Layer(s, k).left) + Occurrences(g, x)
                   + Occurrences(g, Layer(s, k).right)
      BY <2>1, PeeledCounts
    <2>4. /\ Around(t, E) /\ Layer(t, k) = Layer(s, k)
          /\ Len(t.focus) \in Nat /\ k \in 1..Len(t.focus) /\ g \in t.goals
      BY DEF Around, Layer
    <2>5. /\ Peeled(t, k, y) \in Seq(E)
          /\ Occurrences(g, Peeled(t, k, y))
               = Occurrences(g, Layer(t, k).left) + Occurrences(g, y)
                   + Occurrences(g, Layer(t, k).right)
      BY <2>1, <2>4, PeeledCounts
    <2>6. k \in 0..n
      OBVIOUS
    <2> QED BY <2>1, <2>2, <2>3, <2>4, <2>5, <2>6
  <1> HIDE DEF T
  <1>5. \A k \in 0..n : k \in T
    BY <1>3, <1>4, UpTo
  <1>6. n \in T
    BY <1>5
  <1> QED BY <1>1, <1>2, <1>6 DEF T

\* A goal that is not around is in the view as often as it is focused.
LEMMA NothingAround ==
  ASSUME NEW E, NEW s, Len(s.focus) \in Nat, Around(s, E), NEW D, s.comb \in Seq(D),
         E \subseteq D, NEW g \in s.goals, g \notin E
  PROVE  Occurrences(g, Unrolled(s)) = Occurrences(g, s.comb)
  <1> DEFINE n == Len(s.focus)
  <1>1. PICK v : /\ Unrolled(s) = v[n]
                 /\ v[0] = s.comb
                 /\ \A k \in 1..n : v[k] = Peeled(s, k, v[k - 1])
    BY UnrolledIs
  <1> DEFINE T == {k \in 0..n : /\ v[k] \in Seq(D)
                                /\ Occurrences(g, v[k]) = Occurrences(g, s.comb)}
  <1>2. 0 \in T
    BY <1>1
  <1>3. ASSUME NEW k \in 1..n, k - 1 \in T PROVE k \in T
    <2> DEFINE x == v[k - 1]
               c == Occurrences(g, s.comb)
    <2>1. x \in Seq(D) /\ Occurrences(g, x) = c /\ v[k] = Peeled(s, k, x)
      BY <1>1, <1>3
    <2> HIDE DEF x
    <2>2. Around(s, D)
      BY SeqMonotonic DEF Around
    <2>3. /\ Peeled(s, k, x) \in Seq(D)
          /\ Occurrences(g, Peeled(s, k, x))
               = Occurrences(g, Layer(s, k).left) + Occurrences(g, x)
                   + Occurrences(g, Layer(s, k).right)
      BY <2>1, <2>2, PeeledCounts
    <2>4. Layer(s, k).left \in Seq(E) /\ Layer(s, k).right \in Seq(E)
      <3>1. n + 1 - k \in 1..n
        OBVIOUS
      <3> QED BY <3>1 DEF Around, Layer
    <2>5. Occurrences(g, Layer(s, k).left) = 0 /\ Occurrences(g, Layer(s, k).right) = 0
      BY <2>4, OccurrencesNone
    <2>6. c \in Nat
      BY OccurrencesIsNat
    <2>7. k \in 0..n
      OBVIOUS
    <2>8. 0 + c + 0 = c
      BY <2>6
    <2> QED BY <2>1, <2>3, <2>5, <2>7, <2>8
  <1> HIDE DEF T
  <1>4. \A k \in 0..n : k \in T
    BY <1>2, <1>3, UpTo
  <1>5. n \in T
    BY <1>4
  <1> QED BY <1>1, <1>5 DEF T
-----------------------------------------------------------------------------
(* Leaving the last focus                                                  *)

\* shows what leaving all of them did: the views below are the same.
LEMMA UnfocusedUnrolls ==
  ASSUME NEW E, NEW F, NEW s, s.focus \in Seq(F), s.focus # <<>>,
         NEW t, t.focus = Front(s.focus), t.goals = s.goals,
         t.comb = Undefined(s, Last(s.focus).left \o s.comb \o Last(s.focus).right)
  PROVE  Unrolled(t) = Unrolled(s)
  <1> DEFINE n == Len(s.focus)
  <1>1. /\ n \in Nat \ {0} /\ Len(t.focus) = n - 1 /\ Last(s.focus) = s.focus[n]
        /\ \A i \in 1..(n - 1) : t.focus[i] = s.focus[i]
    BY FrontAndLast, LenProperties, EmptySeq
  <1>2. PICK v : /\ Unrolled(s) = v[n]
                 /\ v[0] = s.comb
                 /\ \A k \in 1..n : v[k] = Peeled(s, k, v[k - 1])
    BY <1>1, UnrolledIs
  <1>3. PICK w : /\ Unrolled(t) = w[n - 1]
                 /\ w[0] = t.comb
                 /\ \A k \in 1..(n - 1) : w[k] = Peeled(t, k, w[k - 1])
    <2>1. Len(t.focus) \in Nat
      BY <1>1
    <2> HIDE DEF n
    <2> QED BY <1>1, <2>1, UnrolledIs
  <1>4. t.comb = v[1]
    <2>1. 1 \in 1..n /\ n + 1 - 1 = n /\ 1 - 1 = 0
      BY <1>1
    <2>2. v[1] = Peeled(s, 1, s.comb)
      BY <1>2, <2>1
    <2>3. Layer(s, 1) = s.focus[n]
      BY <2>1 DEF Layer
    <2> QED BY <1>1, <2>2, <2>3 DEF Peeled
  <1> DEFINE T == {k \in 0..(n - 1) : w[k] = v[k + 1]}
  <1>5. 0 \in T
    BY <1>1, <1>3, <1>4
  <1>6. ASSUME NEW k \in 1..(n - 1), k - 1 \in T PROVE k \in T
    <2>1. k + 1 \in 1..n /\ (k + 1) - 1 = k /\ (k - 1) + 1 = k /\ k \in 0..(n - 1)
      BY <1>1
    <2>2. w[k - 1] = v[k]
      BY <1>6, <2>1
    <2>3. w[k] = Peeled(t, k, v[k])
      BY <1>3, <2>2
    <2>4. v[k + 1] = Peeled(s, k + 1, v[k])
      BY <1>2, <2>1
    <2>5. Layer(t, k) = Layer(s, k + 1)
      <3> HIDE DEF n
      <3>1. n - k \in 1..(n - 1) /\ (n - 1) + 1 - k = n - k /\ n + 1 - (k + 1) = n - k
        BY <1>1
      <3>2. Layer(t, k) = t.focus[n - k] /\ Layer(s, k + 1) = s.focus[n - k]
        BY <1>1, <3>1 DEF Layer, n
      <3> QED BY <1>1, <3>1, <3>2
    <2>6. \A l : Peeled(t, k, l) = Peeled(s, k + 1, l)
      BY <2>5 DEF Peeled, Undefined
    <2> QED BY <2>1, <2>3, <2>4, <2>6
  <1> HIDE DEF T
  <1>7. n - 1 \in Nat /\ n - 1 \in 0..(n - 1) /\ (n - 1) + 1 = n
    BY <1>1
  <1>8. \A k \in 0..(n - 1) : k \in T
    BY <1>5, <1>6, <1>7, UpTo
  <1>9. w[n - 1] = v[n]
    BY <1>7, <1>8 DEF T
  <1> QED BY <1>2, <1>3, <1>9

\* A list and one of its elements
LEMMA ListSplit ==
  ASSUME NEW E, NEW l \in Seq(E), NEW i \in 1..Len(l)
  PROVE  LET a == SubSeq(l, 1, i - 1)
             b == SubSeq(l, i + 1, Len(l))
         IN  /\ a \in Seq(E) /\ b \in Seq(E) /\ <<l[i]>> \in Seq(E)
             /\ l = a \o <<l[i]>> \o b
  <1> DEFINE n == Len(l)
             a == SubSeq(l, 1, i - 1)
             b == SubSeq(l, i + 1, n)
             x == <<l[i]>>
  <1>1. n \in Nat /\ \A k \in 1..n : l[k] \in E
    BY LenProperties, ElementOfSeq
  <1>2. a \in Seq(E) /\ b \in Seq(E) /\ x \in Seq(E)
    <2>1. /\ \A k \in 1..(i - 1) : l[k] \in E
          /\ \A k \in i + 1 .. n : l[k] \in E
      BY <1>1
    <2>2. 1 \in Int /\ i - 1 \in Int /\ i + 1 \in Int /\ n \in Int
      BY <1>1
    <2>3. a \in Seq(E)
      BY <2>1, <2>2, SubSeqProperties
    <2>4. b \in Seq(E)
      BY <2>1, <2>2, SubSeqProperties
    <2> QED BY <1>1, <2>3, <2>4
  <1>3. l = SubSeq(l, 1, i) \o b
    <2>1. 1 \in 1 .. n + 1 /\ i \in 1 - 1 .. n /\ n \in i..n
      BY <1>1
    <2>2. SubSeq(l, 1, i) \o SubSeq(l, i + 1, n) = SubSeq(l, 1, n)
      BY <2>1, ConcatAdjacentSubSeq
    <2>3. SubSeq(l, 1, n) = l
      BY SubSeqFull
    <2> QED BY <2>2, <2>3
  <1>4. SubSeq(l, 1, i) = a \o x
    <2>1. 1 \in 1..n /\ i \in 1..n
      BY <1>1
    <2> QED BY <2>1, SubSeqRecursiveSecond
  <1>5. l = (a \o x) \o b
    BY <1>3, <1>4
  <1> QED BY <1>2, <1>5

\* Elements replaced by others, counted: l is a list over E, new over D
Counted(g, l, i, new, E, D) ==
  LET a == SubSeq(l, 1, i - 1)
      b == SubSeq(l, i + 1, Len(l))
      o == Occurrences(g, a) + Occurrences(g, b)
  IN  /\ a \in Seq(E) /\ b \in Seq(E) /\ o \in Nat
      /\ a \o new \o b \in Seq(D)
      /\ Occurrences(g, l) = o + Occurrences(g, <<l[i]>>)
      /\ Occurrences(g, a \o new \o b) = o + Occurrences(g, new)

LEMMA SplitCounts ==
  ASSUME NEW E, NEW l \in Seq(E), NEW i \in 1..Len(l), NEW D, E \subseteq D, NEW new \in Seq(D),
         NEW g
  PROVE  Counted(g, l, i, new, E, D)
  <1> DEFINE a == SubSeq(l, 1, i - 1)
             b == SubSeq(l, i + 1, Len(l))
             x == <<l[i]>>
             u == Occurrences(g, a)
             v == Occurrences(g, b)
  <1>1. a \in Seq(E) /\ b \in Seq(E) /\ x \in Seq(E) /\ l = (a \o x) \o b
    BY ListSplit
  <1> HIDE DEF a, b, x
  <1>2. a \in Seq(D) /\ b \in Seq(D) /\ x \in Seq(D)
    BY <1>1, SeqMonotonic
  <1>3. u \in Nat /\ v \in Nat
    BY <1>1, OccurrencesIsNat
  <1>4. ASSUME NEW m \in Seq(D)
        PROVE  /\ (a \o m) \o b \in Seq(D)
               /\ Occurrences(g, (a \o m) \o b) = (u + v) + Occurrences(g, m)
    <2>1. a \o m \in Seq(D) /\ (a \o m) \o b \in Seq(D)
      BY <1>2, ConcatProperties
    <2>2. Occurrences(g, (a \o m) \o b) = Occurrences(g, a \o m) + v
      BY <1>2, <2>1, OccurrencesConcat
    <2>3. Occurrences(g, a \o m) = u + Occurrences(g, m)
      BY <1>2, OccurrencesConcat
    <2>4. Occurrences(g, m) \in Nat
      BY OccurrencesIsNat
    <2> HIDE DEF u, v
    <2> QED BY <1>3, <2>1, <2>2, <2>3, <2>4
  <1>5. Occurrences(g, l) = (u + v) + Occurrences(g, x)
    BY <1>1, <1>2, <1>4
  <1>6. u + v \in Nat
    BY <1>3
  <1> HIDE DEF u, v
  <1>7. /\ (a \o new) \o b \in Seq(D)
        /\ Occurrences(g, (a \o new) \o b) = (u + v) + Occurrences(g, new)
    BY <1>4
  <1> QED BY <1>1, <1>5, <1>6, <1>7 DEF Counted, a, b, x, u, v
-----------------------------------------------------------------------------
(* The states that instructions make, field by field                       *)

State(comb, focus, made, goals, holes) ==
  [comb |-> comb, focus |-> focus, made |-> made, goals |-> goals, holes |-> holes]

LEMMA WithOneField ==
  ASSUME NEW s, IsState(s), NEW x
  PROVE  /\ [s EXCEPT !.comb = x] = State(x, s.focus, s.made, s.goals, s.holes)
         /\ [s EXCEPT !.focus = x] = State(s.comb, x, s.made, s.goals, s.holes)
         /\ [s EXCEPT !.made = x] = State(s.comb, s.focus, x, s.goals, s.holes)
         /\ [s EXCEPT !.goals = x] = State(s.comb, s.focus, s.made, x, s.holes)
         /\ [s EXCEPT !.holes = x] = State(s.comb, s.focus, s.made, s.goals, x)
  BY DEF IsState, State

LEMMA StateFields ==
  ASSUME NEW c, NEW f, NEW m, NEW g, NEW h
  PROVE  LET s == State(c, f, m, g, h)
         IN  IsState(s) /\ s.comb = c /\ s.focus = f /\ s.made = m /\ s.goals = g /\ s.holes = h
  BY DEF State, IsState

LEMMA PoppedFocusIs ==
  ASSUME NEW s, IsState(s)
  PROVE  /\ PoppedFocus(s) = State(s.comb, Front(s.focus), s.made, s.goals, s.holes)
         /\ Unfocused(s) = State(Undefined(s, Last(s.focus).left \o s.comb \o Last(s.focus).right),
                                 Front(s.focus), s.made, s.goals, s.holes)
  <1> DEFINE f == Front(s.focus)
             u == Undefined(s, Last(s.focus).left \o s.comb \o Last(s.focus).right)
             p == PoppedFocus(s)
  <1>1. p = [s EXCEPT !.focus = f]
    BY DEF PoppedFocus, IsState
  <1>2. Unfocused(s) = [p EXCEPT !.comb = u]
    BY DEF Unfocused
  <1> HIDE DEF f, u, p
  <1>3. p = State(s.comb, f, s.made, s.goals, s.holes)
    BY <1>1, WithOneField
  <1>4. /\ IsState(p) /\ p.focus = f /\ p.made = s.made /\ p.goals = s.goals
        /\ p.holes = s.holes
    BY <1>3, StateFields
  <1>5. [p EXCEPT !.comb = u] = State(u, p.focus, p.made, p.goals, p.holes)
    BY <1>4, WithOneField
  <1> QED BY <1>2, <1>3, <1>4, <1>5 DEF f, u, p

LEMMA PushedFocusIs ==
  ASSUME NEW s, IsState(s), NEW kind, NEW bullets, NEW i
  PROVE  LET f == Append(s.focus, Focus(kind, bullets, SubSeq(s.comb, 1, i - 1),
                                        SubSeq(s.comb, i + 1, Len(s.comb))))
         IN  /\ PushedFocus(s, kind, bullets, i) = State(s.comb, f, s.made, s.goals, s.holes)
             /\ Focused(s, kind, bullets, i)
                  = State(<<s.comb[i]>>, f, s.made, s.goals, s.holes)
  <1> DEFINE f == Append(s.focus, Focus(kind, bullets, SubSeq(s.comb, 1, i - 1),
                                        SubSeq(s.comb, i + 1, Len(s.comb))))
             u == <<s.comb[i]>>
             p == PushedFocus(s, kind, bullets, i)
  <1>1. p = [s EXCEPT !.focus = f]
    BY DEF PushedFocus, IsState
  <1>2. Focused(s, kind, bullets, i) = [p EXCEPT !.comb = u]
    BY DEF Focused
  <1> HIDE DEF f, u, p
  <1>3. p = State(s.comb, f, s.made, s.goals, s.holes)
    BY <1>1, WithOneField
  <1>4. /\ IsState(p) /\ p.focus = f /\ p.made = s.made /\ p.goals = s.goals
        /\ p.holes = s.holes
    BY <1>3, StateFields
  <1>5. [p EXCEPT !.comb = u] = State(u, p.focus, p.made, p.goals, p.holes)
    BY <1>4, WithOneField
  <1> QED BY <1>2, <1>3, <1>4, <1>5 DEF f, u, p

WithEvarMap(s, m, g, h) == [s EXCEPT !.made = m, !.goals = g, !.holes = h]

LEMMA WithEvarMapIs ==
  ASSUME NEW s, IsState(s), NEW m, NEW g, NEW h
  PROVE  WithEvarMap(s, m, g, h) = State(s.comb, s.focus, m, g, h)
  <1> DEFINE t == [s EXCEPT !.made = m]
             u == [t EXCEPT !.goals = g]
  <1>1. t = State(s.comb, s.focus, m, s.goals, s.holes)
    BY WithOneField
  <1> HIDE DEF t
  <1>2. IsState(t) /\ t.comb = s.comb /\ t.focus = s.focus /\ t.made = m /\ t.holes = s.holes
    BY <1>1, StateFields
  <1>3. u = State(s.comb, s.focus, m, g, s.holes)
    <2>1. u = State(t.comb, t.focus, t.made, g, t.holes)
      BY <1>2, WithOneField
    <2> QED BY <1>2, <2>1
  <1> HIDE DEF u
  <1>4. IsState(u) /\ u.comb = s.comb /\ u.focus = s.focus /\ u.made = m /\ u.goals = g
    BY <1>3, StateFields
  <1>5. [u EXCEPT !.holes = h] = State(s.comb, s.focus, m, g, h)
    <2>1. [u EXCEPT !.holes = h] = State(u.comb, u.focus, u.made, u.goals, h)
      BY <1>4, WithOneField
    <2> QED BY <1>4, <2>1
  <1> QED BY <1>5 DEF t, u, WithEvarMap

LEMMA SolvingIs ==
  ASSUME NEW s, IsState(s), NEW solved, NEW k, NEW h
  PROVE  Solving(s, solved, k, h)
           = State(s.comb, s.focus, s.made + k + h,
                   (s.goals \ solved) \union (s.made + 1 .. s.made + k),
                   (s.holes \ solved) \union (s.made + k + 1 .. s.made + k + h))
  <1> DEFINE m == s.made + k + h
             g == (s.goals \ solved) \union (s.made + 1 .. s.made + k)
             o == (s.holes \ solved) \union (s.made + k + 1 .. s.made + k + h)
  <1>1. Solving(s, solved, k, h) = WithEvarMap(s, m, g, o)
    BY DEF Solving, IsState, WithEvarMap
  <1> HIDE DEF m, g, o
  <1>2. WithEvarMap(s, m, g, o) = State(s.comb, s.focus, m, g, o)
    BY WithEvarMapIs
  <1> QED BY <1>1, <1>2 DEF m, g, o

LEMMA ReplacedIs ==
  ASSUME NEW s, IsState(s), NEW comb, NEW i, NEW new
  PROVE  Replaced(s, comb, i, new)
           = State(Undefined(s, SubSeq(comb, 1, i - 1) \o new \o SubSeq(comb, i + 1, Len(comb))),
                   s.focus, s.made, s.goals, s.holes)
  <1> DEFINE u == Undefined(s, SubSeq(comb, 1, i - 1) \o new \o SubSeq(comb, i + 1, Len(comb)))
  <1>1. Replaced(s, comb, i, new) = [s EXCEPT !.comb = u]
    BY DEF Replaced
  <1> HIDE DEF u
  <1> QED BY <1>1, WithOneField DEF u

Grabbed(s) == [s EXCEPT !.comb = SetToSeq(Unsolved(s)), !.goals = Unsolved(s), !.holes = {}]

LEMMA GrabbedIs ==
  ASSUME NEW s, IsState(s)
  PROVE  Grabbed(s) = State(SetToSeq(Unsolved(s)), s.focus, s.made, Unsolved(s), {})
  <1> DEFINE c == SetToSeq(Unsolved(s))
             g == Unsolved(s)
             h == {}
             t == [s EXCEPT !.comb = c]
             u == [t EXCEPT !.goals = g]
             r == [u EXCEPT !.holes = h]
  <1>1. Grabbed(s) = r
    BY DEF Grabbed
  <1> HIDE DEF c, g, h, r
  <1>2. t = State(c, s.focus, s.made, s.goals, s.holes)
    BY WithOneField
  <1> HIDE DEF t
  <1>3. IsState(t) /\ t.comb = c /\ t.focus = s.focus /\ t.made = s.made /\ t.holes = s.holes
    BY <1>2, StateFields
  <1>4. u = State(c, s.focus, s.made, g, s.holes)
    <2>1. u = State(t.comb, t.focus, t.made, g, t.holes)
      BY <1>3, WithOneField
    <2> QED BY <1>3, <2>1
  <1> HIDE DEF u
  <1>5. IsState(u) /\ u.comb = c /\ u.focus = s.focus /\ u.made = s.made /\ u.goals = g
    BY <1>4, StateFields
  <1>6. r = State(c, s.focus, s.made, g, h)
    <2>1. r = State(u.comb, u.focus, u.made, u.goals, h)
      BY <1>5, WithOneField DEF r
    <2> QED BY <1>5, <2>1
  <1> QED BY <1>1, <1>6 DEF c, g, h
-----------------------------------------------------------------------------
(* The states that instructions make have their type.                      *)

LEMMA StateTypes ==
  ASSUME NEW s \in ProofState
  PROVE  /\ IsState(s) /\ s.comb \in Seq(Evars) /\ s.focus \in Seq(FocusFrame)
         /\ s.made \in Evars /\ s.made \in Nat \ {0} /\ s.made <= MaxEvars
         /\ s.goals \in SUBSET Evars /\ s.holes \in SUBSET Evars
         /\ s.goals \intersect s.holes = {} /\ Unsolved(s) \subseteq 1..s.made
         /\ Around(s, Evars)
         /\ Len(s.focus) \in Nat
  <1>1. /\ s \in [comb : Seq(Evars), focus : Seq(FocusFrame), made : Evars,
                  goals : SUBSET Evars, holes : SUBSET Evars]
        /\ s.goals \intersect s.holes = {} /\ Unsolved(s) \subseteq 1..s.made
    BY DEF ProofState
  <1>2. /\ IsState(s) /\ s.comb \in Seq(Evars) /\ s.focus \in Seq(FocusFrame)
        /\ s.made \in Evars /\ s.goals \in SUBSET Evars /\ s.holes \in SUBSET Evars
    BY <1>1 DEF IsState
  <1>3. s.made \in Nat \ {0} /\ s.made <= MaxEvars
    BY <1>2, ProofEngineAssumption DEF Evars
  <1>4. Len(s.focus) \in Nat /\ \A i \in 1..Len(s.focus) : s.focus[i] \in FocusFrame
    BY <1>2, LenProperties, ElementOfSeq
  <1>5. Around(s, Evars)
    BY <1>4 DEF Around, FocusFrame
  <1> QED BY <1>1, <1>2, <1>3, <1>4, <1>5

LEMMA StateTyped ==
  ASSUME NEW c \in Seq(Evars), NEW f \in Seq(FocusFrame), NEW m \in Evars,
         NEW g \in SUBSET Evars, NEW h \in SUBSET Evars, g \intersect h = {},
         g \union h \subseteq 1..m
  PROVE  State(c, f, m, g, h) \in ProofState
  BY DEF State, ProofState, Unsolved

LEMMA UndefinedTyped ==
  ASSUME NEW s, NEW E, NEW l \in Seq(E)
  PROVE  Undefined(s, l) \in Seq(E)
  BY FilterIsSeq DEF Undefined

LEMMA InitialTyped == InitialState \in ProofState
  <1> DEFINE c == <<1>>
             f == <<EndOfStack>>
             g == {1}
             h == {}
  <1>1. InitialState = State(c, f, 1, g, h)
    BY DEF InitialState, State
  <1>2. 1 \in Evars
    BY ProofEngineAssumption DEF Evars
  <1>3. EndOfStack \in FocusFrame
    BY EmptySeq DEF EndOfStack, Focus, FocusFrame, Kinds
  <1>4. c \in Seq(Evars) /\ f \in Seq(FocusFrame)
    BY <1>2, <1>3
  <1>5. g \in SUBSET Evars /\ h \in SUBSET Evars /\ g \intersect h = {} /\ g \union h \subseteq 1..1
    BY <1>2
  <1> HIDE DEF c, f, g, h
  <1> QED BY <1>1, <1>2, <1>4, <1>5, StateTyped

LEMMA UnfocusedTyped ==
  ASSUME NEW s \in ProofState, s.focus # <<>>
  PROVE  PoppedFocus(s) \in ProofState /\ Unfocused(s) \in ProofState
  <1> DEFINE l == Last(s.focus).left
             r == Last(s.focus).right
             m == l \o s.comb \o r
             u == Undefined(s, m)
             f == Front(s.focus)
  <1>1. /\ IsState(s) /\ s.comb \in Seq(Evars) /\ s.focus \in Seq(FocusFrame) /\ s.made \in Evars
        /\ s.goals \in SUBSET Evars /\ s.holes \in SUBSET Evars
        /\ s.goals \intersect s.holes = {} /\ s.goals \union s.holes \subseteq 1..s.made
    BY StateTypes DEF Unsolved
  <1>2. f \in Seq(FocusFrame) /\ Last(s.focus) \in FocusFrame
    BY <1>1, FrontAndLast
  <1>3. l \in Seq(Evars) /\ r \in Seq(Evars)
    BY <1>2 DEF FocusFrame
  <1> HIDE DEF f, l, r
  <1>4. m \in Seq(Evars)
    BY <1>1, <1>3, ConcatProperties
  <1>5. u \in Seq(Evars)
    BY <1>4, UndefinedTyped
  <1>6. /\ PoppedFocus(s) = State(s.comb, f, s.made, s.goals, s.holes)
        /\ Unfocused(s) = State(u, f, s.made, s.goals, s.holes)
    BY <1>1, PoppedFocusIs DEF f, l, r
  <1> HIDE DEF u
  <1> QED BY <1>1, <1>2, <1>5, <1>6, StateTyped

LEMMA FocusedTyped ==
  ASSUME NEW s \in ProofState, NEW kind \in Kinds, NEW bullets \in Seq(Bullets),
         NEW i \in 1..Len(s.comb)
  PROVE  PushedFocus(s, kind, bullets, i) \in ProofState /\ Focused(s, kind, bullets, i) \in ProofState
  <1> DEFINE a == SubSeq(s.comb, 1, i - 1)
             b == SubSeq(s.comb, i + 1, Len(s.comb))
             x == Focus(kind, bullets, a, b)
             f == Append(s.focus, x)
             u == <<s.comb[i]>>
  <1>1. /\ IsState(s) /\ s.comb \in Seq(Evars) /\ s.focus \in Seq(FocusFrame) /\ s.made \in Evars
        /\ s.goals \in SUBSET Evars /\ s.holes \in SUBSET Evars
        /\ s.goals \intersect s.holes = {} /\ s.goals \union s.holes \subseteq 1..s.made
    BY StateTypes DEF Unsolved
  <1>2. a \in Seq(Evars) /\ b \in Seq(Evars) /\ u \in Seq(Evars)
    BY <1>1, ListSplit
  <1>3. x \in FocusFrame
    <2> HIDE DEF a, b
    <2> QED BY <1>2 DEF Focus, FocusFrame
  <1>4. f \in Seq(FocusFrame)
    <2> HIDE DEF x
    <2> QED BY <1>1, <1>3, AppendProperties
  <1>5. /\ PushedFocus(s, kind, bullets, i) = State(s.comb, f, s.made, s.goals, s.holes)
        /\ Focused(s, kind, bullets, i) = State(u, f, s.made, s.goals, s.holes)
    BY <1>1, PushedFocusIs
  <1> HIDE DEF f, u
  <1>6. PushedFocus(s, kind, bullets, i) \in ProofState
    BY <1>1, <1>4, <1>5, StateTyped
  <1>7. Focused(s, kind, bullets, i) \in ProofState
    <2>1. u \in Seq(Evars)
      BY <1>2
    <2>2. State(u, f, s.made, s.goals, s.holes) \in ProofState
      BY <1>1, <1>4, <2>1, StateTyped
    <2> QED BY <1>5, <2>2
  <1> QED BY <1>6, <1>7

LEMMA SolvingTyped ==
  ASSUME NEW s \in ProofState, NEW solved, NEW k \in Nat, NEW h \in Nat,
         s.made + k + h <= MaxEvars
  PROVE  Solving(s, solved, k, h) \in ProofState
  <1> DEFINE m == s.made + k + h
             g == (s.goals \ solved) \union (s.made + 1 .. s.made + k)
             o == (s.holes \ solved) \union (s.made + k + 1 .. s.made + k + h)
  <1>1. /\ IsState(s) /\ s.comb \in Seq(Evars) /\ s.focus \in Seq(FocusFrame)
        /\ s.made \in Nat \ {0}
        /\ s.goals \intersect s.holes = {} /\ s.goals \subseteq 1..s.made
        /\ s.holes \subseteq 1..s.made
    BY StateTypes DEF Unsolved
  <1>2. MaxEvars \in Nat
    BY ProofEngineAssumption
  <1>3. m \in Evars
    BY <1>1, <1>2 DEF Evars
  <1>4. g \subseteq 1..m /\ o \subseteq 1..m
    BY <1>1
  <1>5. g \in SUBSET Evars /\ o \in SUBSET Evars
    <2>1. \A n \in 1..m : n \in Evars
      BY <1>1, <1>2 DEF Evars
    <2> QED BY <1>4, <2>1
  <1>6. g \intersect o = {}
    <2>1. \A n \in s.goals \union s.holes : n <= s.made /\ n \in Nat
      BY <1>1
    <2>2. \A n \in g : n \in s.goals \/ (n > s.made /\ n <= s.made + k)
      BY <1>1
    <2>3. \A n \in o : n \in s.holes \/ (n > s.made /\ n > s.made + k)
      BY <1>1
    <2>4. ASSUME NEW n \in g, n \in o PROVE FALSE
      <3>1. n \in Nat
        BY <1>1, <1>4, <2>4
      <3> HIDE DEF g, o
      <3> QED BY <1>1, <2>1, <2>2, <2>3, <2>4, <3>1
    <2> HIDE DEF g, o
    <2> QED BY <2>4
  <1>7. Solving(s, solved, k, h) = State(s.comb, s.focus, m, g, o)
    BY <1>1, SolvingIs
  <1> HIDE DEF m, g, o
  <1>8. g \union o \subseteq 1..m
    BY <1>4
  <1> QED BY <1>1, <1>3, <1>5, <1>6, <1>7, <1>8, StateTyped

LEMMA ReplacedTyped ==
  ASSUME NEW s \in ProofState, NEW comb \in Seq(Evars), NEW i \in 1..Len(comb),
         NEW new \in Seq(Evars)
  PROVE  Replaced(s, comb, i, new) \in ProofState
  <1> DEFINE m == SubSeq(comb, 1, i - 1) \o new \o SubSeq(comb, i + 1, Len(comb))
             u == Undefined(s, m)
  <1>1. /\ IsState(s) /\ s.comb \in Seq(Evars) /\ s.focus \in Seq(FocusFrame) /\ s.made \in Evars
        /\ s.goals \in SUBSET Evars /\ s.holes \in SUBSET Evars
        /\ s.goals \intersect s.holes = {} /\ s.goals \union s.holes \subseteq 1..s.made
    BY StateTypes DEF Unsolved
  <1>2. m \in Seq(Evars)
    <2>1. SubSeq(comb, 1, i - 1) \in Seq(Evars) /\ SubSeq(comb, i + 1, Len(comb)) \in Seq(Evars)
      BY ListSplit
    <2> QED BY <2>1, ConcatProperties
  <1>3. u \in Seq(Evars)
    <2> HIDE DEF m
    <2> QED BY <1>2, UndefinedTyped
  <1>4. Replaced(s, comb, i, new) = State(u, s.focus, s.made, s.goals, s.holes)
    BY <1>1, ReplacedIs
  <1> HIDE DEF u
  <1> QED BY <1>1, <1>3, <1>4, StateTyped

\* A finite set, listed: each element once
LEMMA SetListed ==
  ASSUME NEW S, IsFiniteSet(S)
  PROVE  /\ SetToSeq(S) \in Seq(S)
         /\ \A g \in S : Occurrences(g, SetToSeq(S)) = 1
  <1> DEFINE n == Cardinality(S)
             l == SetToSeq(S)
  <1>1. n \in Nat /\ ExistsBijection(1..n, S)
    BY FS_CardinalityType
  <1>2. PICK b : b \in Bijection(1..n, S)
    BY <1>1 DEF ExistsBijection
  <1>3. b \in [1..n -> S] /\ IsInjective(b)
    BY <1>2 DEF Bijection, Injection, IsInjective
  <1>4. l \in [1..n -> S] /\ IsInjective(l)
    BY <1>3 DEF SetToSeq
  <1> HIDE DEF l
  <1>5. l \in Seq(S) /\ DOMAIN l = 1..n
    BY <1>1, <1>4, SeqDef
  <1>6. ASSUME NEW g \in S PROVE Occurrences(g, l) = 1
    <2>1. l \in Injection(1..n, S)
      BY <1>4, <1>5 DEF Injection, IsInjective
    <2>2. l \in Surjection(1..n, S)
      <3>1. Cardinality(1..n) = n
        BY <1>1, FS_Interval
      <3> HIDE DEF n
      <3> QED BY <2>1, <3>1, FS_Injection DEF n
    <2>3. PICK k \in DOMAIN l : l[k] = g
      BY <1>5, <2>2 DEF Surjection
    <2>4. \A i \in DOMAIN l : l[i] = g <=> i = k
      BY <1>4, <2>3 DEF IsInjective
    <2> QED BY <2>3, <2>4, OccurrencesOne
  <1> QED BY <1>5, <1>6 DEF l

LEMMA GrabbedTyped ==
  ASSUME NEW s \in ProofState
  PROVE  /\ Grabbed(s) \in ProofState
         /\ IsFiniteSet(Unsolved(s))
  <1> DEFINE c == SetToSeq(Unsolved(s))
  <1>1. /\ IsState(s) /\ s.focus \in Seq(FocusFrame) /\ s.made \in Evars /\ s.made \in Nat
        /\ Unsolved(s) \in SUBSET Evars /\ Unsolved(s) \subseteq 1..s.made
    BY StateTypes DEF Unsolved
  <1>2. IsFiniteSet(Unsolved(s))
    <2>1. IsFiniteSet(1..s.made)
      BY <1>1, FS_Interval
    <2> QED BY <1>1, <2>1, FS_Subset
  <1>3. c \in Seq(Evars)
    BY <1>1, <1>2, SetListed, SeqMonotonic
  <1>4. Grabbed(s) = State(c, s.focus, s.made, Unsolved(s), {})
    BY <1>1, GrabbedIs
  <1> HIDE DEF c
  <1> QED BY <1>1, <1>2, <1>3, <1>4, StateTyped

-----------------------------------------------------------------------------
(* A state whose goals are accounted for, and what it rests on: the lists  *)
(* hold goals of now or of before, and never a hole.                       *)

Known(s) == (1..s.made) \ s.holes

Good(s) ==
  /\ s \in ProofState
  /\ s.comb \in Seq(Known(s)) /\ Around(s, Known(s))
  /\ Accounted(s)

LEMMA GoodInitial == Good(InitialState)
  <1> DEFINE s == InitialState
             c == <<1>>
             f == <<EndOfStack>>
             K == {1}
  <1>1. /\ s \in ProofState /\ s.comb = c /\ s.goals = {1} /\ s.focus = f
        /\ s.made = 1 /\ s.holes = {}
    BY InitialTyped DEF InitialState
  <1>2. Known(s) = K
    BY <1>1 DEF Known
  <1>3. /\ Len(f) = 1 /\ f[1] = EndOfStack /\ c \in Seq(K) /\ 1 \in DOMAIN c
        /\ \A i \in DOMAIN c : c[i] = 1 <=> i = 1
    OBVIOUS
  <1>4. EndOfStack.left = <<>> /\ EndOfStack.right = <<>>
    BY DEF EndOfStack, Focus
  <1> HIDE DEF s, c, f, K
  <1>5. Around(s, {}) /\ Around(s, K)
    <2>1. \A i \in 1..Len(s.focus) : s.focus[i].left = <<>> /\ s.focus[i].right = <<>>
      BY <1>1, <1>3, <1>4
    <2> QED BY <2>1, EmptySeq DEF Around
  <1>6. Occurrences(1, c) = 1
    BY <1>3, OccurrencesOne
  <1>7. Occurrences(1, Unrolled(s)) = Occurrences(1, s.comb)
    <2>1. Len(s.focus) \in Nat /\ s.comb \in Seq(K) /\ {} \subseteq K /\ 1 \in s.goals /\ 1 \notin {}
      BY <1>1, <1>3
    <2> QED BY <1>5, <2>1, NothingAround
  <1> QED BY <1>1, <1>2, <1>3, <1>5, <1>6, <1>7 DEF Good, Accounted, s

LEMMA GoodUnfocused ==
  ASSUME NEW s, Good(s), s.focus # <<>>
  PROVE  Good(Unfocused(s))
  <1> DEFINE l == Last(s.focus).left
             r == Last(s.focus).right
             m == l \o s.comb \o r
             u == Undefined(s, m)
             f == Front(s.focus)
             t == Unfocused(s)
             n == Len(s.focus)
             K == Known(s)
  <1>1. /\ s \in ProofState /\ IsState(s) /\ s.focus \in Seq(FocusFrame) /\ n \in Nat \ {0}
        /\ s.comb \in Seq(K) /\ Around(s, K) /\ Accounted(s)
    BY StateTypes, EmptySeq DEF Good
  <1>2. /\ f \in Seq(FocusFrame) /\ Len(f) = n - 1 /\ Last(s.focus) = s.focus[n]
        /\ \A i \in 1..(n - 1) : f[i] = s.focus[i]
    BY <1>1, FrontAndLast
  <1>3. l \in Seq(K) /\ r \in Seq(K)
    BY <1>1, <1>2 DEF Around
  <1>4. u \in Seq(K)
    <2> HIDE DEF l, r, K
    <2>1. m \in Seq(K)
      BY <1>1, <1>3, ConcatProperties DEF K
    <2> QED BY <2>1, UndefinedTyped
  <1>5. t = State(u, f, s.made, s.goals, s.holes)
    BY <1>1, PoppedFocusIs
  <1> HIDE DEF f
  <1>6. t.comb = u /\ t.focus = f /\ t.made = s.made /\ t.goals = s.goals /\ t.holes = s.holes
    BY <1>5, StateFields
  <1>7. t \in ProofState
    BY <1>1, UnfocusedTyped
  <1> HIDE DEF t
  <1>8. Known(t) = K
    BY <1>6 DEF Known
  <1>9. Around(t, K)
    <2>1. \A i \in 1..(n - 1) : i \in 1..n
      BY <1>1
    <2> HIDE DEF K, n
    <2> QED BY <1>1, <1>2, <1>6, <2>1 DEF Around, n, K
  <1>10. Unrolled(t) = Unrolled(s)
    BY <1>1, <1>6, UnfocusedUnrolls DEF f
  <1>11. Accounted(t)
    BY <1>1, <1>6, <1>10 DEF Accounted
  <1> HIDE DEF u, K
  <1> QED BY <1>4, <1>6, <1>7, <1>8, <1>9, <1>11 DEF Good, t

LEMMA GoodFocused ==
  ASSUME NEW s, Good(s), NEW kind \in Kinds, NEW bullets \in Seq(Bullets),
         NEW i \in 1..Len(s.comb)
  PROVE  Good(Focused(s, kind, bullets, i))
  <1> DEFINE a == SubSeq(s.comb, 1, i - 1)
             b == SubSeq(s.comb, i + 1, Len(s.comb))
             x == Focus(kind, bullets, a, b)
             f == Append(s.focus, x)
             c == <<s.comb[i]>>
             t == Focused(s, kind, bullets, i)
             v == Unfocused(t)
             n == Len(s.focus)
             K == Known(s)
  <1>1. /\ s \in ProofState /\ IsState(s) /\ s.focus \in Seq(FocusFrame) /\ n \in Nat
        /\ s.comb \in Seq(K) /\ Around(s, K) /\ Accounted(s)
    BY StateTypes DEF Good
  <1>2. a \in Seq(K) /\ b \in Seq(K) /\ c \in Seq(K) /\ s.comb = a \o c \o b
    BY <1>1, ListSplit
  <1>3. t = State(c, f, s.made, s.goals, s.holes)
    BY <1>1, PushedFocusIs
  <1>4. t \in ProofState
    BY <1>1, FocusedTyped
  <1>5. x.left = a /\ x.right = b /\ x = Focus(kind, bullets, a, b)
    BY DEF Focus
  <1> HIDE DEF a, b, x, f, c, t, K
  <1>6. t.comb = c /\ t.focus = f /\ t.made = s.made /\ t.goals = s.goals /\ t.holes = s.holes
    BY <1>3, StateFields
  <1>7. f \in Seq(FocusFrame \union {x}) /\ Len(f) = n + 1 /\ f # <<>>
        /\ f[n + 1] = x
        /\ \A k \in 1..n : f[k] = s.focus[k]
    <2> DEFINE F == FocusFrame \union {x}
    <2>1. s.focus \in Seq(F) /\ x \in F
      BY <1>1, SeqMonotonic
    <2> HIDE DEF F
    <2>2. f \in Seq(F) /\ Len(f) = n + 1 /\ f # <<>> /\ f[n + 1] = x
          /\ \A k \in 1..n : f[k] = s.focus[k]
      BY <2>1, AppendProperties DEF f
    <2> QED BY <2>2 DEF F
  <1>8. Front(f) = s.focus /\ Last(f) = x
    <2> DEFINE F == FocusFrame \union {x}
    <2>1. s.focus \in Seq(F) /\ x \in F
      BY <1>1, SeqMonotonic
    <2> HIDE DEF F
    <2> QED BY <2>1, FrontOfAppend DEF f
  <1>9. Around(t, K)
    <2>1. \A k \in 1 .. n + 1 : k \in 1..n \/ k = n + 1
      BY <1>1
    <2> HIDE DEF n
    <2> QED BY <1>1, <1>2, <1>5, <1>6, <1>7, <2>1 DEF Around, n
  <1>10. Known(t) = K
    BY <1>6 DEF Known, K
  <1> DEFINE m == a \o c \o b
             u == Undefined(t, m)
  <1>11. IsState(t) /\ v = State(u, s.focus, s.made, s.goals, s.holes)
    <2>1. IsState(t)
      BY <1>4, StateTypes
    <2> QED BY <1>5, <1>6, <1>8, <2>1, PoppedFocusIs
  <1> HIDE DEF v
  <1>12. v.comb = u /\ v.focus = s.focus /\ v.goals = s.goals
    BY <1>11, StateFields
  <1>13. Unrolled(v) = Unrolled(t)
    <2>1. u = Undefined(t, Last(t.focus).left \o t.comb \o Last(t.focus).right)
      BY <1>5, <1>6, <1>8
    <2>2. /\ t.focus \in Seq(FocusFrame \union {x}) /\ t.focus # <<>>
          /\ v.focus = Front(t.focus) /\ v.goals = t.goals
      BY <1>6, <1>7, <1>8, <1>12
    <2> HIDE DEF u
    <2> QED BY <1>12, <2>1, <2>2, UnfocusedUnrolls
  <1>14. u \in Seq(K) /\ \A g \in s.goals : Occurrences(g, u) = Occurrences(g, s.comb)
    <2>1. m \in Seq(K) /\ m = s.comb
      BY <1>1, <1>2
    <2>2. u = Filter(m, s.goals)
      BY <1>6 DEF Undefined
    <2> HIDE DEF m, u
    <2> QED BY <2>1, <2>2, FilterIsSeq, OccurrencesFilter
  <1> HIDE DEF u
  <1>15. \A g \in s.goals : Occurrences(g, Unrolled(t)) = Occurrences(g, Unrolled(s))
    <2>1. ASSUME NEW g \in s.goals PROVE Occurrences(g, Unrolled(v)) = Occurrences(g, Unrolled(s))
      <3>1. Alike(s, v, K)
        BY <1>1, <1>12, <1>14 DEF Alike
      <3>2. g \in s.goals /\ g \in v.goals /\ Occurrences(g, v.comb) = Occurrences(g, s.comb)
        BY <1>12, <1>14
      <3>3. \A y, E : Alike(s, y, E) /\ g \in s.goals /\ g \in y.goals
                      /\ Occurrences(g, y.comb) = Occurrences(g, s.comb)
                      => Occurrences(g, Unrolled(y)) = Occurrences(g, Unrolled(s))
        BY SameViews
      <3> QED BY <3>1, <3>2, <3>3
    <2> QED BY <1>13, <2>1
  <1>16. Accounted(t)
    BY <1>1, <1>6, <1>15 DEF Accounted
  <1> QED BY <1>2, <1>4, <1>6, <1>9, <1>10, <1>16 DEF Good, t

LEMMA GoodUnchanged ==
  ASSUME NEW s, Good(s), NEW i \in 1..Len(s.comb)
  PROVE  Good(Replaced(s, s.comb, i, <<s.comb[i]>>))
  <1> DEFINE K == Known(s)
             x == <<s.comb[i]>>
             m == SubSeq(s.comb, 1, i - 1) \o x \o SubSeq(s.comb, i + 1, Len(s.comb))
             u == Undefined(s, m)
             t == Replaced(s, s.comb, i, x)
  <1>1. /\ s \in ProofState /\ IsState(s) /\ Len(s.focus) \in Nat /\ s.comb \in Seq(Evars)
        /\ s.comb \in Seq(K) /\ Around(s, K) /\ Accounted(s)
    BY StateTypes DEF Good
  <1>2. m = s.comb /\ x \in Seq(Evars)
    <2>1. x \in Seq(Evars)
      BY <1>1, ListSplit
    <2> QED BY <1>1, <2>1, ListSplit
  <1>3. t \in ProofState
    BY <1>1, <1>2, ReplacedTyped
  <1>4. t = State(u, s.focus, s.made, s.goals, s.holes)
    BY <1>1, ReplacedIs
  <1> HIDE DEF t, m
  <1>5. u \in Seq(K) /\ \A g \in s.goals : Occurrences(g, u) = Occurrences(g, s.comb)
    <2>1. u = Filter(s.comb, s.goals)
      BY <1>2 DEF Undefined
    <2> HIDE DEF u
    <2> QED BY <1>1, <2>1, FilterIsSeq, OccurrencesFilter
  <1> HIDE DEF u
  <1>6. t.comb = u /\ t.focus = s.focus /\ t.made = s.made /\ t.goals = s.goals /\ t.holes = s.holes
    BY <1>4, StateFields
  <1>7. Known(t) = K /\ Around(t, K) /\ Alike(s, t, K)
    BY <1>1, <1>5, <1>6 DEF Known, Around, Alike
  <1>8. ASSUME NEW g \in s.goals
        PROVE  Occurrences(g, Unrolled(t)) = Occurrences(g, Unrolled(s))
    <2>1. \A y, E : Alike(s, y, E) /\ g \in s.goals /\ g \in y.goals
                      /\ Occurrences(g, y.comb) = Occurrences(g, s.comb)
                      => Occurrences(g, Unrolled(y)) = Occurrences(g, Unrolled(s))
      BY SameViews
    <2> QED BY <1>5, <1>6, <1>7, <2>1
  <1>9. Accounted(t)
    BY <1>1, <1>6, <1>8 DEF Accounted
  <1> QED BY <1>3, <1>5, <1>6, <1>7, <1>9 DEF Good, t

\* What the evar map becomes when evars are solved and others are made
LEMMA SolvingParts ==
  ASSUME NEW s, Good(s), NEW solved, NEW k \in Nat, NEW h \in Nat, s.made + k + h <= MaxEvars
  PROVE  LET t == Solving(s, solved, k, h)
             new == s.made + 1 .. s.made + k
         IN  /\ t \in ProofState /\ t.comb = s.comb /\ t.focus = s.focus
             /\ \A g \in t.goals : (g \in s.goals /\ g \notin solved /\ g \notin new) \/ g \in new
             /\ new \intersect Known(s) = {}
             /\ Known(s) \subseteq Known(t) /\ new \subseteq Known(t)
  <1> DEFINE t == Solving(s, solved, k, h)
             new == s.made + 1 .. s.made + k
             m == s.made + k + h
             o == (s.holes \ solved) \union (s.made + k + 1 .. m)
  <1>1. /\ s \in ProofState /\ IsState(s) /\ s.made \in Nat
        /\ s.goals \subseteq 1..s.made /\ s.holes \subseteq 1..s.made
    BY StateTypes DEF Good, Unsolved
  <1>2. t = State(s.comb, s.focus, m, (s.goals \ solved) \union new, o)
    BY <1>1, SolvingIs
  <1>3. t \in ProofState
    BY <1>1, SolvingTyped
  <1> HIDE DEF t
  <1>4. /\ t.comb = s.comb /\ t.focus = s.focus /\ t.made = m
        /\ t.goals = (s.goals \ solved) \union new /\ t.holes = o
    BY <1>2, StateFields
  <1>5. new \intersect (1..s.made) = {}
    BY <1>1
  <1>6. new \subseteq 1..m /\ new \intersect o = {}
    <2>1. ASSUME NEW n \in new PROVE n \in 1..m /\ n \notin o
      <3>1. n \in Nat /\ n > s.made /\ n <= s.made + k
        BY <1>1
      <3>2. n \notin s.holes /\ n \notin (s.made + k + 1 .. m)
        BY <1>1, <3>1
      <3> QED BY <1>1, <3>1, <3>2
    <2> HIDE DEF new, o
    <2> QED BY <2>1
  <1>7. \A n \in 1..s.made : n \in 1..m /\ (n \in o => n \in s.holes)
    <2> SUFFICES ASSUME NEW n \in 1..s.made PROVE n \in 1..m /\ (n \in o => n \in s.holes)
      OBVIOUS
    <2>1. n \in Nat /\ n <= s.made /\ 1 <= n
      BY <1>1
    <2>2. n \notin (s.made + k + 1 .. m) /\ n \in 1..m
      BY <1>1, <2>1
    <2> QED BY <2>2
  <1> HIDE DEF new, o, m
  <1>8. Known(s) \subseteq Known(t) /\ new \subseteq Known(t) /\ new \intersect Known(s) = {}
    BY <1>4, <1>5, <1>6, <1>7 DEF Known
  <1>9. \A g \in t.goals : (g \in s.goals /\ g \notin solved /\ g \notin new) \/ g \in new
    BY <1>4
  <1> QED BY <1>3, <1>4, <1>8, <1>9 DEF t, new

LEMMA NewGoals ==
  ASSUME NEW m \in Nat, NEW k \in Nat
  PROVE  LET l == [i \in 1..k |-> m + i]
         IN  /\ l \in Seq(m + 1 .. m + k)
             /\ \A g \in m + 1 .. m + k : Occurrences(g, l) = 1
  <1> DEFINE l == [i \in 1..k |-> m + i]
  <1>1. DOMAIN l = 1..k /\ \A i \in 1..k : l[i] = m + i /\ m + i \in m + 1 .. m + k
    OBVIOUS
  <1>2. l \in [1..k -> m + 1 .. m + k]
    OBVIOUS
  <1> HIDE DEF l
  <1>3. l \in Seq(m + 1 .. m + k)
    BY <1>2, SeqDef
  <1>4. ASSUME NEW g \in m + 1 .. m + k PROVE Occurrences(g, l) = 1
    <2>1. g - m \in DOMAIN l /\ \A i \in DOMAIN l : l[i] = g <=> i = g - m
      BY <1>1
    <2> QED BY <2>1, OccurrencesOne
  <1> QED BY <1>3, <1>4 DEF l

LEMMA GoodInstantiated ==
  ASSUME NEW s, Good(s), NEW e, NEW h \in Nat, s.made + h <= MaxEvars
  PROVE  Good(Solving(s, {e}, 0, h))
  <1> DEFINE t == Solving(s, {e}, 0, h)
             K == Known(s)
             L == Known(t)
  <1>1. /\ s \in ProofState /\ s.made \in Nat /\ Len(s.focus) \in Nat
        /\ s.comb \in Seq(K) /\ Around(s, K) /\ Accounted(s)
    BY StateTypes DEF Good
  <1>2. /\ t \in ProofState /\ t.comb = s.comb /\ t.focus = s.focus
        /\ \A g \in t.goals : g \in s.goals
        /\ K \subseteq L
    <2>1. s.made + 0 + h <= MaxEvars /\ 0 \in Nat
      BY <1>1
    <2>2. (s.made + 1 .. s.made + 0) = {}
      BY <1>1
    <2> QED BY <2>1, <2>2, SolvingParts
  <1> HIDE DEF t, L
  <1>3. t.comb \in Seq(L) /\ Around(t, L) /\ Alike(s, t, K)
    BY <1>1, <1>2, SeqMonotonic DEF Around, Alike
  <1>4. ASSUME NEW g \in t.goals
        PROVE  Occurrences(g, Unrolled(t)) = 1
    <2>1. \A y, E : Alike(s, y, E) /\ g \in s.goals /\ g \in y.goals
                      /\ Occurrences(g, y.comb) = Occurrences(g, s.comb)
                      => Occurrences(g, Unrolled(y)) = Occurrences(g, Unrolled(s))
      BY SameViews
    <2> QED BY <1>1, <1>2, <1>3, <2>1 DEF Accounted
  <1> QED BY <1>2, <1>3, <1>4 DEF Good, Accounted, t, L

\* A goal is solved, and others on the side, and new goals take its place.
LEMMA GoodSolved ==
  ASSUME NEW s, Good(s), NEW i \in 1..Len(s.comb), NEW solved, s.comb[i] \in solved,
         NEW k \in Nat, NEW h \in Nat, s.made + k + h <= MaxEvars
  PROVE  Good(Replaced(Solving(s, solved, k, h), s.comb, i, [j \in 1..k |-> s.made + j]))
  <1> DEFINE t == Solving(s, solved, k, h)
             new == [j \in 1..k |-> s.made + j]
             made == s.made + 1 .. s.made + k
             r == Replaced(t, s.comb, i, new)
             a == SubSeq(s.comb, 1, i - 1)
             b == SubSeq(s.comb, i + 1, Len(s.comb))
             m == a \o new \o b
             u == Undefined(t, m)
             K == Known(s)
             L == Known(t)
  <1>1. /\ s \in ProofState /\ s.made \in Nat /\ Len(s.focus) \in Nat /\ Len(s.comb) \in Nat
        /\ s.comb \in Seq(Evars) /\ s.comb \in Seq(K) /\ Around(s, K) /\ Accounted(s)
    BY StateTypes, LenProperties DEF Good
  <1>2. /\ t \in ProofState /\ t.comb = s.comb /\ t.focus = s.focus
        /\ \A g \in t.goals : (g \in s.goals /\ g \notin solved /\ g \notin made) \/ g \in made
        /\ made \intersect K = {}
        /\ K \subseteq L /\ made \subseteq L
    BY <1>1, SolvingParts
  <1>3. new \in Seq(made) /\ \A g \in made : Occurrences(g, new) = 1
    BY <1>1, NewGoals
  <1> HIDE DEF t, new, made, K
  <1>4. L \subseteq Evars
    <2>1. t.made \in Nat /\ t.made <= MaxEvars
      BY <1>2, StateTypes
    <2>2. MaxEvars \in Nat
      BY ProofEngineAssumption
    <2> QED BY <2>1, <2>2 DEF Known, Evars
  <1> HIDE DEF L
  <1>5. new \in Seq(L) /\ new \in Seq(Evars)
    <2>1. made \subseteq Evars
      BY <1>2, <1>4
    <2> QED BY <1>2, <1>3, <2>1, SeqMonotonic
  <1>6. ASSUME NEW g
        PROVE  LET o == Occurrences(g, a) + Occurrences(g, b)
               IN  /\ a \in Seq(K) /\ b \in Seq(K) /\ o \in Nat
                   /\ m \in Seq(L)
                   /\ Occurrences(g, s.comb) = o + Occurrences(g, <<s.comb[i]>>)
                   /\ Occurrences(g, m) = o + Occurrences(g, new)
    <2>1. s.comb \in Seq(K) /\ K \subseteq L /\ new \in Seq(L)
      BY <1>1, <1>2, <1>5
    <2>2. Counted(g, s.comb, i, new, K, L)
      BY <2>1, SplitCounts
    <2> QED BY <2>2 DEF Counted
  <1>7. r \in ProofState
    BY <1>1, <1>2, <1>5, ReplacedTyped
  <1>8. r = State(u, t.focus, t.made, t.goals, t.holes)
    <2>1. IsState(t)
      BY <1>2, StateTypes
    <2> QED BY <2>1, ReplacedIs
  <1> HIDE DEF r
  <1>9. m \in Seq(L)
    BY <1>6
  <1>10. u \in Seq(L) /\ \A g \in t.goals : Occurrences(g, u) = Occurrences(g, m)
    <2>1. u = Filter(m, t.goals)
      BY DEF Undefined
    <2> HIDE DEF u, m
    <2> QED BY <1>9, <2>1, FilterIsSeq, OccurrencesFilter
  <1> HIDE DEF u
  <1>11. r.comb = u /\ r.focus = s.focus /\ r.made = t.made /\ r.goals = t.goals /\ r.holes = t.holes
    BY <1>2, <1>8, StateFields
  <1>12. Known(r) = L
    BY <1>11 DEF Known, L
  <1>13. Around(r, L) /\ Around(r, K)
    <2>1. \A l \in Seq(K) : l \in Seq(L)
      BY <1>2, SeqMonotonic
    <2> QED BY <1>1, <1>11, <2>1 DEF Around
  <1>14. ASSUME NEW g \in t.goals, g \in s.goals, g \notin solved, g \notin made
         PROVE  Occurrences(g, Unrolled(r)) = 1
    <2> DEFINE o == Occurrences(g, a) + Occurrences(g, b)
               x == <<s.comb[i]>>
    <2>1. /\ o \in Nat /\ Occurrences(g, s.comb) = o + Occurrences(g, x)
          /\ Occurrences(g, m) = o + Occurrences(g, new)
      BY <1>6
    <2>2. Occurrences(g, x) = 0 /\ Occurrences(g, new) = 0
      <3>1. x \in Seq({s.comb[i]}) /\ g \notin {s.comb[i]}
        BY <1>14
      <3> HIDE DEF x
      <3> QED BY <1>3, <1>14, <3>1, OccurrencesNone
    <2> HIDE DEF o, m, x
    <2>3. Occurrences(g, r.comb) = Occurrences(g, s.comb)
      BY <1>10, <1>11, <2>1, <2>2
    <2>4. Alike(s, r, L)
      <3>1. s.comb \in Seq(L) /\ Around(s, L)
        BY <1>1, <1>2, <1>11, <1>13, SeqMonotonic DEF Around
      <3> QED BY <1>1, <1>10, <1>11, <3>1 DEF Alike
    <2>5. \A y, E : Alike(s, y, E) /\ g \in s.goals /\ g \in y.goals
                      /\ Occurrences(g, y.comb) = Occurrences(g, s.comb)
                      => Occurrences(g, Unrolled(y)) = Occurrences(g, Unrolled(s))
      BY SameViews
    <2> QED BY <1>1, <1>11, <1>14, <2>3, <2>4, <2>5 DEF Accounted
  <1>15. ASSUME NEW g \in t.goals, g \in made
         PROVE  Occurrences(g, Unrolled(r)) = 1
    <2> DEFINE p == Occurrences(g, a)
               q == Occurrences(g, b)
    <2>1. /\ a \in Seq(K) /\ b \in Seq(K)
          /\ Occurrences(g, m) = (p + q) + Occurrences(g, new)
      BY <1>6
    <2>2. g \notin K
      BY <1>2, <1>15
    <2>3. p = 0 /\ q = 0 /\ Occurrences(g, new) = 1
      <3> HIDE DEF a, b
      <3> QED BY <1>3, <1>15, <2>1, <2>2, OccurrencesNone
    <2> HIDE DEF p, q, m
    <2>4. Occurrences(g, r.comb) = 1
      BY <1>10, <1>11, <2>1, <2>3
    <2>5. Len(r.focus) \in Nat /\ r.comb \in Seq(L) /\ g \in r.goals
      BY <1>1, <1>10, <1>11
    <2>6. Occurrences(g, Unrolled(r)) = Occurrences(g, r.comb)
      BY <1>2, <1>13, <2>2, <2>5, NothingAround
    <2> QED BY <2>4, <2>6
  <1>16. Accounted(r)
    BY <1>2, <1>11, <1>14, <1>15 DEF Accounted
  <1> QED BY <1>7, <1>10, <1>11, <1>12, <1>13, <1>16 DEF Good, r, t, new

\* With no goal in view, the evars left become the goals.
LEMMA GoodGrabbed ==
  ASSUME NEW s, Good(s), IsDone(s)
  PROVE  Good(Grabbed(s))
  <1> DEFINE t == Grabbed(s)
             c == SetToSeq(Unsolved(s))
             K == Known(s)
             L == 1..s.made
  <1>1. /\ s \in ProofState /\ IsState(s) /\ s.made \in Nat /\ Len(s.focus) \in Nat
        /\ Unsolved(s) \subseteq L /\ Around(s, K) /\ Accounted(s)
    BY StateTypes DEF Good
  <1>2. s.goals = {}
    <2>1. ASSUME NEW g \in s.goals PROVE FALSE
      <3>1. Occurrences(g, <<>>) = 1
        BY <1>1, <2>1 DEF Accounted, IsDone
      <3>2. Occurrences(g, <<>>) = 0
        BY OccurrencesEmpty
      <3> QED BY <3>1, <3>2
    <2> QED BY <2>1
  <1>3. Unsolved(s) = s.holes /\ K \subseteq L /\ K \intersect Unsolved(s) = {}
    BY <1>2 DEF Unsolved, Known
  <1>4. /\ t \in ProofState /\ IsFiniteSet(Unsolved(s))
    BY <1>1, GrabbedTyped
  <1>5. c \in Seq(Unsolved(s)) /\ \A g \in Unsolved(s) : Occurrences(g, c) = 1
    BY <1>4, SetListed
  <1>6. t = State(c, s.focus, s.made, Unsolved(s), {})
    BY <1>1, GrabbedIs
  <1> HIDE DEF t, c, K
  <1>7. t.comb = c /\ t.focus = s.focus /\ t.made = s.made /\ t.goals = Unsolved(s) /\ t.holes = {}
    BY <1>6, StateFields
  <1>8. Known(t) = L
    BY <1>7 DEF Known
  <1> HIDE DEF L
  <1>9. c \in Seq(L)
    BY <1>1, <1>5, SeqMonotonic
  <1>10. Around(t, L) /\ Around(t, K)
    <2>1. \A l \in Seq(K) : l \in Seq(L)
      BY <1>3, SeqMonotonic
    <2> QED BY <1>1, <1>7, <2>1 DEF Around
  <1>11. ASSUME NEW g \in t.goals
         PROVE  Occurrences(g, Unrolled(t)) = 1
    <2>1. g \notin K /\ Occurrences(g, t.comb) = 1
      BY <1>3, <1>5, <1>7
    <2>2. Len(t.focus) \in Nat /\ t.comb \in Seq(L)
      BY <1>1, <1>7, <1>9
    <2>3. Occurrences(g, Unrolled(t)) = Occurrences(g, t.comb)
      BY <1>3, <1>10, <2>1, <2>2, NothingAround
    <2> QED BY <2>1, <2>3
  <1> QED BY <1>4, <1>7, <1>8, <1>9, <1>10, <1>11 DEF Good, Accounted, t

-----------------------------------------------------------------------------
(* Proofs over sets of states: the states that open transactions restore   *)
(* are in S, as the current one, and those of the undo stack in A.         *)

Undos(S) == [undo : {"state"}, state : S] \union [undo : {"mode"}, mode : Modes]

ProofOver(S, A) ==
  [state : S, undo : Seq(Undos(A)), trans : Seq(Seq(Undos(S))), mode : Modes]

Record(s, u, t, m) == [state |-> s, undo |-> u, trans |-> t, mode |-> m]

LEMMA OverParts ==
  ASSUME NEW S, NEW A, NEW p \in ProofOver(S, A)
  PROVE  /\ p = Record(p.state, p.undo, p.trans, p.mode)
         /\ p.state \in S /\ p.undo \in Seq(Undos(A))
         /\ p.trans \in Seq(Seq(Undos(S))) /\ p.mode \in Modes
  BY DEF ProofOver, Record

LEMMA OverMade ==
  ASSUME NEW S, NEW A, NEW s \in S, NEW u \in Seq(Undos(A)), NEW t \in Seq(Seq(Undos(S))),
         NEW m \in Modes
  PROVE  Record(s, u, t, m) \in ProofOver(S, A)
  BY DEF ProofOver, Record

LEMMA RecordFields ==
  ASSUME NEW s, NEW u, NEW t, NEW m
  PROVE  LET p == Record(s, u, t, m)
         IN  /\ p.state = s /\ p.undo = u /\ p.trans = t /\ p.mode = m
             /\ p = Record(p.state, p.undo, p.trans, p.mode)
  BY DEF Record

LEMMA RecordWith ==
  ASSUME NEW p, p = Record(p.state, p.undo, p.trans, p.mode), NEW x
  PROVE  /\ [p EXCEPT !.state = x] = Record(x, p.undo, p.trans, p.mode)
         /\ [p EXCEPT !.undo = x] = Record(p.state, x, p.trans, p.mode)
         /\ [p EXCEPT !.trans = x] = Record(p.state, p.undo, x, p.mode)
         /\ [p EXCEPT !.mode = x] = Record(p.state, p.undo, p.trans, x)
  BY DEF Record

LEMMA UndosGrow ==
  ASSUME NEW S, NEW A, S \subseteq A
  PROVE  /\ Undos(S) \subseteq Undos(A) /\ Seq(Undos(S)) \subseteq Seq(Undos(A))
         /\ ProofOver(S, A) \subseteq ProofOver(A, A)
  <1>1. Undos(S) \subseteq Undos(A)
    BY DEF Undos
  <1>2. Seq(Undos(S)) \subseteq Seq(Undos(A))
    BY <1>1, SeqMonotonic
  <1>3. Seq(Seq(Undos(S))) \subseteq Seq(Seq(Undos(A)))
    BY <1>2, SeqMonotonic
  <1>4. ProofOver(S, A) \subseteq ProofOver(A, A)
    BY <1>3 DEF ProofOver
  <1> QED BY <1>1, <1>2, <1>4

\* The innermost transaction changed
LEMMA LastChanged ==
  ASSUME NEW X, NEW t \in Seq(Seq(X)), t # <<>>, NEW y \in Seq(X)
  PROVE  /\ [t EXCEPT ![Len(t)] = y] \in Seq(Seq(X))
         /\ t[Len(t)] \in Seq(X)
  <1>1. Len(t) \in 1..Len(t)
    BY EmptySeq
  <1> QED BY <1>1, ExceptSeq, ElementOfSeq

LEMMA PushedOver ==
  ASSUME NEW S, NEW A, S \subseteq A, NEW p \in ProofOver(S, A), NEW es \in Seq(Undos(S))
  PROVE  Pushed(p, es) \in ProofOver(S, A)
  <1>1. /\ p = Record(p.state, p.undo, p.trans, p.mode)
        /\ p.state \in S /\ p.undo \in Seq(Undos(A))
        /\ p.trans \in Seq(Seq(Undos(S))) /\ p.mode \in Modes
    BY OverParts
  <1>2. CASE p.trans = <<>>
    <2> DEFINE u == p.undo \o es
    <2>1. u \in Seq(Undos(A))
      <3>1. es \in Seq(Undos(A))
        BY UndosGrow
      <3> QED BY <1>1, <3>1, ConcatProperties
    <2>2. Pushed(p, es) = [p EXCEPT !.undo = u]
      BY <1>1, <1>2 DEF Pushed, Record
    <2> HIDE DEF u
    <2>3. Pushed(p, es) = Record(p.state, u, p.trans, p.mode)
      BY <1>1, <2>2, RecordWith
    <2> QED BY <1>1, <2>1, <2>3, OverMade
  <1>3. CASE p.trans # <<>>
    <2> DEFINE n == Len(p.trans)
               y == p.trans[n] \o es
               t == [p.trans EXCEPT ![n] = y]
    <2>1. y \in Seq(Undos(S))
      BY <1>1, <1>3, LastChanged, ConcatProperties
    <2>2. t \in Seq(Seq(Undos(S)))
      <3> HIDE DEF y
      <3> QED BY <1>1, <1>3, <2>1, LastChanged
    <2>3. Pushed(p, es) = [p EXCEPT !.trans = t]
      BY <1>1, <1>3 DEF Pushed, Record
    <2> HIDE DEF t
    <2>4. Pushed(p, es) = Record(p.state, p.undo, t, p.mode)
      BY <1>1, <2>3, RecordWith
    <2> QED BY <1>1, <2>2, <2>4, OverMade
  <1> QED BY <1>2, <1>3

LEMMA ClosedOver ==
  ASSUME NEW S, NEW A, NEW p \in ProofOver(S, A), p.trans # <<>>
  PROVE  Closed(p) \in ProofOver(S, A) /\ Last(p.trans) \in Seq(Undos(S))
  <1> DEFINE f == Front(p.trans)
  <1>1. /\ p = Record(p.state, p.undo, p.trans, p.mode)
        /\ p.state \in S /\ p.undo \in Seq(Undos(A))
        /\ p.trans \in Seq(Seq(Undos(S))) /\ p.mode \in Modes
    BY OverParts
  <1>2. f \in Seq(Seq(Undos(S))) /\ Last(p.trans) \in Seq(Undos(S))
    BY <1>1, FrontAndLast
  <1>3. Closed(p) = [p EXCEPT !.trans = f]
    BY <1>1 DEF Closed, Record
  <1> HIDE DEF f
  <1>4. Closed(p) = Record(p.state, p.undo, f, p.mode)
    BY <1>1, <1>3, RecordWith
  <1> QED BY <1>1, <1>2, <1>4, OverMade

LEMMA PartOfSeq ==
  ASSUME NEW E, NEW l \in Seq(E), NEW i \in Nat, NEW j \in Nat, i >= 1, j <= Len(l)
  PROVE  SubSeq(l, i, j) \in Seq(E)
  <1>1. Len(l) \in Nat /\ \A k \in 1..Len(l) : l[k] \in E
    BY LenProperties, ElementOfSeq
  <1>2. \A k \in i..j : k \in 1..Len(l)
    BY <1>1
  <1>3. \A k \in i..j : l[k] \in E
    BY <1>1, <1>2
  <1> QED BY <1>3, SubSeqProperties

LEMMA CommittedOver ==
  ASSUME NEW S, NEW A, S \subseteq A, NEW p \in ProofOver(S, A), p.trans # <<>>,
         NEW n \in 0..Len(Last(p.trans))
  PROVE  Committed(p, n) \in ProofOver(S, A)
  <1> DEFINE l == Last(p.trans)
             q == Closed(p)
             es == SubSeq(l, 1, n)
  <1>1. q \in ProofOver(S, A) /\ l \in Seq(Undos(S))
    BY ClosedOver
  <1>2. Len(l) \in Nat /\ n \in Nat /\ n <= Len(l)
    BY <1>1, LenProperties
  <1>3. es \in Seq(Undos(S))
    BY <1>1, <1>2, PartOfSeq
  <1> HIDE DEF q, es
  <1>4. Pushed(q, es) \in ProofOver(S, A)
    BY <1>1, <1>3, PushedOver
  <1> QED BY <1>4 DEF Committed, q, es

\* The undo actions es are executed, and the proof q left
LEMMA RewoundOver ==
  ASSUME NEW S, NEW A, NEW B, S \subseteq B, NEW p \in ProofOver(S, A), NEW es \in Seq(Undos(B))
  PROVE  \E s \in B, m \in Modes : Rewound(p, es) = Record(s, p.undo, p.trans, m)
  <1> DEFINE s == IF HasSort(es, "state") THEN Oldest(es, "state").state ELSE p.state
             m == IF HasSort(es, "mode") THEN Oldest(es, "mode").mode ELSE p.mode
  <1>1. /\ p = Record(p.state, p.undo, p.trans, p.mode)
        /\ p.state \in S /\ p.mode \in Modes
    BY OverParts
  <1>2. \A x \in Undos(B) : /\ x.undo = "state" => x.state \in B
                            /\ x.undo = "mode" => x.mode \in Modes
    BY DEF Undos
  <1>3. s \in B
    BY <1>1, <1>2, OldestIsUndo
  <1>4. m \in Modes
    BY <1>1, <1>2, OldestIsUndo
  <1>5. Rewound(p, es) = [p EXCEPT !.state = s, !.mode = m]
    BY <1>1 DEF Rewound, Record
  <1> HIDE DEF s, m
  <1>6. [p EXCEPT !.state = s, !.mode = m] = Record(s, p.undo, p.trans, m)
    <2> DEFINE q == [p EXCEPT !.state = s]
    <2>1. q = Record(s, p.undo, p.trans, p.mode)
      BY <1>1, RecordWith
    <2> HIDE DEF q
    <2>2. [q EXCEPT !.mode = m] = Record(s, p.undo, p.trans, m)
      <3>1. q.state = s /\ q.undo = p.undo /\ q.trans = p.trans
            /\ q = Record(q.state, q.undo, q.trans, q.mode)
        BY <2>1, RecordFields
      <3>2. [q EXCEPT !.mode = m] = Record(q.state, q.undo, q.trans, m)
        BY <3>1, RecordWith
      <3> QED BY <3>1, <3>2
    <2> QED BY <2>2 DEF q
  <1> QED BY <1>3, <1>4, <1>5, <1>6

\* What a transaction restores is in S; outside of one it is in A.
LEMMA PoppedOver ==
  ASSUME NEW S, NEW A, S \subseteq A, NEW p \in ProofOver(S, A), NEW n \in 0..Len(Visible(p))
  PROVE  /\ Len(Visible(p)) \in Nat
         /\ Popped(p, n) \in ProofOver(A, A)
         /\ p.trans # <<>> => Popped(p, n) \in ProofOver(S, A)
         /\ p.trans = <<>> <=> Popped(p, n).trans = <<>>
  <1> DEFINE v == Visible(p)
             kept == Len(v) - n
             es == SubSeq(v, kept + 1, Len(v))
             q == Rewound(p, es)
             w == SubSeq(v, 1, kept)
  <1>1. /\ p = Record(p.state, p.undo, p.trans, p.mode)
        /\ p.state \in S /\ p.undo \in Seq(Undos(A))
        /\ p.trans \in Seq(Seq(Undos(S))) /\ p.mode \in Modes
    BY OverParts
  <1>2. ASSUME NEW B, v \in Seq(Undos(B))
        PROVE  Len(v) \in Nat /\ w \in Seq(Undos(B)) /\ es \in Seq(Undos(B))
    <2>1. Len(v) \in Nat /\ n \in 0..Len(v)
      BY <1>2, LenProperties
    <2> HIDE DEF v
    <2>2. kept \in Nat /\ kept + 1 \in Nat /\ kept + 1 >= 1 /\ kept <= Len(v) /\ 1 \in Nat
          /\ 1 >= 1 /\ Len(v) <= Len(v)
      BY <2>1
    <2> HIDE DEF kept
    <2> QED BY <1>2, <2>1, <2>2, PartOfSeq
  <1>3. CASE p.trans = <<>>
    <2>1. v = p.undo
      BY <1>3 DEF Visible
    <2> HIDE DEF v
    <2>2. Len(v) \in Nat /\ w \in Seq(Undos(A)) /\ es \in Seq(Undos(A))
      BY <1>1, <1>2, <2>1
    <2> HIDE DEF es, w
    <2>3. PICK s \in A, m \in Modes : q = Record(s, p.undo, p.trans, m)
      BY <2>2, RewoundOver
    <2>4. Popped(p, n) = [q EXCEPT !.undo = w]
      <3>1. q.undo = v
        BY <2>1, <2>3, RecordFields
      <3>2. Popped(p, n) = [q EXCEPT !.undo = SubSeq(@, 1, kept)]
        BY <1>3 DEF Popped, q, es, v
      <3> HIDE DEF q, kept
      <3> QED BY <3>1, <3>2, <2>3 DEF Record, w
    <2> HIDE DEF q
    <2>5. Popped(p, n) = Record(s, w, p.trans, m) /\ Popped(p, n).trans = p.trans
      <3>1. q.state = s /\ q.trans = p.trans /\ q.mode = m
            /\ q = Record(q.state, q.undo, q.trans, q.mode)
        BY <2>3, RecordFields
      <3>2. [q EXCEPT !.undo = w] = Record(q.state, w, q.trans, q.mode)
        BY <3>1, RecordWith
      <3> QED BY <2>4, <3>1, <3>2, RecordFields
    <2>6. <<>> \in Seq(Seq(Undos(A)))
      BY EmptySeq
    <2> QED BY <1>3, <2>2, <2>5, <2>6, OverMade DEF v
  <1>4. CASE p.trans # <<>>
    <2> DEFINE l == Len(p.trans)
               t == [p.trans EXCEPT ![l] = w]
    <2>1. v = Last(p.trans) /\ v = p.trans[l] /\ v \in Seq(Undos(S))
      BY <1>1, <1>4, FrontAndLast DEF Visible
    <2> HIDE DEF v
    <2>2. Len(v) \in Nat /\ w \in Seq(Undos(S)) /\ es \in Seq(Undos(S))
      BY <1>2, <2>1
    <2> HIDE DEF es, w
    <2>3. PICK s \in S, m \in Modes : q = Record(s, p.undo, p.trans, m)
      BY <2>2, RewoundOver
    <2>4. t \in Seq(Seq(Undos(S))) /\ t # <<>>
      <3>1. t \in Seq(Seq(Undos(S)))
        BY <1>1, <1>4, <2>2, LastChanged
      <3>2. l \in 1..l
        BY <1>1, <1>4, EmptySeq
      <3>3. Len(t) = l
        BY <1>1, <2>2, <3>2, ExceptSeq
      <3> HIDE DEF t, l
      <3>4. t # <<>>
        BY <3>2, <3>3, EmptySeq
      <3> QED BY <3>1, <3>4
    <2>5. Popped(p, n) = [q EXCEPT !.trans = t]
      <3>1. q.trans = p.trans
        BY <2>3, RecordFields
      <3>2. Popped(p, n) = [q EXCEPT !.trans[l] = SubSeq(@, 1, kept)]
        BY <1>4 DEF Popped, q, es, v
      <3>3. [q EXCEPT !.trans[l] = SubSeq(@, 1, kept)]
              = [q EXCEPT !.trans = [q.trans EXCEPT ![l] = SubSeq(q.trans[l], 1, kept)]]
        <4> HIDE DEF q, kept, l
        <4> QED BY <2>3 DEF Record
      <3> QED BY <2>1, <3>1, <3>2, <3>3 DEF w
    <2> HIDE DEF q, t
    <2>6. Popped(p, n) = Record(s, p.undo, t, m) /\ Popped(p, n).trans = t
      <3>1. q.state = s /\ q.undo = p.undo /\ q.mode = m
            /\ q = Record(q.state, q.undo, q.trans, q.mode)
        BY <2>3, RecordFields
      <3>2. [q EXCEPT !.trans = t] = Record(q.state, q.undo, t, q.mode)
        BY <3>1, RecordWith
      <3> QED BY <2>5, <3>1, <3>2, RecordFields
    <2>7. Popped(p, n) \in ProofOver(S, A)
      BY <1>1, <2>4, <2>6, OverMade
    <2>8. Popped(p, n) \in ProofOver(A, A)
      BY <2>7, UndosGrow
    <2> QED BY <1>4, <2>2, <2>4, <2>6, <2>7, <2>8 DEF v
  <1> QED BY <1>3, <1>4

LEMMA NewOver ==
  ASSUME NEW S, NEW A, InitialState \in S, InitialState \in A
  PROVE  NewProof \in ProofOver(S, A) /\ NewProof.state = InitialState
  <1> DEFINE i == InitialState
             x == [undo |-> "state", state |-> i]
             u == <<x>>
             t == <<>>
  <1>1. x \in Undos(A)
    BY DEF Undos
  <1>2. NewProof = Record(i, u, t, DefaultMode)
    BY DEF NewProof, Record
  <1>3. u \in Seq(Undos(A))
    <2> HIDE DEF x
    <2> QED BY <1>1
  <1>4. t \in Seq(Seq(Undos(S))) /\ DefaultMode \in Modes
    BY EmptySeq, ProofEngineAssumption
  <1> HIDE DEF u, t, i
  <1> QED BY <1>2, <1>3, <1>4, OverMade, RecordFields DEF i

-----------------------------------------------------------------------------
(* The states that the first instruction makes of that of the proof.       *)

Made(t) ==
  LET s == pr.state
      n == Now.goal
  IN  \/ /\ Running("unfocus") /\ MayUnfocus
         /\ t = Unfocused(s) \/ (Async /\ t = PoppedFocus(s))
      \/ /\ Running("focus") /\ Now.i <= Len(s.comb)
         /\ \/ t = Focused(s, Now.kind, Now.bullets, Now.i)
            \/ Async /\ t = PushedFocus(s, Now.kind, Now.bullets, Now.i)
      \/ /\ Running("tactic") /\ n <= Len(s.comb)
         /\ t = Replaced(s, s.comb, n, <<s.comb[n]>>)
      \/ /\ Running("tactic") /\ n <= Len(s.comb)
         /\ \E o \in Outcomes(s, s.comb[n]) :
              t = Replaced(Solving(s, o.solved, o.goals, o.holes), s.comb, n,
                           [i \in 1..o.goals |-> s.made + i])
      \/ /\ Running("instantiate")
         /\ \E e \in Unsolved(s), h \in 0..1 :
              s.made + h <= MaxEvars /\ t = Solving(s, {e}, 0, h)
      \/ Running("toGoals") /\ t = Grabbed(s)

\* The undo actions of the proof
LEMMA ActionsOver ==
  ASSUME NEW S, NEW A, S \subseteq A, pr \in ProofOver(S, A)
  PROVE  /\ Pushed(pr, <<StateUndo(pr)>>) \in ProofOver(S, A)
         /\ Pushed(pr, <<ModeUndo(pr)>>) \in ProofOver(S, A)
         /\ \A s \in S : WithState(s) \in ProofOver(S, A) /\ Step(s) \in ProofOver(S, A)
         /\ \A m \in Modes : [pr EXCEPT !.mode = m] \in ProofOver(S, A)
         /\ [pr EXCEPT !.trans = Append(@, <<>>)] \in ProofOver(S, A)
  <1>1. /\ pr = Record(pr.state, pr.undo, pr.trans, pr.mode)
        /\ pr.state \in S /\ pr.undo \in Seq(Undos(A))
        /\ pr.trans \in Seq(Seq(Undos(S))) /\ pr.mode \in Modes
    BY OverParts
  <1> DEFINE x == <<StateUndo(pr)>>
             y == <<ModeUndo(pr)>>
             t == Append(pr.trans, <<>>)
  <1>2. x \in Seq(Undos(S)) /\ y \in Seq(Undos(S))
    <2>1. StateUndo(pr) \in Undos(S) /\ ModeUndo(pr) \in Undos(S)
      BY <1>1 DEF StateUndo, ModeUndo, Undos
    <2> QED BY <2>1
  <1> HIDE DEF x, y
  <1>3. Pushed(pr, x) \in ProofOver(S, A) /\ Pushed(pr, y) \in ProofOver(S, A)
    BY <1>2, PushedOver
  <1>4. ASSUME NEW s \in S PROVE WithState(s) \in ProofOver(S, A) /\ Step(s) \in ProofOver(S, A)
    <2> DEFINE q == WithState(s)
    <2>1. q = Record(s, pr.undo, pr.trans, pr.mode)
      BY <1>1, RecordWith DEF WithState
    <2>2. Step(s) = Pushed(q, x)
      BY DEF Step, x
    <2> HIDE DEF q
    <2>3. q \in ProofOver(S, A)
      BY <1>1, <2>1, OverMade
    <2> QED BY <1>2, <2>2, <2>3, PushedOver DEF q
  <1>5. ASSUME NEW m \in Modes PROVE [pr EXCEPT !.mode = m] \in ProofOver(S, A)
    <2>1. [pr EXCEPT !.mode = m] = Record(pr.state, pr.undo, pr.trans, m)
      BY <1>1, RecordWith
    <2> QED BY <1>1, <2>1, OverMade
  <1>6. [pr EXCEPT !.trans = Append(@, <<>>)] \in ProofOver(S, A)
    <2>1. t \in Seq(Seq(Undos(S)))
      BY <1>1, EmptySeq, AppendProperties
    <2>2. [pr EXCEPT !.trans = Append(@, <<>>)] = [pr EXCEPT !.trans = t]
      BY <1>1 DEF Record
    <2> HIDE DEF t
    <2>3. [pr EXCEPT !.trans = t] = Record(pr.state, pr.undo, t, pr.mode)
      BY <1>1, RecordWith
    <2>4. [pr EXCEPT !.trans = t] \in ProofOver(S, A)
      BY <1>1, <2>1, <2>3, OverMade
    <2> QED BY <2>2, <2>4
  <1> QED BY <1>3, <1>4, <1>5, <1>6 DEF x, y

\* The proof after a step: over the same sets if these have the states made;
\* unless undo actions of the undo stack have been executed, by Undo or by a
\* rollback outside of any transaction, which raises an anomaly; or the proof
\* is a new one.
Kept(S, A) == pr' \in ProofOver(S, A)

OutOfStack(A) ==
  /\ pr' \in ProofOver(A, A) /\ pr.trans = <<>>
  /\ Running("pop") \/ exn' \in {"Assert", "Break"}

LEMMA UnfocusOver ==
  ASSUME NEW S, NEW A, S \subseteq A, pr \in ProofOver(S, A), \A t : Made(t) => t \in S,
         UnfocusStep \/ UnfocusInterrupted \/ FocusStep \/ FocusInterrupted
  PROVE  Kept(S, A)
  <1>1. \A t \in S : WithState(t) \in ProofOver(S, A) /\ Step(t) \in ProofOver(S, A)
    BY ActionsOver
  <1>2. \A e : Raise(e) => Kept(S, A)
    BY DEF Kept, Raise
  <1>3. CASE UnfocusStep \/ UnfocusInterrupted
    <2>1. CASE \E e : Raise(e)
      BY <1>2, <2>1
    <2>2. CASE ~\E e : Raise(e)
      <3>1. Running("unfocus") /\ MayUnfocus
        BY <1>3, <2>2 DEF UnfocusStep, UnfocusInterrupted, MayUnfocus
      <3>2. \/ pr' = Step(Unfocused(pr.state)) \/ pr' = WithState(Unfocused(pr.state))
            \/ Async /\ pr' = WithState(PoppedFocus(pr.state))
        BY <1>3, <2>2 DEF UnfocusStep, UnfocusInterrupted, Do, BrokenAt
      <3>3. Made(Unfocused(pr.state)) /\ (Async => Made(PoppedFocus(pr.state)))
        BY <3>1 DEF Made
      <3> QED BY <1>1, <3>2, <3>3 DEF Kept
    <2> QED BY <2>1, <2>2
  <1>4. CASE FocusStep \/ FocusInterrupted
    <2>1. CASE \E e : Raise(e)
      BY <1>2, <2>1
    <2>2. CASE ~\E e : Raise(e)
      <3> DEFINE u == Focused(pr.state, Now.kind, Now.bullets, Now.i)
                 v == PushedFocus(pr.state, Now.kind, Now.bullets, Now.i)
      <3>1. Running("focus") /\ Now.i <= Len(pr.state.comb)
        BY <1>4, <2>2 DEF FocusStep, FocusInterrupted
      <3>2. pr' = WithState(u) \/ (Async /\ pr' = WithState(v))
        BY <1>4, <2>2 DEF FocusStep, FocusInterrupted, Do, BrokenAt
      <3>3. Made(u) /\ (Async => Made(v))
        BY <3>1 DEF Made
      <3> QED BY <1>1, <3>2, <3>3 DEF Kept
    <2> QED BY <2>1, <2>2
  <1> QED BY <1>3, <1>4

LEMMA EvarsOver ==
  ASSUME NEW S, NEW A, S \subseteq A, pr \in ProofOver(S, A), \A t : Made(t) => t \in S,
         Tactic \/ Instantiate \/ ToGoals
  PROVE  Kept(S, A)
  <1> DEFINE s == pr.state
             n == Now.goal
  <1>1. \A t \in S : WithState(t) \in ProofOver(S, A) /\ Step(t) \in ProofOver(S, A)
    BY ActionsOver
  <1>2. \A e : Raise(e) => Kept(S, A)
    BY DEF Kept, Raise
  <1>3. ASSUME NEW t, Made(t), pr' = Step(t) \/ pr' = WithState(t) PROVE Kept(S, A)
    BY <1>1, <1>3 DEF Kept
  <1>4. CASE Tactic
    <2>1. \/ Raise("Error")
          \/ \E t : Made(t) /\ pr' = Step(t)
      BY <1>4 DEF Tactic, Do, Made
    <2> QED BY <1>2, <1>3, <2>1
  <1>5. CASE Instantiate
    <2>1. \/ Raise("Error")
          \/ \E t : Made(t) /\ pr' = Step(t)
      BY <1>5 DEF Instantiate, Do, Made
    <2> QED BY <1>2, <1>3, <2>1
  <1>6. CASE ToGoals
    <2>1. Made(Grabbed(s)) /\ pr' = WithState(Grabbed(s))
      BY <1>6 DEF ToGoals, Do, Made, Grabbed
    <2> QED BY <1>3, <2>1
  <1> QED BY <1>4, <1>5, <1>6

LEMMA UndoOver ==
  ASSUME NEW S, NEW A, S \subseteq A, pr \in ProofOver(S, A), Pop \/ Rollback \/ RollbackInterrupted
  PROVE  Kept(S, A) \/ OutOfStack(A)
  <1>1. \A n \in 0..Len(Visible(pr)) :
          /\ Len(Visible(pr)) \in Nat
          /\ Popped(pr, n) \in ProofOver(A, A)
          /\ pr.trans # <<>> => Popped(pr, n) \in ProofOver(S, A)
          /\ pr.trans = <<>> <=> Popped(pr, n).trans = <<>>
    BY PoppedOver
  <1>2. Visible(pr) \in Seq(Undos(S)) \/ Visible(pr) \in Seq(Undos(A))
    BY OverParts, ClosedOver DEF Visible
  <1>3. Len(Visible(pr)) \in Nat
    BY <1>2, LenProperties
  <1>4. ASSUME NEW n \in 0..Len(Visible(pr)), pr' = Popped(pr, n),
               Running("pop") \/ exn' \in {"Assert", "Break"}
        PROVE  Kept(S, A) \/ OutOfStack(A)
    BY <1>1, <1>4 DEF Kept, OutOfStack
  <1>5. CASE Pop
    <2>1. CASE Visible(pr) = <<>>
      BY <1>5, <2>1 DEF Pop, Raise, Kept
    <2>2. CASE Visible(pr) # <<>>
      <3>1. 1 \in 0..Len(Visible(pr))
        BY <1>2, <1>3, <2>2, EmptySeq
      <3>2. pr' = Popped(pr, 1) /\ Running("pop")
        BY <1>5, <2>2 DEF Pop, Do
      <3> QED BY <1>4, <3>1, <3>2
    <2> QED BY <2>1, <2>2
  <1>6. CASE Rollback
    <2> DEFINE n == Len(Visible(pr))
               p == Popped(pr, n)
    <2>1. n \in 0..n
      BY <1>3
    <2>2. \A e : RaiseIn(Rest, e) => exn' = e
      BY DEF RaiseIn
    <2>3. CASE pr.trans = <<>>
      <3>1. pr' = p /\ exn' = "Assert"
        BY <1>6, <2>2, <2>3 DEF Rollback
      <3> QED BY <1>4, <2>1, <3>1
    <2>4. CASE pr.trans # <<>>
      <3>1. p \in ProofOver(S, A) /\ p.trans # <<>>
        BY <1>1, <2>1, <2>4
      <3>2. pr' = Closed(p)
        BY <1>6, <2>4 DEF Rollback
      <3> HIDE DEF p
      <3>3. Closed(p) \in ProofOver(S, A)
        BY <3>1, ClosedOver
      <3> QED BY <3>2, <3>3 DEF Kept
    <2> QED BY <2>3, <2>4
  <1>7. CASE RollbackInterrupted
    <2>1. \E n \in 0..Len(Visible(pr)) : pr' = Popped(pr, n)
      BY <1>7 DEF RollbackInterrupted
    <2>2. exn' = "Break"
      BY <1>7 DEF RollbackInterrupted, RaiseIn
    <2> QED BY <1>4, <2>1, <2>2
  <1> QED BY <1>5, <1>6, <1>7

LEMMA StepsOver ==
  ASSUME NEW S, NEW A, S \subseteq A, pr \in ProofOver(S, A), \A t : Made(t) => t \in S,
         Running("setMode") => Now.mode \in Modes,
         Instruction \/ Interrupted
  PROVE  \/ Kept(S, A)
         \/ OutOfStack(A)
         \/ Running("declare") /\ pr' = NewProof /\ ctrl' = <<>>
  <1>1. CASE pr' = pr
    BY <1>1 DEF Kept
  <1>2. CASE Begin \/ Save \/ SaveMode \/ SetMode
    BY <1>2, ActionsOver DEF Begin, Save, SaveMode, SetMode, Do, Kept
  <1>3. CASE Commit \/ CommitInterrupted
    <2>1. pr.trans # <<>>
      BY <1>3 DEF Commit, CommitInterrupted
    <2>2. Len(Last(pr.trans)) \in Nat
      BY <2>1, ClosedOver, LenProperties
    <2>3. \E n \in 0..Len(Last(pr.trans)) : pr' = Committed(pr, n)
      <3>1. Len(Last(pr.trans)) \in 0..Len(Last(pr.trans))
        BY <2>2
      <3> QED BY <1>3, <3>1 DEF Commit, CommitInterrupted, Do, BrokenAt
    <2> QED BY <2>1, <2>3, CommittedOver DEF Kept
  <1>4. CASE \/ UndoMany \/ GrabEvars \/ Relabel \/ Maximal \/ PutBullet \/ PopBullet
             \/ PushBullet \/ Return \/ Relabelled \/ MaximalEnds \/ Interrupt
    <2>1. pr' = pr
      BY <1>4 DEF UndoMany, GrabEvars, Relabel, Maximal, PutBullet, NoFocus, PopBullet, PushBullet,
                  Return, Relabelled, MaximalEnds, Interrupt, Raise, Expand, Do
    <2> QED BY <1>1, <2>1
  <1>5. CASE Declare
    BY <1>1, <1>5 DEF Declare, Raise
  <1> QED BY <1>2, <1>3, <1>4, <1>5, UnfocusOver, EvarsOver, UndoOver
          DEF Instruction, Interrupted
-----------------------------------------------------------------------------
(* Instructions have their type.                                           *)

LEMMA InstrParts ==
  ASSUME NEW x \in Instr
  PROVE  /\ x.op = "tactic" => x.goal \in Nat \ {0}
         /\ x.op = "unfocus" => x.kind \in Kinds
         /\ x.op = "focus" => /\ x.kind \in Kinds /\ x.bullets \in Seq(Bullets)
                              /\ x.i \in Nat \ {0}
         /\ x.op \in {"put", "popUntil", "push"} => x.bullet \in Bullets
         /\ x.op = "setMode" => x.mode \in Modes
         /\ x.op = "undo" => x.n \in Nat
  BY DEF Instr

LEMMA InstrMade ==
  /\ \A op \in {"begin", "commit", "save", "saveMode", "pop", "instantiate", "grab", "toGoals",
                "relabel", "maximal", "return", "declare"} : Op(op) \in Instr
  /\ \A kind \in Kinds : UnfocusOp(kind) \in Instr
  /\ \A kind \in Kinds, bullets \in Seq(Bullets), i \in Nat \ {0} :
       FocusOp(kind, bullets, i) \in Instr
  /\ \A op \in {"put", "popUntil", "push"}, b \in Bullets : BulletOp(op, b) \in Instr
  /\ \A n \in Nat \ {0} : [op |-> "tactic", goal |-> n] \in Instr
  /\ \A m \in Modes : [op |-> "setMode", mode |-> m] \in Instr
  /\ \A n \in Nat : [op |-> "undo", n |-> n] \in Instr
  BY DEF Instr, Op, UnfocusOp, FocusOp, BulletOp

LEMMA InstrLists ==
  /\ \A x \in Instr : <<x>> \in Seq(Instr)
  /\ \A x, y \in Instr : <<x, y>> \in Seq(Instr)
  /\ \A b \in Seq(Instr) : Transaction(b) \in Seq(Instr)
  /\ \A a, b \in Seq(Instr) : a \o b \in Seq(Instr)
  <1>1. ASSUME NEW b \in Seq(Instr) PROVE Transaction(b) \in Seq(Instr)
    <2>1. Op("begin") \in Instr /\ Op("commit") \in Instr
      BY InstrMade
    <2> QED BY <2>1, TransactionList
  <1>2. ASSUME NEW a \in Seq(Instr), NEW b \in Seq(Instr) PROVE a \o b \in Seq(Instr)
    BY ConcatProperties
  <1> QED BY <1>1, <1>2

\* An exception that is raised reaches a handler, or the end of the command.
LEMMA RaisedTyped ==
  ASSUME NEW c \in Seq(Instr), NEW e, RaiseIn(c, e)
  PROVE  /\ ctrl' \in Seq(Instr) /\ exn' = e
         /\ ctrl' = <<>> \/ IsHandler(Head(ctrl'))
  <1>1. ctrl' \in Seq(Instr) /\ exn' = e
    BY RaisedControl
  <1>2. CASE ctrl' = <<>>
    BY <1>1, <1>2
  <1>3. CASE ctrl' # <<>>
    <2>1. PICK h \in DOMAIN c : IsHandler(c[h]) /\ ctrl' = SubSeq(c, h, Len(c))
      BY <1>3 DEF RaiseIn
    <2>2. h \in 1..Len(c) /\ Len(c) \in Nat /\ \A k \in 1..Len(c) : c[k] \in Instr
      BY LenProperties, ElementOfSeq
    <2>3. h \in Int /\ Len(c) \in Int /\ \A k \in h..Len(c) : c[k] \in Instr
      BY <2>2
    <2> DEFINE d == SubSeq(c, h, Len(c))
    <2>4. /\ d \in Seq(Instr)
          /\ Len(d) = IF h <= Len(c) THEN Len(c) - h + 1 ELSE 0
          /\ \A k \in 1..Len(d) : d[k] = c[h + k - 1]
      BY <2>2, <2>3, SubSeqProperties
    <2> HIDE DEF d
    <2>5. 1 \in 1..Len(d) /\ h + 1 - 1 = h
      BY <2>2, <2>4
    <2>6. d[1] = c[h]
      BY <2>4, <2>5
    <2>7. Head(d) = d[1]
      BY <2>4, HeadTailProperties
    <2> QED BY <1>1, <2>1, <2>6, <2>7 DEF d
  <1> QED BY <1>2, <1>3

LEMMA BodiesTyped ==
  ASSUME Command
  PROVE  \E cmd, b : Call(cmd, b) /\ b \in Seq(Instr)
  <1> DEFINE Done == \E cmd, b : Call(cmd, b) /\ b \in Seq(Instr)
  <1>1. ASSUME NEW cmd, NEW b \in Seq(Instr), Call(cmd, b) PROVE Done
    BY <1>1
  <1>2. /\ \A n \in 1..MaxIndex : n \in Nat \ {0}
        /\ \A n \in 1..MaxUndo : n \in Nat
        /\ 1 \in Nat \ {0} /\ <<>> \in Seq(Bullets)
        /\ \A k \in {"command", "subproof", "end", "bullet"} : k \in Kinds
    BY ProofEngineAssumption, EmptySeq DEF Kinds
  <1> HIDE DEF Done
  <1>3. ASSUME NEW n \in 1..MaxIndex, Solve(n) PROVE Done
    <2> DEFINE x == [op |-> "tactic", goal |-> n]
               b == Transaction(<<x, Op("maximal")>>)
    <2>1. x \in Instr /\ Op("maximal") \in Instr
      BY <1>2, InstrMade
    <2>2. b \in Seq(Instr)
      <3> HIDE DEF x
      <3> QED BY <2>1, InstrLists
    <2> QED BY <1>1, <1>3, <2>2 DEF Solve
  <1>4. ASSUME NEW n \in 1..MaxIndex, FocusCommand(n) PROVE Done
    <2> DEFINE x == FocusOp("command", <<>>, n)
               b == <<Op("save"), x>>
    <2>1. x \in Instr /\ Op("save") \in Instr
      BY <1>2, InstrMade
    <2>2. b \in Seq(Instr)
      <3> HIDE DEF x
      <3> QED BY <2>1, InstrLists
    <2> QED BY <1>1, <1>4, <2>2 DEF FocusCommand
  <1>5. ASSUME Subproof PROVE Done
    <2> DEFINE x == FocusOp("subproof", <<>>, 1)
               b == <<Op("save"), x>>
    <2>1. x \in Instr /\ Op("save") \in Instr
      BY <1>2, InstrMade
    <2>2. b \in Seq(Instr)
      <3> HIDE DEF x
      <3> QED BY <2>1, InstrLists
    <2> QED BY <1>1, <1>5, <2>2 DEF Subproof
  <1>6. ASSUME Unfocus \/ EndSubproof PROVE Done
    <2>1. \A kind \in Kinds : Transaction(<<UnfocusOp(kind)>>) \in Seq(Instr)
      BY InstrMade, InstrLists
    <2> QED BY <1>1, <1>2, <1>6, <2>1 DEF Unfocus, EndSubproof
  <1>7. ASSUME NEW u \in Bullets, Bullet(u) PROVE Done
    <2> DEFINE b == Transaction(<<BulletOp("put", u)>>)
    <2>1. b \in Seq(Instr)
      BY InstrMade, InstrLists
    <2> QED BY <1>1, <1>7, <2>1 DEF Bullet
  <1>8. ASSUME SaveProof PROVE Done
    <2> DEFINE b == Transaction(<<Op("return"), Op("declare")>>)
    <2>1. Op("return") \in Instr /\ Op("declare") \in Instr
      BY InstrMade
    <2>2. b \in Seq(Instr)
      BY <2>1, InstrLists
    <2> QED BY <1>1, <1>8, <2>2 DEF SaveProof
  <1>9. ASSUME NEW m \in Modes, ProofMode(m) PROVE Done
    <2> DEFINE x == [op |-> "setMode", mode |-> m]
               b == <<Op("saveMode"), x>>
    <2>1. x \in Instr /\ Op("saveMode") \in Instr
      BY InstrMade
    <2>2. b \in Seq(Instr)
      <3> HIDE DEF x
      <3> QED BY <2>1, InstrLists
    <2> QED BY <1>1, <1>9, <2>2 DEF ProofMode
  <1>10. ASSUME Existential \/ Grab PROVE Done
    <2>1. <<Op("instantiate")>> \in Seq(Instr) /\ <<Op("grab")>> \in Seq(Instr)
      <3>1. Op("instantiate") \in Instr /\ Op("grab") \in Instr
        BY InstrMade
      <3> QED BY <3>1, InstrLists
    <2> QED BY <1>1, <1>10, <2>1 DEF Existential, Grab
  <1>11. ASSUME NEW n \in 1..MaxUndo, Undo(n) PROVE Done
    <2> DEFINE x == [op |-> "undo", n |-> n]
    <2>1. x \in Instr
      BY <1>2, InstrMade
    <2>2. <<x>> \in Seq(Instr)
      <3> HIDE DEF x
      <3> QED BY <2>1, InstrLists
    <2> QED BY <1>1, <1>11, <2>2 DEF Undo
  <1>12. Done
    BY <1>3, <1>4, <1>5, <1>6, <1>7, <1>8, <1>9, <1>10, <1>11 DEF Command
  <1> QED BY <1>12 DEF Done

\* The control and the exception have their type.
ControlOK ==
  /\ ctrl \in Seq(Instr) /\ exn \in Exceptions \union {"none"}
  /\ Idle \/ exn = "none" \/ IsHandler(Now)

LEMMA ControlStaysTyped ==
  ASSUME ControlOK, pr.state \in ProofState, Instruction \/ Interrupted
  PROVE  ControlOK'
  <1>1. ctrl \in Seq(Instr) /\ exn \in Exceptions \union {"none"}
    BY DEF ControlOK
  <1>2. Now \in Instr /\ Rest \in Seq(Instr) /\ ctrl # <<>>
    BY <1>1, HeadOfControl
  <1>3. ASSUME NEW e \in Exceptions, RaiseIn(ctrl, e) \/ RaiseIn(Rest, e) PROVE ControlOK'
    BY <1>1, <1>2, <1>3, RaisedTyped DEF ControlOK, Idle, Now
  <1>4. \A e \in Exceptions : Raise(e) => ControlOK'
    BY <1>3 DEF Raise
  <1>5. ASSUME NEW c \in Seq(Instr), exn = "none", Continue(c) PROVE ControlOK'
    BY <1>5 DEF Continue, ControlOK
  <1>6. ASSUME NEW b \in Seq(Instr), exn = "none", Expand(b) \/ Continue(b \o Rest) PROVE ControlOK'
    BY <1>2, <1>5, <1>6, InstrLists DEF Expand
  <1>7. ASSUME NEW p, exn = "none", Do(p) PROVE ControlOK'
    BY <1>2, <1>5, <1>7 DEF Do
  <1>8. \A op : Running(op) => exn = "none" /\ Now.op = op
    BY DEF Running, Now
  <1>9. {"Error", "Failure", "Assert", "Break", "IndexOutOfRange", "FullyUnfocused",
         "CannotUnfocusThisWay"} = Exceptions
    BY DEF Exceptions
  <1>10. CASE Begin \/ Commit \/ Save \/ SaveMode \/ SetMode \/ Relabel
    BY <1>7, <1>8, <1>10 DEF Begin, Commit, Save, SaveMode, SetMode, Relabel
  <1>11. CASE Pop \/ Tactic \/ Instantiate \/ ToGoals \/ FocusStep
    <2>1. exn = "none" /\ ((\E p : Do(p)) \/ \E e \in Exceptions : Raise(e))
      BY <1>8, <1>9, <1>11 DEF Pop, Tactic, Instantiate, ToGoals, FocusStep
    <2> QED BY <1>4, <1>7, <2>1
  <1>12. CASE UndoMany
    <2> DEFINE b == [i \in 1..Now.n |-> Op("pop")]
    <2>1. Now.n \in Nat /\ Op("pop") \in Instr
      BY <1>2, <1>8, <1>12, InstrParts, InstrMade DEF UndoMany
    <2>2. b \in Seq(Instr)
      BY <2>1
    <2>3. exn = "none" /\ (Raise("Error") \/ Expand(b))
      BY <1>8, <1>12 DEF UndoMany
    <2> QED BY <1>4, <1>6, <1>9, <2>2, <2>3
  <1>13. CASE GrabEvars
    <2> DEFINE b == <<Op("save"), Op("toGoals")>>
    <2>1. b \in Seq(Instr)
      <3>1. Op("save") \in Instr /\ Op("toGoals") \in Instr
        BY InstrMade
      <3> QED BY <3>1, InstrLists
    <2>2. exn = "none" /\ (Raise("Error") \/ Expand(b))
      BY <1>8, <1>13 DEF GrabEvars
    <2> QED BY <1>4, <1>6, <1>9, <2>1, <2>2
  <1>14. CASE UnfocusStep
    <2> DEFINE b == <<Now, Op("relabel")>>
               answer == UnfocusCheck(pr.state, Now.kind)
    <2>1. b \in Seq(Instr)
      <3>1. Op("relabel") \in Instr
        BY InstrMade
      <3> QED BY <1>2, <3>1, InstrLists
    <2>2. answer \in {"FullyUnfocused", "CannotUnfocusThisWay", "Strict", "Loose"}
      BY DEF UnfocusCheck, FocusCondition, Refusal
    <2>3. exn = "none" /\ ((\E e \in Exceptions : Raise(e)) \/ (\E p : Do(p)) \/ Continue(b \o Rest))
      BY <1>8, <1>9, <1>14, <2>2 DEF UnfocusStep, MayUnfocus
    <2> HIDE DEF b
    <2> QED BY <1>4, <1>6, <1>7, <2>1, <2>3
  <1>15. CASE Maximal
    <2> DEFINE t == Transaction(<<UnfocusOp("command")>>)
               b == t \o <<Now>>
    <2>1. t \in Seq(Instr) /\ <<Now>> \in Seq(Instr)
      <3>1. UnfocusOp("command") \in Instr
        BY InstrMade DEF Kinds
      <3> QED BY <1>2, <3>1, InstrLists
    <2>2. b \in Seq(Instr)
      <3> HIDE DEF t
      <3> QED BY <2>1, InstrLists
    <2>3. exn = "none" /\ (Expand(b) \/ Do(pr))
      BY <1>8, <1>15 DEF Maximal
    <2> HIDE DEF b
    <2> QED BY <1>6, <1>7, <2>2, <2>3
  <1>16. CASE PutBullet
    <2> DEFINE x == BulletOp("popUntil", Now.bullet)
               y == BulletOp("push", Now.bullet)
               b == Transaction(<<x, y>>)
               c == <<y>>
    <2>1. x \in Instr /\ y \in Instr
      <3>1. Now.bullet \in Bullets
        BY <1>2, <1>8, <1>16, InstrParts DEF PutBullet
      <3> QED BY <3>1, InstrMade
    <2>2. exn = "none" /\ (Raise("Failure") \/ Expand(b) \/ Expand(c))
      BY <1>8, <1>16 DEF PutBullet, NoFocus
    <2> HIDE DEF x, y
    <2>3. b \in Seq(Instr) /\ c \in Seq(Instr)
      BY <2>1, InstrLists
    <2> HIDE DEF b, c
    <2> QED BY <1>4, <1>6, <1>9, <2>2, <2>3
  <1>17. CASE PopBullet
    <2> DEFINE t == Transaction(<<UnfocusOp("bullet")>>)
               more == IF Head(GetBullets(pr.state)) = Now.bullet THEN <<>> ELSE <<Now>>
               b == t \o more
    <2>1. t \in Seq(Instr) /\ more \in Seq(Instr)
      <3>1. UnfocusOp("bullet") \in Instr
        BY InstrMade DEF Kinds
      <3> QED BY <1>2, <3>1, InstrLists, EmptySeq
    <2>2. b \in Seq(Instr)
      <3> HIDE DEF t, more
      <3> QED BY <2>1, InstrLists
    <2>3. exn = "none" /\ Expand(b)
      BY <1>8, <1>17 DEF PopBullet
    <2> HIDE DEF b
    <2> QED BY <1>6, <2>2, <2>3
  <1>18. CASE PushBullet
    <2> DEFINE s == pr.state
               l == <<Now.bullet>> \o GetBullets(s)
               x == FocusOp("bullet", l, 1)
               b == <<Op("save"), x>>
    <2>1. Now.bullet \in Bullets /\ s.focus # <<>>
      BY <1>2, <1>8, <1>18, InstrParts DEF PushBullet
    <2>2. GetBullets(s) \in Seq(Bullets)
      <3>1. Last(s.focus) \in FocusFrame
        BY <2>1, StateTypes, FrontAndLast
      <3>2. Last(s.focus).bullets \in Seq(Bullets)
        BY <3>1 DEF FocusFrame
      <3> QED BY <3>2, EmptySeq DEF GetBullets
    <2>3. l \in Seq(Bullets)
      <3> HIDE DEF s
      <3> QED BY <2>1, <2>2, ConcatProperties
    <2>4. x \in Instr /\ Op("save") \in Instr
      <3> HIDE DEF l
      <3>1. "bullet" \in Kinds /\ 1 \in Nat \ {0}
        BY DEF Kinds
      <3> QED BY <2>3, <3>1, InstrMade
    <2>5. exn = "none" /\ Expand(b)
      BY <1>8, <1>18 DEF PushBullet
    <2>6. b \in Seq(Instr)
      <3> HIDE DEF x
      <3> QED BY <2>4, InstrLists
    <2> HIDE DEF b
    <2> QED BY <1>6, <2>5, <2>6
  <1>19. CASE Return
    <2> DEFINE b == Transaction(<<UnfocusOp("end")>>)
    <2>1. b \in Seq(Instr)
      BY InstrMade, InstrLists DEF Kinds
    <2>2. exn = "none" /\ (Raise("Error") \/ Expand(b))
      BY <1>8, <1>19 DEF Return
    <2> HIDE DEF b
    <2> QED BY <1>4, <1>6, <1>9, <2>1, <2>2
  <1>20. CASE Declare
    <2>1. Raise("Error") \/ (ctrl' = <<>> /\ exn' = exn)
      BY <1>20 DEF Declare
    <2> QED BY <1>1, <1>4, <1>9, <2>1, EmptySeq DEF ControlOK, Idle
  <1>21. CASE Rollback \/ Relabelled \/ MaximalEnds
    <2>1. exn \in Exceptions /\ exn # "none"
      BY <1>1, <1>21 DEF Rollback, Relabelled, MaximalEnds, Unwinding
    <2>2. \/ \E e \in Exceptions : RaiseIn(Rest, e)
          \/ exn' = "none" /\ ctrl' = Rest
      BY <1>9, <1>21, <2>1 DEF Rollback, Relabelled, MaximalEnds
    <2> QED BY <1>2, <1>3, <2>2 DEF ControlOK
  <1>22. CASE Interrupted
    <2>1. RaiseIn(ctrl, "Break") \/ RaiseIn(Rest, "Break")
      BY <1>22 DEF Interrupted, Interrupt, UnfocusInterrupted, FocusInterrupted, CommitInterrupted,
                   RollbackInterrupted, BrokenAt, Raise
    <2> QED BY <1>3, <1>9, <2>1
  <1> QED BY <1>10, <1>11, <1>12, <1>13, <1>14, <1>15, <1>16, <1>17, <1>18, <1>19, <1>20, <1>21,
             <1>22 DEF Instruction

-----------------------------------------------------------------------------
(* The variables have their types.                                         *)

LEMMA MadeTyped ==
  ASSUME pr.state \in ProofState, Now \in Instr, NEW t, Made(t)
  PROVE  t \in ProofState
  <1> DEFINE s == pr.state
             n == Now.goal
  <1>1. /\ s \in ProofState /\ s.comb \in Seq(Evars) /\ s.made \in Nat /\ Len(s.comb) \in Nat
        /\ IsState(s)
    BY StateTypes, LenProperties
  <1>2. \A op : Running(op) => Now.op = op
    BY DEF Running, Now
  <1>3. CASE Running("unfocus") /\ MayUnfocus /\ (t = Unfocused(s) \/ t = PoppedFocus(s))
    <2>1. s.focus # <<>>
      BY <1>3 DEF MayUnfocus, UnfocusCheck
    <2> HIDE DEF s
    <2> QED BY <1>1, <1>3, <2>1, UnfocusedTyped
  <1>4. CASE /\ Running("focus") /\ Now.i <= Len(s.comb)
             /\ t \in {Focused(s, Now.kind, Now.bullets, Now.i),
                       PushedFocus(s, Now.kind, Now.bullets, Now.i)}
    <2>1. Now.kind \in Kinds /\ Now.bullets \in Seq(Bullets) /\ Now.i \in Nat \ {0}
      BY <1>2, <1>4, InstrParts
    <2>2. Now.i \in 1..Len(s.comb)
      BY <1>1, <1>4, <2>1
    <2>3. /\ PushedFocus(s, Now.kind, Now.bullets, Now.i) \in ProofState
          /\ Focused(s, Now.kind, Now.bullets, Now.i) \in ProofState
      BY <1>1, <2>1, <2>2, FocusedTyped
    <2> QED BY <1>4, <2>3
  <1>5. ASSUME Running("tactic"), n <= Len(s.comb) PROVE n \in 1..Len(s.comb)
    <2>1. n \in Nat \ {0}
      BY <1>2, <1>5, InstrParts
    <2> HIDE DEF n, s
    <2> QED BY <1>1, <1>5, <2>1
  <1>6. CASE Running("tactic") /\ n <= Len(s.comb) /\ t = Replaced(s, s.comb, n, <<s.comb[n]>>)
    <2>1. n \in 1..Len(s.comb)
      BY <1>5, <1>6
    <2>2. <<s.comb[n]>> \in Seq(Evars)
      <3> HIDE DEF s, n
      <3> QED BY <1>1, <2>1, ElementOfSeq
    <2> HIDE DEF s, n
    <2> QED BY <1>1, <1>6, <2>1, <2>2, ReplacedTyped
  <1>7. ASSUME Running("tactic"), n <= Len(s.comb), NEW o \in Outcomes(s, s.comb[n]),
               t = Replaced(Solving(s, o.solved, o.goals, o.holes), s.comb, n,
                            [i \in 1..o.goals |-> s.made + i])
        PROVE  t \in ProofState
    <2> DEFINE k == o.goals
               h == o.holes
               u == Solving(s, o.solved, k, h)
               new == [i \in 1..k |-> s.made + i]
    <2>1. n \in 1..Len(s.comb)
      BY <1>5, <1>7
    <2>2. k \in Nat /\ h \in Nat /\ s.made + k + h <= MaxEvars
      BY <1>7 DEF Outcomes
    <2>3. t = Replaced(u, s.comb, n, new)
      BY <1>7
    <2> HIDE DEF k, h, s, n
    <2>4. u \in ProofState
      BY <1>1, <2>2, SolvingTyped
    <2>5. new \in Seq(s.made + 1 .. s.made + k)
      BY <1>1, <2>2, NewGoals
    <2> HIDE DEF u, new
    <2>6. (s.made + 1 .. s.made + k) \subseteq Evars
      BY <1>1, <2>2, ProofEngineAssumption DEF Evars
    <2>7. new \in Seq(Evars)
      BY <2>5, <2>6, SeqMonotonic
    <2> QED BY <1>1, <2>1, <2>3, <2>4, <2>7, ReplacedTyped
  <1>8. ASSUME NEW e, NEW h \in 0..1, s.made + h <= MaxEvars, t = Solving(s, {e}, 0, h)
        PROVE  t \in ProofState
    <2>1. 0 \in Nat /\ h \in Nat /\ s.made + 0 + h <= MaxEvars
      BY <1>1, <1>8
    <2> HIDE DEF s
    <2> QED BY <1>1, <1>8, <2>1, SolvingTyped
  <1>9. CASE t = Grabbed(s)
    BY <1>1, <1>9, GrabbedTyped
  <1> QED BY <1>3, <1>4, <1>6, <1>7, <1>8, <1>9 DEF Made

LEMMA OverProofState ==
  /\ Proof = ProofOver(ProofState, ProofState)
  /\ InitialState \in ProofState
  /\ NewProof \in Proof
  <1>1. Proof = ProofOver(ProofState, ProofState)
    BY DEF Proof, ProofOver, UndoAction, Undos
  <1> QED BY <1>1, InitialTyped, NewOver

LEMMA TypesKept ==
  ASSUME TypeOK, [Next]_vars
  PROVE  TypeOK'
  <1> DEFINE S == ProofState
  <1>1. pr \in ProofOver(S, S) /\ pr.state \in S /\ call.pr \in Proof /\ ControlOK
    BY OverProofState, OverParts DEF TypeOK, ControlOK
  <1>2. CASE Instruction \/ Interrupted
    <2>1. Now \in Instr
      BY <1>1, <1>2, HeadOfControl DEF ControlOK
    <2>2. \A t : Made(t) => t \in S
      BY <1>1, <2>1, MadeTyped
    <2>3. Running("setMode") => Now.mode \in Modes
      BY <2>1, InstrParts DEF Running, Now
    <2>4. S \subseteq S
      OBVIOUS
    <2> HIDE DEF S
    <2>5. Kept(S, S) \/ OutOfStack(S) \/ pr' = NewProof
      BY <1>1, <1>2, <2>2, <2>3, <2>4, StepsOver
    <2>6. pr' \in Proof
      BY <2>5, OverProofState DEF Kept, OutOfStack, S
    <2>7. ControlOK'
      BY <1>1, <1>2, ControlStaysTyped DEF S
    <2> QED BY <1>1, <1>2, <2>6, <2>7, CallStays DEF TypeOK, ControlOK
  <1>3. CASE Command
    <2>1. PICK cmd, b : Call(cmd, b) /\ b \in Seq(Instr)
      BY <1>3, BodiesTyped
    <2> QED BY <1>1, <2>1, OverProofState DEF Call, TypeOK
  <1>4. CASE UNCHANGED vars
    BY <1>4 DEF vars, TypeOK, Idle, Now, IsHandler
  <1> QED BY <1>2, <1>3, <1>4 DEF Next

\* Every variable has its type, whatever fails or is interrupted: the evars of
\* every state, also of those that can be restored, are distinct and exist; undo
\* actions restore a state or a mode; and an exception that is raised has
\* reached a handler or the end of the command (TypeOK).
THEOREM TypesHold == Spec => []TypeOK
  <1>1. Init => TypeOK
    <2> SUFFICES ASSUME Init PROVE TypeOK
      OBVIOUS
    <2>1. pr \in Proof /\ call.pr \in Proof /\ ctrl = <<>> /\ exn = "none"
      BY OverProofState DEF Init
    <2> QED BY <2>1, EmptySeq DEF TypeOK, Idle
  <1>2. TypeOK /\ [Next]_vars => TypeOK'
    BY TypesKept
  <1> QED BY <1>1, <1>2, PTL DEF Spec

-----------------------------------------------------------------------------
(* What commands run.                                                      *)

\* No brace is closed or opened by an instruction, and no action undone, but in
\* rolling back.
KeepsBraces(x) ==
  /\ x.op \notin {"undo", "pop", "declare"}
  /\ x.op \in {"unfocus", "focus"} => x.kind # "subproof"

CalledWith(cmd, b) ==
  \E X :
    /\ b \in Seq(X)
    /\ \/ cmd = "Grab" /\ b = <<Op("grab")>>
       \/ \A x \in X : x.op \notin {"grab", "toGoals"}
    /\ \/ cmd \in {"Undo", "Save"}
       \/ cmd = "Subproof" /\ b = <<Op("save"), FocusOp("subproof", <<>>, 1)>>
       \/ cmd = "EndSubproof" /\ b = Transaction(<<UnfocusOp("subproof")>>)
       \/ cmd \notin {"Subproof", "EndSubproof"} /\ \A x \in X : KeepsBraces(x)

LEMMA BodiesOver ==
  ASSUME NEW x, NEW y
  PROVE  /\ <<x>> \in Seq({x}) /\ <<x, y>> \in Seq({x, y})
         /\ Transaction(<<x>>) \in Seq({x, Op("begin"), Op("commit")})
         /\ Transaction(<<x, y>>) \in Seq({x, y, Op("begin"), Op("commit")})
  <1> DEFINE X == {x, Op("begin"), Op("commit")}
             Y == {x, y, Op("begin"), Op("commit")}
             a == <<x>>
             b == <<x, y>>
  <1>1. a \in Seq({x}) /\ b \in Seq({x, y})
    OBVIOUS
  <1>2. a \in Seq(X) /\ b \in Seq(Y)
    OBVIOUS
  <1>3. Op("begin") \in X /\ Op("commit") \in X /\ Op("begin") \in Y /\ Op("commit") \in Y
    OBVIOUS
  <1> HIDE DEF a, b, X, Y
  <1>4. Transaction(a) \in Seq(X) /\ Transaction(b) \in Seq(Y)
    BY <1>2, <1>3, TransactionList
  <1> QED BY <1>1, <1>4 DEF a, b, X, Y

LEMMA CommandsCall ==
  ASSUME Command
  PROVE  \E cmd, b : Call(cmd, b) /\ CalledWith(cmd, b)
  <1> DEFINE Done == \E cmd, b : Call(cmd, b) /\ CalledWith(cmd, b)
  <1>1. ASSUME NEW cmd, NEW b, Call(cmd, b), CalledWith(cmd, b) PROVE Done
    BY <1>1
  <1> HIDE DEF Done
  <1>2. \A op : Op(op).op = op
    BY DEF Op
  <1>3. ASSUME NEW n, Solve(n) PROVE Done
    <2> DEFINE x == [op |-> "tactic", goal |-> n]
               X == {x, Op("maximal"), Op("begin"), Op("commit")}
    <2>1. \A y \in X : y.op \notin {"grab", "toGoals"} /\ KeepsBraces(y)
      BY <1>2 DEF KeepsBraces
    <2>2. Transaction(<<x, Op("maximal")>>) \in Seq(X)
      BY BodiesOver
    <2>3. CalledWith("Solve", Transaction(<<x, Op("maximal")>>))
      <3> HIDE DEF x, X
      <3> QED BY <2>1, <2>2 DEF CalledWith
    <2> QED BY <1>1, <1>3, <2>3 DEF Solve
  <1>4. ASSUME NEW n, FocusCommand(n) PROVE Done
    <2> DEFINE x == FocusOp("command", <<>>, n)
               X == {Op("save"), x}
    <2>1. \A y \in X : y.op \notin {"grab", "toGoals"} /\ KeepsBraces(y)
      BY <1>2 DEF KeepsBraces, FocusOp
    <2>2. <<Op("save"), x>> \in Seq(X)
      BY BodiesOver
    <2>3. CalledWith("Focus", <<Op("save"), x>>)
      <3> HIDE DEF x, X
      <3> QED BY <2>1, <2>2 DEF CalledWith
    <2> QED BY <1>1, <1>4, <2>3 DEF FocusCommand
  <1>5. ASSUME Subproof PROVE Done
    <2> DEFINE x == FocusOp("subproof", <<>>, 1)
               X == {Op("save"), x}
    <2>1. \A y \in X : y.op \notin {"grab", "toGoals"}
      BY <1>2 DEF FocusOp
    <2>2. <<Op("save"), x>> \in Seq(X)
      BY BodiesOver
    <2>3. CalledWith("Subproof", <<Op("save"), x>>)
      <3> HIDE DEF X
      <3> QED BY <2>1, <2>2 DEF CalledWith
    <2> QED BY <1>1, <1>5, <2>3 DEF Subproof
  <1>6. ASSUME Unfocus PROVE Done
    <2> DEFINE x == UnfocusOp("command")
               X == {x, Op("begin"), Op("commit")}
    <2>1. \A y \in X : y.op \notin {"grab", "toGoals"} /\ KeepsBraces(y)
      BY <1>2 DEF KeepsBraces, UnfocusOp
    <2>2. Transaction(<<x>>) \in Seq(X)
      BY BodiesOver
    <2>3. CalledWith("Unfocus", Transaction(<<x>>))
      <3> HIDE DEF x, X
      <3> QED BY <2>1, <2>2 DEF CalledWith
    <2> QED BY <1>1, <1>6, <2>3 DEF Unfocus
  <1>7. ASSUME EndSubproof PROVE Done
    <2> DEFINE x == UnfocusOp("subproof")
               X == {x, Op("begin"), Op("commit")}
    <2>1. \A y \in X : y.op \notin {"grab", "toGoals"}
      BY <1>2 DEF UnfocusOp
    <2>2. Transaction(<<x>>) \in Seq(X)
      BY BodiesOver
    <2>3. CalledWith("EndSubproof", Transaction(<<x>>))
      <3> HIDE DEF X
      <3> QED BY <2>1, <2>2 DEF CalledWith
    <2> QED BY <1>1, <1>7, <2>3 DEF EndSubproof
  <1>8. ASSUME NEW u, Bullet(u) PROVE Done
    <2> DEFINE x == BulletOp("put", u)
               X == {x, Op("begin"), Op("commit")}
    <2>1. \A y \in X : y.op \notin {"grab", "toGoals"} /\ KeepsBraces(y)
      BY <1>2 DEF KeepsBraces, BulletOp
    <2>2. Transaction(<<x>>) \in Seq(X)
      BY BodiesOver
    <2>3. CalledWith("Bullet", Transaction(<<x>>))
      <3> HIDE DEF x, X
      <3> QED BY <2>1, <2>2 DEF CalledWith
    <2> QED BY <1>1, <1>8, <2>3 DEF Bullet
  <1>9. ASSUME SaveProof PROVE Done
    <2> DEFINE X == {Op("return"), Op("declare"), Op("begin"), Op("commit")}
               b == Transaction(<<Op("return"), Op("declare")>>)
    <2>1. \A y \in X : y.op \notin {"grab", "toGoals"}
      BY <1>2
    <2>2. b \in Seq(X)
      BY BodiesOver
    <2>3. CalledWith("Save", b)
      <3> HIDE DEF b, X
      <3> QED BY <2>1, <2>2 DEF CalledWith
    <2> QED BY <1>1, <1>9, <2>3 DEF SaveProof
  <1>10. ASSUME NEW m, ProofMode(m) PROVE Done
    <2> DEFINE x == [op |-> "setMode", mode |-> m]
               X == {Op("saveMode"), x}
    <2>1. \A y \in X : y.op \notin {"grab", "toGoals"} /\ KeepsBraces(y)
      BY <1>2 DEF KeepsBraces
    <2>2. <<Op("saveMode"), x>> \in Seq(X)
      BY BodiesOver
    <2>3. CalledWith("ProofMode", <<Op("saveMode"), x>>)
      <3> HIDE DEF x, X
      <3> QED BY <2>1, <2>2 DEF CalledWith
    <2> QED BY <1>1, <1>10, <2>3 DEF ProofMode
  <1>11. ASSUME Existential PROVE Done
    <2> DEFINE X == {Op("instantiate")}
    <2>1. \A y \in X : y.op \notin {"grab", "toGoals"} /\ KeepsBraces(y)
      BY <1>2 DEF KeepsBraces
    <2>2. <<Op("instantiate")>> \in Seq(X)
      BY BodiesOver
    <2>3. CalledWith("Existential", <<Op("instantiate")>>)
      <3> HIDE DEF X
      <3> QED BY <2>1, <2>2 DEF CalledWith
    <2> QED BY <1>1, <1>11, <2>3 DEF Existential
  <1>12. ASSUME Grab PROVE Done
    <2> DEFINE X == {Op("grab")}
    <2>1. \A y \in X : KeepsBraces(y)
      BY <1>2 DEF KeepsBraces
    <2>2. <<Op("grab")>> \in Seq(X)
      BY BodiesOver
    <2>3. CalledWith("Grab", <<Op("grab")>>)
      <3> HIDE DEF X
      <3> QED BY <2>1, <2>2 DEF CalledWith
    <2> QED BY <1>1, <1>12, <2>3 DEF Grab
  <1>13. ASSUME NEW n, Undo(n) PROVE Done
    <2> DEFINE x == [op |-> "undo", n |-> n]
               X == {x}
    <2>1. \A y \in X : y.op \notin {"grab", "toGoals"}
      OBVIOUS
    <2>2. <<x>> \in Seq(X)
      BY BodiesOver
    <2>3. CalledWith("Undo", <<x>>)
      <3> HIDE DEF x, X
      <3> QED BY <2>1, <2>2 DEF CalledWith
    <2> QED BY <1>1, <1>13, <2>3 DEF Undo
  <1>14. Done
    BY <1>3, <1>4, <1>5, <1>6, <1>7, <1>8, <1>9, <1>10, <1>11, <1>12, <1>13 DEF Command
  <1> QED BY <1>14 DEF Done

-----------------------------------------------------------------------------
(* Goals are accounted for.                                                *)

\* Goals are grabbed when none is left in view or out of it.
Grabbing ==
  \/ \E X : ctrl \in Seq(X) /\ \A x \in X : x.op \notin {"grab", "toGoals"}
  \/ ctrl = <<Op("grab")>>
  \/ ctrl = <<Op("save"), Op("toGoals")>> /\ IsDone(pr.state)
  \/ ctrl = <<Op("toGoals")>> /\ IsDone(pr.state)

GoodStates == {s \in ProofState : Good(s)}

\* The proof, and what rolling back or Undo makes of it, account for the goals.
GoalsInv == pr \in ProofOver(GoodStates, GoodStates) /\ Grabbing

LEMMA MadeGood ==
  ASSUME Async = FALSE, Good(pr.state), Now \in Instr, Running("toGoals") => IsDone(pr.state),
         NEW t, Made(t)
  PROVE  Good(t)
  <1> DEFINE s == pr.state
             n == Now.goal
  <1>1. s \in ProofState /\ s.comb \in Seq(Evars) /\ s.made \in Nat /\ Len(s.comb) \in Nat
    BY StateTypes, LenProperties DEF Good
  <1>2. \A op : Running(op) => Now.op = op
    BY DEF Running, Now
  <1>3. CASE Running("unfocus") /\ MayUnfocus /\ t = Unfocused(s)
    <2>1. s.focus # <<>>
      BY <1>3 DEF MayUnfocus, UnfocusCheck
    <2> HIDE DEF s
    <2> QED BY <1>3, <2>1, GoodUnfocused DEF s
  <1>4. CASE /\ Running("focus") /\ Now.i <= Len(s.comb)
             /\ t = Focused(s, Now.kind, Now.bullets, Now.i)
    <2>1. Now.kind \in Kinds /\ Now.bullets \in Seq(Bullets) /\ Now.i \in Nat \ {0}
      BY <1>2, <1>4, InstrParts
    <2>2. Now.i \in 1..Len(s.comb)
      BY <1>1, <1>4, <2>1
    <2> QED BY <1>4, <2>1, <2>2, GoodFocused
  <1>5. ASSUME Running("tactic"), n <= Len(s.comb) PROVE n \in 1..Len(s.comb)
    <2>1. n \in Nat \ {0}
      BY <1>2, <1>5, InstrParts
    <2> HIDE DEF n, s
    <2> QED BY <1>1, <1>5, <2>1
  <1>6. CASE Running("tactic") /\ n <= Len(s.comb) /\ t = Replaced(s, s.comb, n, <<s.comb[n]>>)
    <2>1. n \in 1..Len(s.comb)
      BY <1>5, <1>6
    <2> QED BY <1>6, <2>1, GoodUnchanged
  <1>7. ASSUME Running("tactic"), n <= Len(s.comb), NEW o \in Outcomes(s, s.comb[n]),
               t = Replaced(Solving(s, o.solved, o.goals, o.holes), s.comb, n,
                            [i \in 1..o.goals |-> s.made + i])
        PROVE  Good(t)
    <2> DEFINE k == o.goals
               h == o.holes
               u == o.solved
    <2>1. n \in 1..Len(s.comb)
      BY <1>5, <1>7
    <2>2. k \in Nat /\ h \in Nat /\ s.made + k + h <= MaxEvars /\ s.comb[n] \in u
      BY <1>7 DEF Outcomes
    <2>3. t = Replaced(Solving(s, u, k, h), s.comb, n, [j \in 1..k |-> s.made + j])
      BY <1>7
    <2>4. Good(s)
      OBVIOUS
    <2> HIDE DEF k, h, s, n, u
    <2> QED BY <2>1, <2>2, <2>3, <2>4, GoodSolved
  <1>8. ASSUME NEW e, NEW h \in 0..1, s.made + h <= MaxEvars, t = Solving(s, {e}, 0, h)
        PROVE  Good(t)
    <2>1. h \in Nat
      OBVIOUS
    <2> QED BY <1>8, <2>1, GoodInstantiated
  <1>9. CASE Running("toGoals") /\ t = Grabbed(s)
    BY <1>9, GoodGrabbed
  <1> QED BY <1>3, <1>4, <1>6, <1>7, <1>8, <1>9 DEF Made

LEMMA GrabbingStays ==
  ASSUME Async = FALSE, SaveInv, Grabbing, Instruction \/ Interrupted
  PROVE  Grabbing'
  <1>1. Instruction
    BY DEF Interrupted, Interrupt, UnfocusInterrupted, FocusInterrupted, CommitInterrupted,
           RollbackInterrupted
  <1>2. ASSUME NEW X, ctrl \in Seq(X), \A x \in X : x.op \notin {"grab", "toGoals"}
        PROVE  Grabbing'
    <2>1. Now \in X
      BY <1>2, HeadOfControl
    <2>2. PICK Y : ctrl' \in Seq(X \union Y) /\ \A y \in Y : Added(y)
      BY <1>2, ControlGrows DEF Grown
    <2>3. \A z \in X \union Y : z.op \notin {"grab", "toGoals"}
      BY <1>2, <2>1, <2>2 DEF Added
    <2> QED BY <2>2, <2>3 DEF Grabbing
  <1>3. ASSUME ctrl' = <<>> PROVE Grabbing'
    <2> DEFINE E == {}
    <2>1. ctrl' \in Seq(E) /\ \A x \in E : x.op \notin {"grab", "toGoals"}
      BY <1>3, EmptySeq
    <2> HIDE DEF E
    <2>2. \E X : ctrl' \in Seq(X) /\ \A x \in X : x.op \notin {"grab", "toGoals"}
      BY <2>1
    <2> QED BY <2>2 DEF Grabbing
  <1>4. \A x, y : Head(<<x>>) = x /\ Tail(<<x>>) = <<>> /\ Head(<<x, y>>) = x /\ Tail(<<x, y>>) = <<y>>
    OBVIOUS
  <1>5. /\ \A op : Op(op).op = op
        /\ ~IsHandler(Op("grab"))
    BY DEF Op, IsHandler
  <1>6. Now.op \notin {"commit", "relabel", "maximal"} => exn = "none"
    BY <1>1 DEF Instruction, Begin, Commit, Save, SaveMode, SetMode, UndoMany, Pop, Tactic,
                Instantiate, GrabEvars, ToGoals, FocusStep, UnfocusStep, Relabel, Maximal,
                PutBullet, PopBullet, PushBullet, Return, Declare, Rollback, Relabelled, MaximalEnds,
                Running, Unwinding
  <1>7. CASE ctrl = <<Op("grab")>>
    <2>1. Now = Op("grab") /\ Rest = <<>>
      BY <1>4, <1>7 DEF Now, Rest
    <2>2. GrabEvars
      BY <1>1, <1>5, <1>6, <2>1, Dispatch
    <2>3. CASE Raise("Error")
      <3>1. RaiseIn(<<Op("grab")>>, "Error")
        BY <1>7, <2>3 DEF Raise
      <3>2. DOMAIN <<Op("grab")>> = {1} /\ <<Op("grab")>>[1] = Op("grab")
        OBVIOUS
      <3>3. ctrl' = <<>>
        BY <1>5, <3>1, <3>2 DEF RaiseIn
      <3> QED BY <1>3, <3>3
    <2>4. CASE IsDone(pr.state) /\ Expand(<<Op("save"), Op("toGoals")>>)
      <3>1. <<Op("save"), Op("toGoals")>> \o <<>> = <<Op("save"), Op("toGoals")>>
        OBVIOUS
      <3>2. ctrl' = <<Op("save"), Op("toGoals")>> /\ pr' = pr
        BY <2>1, <2>4, <3>1 DEF Expand, Continue
      <3> QED BY <2>4, <3>2 DEF Grabbing
    <2> QED BY <2>2, <2>3, <2>4 DEF GrabEvars
  <1>8. CASE ctrl = <<Op("save"), Op("toGoals")>> /\ IsDone(pr.state)
    <2>1. Now = Op("save") /\ Rest = <<Op("toGoals")>>
      BY <1>4, <1>8 DEF Now, Rest
    <2>2. Save
      BY <1>1, <1>5, <1>6, <2>1, Dispatch
    <2>3. pr' = Pushed(pr, <<StateUndo(pr)>>) /\ ctrl' = <<Op("toGoals")>>
      BY <2>1, <2>2 DEF Save, Do, Continue
    <2>4. pr'.state = pr.state
      <3>1. PICK G : Saved(pr, G)
        <4>1. PICK U : IsUndo(U) /\ IsProof(pr, U)
          BY DEF SaveInv, Sane
        <4>2. \A u \in U : u.undo = "state" => u.state \in {v.state : v \in U}
          OBVIOUS
        <4> QED BY <4>1, <4>2 DEF Saved
      <3> QED BY <2>3, <3>1, SavedByPr
    <2> QED BY <1>8, <2>3, <2>4 DEF Grabbing
  <1>9. CASE ctrl = <<Op("toGoals")>> /\ IsDone(pr.state)
    <2>1. Now = Op("toGoals") /\ Rest = <<>>
      BY <1>4, <1>9 DEF Now, Rest
    <2>2. ToGoals
      BY <1>1, <1>5, <1>6, <2>1, Dispatch
    <2>3. ctrl' = <<>>
      BY <2>1, <2>2 DEF ToGoals, Do, Continue
    <2> QED BY <1>3, <2>3
  <1> QED BY <1>2, <1>7, <1>8, <1>9 DEF Grabbing

LEMMA GoalsInvKept ==
  ASSUME Async = FALSE, TypeOK, SaveInv, GoalsInv, [Next]_vars
  PROVE  GoalsInv'
  <1> DEFINE S == GoodStates
  <1>1. pr \in ProofOver(S, S) /\ pr.state \in S /\ Good(pr.state) /\ Grabbing
    BY OverParts DEF GoalsInv, GoodStates
  <1>2. CASE Instruction \/ Interrupted
    <2>1. Now \in Instr
      BY <1>2, HeadOfControl DEF TypeOK
    <2>2. Running("toGoals") => IsDone(pr.state)
      <3>1. \A x, y : Head(<<x>>) = x /\ Head(<<x, y>>) = x
        OBVIOUS
      <3>2. Now.op # "toGoals" \/ IsDone(pr.state)
        BY <1>1, <1>2, <3>1, HeadOfControl DEF Grabbing, Op, Now
      <3> QED BY <3>2 DEF Running, Now
    <2>3. \A t : Made(t) => t \in S
      BY <1>1, <2>1, <2>2, MadeGood DEF GoodStates, Good
    <2>4. Running("setMode") => Now.mode \in Modes
      BY <2>1, InstrParts DEF Running, Now
    <2>5. InitialState \in S
      BY GoodInitial DEF GoodStates, Good
    <2>6. S \subseteq S
      OBVIOUS
    <2> HIDE DEF S
    <2>7. Kept(S, S) \/ OutOfStack(S) \/ pr' = NewProof
      BY <1>1, <1>2, <2>3, <2>4, <2>6, StepsOver
    <2>8. pr' \in ProofOver(S, S)
      BY <2>5, <2>7, NewOver DEF Kept, OutOfStack
    <2> QED BY <1>1, <1>2, <2>8, GrabbingStays DEF GoalsInv, S
  <1>3. CASE Command
    <2>1. PICK cmd, b : Call(cmd, b) /\ CalledWith(cmd, b)
      BY <1>3, CommandsCall
    <2> QED BY <1>1, <2>1 DEF Call, CalledWith, GoalsInv, Grabbing
  <1>4. CASE UNCHANGED vars
    BY <1>4 DEF vars, GoalsInv, Grabbing
  <1> QED BY <1>2, <1>3, <1>4 DEF Next

\* With every focus left, each unsolved goal is there exactly once, whatever
\* tactics, focusing, bullets, Grab Existential Variables, the failure of a
\* command or Undo have done (Proof.unroll_focus, Proofview.undefined), for any
\* number of goals, focuses and bullets.
THEOREM NoGoalIsLost == Async = FALSE => (Spec => []GoalsAccounted)
  <1> SUFFICES ASSUME Async = FALSE PROVE Spec => []GoalsAccounted
    OBVIOUS
  <1>1. Init => GoalsInv
    <2> SUFFICES ASSUME Init PROVE GoalsInv
      OBVIOUS
    <2>1. InitialState \in GoodStates
      BY GoodInitial DEF GoodStates, Good
    <2>2. pr \in ProofOver(GoodStates, GoodStates)
      BY <2>1, NewOver DEF Init
    <2>3. ctrl \in Seq({}) /\ \A x \in {} : x.op \notin {"grab", "toGoals"}
      BY EmptySeq DEF Init
    <2> QED BY <2>2, <2>3 DEF GoalsInv, Grabbing
  <1>2. TypeOK /\ SaveInv /\ GoalsInv /\ [Next]_vars => GoalsInv'
    BY GoalsInvKept
  <1>3. GoalsInv => GoalsAccounted
    BY OverParts DEF GoalsInv, GoodStates, Good, GoalsAccounted
  <1> QED BY <1>1, <1>2, <1>3, TypesHold, SaveInvariant, PTL DEF Spec

-----------------------------------------------------------------------------
(* Braces: what a change of the focus stack does to them.                  *)

LEMMA BracesMove ==
  ASSUME NEW l \in Seq(FocusFrame)
  PROVE  /\ Filter(l, Brace) \in Seq(Brace)
         /\ \A x \in FocusFrame :
              Filter(Append(l, x), Brace)
                = IF x.kind = "subproof" THEN Append(Filter(l, Brace), x) ELSE Filter(l, Brace)
         /\ l # <<>> =>
              Filter(l, Brace) = IF Last(l).kind = "subproof"
                                 THEN Append(Filter(Front(l), Brace), Last(l))
                                 ELSE Filter(Front(l), Brace)
  <1> DEFINE B == Brace
             F == FocusFrame
  <1>1. F \intersect B = B /\ \A x \in F : x \in B <=> x.kind = "subproof"
    BY DEF Brace
  <1>2. ASSUME NEW k \in Seq(F), NEW x \in F
        PROVE  Filter(Append(k, x), B)
                 = IF x.kind = "subproof" THEN Append(Filter(k, B), x) ELSE Filter(k, B)
    <2> HIDE DEF B, F
    <2>1. Filter(Append(k, x), B) = IF x \in B THEN Append(Filter(k, B), x) ELSE Filter(k, B)
      BY <1>2, FilterAppend
    <2> QED BY <1>1, <1>2, <2>1
  <1> HIDE DEF B, F
  <1>3. l \in Seq(F)
    BY DEF F
  <1>4. Filter(l, B) \in Seq(B)
    BY <1>1, <1>3, FilterIsSeq
  <1>5. ASSUME l # <<>>
        PROVE  Filter(l, B) = IF Last(l).kind = "subproof"
                              THEN Append(Filter(Front(l), B), Last(l)) ELSE Filter(Front(l), B)
    <2>1. Front(l) \in Seq(F) /\ Last(l) \in F /\ l = Append(Front(l), Last(l))
      BY <1>3, <1>5, FrontAndLast
    <2>2. /\ Filter(Append(Front(l), Last(l)), B)
               = IF Last(l).kind = "subproof"
                 THEN Append(Filter(Front(l), B), Last(l)) ELSE Filter(Front(l), B)
      BY <1>2, <2>1
    <2> QED BY <2>1, <2>2
  <1> QED BY <1>2, <1>3, <1>4, <1>5 DEF B, F

\* A brace is closed by the command for braces alone, when no goal is left.
LEMMA BracesUnfocus ==
  ASSUME NEW s \in ProofState, NEW kind, UnfocusCheck(s, kind) \in {"Strict", "Loose"}
  PROVE  LET answer == UnfocusCheck(s, kind)
             t == Unfocused(s)
         IN  /\ kind # "subproof" => Braces(t) = Braces(s)
             /\ kind = "subproof" => s.comb = <<>>
             /\ kind = "subproof" /\ answer = "Loose" => Braces(t) = Braces(s)
             /\ kind = "subproof" /\ answer = "Strict" =>
                  /\ Braces(t) \in Seq(Brace)
                  /\ \E x \in Brace : Braces(s) = Append(Braces(t), x)
  <1> DEFINE f == s.focus
             answer == UnfocusCheck(s, kind)
  <1>1. f # <<>> /\ answer = FocusCondition(s, kind)
    BY DEF UnfocusCheck
  <1>2. /\ answer = "Strict" => Last(f).kind = kind
        /\ answer = "Loose" => Last(f).kind = "bullet"
        /\ Last(f).kind # "command" => s.comb = <<>>
    BY <1>1 DEF FocusCondition, Refusal
  <1>3. f \in Seq(FocusFrame) /\ IsState(s)
    BY StateTypes
  <1>4. Unfocused(s).focus = Front(f)
    BY <1>3, StackUnfocused
  <1>5. /\ Braces(s) = IF Last(f).kind = "subproof"
                       THEN Append(Braces(Unfocused(s)), Last(f)) ELSE Braces(Unfocused(s))
        /\ Front(f) \in Seq(FocusFrame) /\ Last(f) \in FocusFrame
    BY <1>1, <1>3, <1>4, BracesMove, FrontAndLast DEF Braces
  <1>6. Braces(Unfocused(s)) \in Seq(Brace)
    BY <1>4, <1>5, BracesMove DEF Braces
  <1>7. CASE answer = "Strict" /\ kind = "subproof"
    <2>1. Last(f) \in Brace /\ Braces(s) = Append(Braces(Unfocused(s)), Last(f))
      BY <1>2, <1>5, <1>7 DEF Brace
    <2> HIDE DEF f
    <2> QED BY <1>2, <1>6, <1>7, <2>1
  <1> HIDE DEF f
  <1> QED BY <1>2, <1>5, <1>7

\* The focus stack g is f with one more focus on it.
OneMore(f, g, kind, bullets) == \E l, r : g = Append(f, Focus(kind, bullets, l, r))

LEMMA FocusedStack ==
  ASSUME NEW s, IsState(s), NEW kind, NEW bullets, NEW i
  PROVE  OneMore(s.focus, Focused(s, kind, bullets, i).focus, kind, bullets)
  BY StackFocused DEF OneMore

LEMMA BracesFocus ==
  ASSUME NEW s \in ProofState, NEW kind \in Kinds, NEW bullets \in Seq(Bullets),
         NEW i \in 1..Len(s.comb)
  PROVE  LET t == Focused(s, kind, bullets, i)
         IN  /\ kind # "subproof" => Braces(t) = Braces(s)
             /\ kind = "subproof" => \E x \in Brace : Braces(t) = Append(Braces(s), x)
  <1> DEFINE t == Focused(s, kind, bullets, i)
  <1>1. IsState(s) /\ s.focus \in Seq(FocusFrame)
    BY StateTypes
  <1>2. t \in ProofState
    BY FocusedTyped
  <1>3. PICK l, r : t.focus = Append(s.focus, Focus(kind, bullets, l, r))
    <2>1. OneMore(s.focus, t.focus, kind, bullets)
      BY <1>1, FocusedStack
    <2> HIDE DEF t
    <2> QED BY <2>1 DEF OneMore
  <1> DEFINE x == Focus(kind, bullets, l, r)
  <1>4. x \in FocusFrame /\ x.kind = kind
    <2>1. t.focus \in Seq(FocusFrame)
      BY <1>2, StateTypes
    <2>2. /\ Len(t.focus) = Len(s.focus) + 1 /\ t.focus[Len(s.focus) + 1] = x
          /\ Len(s.focus) \in Nat
      BY <1>1, <1>3, AppendProperties, LenProperties
    <2> HIDE DEF t, x
    <2>3. Len(s.focus) + 1 \in 1..Len(t.focus)
      BY <2>2
    <2>4. x \in FocusFrame
      BY <2>1, <2>2, <2>3, ElementOfSeq
    <2> QED BY <2>4 DEF x, Focus
  <1>5. Braces(t) = IF kind = "subproof" THEN Append(Braces(s), x) ELSE Braces(s)
    <2> HIDE DEF t, x
    <2> QED BY <1>1, <1>3, <1>4, BracesMove DEF Braces, x
  <1>6. kind = "subproof" => x \in Brace
    BY <1>4 DEF Brace
  <1> HIDE DEF x
  <1> QED BY <1>5, <1>6

\* The states that instructions which keep braces make have the same.
LEMMA MadeBraces ==
  ASSUME Async = FALSE, pr.state \in ProofState, Now \in Instr, KeepsBraces(Now),
         NEW t, Made(t)
  PROVE  t \in ProofState /\ Braces(t) = Braces(pr.state)
  <1> DEFINE s == pr.state
             n == Now.goal
  <1>1. t \in ProofState
    BY MadeTyped
  <1>2. IsState(s) /\ s.comb \in Seq(Evars) /\ Len(s.comb) \in Nat
    BY StateTypes, LenProperties
  <1>3. \A op : Running(op) => Now.op = op
    BY DEF Running, Now
  <1>4. t.focus = s.focus => Braces(t) = Braces(s)
    BY DEF Braces
  <1>5. CASE Running("unfocus") /\ MayUnfocus /\ t = Unfocused(s)
    <2>1. Now.kind # "subproof"
      BY <1>3, <1>5 DEF KeepsBraces
    <2>2. UnfocusCheck(s, Now.kind) \in {"Strict", "Loose"}
      BY <1>5 DEF MayUnfocus
    <2> QED BY <1>1, <1>5, <2>1, <2>2, BracesUnfocus
  <1>6. CASE /\ Running("focus") /\ Now.i <= Len(s.comb)
             /\ t = Focused(s, Now.kind, Now.bullets, Now.i)
    <2>1. /\ Now.kind \in Kinds /\ Now.bullets \in Seq(Bullets) /\ Now.i \in Nat \ {0}
          /\ Now.kind # "subproof"
      BY <1>3, <1>6, InstrParts DEF KeepsBraces
    <2>2. Now.i \in 1..Len(s.comb)
      BY <1>2, <1>6, <2>1
    <2> QED BY <1>1, <1>6, <2>1, <2>2, BracesFocus
  <1>7. CASE \/ t = Replaced(s, s.comb, n, <<s.comb[n]>>)
             \/ \E e, h : t = Solving(s, {e}, 0, h)
             \/ \E solved, k, h, new : t = Replaced(Solving(s, solved, k, h), s.comb, n, new)
             \/ t = Grabbed(s)
    <2> HIDE DEF s, n
    <2>1. \A solved, k, h : IsState(Solving(s, solved, k, h)) /\ Solving(s, solved, k, h).focus = s.focus
      BY <1>2, StackSolving
    <2>2. \A u : IsState(u) => \A c, i, new : Replaced(u, c, i, new).focus = u.focus
      BY StackReplaced
    <2>3. Grabbed(s).focus = s.focus
      BY <1>2, StackToGoals DEF Grabbed
    <2>4. t.focus = s.focus
      <3>1. CASE t = Replaced(s, s.comb, n, <<s.comb[n]>>)
        BY <1>2, <2>2, <3>1
      <3>2. CASE \E e, h : t = Solving(s, {e}, 0, h)
        BY <2>1, <3>2
      <3>3. CASE \E solved, k, h, new : t = Replaced(Solving(s, solved, k, h), s.comb, n, new)
        <4>1. PICK solved, k, h, new : t = Replaced(Solving(s, solved, k, h), s.comb, n, new)
          BY <3>3
        <4>2. IsState(Solving(s, solved, k, h)) /\ Solving(s, solved, k, h).focus = s.focus
          BY <2>1
        <4> QED BY <2>2, <4>1, <4>2
      <3> QED BY <1>7, <2>3, <3>1, <3>2, <3>3
    <2> QED BY <1>1, <1>4, <2>4 DEF s
  <1> QED BY <1>5, <1>6, <1>7 DEF Made

-----------------------------------------------------------------------------
(* Braces: the invariant.                                                  *)

\* The states with the braces there were when the command was called
SameBraces == {s \in ProofState : Braces(s) = Braces(call.pr.state)}

\* The exceptions that the end of maximal_unfocus may catch
Caught == {"none", "FullyUnfocused", "CannotUnfocusThisWay"}

\* A command about no brace: whatever its transactions can restore has the
\* braces there were.  A rollback outside of any would restore earlier states,
\* but the anomaly that follows it is not caught.
KeepsAll ==
  /\ \E X : ctrl \in Seq(X) /\ \A x \in X : KeepsBraces(x)
  /\ exn \in Caught => pr \in ProofOver(SameBraces, ProofState)

OpensOne ==
  LET x == FocusOp("subproof", <<>>, 1)
  IN  \/ ctrl \in {<<Op("save"), x>>, <<x>>} /\ Braces(pr.state) = Braces(call.pr.state)
      \/ /\ ctrl = <<>>
         /\ exn = "none" => \E f \in Brace : Braces(pr.state) = Append(Braces(call.pr.state), f)

\* The end of a transaction that has closed a focus
Ends(c) == \E X : c \in Seq(X) /\ \A x \in X : x.op \in {"relabel", "commit"}

ClosesNext(c) == Starts(c, "unfocus") /\ Head(c).kind = "subproof" /\ Ends(Tail(c))

\* The brace is still to be closed, bullets may have been on the way.
ToClose ==
  /\ ClosesNext(ctrl) \/ (Starts(ctrl, "begin") /\ ClosesNext(Tail(ctrl)))
  /\ Braces(pr.state) = Braces(call.pr.state)
  /\ call.pr.state.comb = <<>> \/ pr.state.comb # <<>>

ClosedOne ==
  /\ Ends(ctrl)
  /\ \E f \in Brace : Braces(call.pr.state) = Append(Braces(pr.state), f)
  /\ call.pr.state.comb = <<>>

ClosesOne ==
  /\ \E X : /\ ctrl \in Seq(X)
            /\ \A x \in X : x.op \in {"begin", "unfocus", "relabel", "commit"}
  /\ exn # "none" \/ ToClose \/ ClosedOne

BracesInv ==
  \/ call.cmd \in {"Undo", "Save", "Start"}
  \/ call.cmd = "Subproof" /\ OpensOne
  \/ call.cmd = "EndSubproof" /\ ClosesOne
  \/ call.cmd \notin {"Undo", "Save", "Start", "Subproof", "EndSubproof"} /\ KeepsAll

\* An exception that is not caught stays so.
LEMMA UncaughtStays ==
  ASSUME Instruction, exn \notin Caught
  PROVE  exn' \notin Caught
  <1>1. \A c, e : RaiseIn(c, e) => exn' = e
    BY DEF RaiseIn
  <1>2. exn # "none" /\ \A op : ~Running(op)
    BY DEF Caught, Running
  <1>3. Rollback \/ Relabelled \/ MaximalEnds
    BY <1>2 DEF Instruction, Begin, Commit, Save, SaveMode, SetMode, UndoMany, Pop, Tactic,
                Instantiate, GrabEvars, ToGoals, FocusStep, UnfocusStep, Relabel, Maximal,
                PutBullet, PopBullet, PushBullet, Return, Declare
  <1>4. CASE Rollback
    <2>1. exn' = exn \/ exn' = "Assert"
      BY <1>1, <1>4 DEF Rollback
    <2> QED BY <2>1 DEF Caught
  <1>5. CASE Relabelled
    <2>1. exn' = IF exn = "FullyUnfocused" THEN "CannotUnfocusThisWay" ELSE exn
      BY <1>1, <1>5 DEF Relabelled
    <2> QED BY <2>1 DEF Caught
  <1>6. CASE MaximalEnds
    <2>1. exn \notin {"FullyUnfocused", "CannotUnfocusThisWay"}
      BY DEF Caught
    <2>2. RaiseIn(Rest, exn)
      BY <1>6, <2>1 DEF MaximalEnds
    <2> QED BY <1>1, <2>2
  <1> QED BY <1>3, <1>4, <1>5, <1>6

LEMMA KeepsAllStays ==
  ASSUME Async = FALSE, TypeOK, SaveInv, KeepsAll, Instruction
  PROVE  KeepsAll'
  <1> DEFINE S == SameBraces
             A == ProofState
  <1>1. PICK X : ctrl \in Seq(X) /\ \A x \in X : KeepsBraces(x)
    BY DEF KeepsAll
  <1>2. KeepsBraces(Now) /\ Now \in Instr
    BY <1>1, HeadOfControl DEF TypeOK
  <1>3. \E Z : ctrl' \in Seq(Z) /\ \A z \in Z : KeepsBraces(z)
    <2>1. PICK Y : ctrl' \in Seq(X \union Y) /\ \A y \in Y : Added(y)
      BY <1>1, ControlGrows DEF Grown
    <2>2. \A z \in X \union Y : KeepsBraces(z)
      BY <1>1, <1>2, <2>1 DEF Added, KeepsBraces
    <2> QED BY <2>1, <2>2
  <1>4. S' = S
    BY CallStays DEF SameBraces
  <1>5. ASSUME exn' \in Caught PROVE pr' \in ProofOver(S, A)
    <2>1. pr \in ProofOver(S, A)
      BY <1>5, UncaughtStays DEF KeepsAll
    <2>2. pr.state \in S /\ pr.state \in A /\ S \subseteq A
      BY <2>1, OverParts DEF SameBraces
    <2>3. \A t : Made(t) => t \in S
      BY <1>2, <2>2, MadeBraces DEF SameBraces
    <2>4. Running("setMode") => Now.mode \in Modes
      BY <1>2, InstrParts DEF Running, Now
    <2>5. ~Running("pop") /\ ~Running("declare")
      BY <1>2 DEF KeepsBraces, Running, Now
    <2>6. exn' \notin {"Assert", "Break"}
      BY <1>5 DEF Caught
    <2> HIDE DEF S, A
    <2>7. Kept(S, A) \/ OutOfStack(A)
      BY <2>1, <2>2, <2>3, <2>4, <2>5, StepsOver
    <2> QED BY <2>5, <2>6, <2>7 DEF Kept, OutOfStack
  <1> QED BY <1>3, <1>4, <1>5 DEF KeepsAll, Caught

LEMMA OpensOneStays ==
  ASSUME TypeOK, SaveInv, OpensOne, Instruction
  PROVE  OpensOne'
  <1> DEFINE x == FocusOp("subproof", <<>>, 1)
             s == pr.state
  <1>1. ctrl # <<>>
    BY HeadOfControl DEF TypeOK
  <1>2. /\ ctrl = <<Op("save"), x>> \/ ctrl = <<x>>
        /\ Braces(s) = Braces(call.pr.state)
    BY <1>1 DEF OpensOne
  <1>3. /\ \A u, v : /\ Head(<<u>>) = u /\ Tail(<<u>>) = <<>>
                     /\ Head(<<u, v>>) = u /\ Tail(<<u, v>>) = <<v>>
        /\ Op("save").op = "save"
        /\ x.op = "focus" /\ x.kind = "subproof" /\ x.bullets = <<>> /\ x.i = 1
    BY DEF Op, FocusOp
  <1>4. exn = "none"
    <2>1. Now.op \in {"save", "focus"}
      BY <1>2, <1>3 DEF Now
    <2> QED BY <2>1 DEF Instruction, Begin, Commit, Save, SaveMode, SetMode, UndoMany, Pop, Tactic,
                Instantiate, GrabEvars, ToGoals, FocusStep, UnfocusStep, Relabel, Maximal,
                PutBullet, PopBullet, PushBullet, Return, Declare, Rollback, Relabelled, MaximalEnds,
                Running, Unwinding
  <1>5. call' = call
    BY CallStays
  <1>6. PICK G : Saved(pr, G)
    <2>1. PICK U : IsUndo(U) /\ IsProof(pr, U)
      BY DEF SaveInv, Sane
    <2>2. \A u \in U : u.undo = "state" => u.state \in {v.state : v \in U}
      OBVIOUS
    <2> QED BY <2>1, <2>2 DEF Saved
  <1>7. s \in ProofState
    BY OverProofState, OverParts DEF TypeOK
  <1>8. CASE ctrl = <<Op("save"), x>>
    <2>1. Now = Op("save") /\ Rest = <<x>>
      BY <1>3, <1>8 DEF Now, Rest
    <2>2. Save
      BY <1>3, <1>4, <2>1, Dispatch
    <2>3. pr' = Pushed(pr, <<StateUndo(pr)>>) /\ ctrl' = <<x>>
      BY <2>1, <2>2 DEF Save, Do, Continue
    <2>4. pr'.state = s
      BY <1>6, <2>3, SavedByPr
    <2> QED BY <1>2, <1>5, <2>3, <2>4 DEF OpensOne
  <1>9. CASE ctrl = <<x>>
    <2>1. Now = x /\ Rest = <<>>
      BY <1>3, <1>9 DEF Now, Rest
    <2>2. FocusStep
      BY <1>3, <1>4, <2>1, Dispatch
    <2>3. ASSUME NEW e, e # "none", Raise(e) PROVE OpensOne'
      <3>1. RaiseIn(<<x>>, e)
        BY <1>9, <2>3 DEF Raise
      <3>2. DOMAIN <<x>> = {1} /\ <<x>>[1] = x
        OBVIOUS
      <3>3. ctrl' = <<>> /\ exn' # "none"
        BY <1>3, <2>3, <3>1, <3>2 DEF RaiseIn, IsHandler
      <3> QED BY <3>3 DEF OpensOne
    <2>4. CASE 1 <= Len(s.comb) /\ Do(WithState(Focused(s, "subproof", <<>>, 1)))
      <3> DEFINE t == Focused(s, "subproof", <<>>, 1)
      <3>1. 1 \in 1..Len(s.comb) /\ "subproof" \in Kinds /\ <<>> \in Seq(Bullets)
        <4>1. Len(s.comb) \in Nat
          BY <1>7, StateTypes, LenProperties
        <4> QED BY <2>4, <4>1, EmptySeq DEF Kinds
      <3>2. \E f \in Brace : Braces(t) = Append(Braces(s), f)
        BY <1>7, <3>1, BracesFocus
      <3>3. IsState(t)
        BY <1>7, <3>1, FocusedTyped, StateTypes
      <3> HIDE DEF t, s
      <3>4. pr' = WithState(t) /\ ctrl' = <<>>
        BY <2>1, <2>4 DEF Do, Continue, t
      <3>5. pr'.state = t
        BY <1>6, <3>3, <3>4, SavedByPr
      <3> QED BY <1>2, <1>5, <3>2, <3>4, <3>5 DEF OpensOne
    <2> QED BY <1>3, <2>1, <2>2, <2>3, <2>4 DEF FocusStep
  <1> QED BY <1>2, <1>8, <1>9

LEMMA EndsWith ==
  ASSUME NEW c, Ends(c)
  PROVE  /\ \E C : c \in Seq(C)
         /\ Ends(<<Op("relabel")>> \o c)
         /\ c # <<>> => Head(c).op \in {"relabel", "commit"} /\ Ends(Tail(c))
  <1>1. PICK X : c \in Seq(X) /\ \A x \in X : x.op \in {"relabel", "commit"}
    BY DEF Ends
  <1> DEFINE r == Op("relabel")
             Y == X \union {r}
             a == <<r>>
  <1>2. a \in Seq(Y) /\ X \subseteq Y
    OBVIOUS
  <1>3. \A y \in Y : y.op \in {"relabel", "commit"}
    BY <1>1 DEF Op
  <1> HIDE DEF Y, a, r
  <1>4. a \o c \in Seq(Y)
    <2>1. c \in Seq(Y)
      BY <1>1, <1>2, SeqMonotonic
    <2> QED BY <1>2, <2>1, ConcatProperties
  <1>5. Ends(a \o c)
    BY <1>3, <1>4 DEF Ends
  <1>6. ASSUME c # <<>> PROVE Head(c).op \in {"relabel", "commit"} /\ Ends(Tail(c))
    <2>1. Head(c) \in X /\ Tail(c) \in Seq(X)
      BY <1>1, <1>6
    <2> QED BY <1>1, <2>1 DEF Ends
  <1> QED BY <1>1, <1>5, <1>6 DEF a, r

LEMMA CloseStays ==
  ASSUME TypeOK, SaveInv, ToClose \/ ClosedOne, Instruction, exn = "none", exn' = "none"
  PROVE  (ToClose \/ ClosedOne)'
  <1> DEFINE s == pr.state
             answer == UnfocusCheck(s, Now.kind)
             t == Unfocused(s)
  <1>1. ctrl # <<>>
    BY HeadOfControl DEF TypeOK
  <1>2. \A e : e # "none" => ~Raise(e)
    BY DEF Raise, RaiseIn
  <1>3. call' = call
    BY CallStays
  <1>4. PICK G : Saved(pr, G)
    <2>1. PICK U : IsUndo(U) /\ IsProof(pr, U)
      BY DEF SaveInv, Sane
    <2>2. \A u \in U : u.undo = "state" => u.state \in {v.state : v \in U}
      OBVIOUS
    <2> QED BY <2>1, <2>2 DEF Saved
  <1>5. s \in ProofState
    BY OverProofState, OverParts DEF TypeOK
  <1>6. CASE ToClose /\ Starts(ctrl, "begin") /\ ClosesNext(Tail(ctrl))
    <2>1. Begin
      BY <1>6, Dispatch DEF Starts, Now
    <2>2. ctrl' = Tail(ctrl) /\ pr' = [pr EXCEPT !.trans = Append(@, <<>>)]
      BY <2>1 DEF Begin, Do, Continue, Rest
    <2>3. pr'.state = s
      BY <1>4, <2>2, SavedWith
    <2> QED BY <1>3, <1>6, <2>2, <2>3 DEF ToClose
  <1>7. CASE ToClose /\ ClosesNext(ctrl)
    <2>1. Now.op = "unfocus" /\ Now.kind = "subproof" /\ Ends(Rest)
      BY <1>7 DEF ClosesNext, Starts, Now, Rest
    <2>2. UnfocusStep
      BY <2>1, Dispatch
    <2>3. answer # "none"
      BY DEF UnfocusCheck, FocusCondition, Refusal
    <2>4. \/ answer = "Strict" /\ pr' = Step(t) /\ ctrl' = Rest
          \/ /\ answer = "Loose" /\ pr' = Step(t)
             /\ ctrl' = <<Now, Op("relabel")>> \o Rest
      BY <1>2, <2>2, <2>3 DEF UnfocusStep, Do, Continue
    <2>5. pr'.state = t
      <3>1. IsState(s)
        BY <1>5, StateTypes
      <3>2. IsState(t)
        BY <3>1, StackUnfocused
      <3> HIDE DEF t
      <3> QED BY <1>4, <2>4, <3>2, SavedByPr
    <2>6. /\ s.comb = <<>>
          /\ answer = "Loose" => Braces(t) = Braces(s)
          /\ answer = "Strict" => \E x \in Brace : Braces(s) = Append(Braces(t), x)
      <3>1. answer \in {"Strict", "Loose"}
        BY <2>4
      <3> QED BY <1>5, <2>1, <3>1, BracesUnfocus
    <2>7. call.pr.state.comb = <<>> /\ Braces(s) = Braces(call.pr.state)
      BY <1>7, <2>6 DEF ToClose
    <2> HIDE DEF t, s, answer
    <2>8. CASE answer = "Strict" /\ ctrl' = Rest
      BY <1>3, <2>1, <2>5, <2>6, <2>7, <2>8 DEF ClosedOne
    <2>9. CASE answer = "Loose" /\ ctrl' = <<Now, Op("relabel")>> \o Rest
      <3> DEFINE r == <<Op("relabel")>> \o Rest
      <3>1. Ends(r) /\ \E C : Rest \in Seq(C)
        BY <2>1, EndsWith
      <3>2. ctrl' = <<Now>> \o r
        BY <2>9, <3>1, ConsTwo
      <3>3. \E C : r \in Seq(C)
        BY <3>1 DEF Ends
      <3> HIDE DEF r
      <3>4. ctrl' # <<>> /\ Head(ctrl') = Now /\ Tail(ctrl') = r
        BY <3>2, <3>3, ConsOne
      <3>5. ClosesNext(ctrl')
        BY <2>1, <3>1, <3>4 DEF ClosesNext, Starts
      <3> QED BY <1>3, <2>5, <2>6, <2>7, <2>9, <3>5 DEF ToClose
    <2> QED BY <2>4, <2>8, <2>9
  <1>8. CASE ClosedOne
    <2>1. Now.op \in {"relabel", "commit"} /\ Ends(Rest)
      BY <1>1, <1>8, EndsWith DEF ClosedOne, Now, Rest
    <2>2. ctrl' = Rest /\ pr'.state = s
      <3>1. CASE Now.op = "relabel"
        BY <3>1, Dispatch DEF Relabel, Do, Continue
      <3>2. CASE Now.op = "commit"
        <4>1. Commit
          BY <3>2, Dispatch
        <4>2. pr.trans # <<>> /\ pr' = Committed(pr, Len(Last(pr.trans))) /\ ctrl' = Rest
          BY <4>1 DEF Commit, Do, Continue
        <4>3. Len(Last(pr.trans)) \in 0..Len(Last(pr.trans))
          <5>1. pr \in ProofOver(ProofState, ProofState)
            BY OverProofState DEF TypeOK
          <5>2. Len(Last(pr.trans)) \in Nat
            BY <4>2, <5>1, ClosedOver, LenProperties
          <5> QED BY <5>2
        <4> QED BY <1>4, <4>2, <4>3, SavedCommitted
      <3> QED BY <2>1, <3>1, <3>2
    <2> QED BY <1>3, <1>8, <2>1, <2>2 DEF ClosedOne
  <1> QED BY <1>6, <1>7, <1>8 DEF ToClose

LEMMA ClosesOneStays ==
  ASSUME TypeOK, SaveInv, ClosesOne, Instruction
  PROVE  ClosesOne'
  <1> DEFINE ops == {"begin", "unfocus", "relabel", "commit"}
  <1>1. PICK X : ctrl \in Seq(X) /\ \A x \in X : x.op \in ops
    BY DEF ClosesOne
  <1>2. Now.op \in ops
    BY <1>1, HeadOfControl
  <1>3. \E Z : ctrl' \in Seq(Z) /\ \A z \in Z : z.op \in ops
    <2>1. PICK Y : ctrl' \in Seq(X \union Y) /\ \A y \in Y : Added(y)
      BY <1>1, ControlGrows DEF Grown
    <2>2. \A z \in X \union Y : z.op \in ops
      BY <1>1, <1>2, <2>1 DEF Added
    <2> QED BY <2>1, <2>2
  <1>4. exn # "none" => exn' # "none"
    BY <1>2, ExceptionsGoOn
  <1>5. exn = "none" /\ exn' = "none" => (ToClose \/ ClosedOne)'
    BY CloseStays DEF ClosesOne
  <1> QED BY <1>3, <1>4, <1>5 DEF ClosesOne

LEMMA BracesInvKept ==
  ASSUME Async = FALSE, TypeOK, SaveInv, HistoryInv, BracesInv, [Next]_vars
  PROVE  BracesInv'
  <1>1. CASE Instruction
    <2>1. call' = call
      BY <1>1, CallStays
    <2> QED BY <1>1, <2>1, OpensOneStays, ClosesOneStays, KeepsAllStays DEF BracesInv
  <1>2. CASE Interrupted
    BY <1>2 DEF Interrupted, Interrupt, UnfocusInterrupted, FocusInterrupted, CommitInterrupted,
                RollbackInterrupted
  <1>3. CASE Command
    <2>1. PICK cmd, b : Call(cmd, b) /\ CalledWith(cmd, b)
      BY <1>3, CommandsCall
    <2>2. /\ Idle /\ pr' = pr /\ ctrl' = b /\ exn' = "none"
          /\ call'.cmd = cmd /\ call'.pr = pr
      BY <2>1 DEF Call
    <2>3. PICK X : /\ b \in Seq(X)
                   /\ \/ cmd \in {"Undo", "Save"}
                      \/ cmd = "Subproof" /\ b = <<Op("save"), FocusOp("subproof", <<>>, 1)>>
                      \/ cmd = "EndSubproof" /\ b = Transaction(<<UnfocusOp("subproof")>>)
                      \/ cmd \notin {"Subproof", "EndSubproof"} /\ \A x \in X : KeepsBraces(x)
      BY <2>1 DEF CalledWith
    <2>4. CASE cmd \in {"Undo", "Save", "Start"}
      BY <2>2, <2>4 DEF BracesInv
    <2>5. CASE cmd = "Subproof" /\ b = <<Op("save"), FocusOp("subproof", <<>>, 1)>>
      <3>1. OpensOne'
        BY <2>2, <2>5 DEF OpensOne
      <3> QED BY <2>2, <2>5, <3>1 DEF BracesInv
    <2>6. CASE cmd = "EndSubproof" /\ b = Transaction(<<UnfocusOp("subproof")>>)
      <3> DEFINE x == UnfocusOp("subproof")
                 Y == {x, Op("begin"), Op("commit")}
                 e == <<Op("commit")>>
                 d == <<x>> \o e
      <3>1. b \in Seq(Y) /\ \A y \in Y : y.op \in {"begin", "unfocus", "relabel", "commit"}
        <4>1. b \in Seq(Y)
          <5> HIDE DEF x
          <5> QED BY <2>6, BodiesOver DEF x
        <4>2. \A y \in Y : y.op \in {"begin", "unfocus", "relabel", "commit"}
          BY DEF Op, UnfocusOp
        <4> QED BY <4>1, <4>2
      <3>2. Ends(e)
        <4>1. e \in Seq({Op("commit")}) /\ \A y \in {Op("commit")} : y.op \in {"relabel", "commit"}
          BY DEF Op
        <4> HIDE DEF e
        <4> QED BY <4>1 DEF Ends
      <3>3. /\ d # <<>> /\ Head(d) = x /\ Tail(d) = e
            /\ \E Z : d \in Seq(Z)
        <4>1. \E C : e \in Seq(C)
          BY <3>2 DEF Ends
        <4> HIDE DEF e, x
        <4> QED BY <4>1, ConsOne
      <3>4. ClosesNext(d)
        <4>1. x.op = "unfocus" /\ x.kind = "subproof"
          BY DEF UnfocusOp
        <4> HIDE DEF d, e, x
        <4> QED BY <3>2, <3>3, <4>1 DEF ClosesNext, Starts
      <3>5. b = <<Op("begin")>> \o d
        BY <2>6 DEF Transaction
      <3> HIDE DEF d, Y
      <3>6. b # <<>> /\ Head(b) = Op("begin") /\ Tail(b) = d
        BY <3>3, <3>5, ConsOne
      <3>7. Starts(b, "begin") /\ ClosesNext(Tail(b))
        <4>1. Op("begin").op = "begin"
          BY DEF Op
        <4> QED BY <3>4, <3>6, <4>1 DEF Starts
      <3>8. ToClose'
        BY <2>2, <3>7 DEF ToClose
      <3>9. ClosesOne'
        BY <2>2, <3>1, <3>8 DEF ClosesOne
      <3> QED BY <2>2, <2>6, <3>9 DEF BracesInv
    <2>7. CASE /\ cmd \notin {"Undo", "Save", "Start", "Subproof", "EndSubproof"}
               /\ \A x \in X : KeepsBraces(x)
      <3>1. pr.trans = <<>>
        BY <2>2 DEF HistoryInv, Answered
      <3>2. pr \in ProofOver(ProofState, ProofState)
        BY OverProofState DEF TypeOK
      <3>3. pr.state \in SameBraces'
        BY <2>2, <3>2, OverParts DEF SameBraces
      <3>4. pr' \in ProofOver(SameBraces', ProofState)
        <4>1. pr = Record(pr.state, pr.undo, pr.trans, pr.mode) /\ pr.mode \in Modes
              /\ pr.undo \in Seq(Undos(ProofState))
          BY <3>2, OverParts
        <4>2. pr.trans \in Seq(Seq(Undos(SameBraces')))
          BY <3>1, EmptySeq
        <4>3. Record(pr.state, pr.undo, pr.trans, pr.mode) \in ProofOver(SameBraces', ProofState)
          BY <3>3, <4>1, <4>2, OverMade
        <4> QED BY <2>2, <4>1, <4>3
      <3>5. KeepsAll'
        BY <2>2, <2>3, <2>7, <3>4 DEF KeepsAll
      <3> QED BY <2>2, <2>7, <3>5 DEF BracesInv
    <2> QED BY <2>3, <2>4, <2>5, <2>6, <2>7
  <1>4. CASE UNCHANGED vars
    BY <1>4 DEF vars, BracesInv, OpensOne, ClosesOne, ToClose, ClosedOne, KeepsAll, SameBraces
  <1> QED BY <1>1, <1>2, <1>3, <1>4 DEF Next

LEMMA BracesWhenIdle ==
  ASSUME TypeOK, BracesInv
  PROVE  BracesMatch
  <1> DEFINE before == Braces(call.pr.state)
             after == Braces(pr.state)
  <1> SUFFICES ASSUME Idle, exn = "none" PROVE BracesMatch
    BY DEF BracesMatch
  <1>1. before \in Seq(Brace) /\ after \in Seq(Brace)
    <2>1. pr.state.focus \in Seq(FocusFrame) /\ call.pr.state.focus \in Seq(FocusFrame)
      BY OverProofState, OverParts, StateTypes DEF TypeOK
    <2> QED BY <2>1, BracesMove DEF Braces
  <1>2. \A l \in Seq(Brace), f \in Brace : Append(l, f) # <<>> /\ Front(Append(l, f)) = l
    <2> SUFFICES ASSUME NEW l \in Seq(Brace), NEW f \in Brace
                 PROVE  Append(l, f) # <<>> /\ Front(Append(l, f)) = l
      OBVIOUS
    <2>1. Append(l, f) # <<>>
      BY AppendProperties
    <2> QED BY <2>1, FrontOfAppend
  <1>3. CASE call.cmd \in {"Undo", "Save", "Start"}
    BY <1>3 DEF BracesMatch
  <1>4. CASE call.cmd = "Subproof" /\ OpensOne
    <2>1. ctrl = <<>>
      BY DEF Idle
    <2>2. <<>> # <<Op("save"), FocusOp("subproof", <<>>, 1)>> /\ <<>> # <<FocusOp("subproof", <<>>, 1)>>
      OBVIOUS
    <2>3. \E f \in Brace : after = Append(before, f)
      BY <1>4, <2>1, <2>2 DEF OpensOne
    <2>4. after # <<>> /\ Front(after) = before
      BY <1>1, <1>2, <2>3
    <2> QED BY <1>4, <2>4 DEF BracesMatch
  <1>5. CASE call.cmd = "EndSubproof" /\ ClosesOne
    <2>1. ~ToClose
      BY DEF Idle, ToClose, ClosesNext, Starts
    <2>2. /\ \E f \in Brace : before = Append(after, f)
          /\ call.pr.state.comb = <<>>
      BY <1>5, <2>1 DEF ClosesOne, ClosedOne
    <2>3. before # <<>> /\ Front(before) = after
      BY <1>1, <1>2, <2>2
    <2> QED BY <1>5, <2>2, <2>3 DEF BracesMatch
  <1>6. CASE call.cmd \notin {"Undo", "Save", "Start", "Subproof", "EndSubproof"} /\ KeepsAll
    <2>1. pr.state \in SameBraces
      BY <1>6, OverParts DEF KeepsAll, Caught
    <2> QED BY <1>6, <2>1 DEF SameBraces, BracesMatch
  <1> QED BY <1>3, <1>4, <1>5, <1>6 DEF BracesInv

\* A subproof opened by a brace stays open, whatever bullets and automatic
\* unfocusing (FocusCondition, maximal_unfocus) do above it, until a closing
\* brace, Undo or the end of the proof; and a closing brace closes the innermost
\* one, once its goals are solved, and no other.
THEOREM BracesAreMatched == Async = FALSE => (Spec => []BracesMatch)
  <1> SUFFICES ASSUME Async = FALSE PROVE Spec => []BracesMatch
    OBVIOUS
  <1>1. Init => BracesInv
    BY DEF Init, BracesInv
  <1>2. TypeOK /\ SaveInv /\ HistoryInv /\ BracesInv /\ [Next]_vars => BracesInv'
    BY BracesInvKept
  <1>3. TypeOK /\ BracesInv => BracesMatch
    BY BracesWhenIdle
  <1> QED BY <1>1, <1>2, <1>3, TypesHold, SaveInvariant, HistoryInvariant, PTL DEF Spec
=============================================================================
