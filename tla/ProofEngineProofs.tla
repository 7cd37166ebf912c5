------------------------- MODULE ProofEngineProofs --------------------------
(***************************************************************************)
(* Qed is sound: whatever commands, failures and interrupts have done to   *)
(* the view of the goals, a theorem is declared only when its evar map has *)
(* no undefined evar.                                                      *)
(*                                                                         *)
(* Between the check of Proof.return and the declaration, the command still*)
(* unfocuses and commits, and exceptions may pass.  The invariant is about *)
(* the control: before "declare" come only instructions that leave the evar*)
(* map as it is, and no handler that resumes after an exception.           *)
(***************************************************************************)
EXTENDS ProofEngine, TLAPS, SequenceTheorems, WellFoundedInduction

-----------------------------------------------------------------------------
(* Control.  Instructions are any values: what counts is where "declare" is. *)

\* The instructions of a command that ends a proof: none changes the evar map.
Ending == {"begin", "unfocus", "relabel", "commit", "return"}

Shape(c) ==
  \A i, j \in DOMAIN c : c[i].op = "declare" =>
    /\ j < i => c[j].op \in Ending
    /\ j > i => c[j].op = "commit"

Declares(c) == \E i \in DOMAIN c : c[i].op = "declare"
Returns(c) == \E i \in DOMAIN c : c[i].op = "return"

LEMMA SuffixShape ==
  ASSUME NEW C, NEW c \in Seq(C), NEW h \in DOMAIN c, Shape(c)
  PROVE  /\ SubSeq(c, h, Len(c)) \in Seq(C)
         /\ Shape(SubSeq(c, h, Len(c)))
         /\ Declares(SubSeq(c, h, Len(c))) => Declares(c)
  <1> DEFINE d == SubSeq(c, h, Len(c))
  <1>1. DOMAIN c = 1..Len(c) /\ Len(c) \in Nat /\ h \in 1..Len(c)
    BY LenProperties
  <1>2. \A i \in h..Len(c) : c[i] \in C
    BY <1>1, ElementOfSeq
  <1>3. /\ d \in Seq(C)
        /\ Len(d) = Len(c) - h + 1
        /\ \A i \in 1..(Len(c) - h + 1) : d[i] = c[h + i - 1]
    BY <1>1, <1>2, SubSeqProperties
  <1>4. DOMAIN d = 1..(Len(c) - h + 1)
    BY <1>3, LenProperties
  <1> HIDE DEF d
  <1>5. \A i \in DOMAIN d : d[i] = c[h + i - 1] /\ h + i - 1 \in DOMAIN c
    BY <1>1, <1>3, <1>4
  <1>6. \A i, j \in DOMAIN d : /\ i < j <=> h + i - 1 < h + j - 1
                               /\ i > j <=> h + i - 1 > h + j - 1
    BY <1>1, <1>4
  <1>7. Shape(d)
    BY <1>5, <1>6 DEF Shape
  <1>8. Declares(d) => Declares(c)
    BY <1>5 DEF Declares
  <1> QED BY <1>3, <1>7, <1>8 DEF d

\* One instruction less: no other is lost.
LEMMA TailShape ==
  ASSUME NEW C, NEW c \in Seq(C), c # <<>>, Shape(c)
  PROVE  /\ Tail(c) \in Seq(C)
         /\ Shape(Tail(c))
         /\ Declares(Tail(c)) => (Declares(c) /\ Head(c).op \in Ending)
         /\ Declares(c) => Head(c).op \in Ending \union {"declare"}
         /\ Returns(c) => Returns(Tail(c)) \/ Head(c).op = "return"
         /\ Head(c).op = "declare" => ~Returns(c)
  <1>1. DOMAIN c = 1..Len(c) /\ Len(c) \in Nat \ {0} /\ Head(c) = c[1] /\ 1 \in DOMAIN c
    BY LenProperties, EmptySeq
  <1>2. /\ Tail(c) \in Seq(C)
        /\ Len(Tail(c)) = Len(c) - 1
        /\ \A i \in 1..Len(Tail(c)) : Tail(c)[i] = c[i + 1]
    BY HeadTailProperties
  <1>3. DOMAIN Tail(c) = 1..(Len(c) - 1)
    BY <1>2, LenProperties
  <1>4. \A i \in DOMAIN Tail(c) : Tail(c)[i] = c[i + 1] /\ i + 1 \in DOMAIN c /\ i + 1 > 1
    BY <1>1, <1>2, <1>3
  <1>5. \A i \in DOMAIN c : i = 1 \/ (i - 1 \in DOMAIN Tail(c) /\ Tail(c)[i - 1] = c[i])
    <2>1. ASSUME NEW i \in DOMAIN c, i # 1
          PROVE  i - 1 \in DOMAIN Tail(c) /\ (i - 1) + 1 = i
      BY <1>1, <1>3, <2>1
    <2> QED BY <1>4, <2>1
  <1>6. Shape(Tail(c))
    <2>1. \A i, j \in DOMAIN Tail(c) : (i < j <=> i + 1 < j + 1) /\ (i > j <=> i + 1 > j + 1)
      BY <1>1, <1>3
    <2> QED BY <1>4, <2>1 DEF Shape
  <1>7. Declares(Tail(c)) => (Declares(c) /\ Head(c).op \in Ending)
    BY <1>1, <1>4 DEF Declares, Shape
  <1>8. Declares(c) => Head(c).op \in Ending \union {"declare"}
    BY <1>1, <1>5, <1>7 DEF Declares
  <1>9. Returns(c) => Returns(Tail(c)) \/ Head(c).op = "return"
    BY <1>1, <1>5 DEF Returns
  <1>10. Head(c).op = "declare" => ~Returns(c)
    <2>1. ASSUME c[1].op = "declare", NEW i \in DOMAIN c PROVE c[i].op # "return"
      <3>1. i = 1 \/ i > 1
        BY <1>1
      <3>2. i > 1 => c[i].op = "commit"
        BY <1>1, <2>1 DEF Shape
      <3> QED BY <2>1, <3>1, <3>2
    <2> QED BY <1>1, <2>1 DEF Returns
  <1> QED BY <1>2, <1>6, <1>7, <1>8, <1>9, <1>10

\* Instructions without "declare" put before c: those of an ending before a
\* "declare" keep the shape, and so do any others before none.
LEMMA ConcatShape ==
  ASSUME NEW C, NEW b \in Seq(C), NEW c \in Seq(C), Shape(c), ~Declares(b),
         \/ ~Declares(c)
         \/ \A i \in DOMAIN b : b[i].op \in Ending
  PROVE  /\ b \o c \in Seq(C)
         /\ Shape(b \o c)
         /\ Declares(b \o c) <=> Declares(c)
         /\ Returns(c) => Returns(b \o c)
  <1> DEFINE d == b \o c
  <1>1. /\ Len(b) \in Nat /\ DOMAIN b = 1..Len(b)
        /\ Len(c) \in Nat /\ DOMAIN c = 1..Len(c)
    BY LenProperties
  <1>2. /\ d \in Seq(C)
        /\ Len(d) = Len(b) + Len(c)
        /\ \A i \in 1..Len(b) + Len(c) : d[i] = IF i <= Len(b) THEN b[i] ELSE c[i - Len(b)]
    BY ConcatProperties
  <1>3. DOMAIN d = 1..Len(b) + Len(c)
    BY <1>2, LenProperties
  <1> HIDE DEF d
  <1>4. \A i \in DOMAIN d : \/ i \in DOMAIN b /\ i <= Len(b) /\ d[i] = b[i]
                            \/ i - Len(b) \in DOMAIN c /\ i > Len(b) /\ d[i] = c[i - Len(b)]
    BY <1>1, <1>2, <1>3
  <1>5. \A i \in DOMAIN c : i + Len(b) \in DOMAIN d /\ d[i + Len(b)] = c[i]
    BY <1>1, <1>2, <1>3
  <1>6. \A i \in DOMAIN d : d[i].op = "declare" =>
          i - Len(b) \in DOMAIN c /\ i > Len(b) /\ d[i] = c[i - Len(b)]
    BY <1>4 DEF Declares
  <1>7. Declares(d) <=> Declares(c)
    BY <1>5, <1>6 DEF Declares
  <1>8. Returns(c) => Returns(d)
    BY <1>5 DEF Returns
  <1>9. ASSUME NEW i \in DOMAIN d, NEW j \in DOMAIN d, d[i].op = "declare"
        PROVE  (j < i => d[j].op \in Ending) /\ (j > i => d[j].op = "commit")
    <2> DEFINE k == i - Len(b)
               l == j - Len(b)
    <2>1. k \in DOMAIN c /\ i > Len(b) /\ c[k].op = "declare"
      BY <1>6, <1>9
    <2>2. i \in Int /\ j \in Int /\ (j < i <=> l < k) /\ (j > i <=> l > k)
      BY <1>1, <1>3
    <2>3. \A n \in DOMAIN b : b[n].op \in Ending
      BY <2>1 DEF Declares
    <2>4. CASE j \in DOMAIN b /\ j <= Len(b) /\ d[j] = b[j]
      BY <1>1, <2>1, <2>2, <2>3, <2>4
    <2>5. CASE l \in DOMAIN c /\ j > Len(b) /\ d[j] = c[l]
      <3> HIDE DEF k, l
      <3>1. (l < k => c[l].op \in Ending) /\ (l > k => c[l].op = "commit")
        BY <2>1, <2>5 DEF Shape
      <3> QED BY <2>2, <2>5, <3>1
    <2> QED BY <1>4, <2>4, <2>5
  <1> QED BY <1>2, <1>7, <1>8, <1>9 DEF d, Shape

-----------------------------------------------------------------------------
(* Records.  What the fields of a state hold does not matter, nor do the    *)
(* undo actions, the elements of some set U, as long as all are records.   *)

IsState(s) ==
  s = [comb |-> s.comb, focus |-> s.focus, made |-> s.made, goals |-> s.goals, holes |-> s.holes]

IsUndo(U) == \A u \in U : u.undo = "state" => IsState(u.state)

IsProof(p, U) ==
  /\ p = [state |-> p.state, undo |-> p.undo, trans |-> p.trans, mode |-> p.mode]
  /\ IsState(p.state)
  /\ p.undo \in Seq(U)
  /\ p.trans \in Seq(Seq(U))

\* A proof with one field changed
LEMMA WithField ==
  ASSUME NEW p, p = [state |-> p.state, undo |-> p.undo, trans |-> p.trans, mode |-> p.mode],
         NEW x
  PROVE  /\ [p EXCEPT !.state = x]
              = [state |-> x, undo |-> p.undo, trans |-> p.trans, mode |-> p.mode]
         /\ [p EXCEPT !.trans = x]
              = [state |-> p.state, undo |-> p.undo, trans |-> x, mode |-> p.mode]
         /\ [p EXCEPT !.mode = x]
              = [state |-> p.state, undo |-> p.undo, trans |-> p.trans, mode |-> x]
  OBVIOUS

LEMMA PushedIsProof ==
  ASSUME NEW U, NEW p, IsProof(p, U), NEW es \in Seq(U)
  PROVE  IsProof(Pushed(p, es), U) /\ Pushed(p, es).state = p.state
  <1>1. CASE p.trans = <<>>
    <2>1. p.undo \o es \in Seq(U)
      BY ConcatProperties DEF IsProof
    <2>2. Pushed(p, es) = [p EXCEPT !.undo = p.undo \o es]
      BY <1>1 DEF Pushed
    <2> QED BY <2>1, <2>2 DEF IsProof
  <1>2. CASE p.trans # <<>>
    <2> DEFINE n == Len(p.trans)
               t == [p.trans EXCEPT ![n] = p.trans[n] \o es]
    <2>1. p.trans \in Seq(Seq(U)) /\ n \in 1..n
      BY <1>2, EmptySeq DEF IsProof
    <2>2. p.trans[n] \o es \in Seq(U)
      BY <2>1, ElementOfSeq, ConcatProperties
    <2>3. t \in Seq(Seq(U))
      BY <2>1, <2>2, ExceptSeq
    <2> HIDE DEF t
    <2>4. Pushed(p, es) = [p EXCEPT !.trans = t]
      BY <1>2 DEF Pushed, t, IsProof
    <2> QED BY <2>3, <2>4 DEF IsProof
  <1> QED BY <1>1, <1>2

LEMMA ClosedIsProof ==
  ASSUME NEW U, NEW p, IsProof(p, U), p.trans # <<>>
  PROVE  /\ IsProof(Closed(p), U) /\ Closed(p).state = p.state
         /\ Last(p.trans) \in Seq(U)
  <1>1. p.trans \in Seq(Seq(U)) /\ Len(p.trans) \in Nat \ {0}
    BY EmptySeq DEF IsProof
  <1>2. \A i \in 1..(Len(p.trans) - 1) : p.trans[i] \in Seq(U)
    BY <1>1, ElementOfSeq
  <1> DEFINE f == Front(p.trans)
  <1>3. f \in Seq(Seq(U))
    BY <1>1, <1>2, SubSeqProperties DEF Front
  <1>4. Last(p.trans) \in Seq(U)
    BY <1>1, ElementOfSeq DEF Last
  <1>5. Closed(p) = [p EXCEPT !.trans = f]
    BY DEF Closed, IsProof
  <1> HIDE DEF f
  <1> QED BY <1>3, <1>4, <1>5 DEF IsProof

LEMMA CommittedIsProof ==
  ASSUME NEW U, NEW p, IsProof(p, U), p.trans # <<>>, NEW n \in 0..Len(Last(p.trans))
  PROVE  IsProof(Committed(p, n), U) /\ Committed(p, n).state = p.state
  <1> DEFINE l == Last(p.trans)
  <1>1. IsProof(Closed(p), U) /\ Closed(p).state = p.state /\ l \in Seq(U)
    BY ClosedIsProof
  <1> HIDE DEF l
  <1>2. Len(l) \in Nat /\ n \in 0..Len(l)
    BY <1>1 DEF l
  <1>3. \A i \in 1..n : l[i] \in U
    BY <1>1, <1>2, ElementOfSeq
  <1>4. SubSeq(l, 1, n) \in Seq(U)
    BY <1>2, <1>3, SubSeqProperties
  <1> QED BY <1>1, <1>4, PushedIsProof DEF Committed, l

\* Among the actions of a sort one is the oldest: a least index exists.
LEMMA OldestIndex ==
  ASSUME NEW U, NEW es \in Seq(U), NEW sort, HasSort(es, sort)
  PROVE  \E m \in DOMAIN es : es[m].undo = sort /\ \A j \in 1..(m - 1) : es[j].undo # sort
  <1> DEFINE D == {i \in DOMAIN es : es[i].undo = sort}
  <1>1. DOMAIN es = 1..Len(es) /\ Len(es) \in Nat
    BY LenProperties
  <1>2. D \subseteq Nat /\ D # {}
    BY <1>1 DEF HasSort
  <1>3. PICK m \in D : \A k \in D : <<k, m>> \notin OpToRel(<, Nat)
    BY <1>2, NatLessThanWellFounded, WFMin
  <1>4. \A k \in D : ~(k < m)
    <2>1. ASSUME NEW k \in D, k < m PROVE <<k, m>> \in OpToRel(<, Nat)
      BY <1>2, <2>1 DEF OpToRel
    <2> QED BY <1>3, <2>1
  <1>5. \A j \in 1..(m - 1) : es[j].undo # sort
    <2>1. m \in 1..Len(es)
      BY <1>1, <1>3
    <2>2. ASSUME NEW j \in 1..(m - 1) PROVE j \in DOMAIN es /\ j < m
      BY <1>1, <2>1, <2>2
    <2> QED BY <1>4, <2>2
  <1> QED BY <1>3, <1>5

\* The oldest action of a sort is the one before which there is no other.
LEMMA OldestIs ==
  ASSUME NEW U, NEW es \in Seq(U), NEW sort, NEW m \in DOMAIN es,
         es[m].undo = sort, \A j \in 1..(m - 1) : es[j].undo # sort
  PROVE  HasSort(es, sort) /\ Oldest(es, sort) = es[m]
  <1> DEFINE P(i) == es[i].undo = sort /\ \A j \in 1..(i - 1) : es[j].undo # sort
             o == CHOOSE i \in DOMAIN es : P(i)
  <1>1. DOMAIN es = 1..Len(es) /\ Len(es) \in Nat
    BY LenProperties
  <1>2. P(m)
    OBVIOUS
  <1>3. o \in DOMAIN es /\ P(o)
    BY <1>2
  <1>4. Oldest(es, sort) = es[o]
    BY DEF Oldest
  <1> HIDE DEF o
  <1>5. ~(o < m) /\ ~(m < o)
    <2>1. \A i, k \in DOMAIN es : i < k => i \in 1..(k - 1)
      BY <1>1
    <2> QED BY <1>2, <1>3, <2>1
  <1>6. o = m
    BY <1>1, <1>3, <1>5
  <1> QED BY <1>4, <1>6 DEF HasSort

LEMMA OldestIsUndo ==
  ASSUME NEW U, NEW es \in Seq(U), NEW sort, HasSort(es, sort)
  PROVE  Oldest(es, sort) \in U /\ Oldest(es, sort).undo = sort
  <1>1. PICK m \in DOMAIN es :
          es[m].undo = sort /\ \A j \in 1..(m - 1) : es[j].undo # sort
    BY OldestIndex
  <1>2. Oldest(es, sort) = es[m]
    BY <1>1, OldestIs
  <1> QED BY <1>1, <1>2, LenProperties, ElementOfSeq

LEMMA RewoundIsProof ==
  ASSUME NEW U, IsUndo(U), NEW p, IsProof(p, U), NEW es \in Seq(U)
  PROVE  IsProof(Rewound(p, es), U)
  <1> DEFINE s == IF HasSort(es, "state") THEN Oldest(es, "state").state ELSE p.state
             m == IF HasSort(es, "mode") THEN Oldest(es, "mode").mode ELSE p.mode
  <1>1. IsState(s)
    BY OldestIsUndo DEF IsUndo, IsProof
  <1>2. Rewound(p, es) = [p EXCEPT !.state = s, !.mode = m]
    BY DEF Rewound, IsProof
  <1> HIDE DEF s, m
  <1> QED BY <1>1, <1>2 DEF IsProof

LEMMA VisibleIsSeq ==
  ASSUME NEW U, NEW p, IsProof(p, U)
  PROVE  Visible(p) \in Seq(U)
  BY ClosedIsProof DEF Visible, IsProof

LEMMA PoppedIsProof ==
  ASSUME NEW U, IsUndo(U), NEW p, IsProof(p, U), NEW n \in 0..Len(Visible(p))
  PROVE  IsProof(Popped(p, n), U) /\ (Popped(p, n).trans = <<>> <=> p.trans = <<>>)
  <1> DEFINE v == Visible(p)
             kept == Len(v) - n
             q == Rewound(p, SubSeq(v, kept + 1, Len(v)))
             w == SubSeq(v, 1, kept)
  <1>1. v \in Seq(U) /\ Len(v) \in Nat
    BY VisibleIsSeq
  <1>2. kept \in 0..Len(v)
    BY <1>1
  <1> HIDE DEF kept
  <1>3. \A i \in 1..Len(v) : v[i] \in U
    BY <1>1, ElementOfSeq
  <1>4. w \in Seq(U) /\ SubSeq(v, kept + 1, Len(v)) \in Seq(U)
    <2>1. (\A i \in 1..kept : v[i] \in U) /\ \A i \in kept + 1 .. Len(v) : v[i] \in U
      BY <1>1, <1>2, <1>3
    <2> QED BY <1>1, <1>2, <2>1, SubSeqProperties
  <1>5. IsProof(q, U)
    BY <1>4, RewoundIsProof
  <1>6. q.undo = p.undo /\ q.trans = p.trans
    BY DEF Rewound, IsProof
  <1> HIDE DEF q, w
  <1>7. CASE p.trans = <<>>
    <2>1. Popped(p, n) = [q EXCEPT !.undo = w]
      BY <1>6, <1>7 DEF Popped, Visible, q, w, v, kept
    <2> QED BY <1>4, <1>5, <1>6, <1>7, <2>1 DEF IsProof
  <1>8. CASE p.trans # <<>>
    <2> DEFINE l == Len(p.trans)
               t == [p.trans EXCEPT ![l] = w]
    <2>1. p.trans \in Seq(Seq(U)) /\ l \in 1..l
      BY <1>8, EmptySeq DEF IsProof
    <2>2. t \in Seq(Seq(U)) /\ Len(t) = l
      BY <1>4, <2>1, ExceptSeq
    <2>3. t # <<>>
      BY <2>1, <2>2, EmptySeq
    <2> HIDE DEF t
    <2>4. Popped(p, n) = [q EXCEPT !.trans = t]
      BY <1>6, <1>8 DEF Popped, Visible, q, w, v, kept, t, Last
    <2> QED BY <1>5, <1>8, <2>2, <2>3, <2>4 DEF IsProof
  <1> QED BY <1>7, <1>8

-----------------------------------------------------------------------------
(* The states and proofs that instructions make of others. *)

Sane(p) == \E U : IsUndo(U) /\ IsProof(p, U)

LEMMA WithFocus ==
  ASSUME NEW s, IsState(s), NEW f
  PROVE  /\ IsState([s EXCEPT !.focus = f])
         /\ Unsolved([s EXCEPT !.focus = f]) = Unsolved(s)
  BY DEF IsState, Unsolved

LEMMA WithComb ==
  ASSUME NEW s, IsState(s), NEW c
  PROVE  /\ IsState([s EXCEPT !.comb = c])
         /\ Unsolved([s EXCEPT !.comb = c]) = Unsolved(s)
  BY DEF IsState, Unsolved

LEMMA WithEvars ==
  ASSUME NEW s, IsState(s), NEW m, NEW g, NEW h
  PROVE  IsState([s EXCEPT !.made = m, !.goals = g, !.holes = h])
  <1> DEFINE t == [s EXCEPT !.made = m]
             u == [t EXCEPT !.goals = g]
  <1>1. IsState(t)
    BY DEF IsState
  <1> HIDE DEF t
  <1>2. IsState(u)
    BY <1>1 DEF IsState
  <1> HIDE DEF u
  <1>3. IsState([u EXCEPT !.holes = h])
    BY <1>2 DEF IsState
  <1> QED BY <1>3 DEF t, u

LEMMA StatesAreRecords ==
  ASSUME NEW s, IsState(s), NEW kind, NEW bullets, NEW i, NEW solved, NEW k, NEW h,
         NEW comb, NEW new
  PROVE  /\ IsState(PoppedFocus(s)) /\ Unsolved(PoppedFocus(s)) = Unsolved(s)
         /\ IsState(Unfocused(s)) /\ Unsolved(Unfocused(s)) = Unsolved(s)
         /\ IsState(PushedFocus(s, kind, bullets, i))
         /\ IsState(Focused(s, kind, bullets, i))
         /\ IsState(Solving(s, solved, k, h))
         /\ IsState(Replaced(s, comb, i, new))
  <1>1. IsState(PoppedFocus(s)) /\ Unsolved(PoppedFocus(s)) = Unsolved(s)
    <2> DEFINE f == Front(s.focus)
    <2>1. PoppedFocus(s) = [s EXCEPT !.focus = f]
      BY DEF PoppedFocus, IsState
    <2> HIDE DEF f
    <2> QED BY <2>1, WithFocus
  <1>2. IsState(Unfocused(s)) /\ Unsolved(Unfocused(s)) = Unsolved(s)
    <2> DEFINE p == PoppedFocus(s)
               c == Undefined(s, Last(s.focus).left \o s.comb \o Last(s.focus).right)
    <2>1. Unfocused(s) = [p EXCEPT !.comb = c]
      BY DEF Unfocused
    <2> HIDE DEF p, c
    <2>2. IsState(p) /\ Unsolved(p) = Unsolved(s)
      BY <1>1 DEF p
    <2> QED BY <2>1, <2>2, WithComb
  <1>3. IsState(PushedFocus(s, kind, bullets, i))
    <2> DEFINE f == Append(s.focus, Focus(kind, bullets, SubSeq(s.comb, 1, i - 1),
                                          SubSeq(s.comb, i + 1, Len(s.comb))))
    <2>1. PushedFocus(s, kind, bullets, i) = [s EXCEPT !.focus = f]
      BY DEF PushedFocus, IsState
    <2> HIDE DEF f
    <2> QED BY <2>1, WithFocus
  <1>4. IsState(Focused(s, kind, bullets, i))
    BY <1>3, WithComb DEF Focused
  <1>5. IsState(Solving(s, solved, k, h))
    <2> DEFINE m == s.made
               n == m + k + h
               g == (s.goals \ solved) \union (m + 1 .. m + k)
               e == (s.holes \ solved) \union (m + k + 1 .. m + k + h)
    <2>1. Solving(s, solved, k, h) = [s EXCEPT !.made = n, !.goals = g, !.holes = e]
      BY DEF Solving, IsState
    <2> HIDE DEF m, n, g, e
    <2>2. IsState([s EXCEPT !.made = n, !.goals = g, !.holes = e])
      BY WithEvars, Zenon
    <2> QED BY <2>1, <2>2
  <1>6. IsState(Replaced(s, comb, i, new))
    BY WithComb DEF Replaced
  <1> QED BY <1>1, <1>2, <1>3, <1>4, <1>5, <1>6

LEMMA SaneStates ==
  ASSUME Sane(pr), NEW s, IsState(s)
  PROVE  /\ Sane(WithState(s)) /\ WithState(s).state = s
         /\ Sane(Step(s)) /\ Step(s).state = s
  <1>1. PICK U : IsUndo(U) /\ IsProof(pr, U)
    BY DEF Sane
  <1> DEFINE V == U \union {StateUndo(pr)}
  <1>2. IsUndo(V)
    BY <1>1 DEF IsUndo, IsProof, StateUndo
  <1>3. pr.undo \in Seq(V) /\ pr.trans \in Seq(Seq(V))
    <2>1. U \subseteq V /\ Seq(U) \subseteq Seq(V)
      BY SeqMonotonic
    <2> QED BY <1>1, <2>1, SeqMonotonic DEF IsProof
  <1>4. IsProof(WithState(s), V) /\ WithState(s).state = s
    <2>1. pr = [state |-> pr.state, undo |-> pr.undo, trans |-> pr.trans, mode |-> pr.mode]
      BY <1>1 DEF IsProof
    <2>2. WithState(s) = [state |-> s, undo |-> pr.undo, trans |-> pr.trans, mode |-> pr.mode]
      BY <2>1, WithField DEF WithState
    <2> HIDE DEF V
    <2> QED BY <1>3, <2>2 DEF IsProof
  <1>5. <<StateUndo(pr)>> \in Seq(V)
    OBVIOUS
  <1> HIDE DEF V
  <1>6. IsProof(Step(s), V) /\ Step(s).state = s
    BY <1>4, <1>5, PushedIsProof DEF Step
  <1> QED BY <1>2, <1>4, <1>6 DEF Sane

LEMMA SaneUndos ==
  ASSUME Sane(pr)
  PROVE  /\ Sane(Pushed(pr, <<StateUndo(pr)>>)) /\ Pushed(pr, <<StateUndo(pr)>>).state = pr.state
         /\ Sane(Pushed(pr, <<ModeUndo(pr)>>)) /\ Pushed(pr, <<ModeUndo(pr)>>).state = pr.state
  <1>1. PICK U : IsUndo(U) /\ IsProof(pr, U)
    BY DEF Sane
  <1> DEFINE V == U \union {StateUndo(pr), ModeUndo(pr)}
  <1>2. IsUndo(V)
    BY <1>1 DEF IsUndo, IsProof, StateUndo, ModeUndo
  <1>3. U \subseteq V /\ Seq(U) \subseteq Seq(V) /\ Seq(Seq(U)) \subseteq Seq(Seq(V))
    BY SeqMonotonic
  <1>4. IsProof(pr, V)
    BY <1>1, <1>3 DEF IsProof
  <1>5. <<StateUndo(pr)>> \in Seq(V) /\ <<ModeUndo(pr)>> \in Seq(V)
    OBVIOUS
  <1> HIDE DEF V
  <1> QED BY <1>2, <1>4, <1>5, PushedIsProof DEF Sane

LEMMA SaneNewProof == Sane(NewProof) /\ IsState(InitialState)
  <1> DEFINE u == [undo |-> "state", state |-> InitialState]
  <1>1. IsState(InitialState)
    BY DEF InitialState, IsState
  <1>2. IsUndo({u})
    BY <1>1 DEF IsUndo
  <1>3. <<u>> \in Seq({u}) /\ <<>> \in Seq(Seq({u}))
    OBVIOUS
  <1>4. IsProof(NewProof, {u})
    BY <1>1, <1>3 DEF NewProof, IsProof
  <1> QED BY <1>1, <1>2, <1>4 DEF Sane

-----------------------------------------------------------------------------
(* Bodies: the lists of instructions that commands and instructions put at  *)
(* the head of the control.                                                *)

\* Only the argument of "undo" matters.
IsInstr(C) == \A x \in C : x.op = "undo" => x.n \in Nat

Body(b) == \E B : b \in Seq(B) /\ IsInstr(B)
Plain(b) == Body(b) /\ ~Declares(b)
Closing(b) == Plain(b) /\ \A i \in DOMAIN b : b[i].op \in Ending

LEMMA PlainTuples ==
  ASSUME NEW x, x.op \notin {"declare", "undo"}, NEW y, y.op \notin {"declare", "undo"}
  PROVE  /\ Plain(<<>>) /\ Plain(<<x>>) /\ Plain(<<x, y>>)
         /\ x.op \in Ending => Closing(<<x>>)
         /\ x.op \in Ending /\ y.op \in Ending => Closing(<<x, y>>)
  <1>1. IsInstr({x, y})
    BY DEF IsInstr
  <1>2. <<>> \in Seq({x, y}) /\ <<x>> \in Seq({x, y}) /\ <<x, y>> \in Seq({x, y})
    OBVIOUS
  <1>3. Body(<<>>) /\ Body(<<x>>) /\ Body(<<x, y>>)
    BY <1>1, <1>2 DEF Body
  <1>4. DOMAIN <<>> = {} /\ DOMAIN <<x>> = {1} /\ DOMAIN <<x, y>> = {1, 2}
    OBVIOUS
  <1>5. <<x>>[1] = x /\ <<x, y>>[1] = x /\ <<x, y>>[2] = y
    OBVIOUS
  <1> QED BY <1>3, <1>4, <1>5 DEF Plain, Closing, Declares

LEMMA EmptyBody == Body(<<>>) /\ Shape(<<>>) /\ ~Declares(<<>>)
  <1>1. <<>> \in Seq({}) /\ IsInstr({}) /\ DOMAIN <<>> = {}
    BY EmptySeq DEF IsInstr
  <1>2. Body(<<>>)
    BY <1>1 DEF Body
  <1> QED BY <1>1, <1>2 DEF Shape, Declares

LEMMA PlainConcat ==
  ASSUME NEW b, Plain(b), NEW c, Plain(c)
  PROVE  Plain(b \o c) /\ (Closing(b) /\ Closing(c) => Closing(b \o c))
  <1>1. PICK B : b \in Seq(B) /\ IsInstr(B)
    BY DEF Plain, Body
  <1>2. PICK C : c \in Seq(C) /\ IsInstr(C)
    BY DEF Plain, Body
  <1> DEFINE D == B \union C
             d == b \o c
  <1>3. b \in Seq(D) /\ c \in Seq(D) /\ IsInstr(D)
    BY <1>1, <1>2, SeqMonotonic DEF IsInstr
  <1> HIDE DEF D
  <1>4. /\ Len(b) \in Nat /\ DOMAIN b = 1..Len(b)
        /\ Len(c) \in Nat /\ DOMAIN c = 1..Len(c)
    BY <1>3, LenProperties
  <1>5. /\ d \in Seq(D)
        /\ Len(d) = Len(b) + Len(c)
        /\ \A i \in 1..Len(b) + Len(c) : d[i] = IF i <= Len(b) THEN b[i] ELSE c[i - Len(b)]
    BY <1>3, ConcatProperties
  <1>6. DOMAIN d = 1..Len(b) + Len(c)
    BY <1>5, LenProperties
  <1> HIDE DEF d
  <1>7. \A i \in DOMAIN d : \/ i \in DOMAIN b /\ d[i] = b[i]
                            \/ i - Len(b) \in DOMAIN c /\ d[i] = c[i - Len(b)]
    BY <1>4, <1>5, <1>6
  <1>8. Plain(d)
    BY <1>3, <1>5, <1>7 DEF Plain, Body, Declares
  <1> QED BY <1>7, <1>8 DEF Closing, d

LEMMA PlainTransaction ==
  ASSUME NEW b, Plain(b)
  PROVE  Plain(Transaction(b)) /\ (Closing(b) => Closing(Transaction(b)))
  <1>1. Closing(<<Op("begin")>>) /\ Closing(<<Op("commit")>>)
    <2>1. \A op \in {"begin", "commit"} : Op(op).op \in Ending /\ Op(op).op \notin {"declare", "undo"}
      BY DEF Op, Ending
    <2> QED BY <2>1, PlainTuples
  <1>2. Plain(<<Op("begin")>>) /\ Plain(<<Op("commit")>>)
    BY <1>1 DEF Closing
  <1> QED BY <1>1, <1>2, PlainConcat DEF Transaction

LEMMA FourTuple ==
  ASSUME NEW a, NEW b, NEW c, NEW d
  PROVE  <<a>> \o <<b, c>> \o <<d>> = <<a, b, c, d>>
  <1> DEFINE S == {a, b, c, d}
             l == <<a>> \o <<b, c>>
  <1>1. <<a>> \in Seq(S) /\ <<b, c>> \in Seq(S) /\ <<d>> \in Seq(S) /\ <<a, b, c, d>> \in Seq(S)
    OBVIOUS
  <1>2. Len(<<a>>) = 1 /\ Len(<<b, c>>) = 2 /\ Len(<<d>>) = 1 /\ Len(<<a, b, c, d>>) = 4
    OBVIOUS
  <1> HIDE DEF S
  <1>3. l \in Seq(S) /\ Len(l) = 3 /\ l[1] = a /\ l[2] = b /\ l[3] = c
    BY <1>1, <1>2, ConcatProperties
  <1> HIDE DEF l
  <1> DEFINE e == <<d>>
             m == l \o e
  <1>4. m \in Seq(S) /\ Len(m) = 4 /\ m[1] = a /\ m[2] = b /\ m[3] = c /\ m[4] = d
    <2>1. e \in Seq(S) /\ Len(e) = 1 /\ e[1] = d
      BY <1>1, <1>2
    <2> HIDE DEF e
    <2>2. /\ m \in Seq(S) /\ Len(m) = Len(l) + Len(e)
          /\ \A i \in 1 .. Len(l) + Len(e) : m[i] = IF i <= Len(l) THEN l[i] ELSE e[i - Len(l)]
      BY <1>3, <2>1, ConcatProperties, Zenon
    <2> HIDE DEF m
    <2>3. Len(m) = 4 /\ \A i \in 1..4 : m[i] = IF i <= 3 THEN l[i] ELSE e[i - 3]
      BY <1>3, <2>1, <2>2
    <2> QED BY <1>3, <2>1, <2>2, <2>3
  <1> HIDE DEF e, m
  <1>5. \A i \in 1..4 : m[i] = <<a, b, c, d>>[i]
    <2>1. \A i \in 1..4 : i = 1 \/ i = 2 \/ i = 3 \/ i = 4
      OBVIOUS
    <2> QED BY <1>4, <2>1
  <1>6. m = <<a, b, c, d>>
    BY <1>1, <1>2, <1>4, <1>5, SeqEqual
  <1> QED BY <1>6 DEF l, e, m

\* The one body that declares
LEMMA SaveBody ==
  LET b == Transaction(<<Op("return"), Op("declare")>>)
  IN  Body(b) /\ Shape(b) /\ Returns(b)
  <1> DEFINE b == <<Op("begin"), Op("return"), Op("declare"), Op("commit")>>
             B == {Op("begin"), Op("return"), Op("declare"), Op("commit")}
  <1>1. Transaction(<<Op("return"), Op("declare")>>) = b
    BY FourTuple DEF Transaction
  <1>2. b \in Seq(B) /\ IsInstr(B)
    BY DEF IsInstr, Op
  <1>3. DOMAIN b = 1..4
    OBVIOUS
  <1>4. b[1].op = "begin" /\ b[2].op = "return" /\ b[3].op = "declare" /\ b[4].op = "commit"
    BY DEF Op
  <1> HIDE DEF b, B
  <1>5. Body(b)
    BY <1>2 DEF Body
  <1>6. Returns(b)
    BY <1>3, <1>4 DEF Returns
  <1>7. Shape(b)
    BY <1>3, <1>4 DEF Shape, Ending
  <1> QED BY <1>1, <1>5, <1>6, <1>7

-----------------------------------------------------------------------------
(* The invariant, and how each sort of step keeps its part on the control. *)

Control == Body(ctrl) /\ Shape(ctrl)

\* The evar map has been found solved, unless this is still to come.
Covered == exn = "none" /\ Declares(ctrl) => Returns(ctrl) \/ Unsolved(pr.state) = {}

SaveInv == Sane(pr) /\ Control /\ Covered

LEMMA RaiseControl ==
  ASSUME NEW c, Body(c), Shape(c), NEW e, e # "none", RaiseIn(c, e)
  PROVE  Control' /\ Covered'
  <1>1. PICK C : c \in Seq(C) /\ IsInstr(C)
    BY DEF Body
  <1>2. Covered'
    BY DEF RaiseIn, Covered
  <1>3. CASE ctrl' = <<>>
    BY <1>2, <1>3, EmptyBody DEF Control
  <1>4. CASE \E h \in DOMAIN c : ctrl' = SubSeq(c, h, Len(c))
    <2>1. PICK h \in DOMAIN c : ctrl' = SubSeq(c, h, Len(c))
      BY <1>4
    <2>2. ctrl' \in Seq(C) /\ Shape(ctrl')
      BY <1>1, <2>1, SuffixShape
    <2> QED BY <1>1, <1>2, <2>2 DEF Control, Body
  <1> QED BY <1>3, <1>4 DEF RaiseIn

LEMMA RaiseRest ==
  ASSUME SaveInv, ~Idle, NEW e, e # "none", RaiseIn(Rest, e)
  PROVE  Control' /\ Covered'
  <1>1. PICK C : ctrl \in Seq(C) /\ IsInstr(C)
    BY DEF SaveInv, Control, Body
  <1>2. Body(Rest) /\ Shape(Rest)
    BY <1>1, TailShape DEF SaveInv, Control, Body, Idle, Rest
  <1> QED BY <1>2, RaiseControl

\* An instruction that is done
LEMMA RestControl ==
  ASSUME SaveInv, ~Idle, Now.op # "return", exn = "none",
         ctrl' = Rest, exn' = exn,
         Now.op \in Ending => Unsolved(pr'.state) = Unsolved(pr.state)
  PROVE  Control' /\ Covered'
  <1>1. PICK C : ctrl \in Seq(C) /\ IsInstr(C)
    BY DEF SaveInv, Control, Body
  <1>2. Control'
    BY <1>1, TailShape DEF SaveInv, Control, Body, Idle, Rest
  <1>3. Declares(Rest) => /\ Declares(ctrl) /\ Now.op \in Ending
                          /\ Returns(ctrl) => Returns(Rest)
    BY <1>1, TailShape DEF SaveInv, Control, Idle, Rest, Now
  <1> QED BY <1>2, <1>3 DEF SaveInv, Covered

\* An instruction that amounts to others
LEMMA ExpandControl ==
  ASSUME SaveInv, ~Idle, Now.op # "return", exn = "none",
         NEW b, Plain(b), Now.op \in Ending => Closing(b),
         ctrl' = b \o Rest, exn' = exn,
         Now.op \in Ending => Unsolved(pr'.state) = Unsolved(pr.state)
  PROVE  Control' /\ Covered'
  <1>1. PICK C : ctrl \in Seq(C) /\ IsInstr(C)
    BY DEF SaveInv, Control, Body
  <1>2. PICK B : b \in Seq(B) /\ IsInstr(B)
    BY DEF Plain, Body
  <1>3. /\ Rest \in Seq(C) /\ Shape(Rest)
        /\ Declares(Rest) => /\ Declares(ctrl) /\ Now.op \in Ending
                             /\ Returns(ctrl) => Returns(Rest)
    BY <1>1, TailShape DEF SaveInv, Control, Idle, Rest, Now
  <1> DEFINE D == B \union C
  <1>4. b \in Seq(D) /\ Rest \in Seq(D) /\ IsInstr(D)
    BY <1>1, <1>2, <1>3, SeqMonotonic DEF IsInstr
  <1> HIDE DEF D
  <1>5. /\ b \o Rest \in Seq(D) /\ Shape(b \o Rest)
        /\ Declares(b \o Rest) <=> Declares(Rest)
        /\ Returns(Rest) => Returns(b \o Rest)
    BY <1>3, <1>4, ConcatShape DEF Plain, Closing
  <1>6. Control'
    BY <1>4, <1>5 DEF Control, Body
  <1> QED BY <1>3, <1>5, <1>6 DEF SaveInv, Covered

-----------------------------------------------------------------------------
(* The steps. *)

LEMMA CommandKeeps ==
  ASSUME SaveInv, Command
  PROVE  SaveInv'
  <1>1. ASSUME NEW cmd, NEW b, Body(b), Shape(b), Declares(b) => Returns(b), Call(cmd, b)
        PROVE  SaveInv'
    BY <1>1 DEF Call, SaveInv, Control, Covered
  <1>2. ASSUME NEW cmd, NEW b, Plain(b), Call(cmd, b)
        PROVE  SaveInv'
    <2>1. Body(b) /\ Shape(b) /\ ~Declares(b)
      BY <1>2 DEF Plain, Shape, Declares
    <2> QED BY <1>1, <1>2, <2>1
  <1>3. /\ \A op : Op(op).op = op
        /\ \A kind : UnfocusOp(kind).op = "unfocus"
        /\ \A kind, bullets, i : FocusOp(kind, bullets, i).op = "focus"
        /\ \A op, b : BulletOp(op, b).op = op
        /\ \A n : [op |-> "tactic", goal |-> n].op = "tactic"
        /\ \A m : [op |-> "setMode", mode |-> m].op = "setMode"
    BY DEF Op, UnfocusOp, FocusOp, BulletOp
  <1>4. ASSUME NEW n, Solve(n) PROVE SaveInv'
    <2>1. Plain(<<[op |-> "tactic", goal |-> n], Op("maximal")>>)
      BY <1>3, PlainTuples
    <2> QED BY <1>2, <1>4, <2>1, PlainTransaction DEF Solve
  <1>5. ASSUME NEW n, FocusCommand(n) PROVE SaveInv'
    <2>1. Plain(<<Op("save"), FocusOp("command", <<>>, n)>>)
      BY <1>3, PlainTuples
    <2> QED BY <1>2, <1>5, <2>1 DEF FocusCommand
  <1>6. ASSUME Unfocus PROVE SaveInv'
    <2>1. Plain(<<UnfocusOp("command")>>)
      BY <1>3, PlainTuples
    <2> QED BY <1>2, <1>6, <2>1, PlainTransaction DEF Unfocus
  <1>7. ASSUME Subproof PROVE SaveInv'
    <2>1. Plain(<<Op("save"), FocusOp("subproof", <<>>, 1)>>)
      BY <1>3, PlainTuples
    <2> QED BY <1>2, <1>7, <2>1 DEF Subproof
  <1>8. ASSUME EndSubproof PROVE SaveInv'
    <2>1. Plain(<<UnfocusOp("subproof")>>)
      BY <1>3, PlainTuples
    <2> QED BY <1>2, <1>8, <2>1, PlainTransaction DEF EndSubproof
  <1>9. ASSUME NEW b, Bullet(b) PROVE SaveInv'
    <2>1. Plain(<<BulletOp("put", b)>>)
      BY <1>3, PlainTuples
    <2> QED BY <1>2, <1>9, <2>1, PlainTransaction DEF Bullet
  <1>10. ASSUME SaveProof PROVE SaveInv'
    BY <1>1, <1>10, SaveBody DEF SaveProof
  <1>11. ASSUME NEW m, ProofMode(m) PROVE SaveInv'
    <2>1. Plain(<<Op("saveMode"), [op |-> "setMode", mode |-> m]>>)
      BY <1>3, PlainTuples
    <2> QED BY <1>2, <1>11, <2>1 DEF ProofMode
  <1>12. ASSUME Existential PROVE SaveInv'
    <2>1. Plain(<<Op("instantiate")>>)
      BY <1>3, PlainTuples
    <2> QED BY <1>2, <1>12, <2>1 DEF Existential
  <1>13. ASSUME Grab PROVE SaveInv'
    <2>1. Plain(<<Op("grab")>>)
      BY <1>3, PlainTuples
    <2> QED BY <1>2, <1>13, <2>1 DEF Grab
  <1>14. ASSUME NEW n \in 1..MaxUndo, Undo(n) PROVE SaveInv'
    <2> DEFINE u == [op |-> "undo", n |-> n]
    <2>1. IsInstr({u}) /\ u.op # "declare"
      BY ProofEngineAssumption DEF IsInstr
    <2> HIDE DEF u
    <2>2. <<u>> \in Seq({u}) /\ DOMAIN <<u>> = {1} /\ <<u>>[1] = u
      OBVIOUS
    <2>3. Plain(<<u>>)
      BY <2>1, <2>2 DEF Plain, Body, Declares
    <2> QED BY <1>2, <1>14, <2>3 DEF Undo, u
  <1> QED BY <1>4, <1>5, <1>6, <1>7, <1>8, <1>9, <1>10, <1>11, <1>12, <1>13, <1>14 DEF Command

LEMMA RaiseKeeps ==
  ASSUME SaveInv, NEW e, e # "none", Raise(e)
  PROVE  SaveInv'
  BY RaiseControl DEF Raise, SaveInv, Control

\* An instruction that is done and changes the evar map of no ending command
LEMMA DoKeeps ==
  ASSUME SaveInv, NEW op, Running(op), op # "return", NEW p, Do(p), Sane(p),
         op \in Ending => Unsolved(p.state) = Unsolved(pr.state)
  PROVE  SaveInv'
  <1>1. ~Idle /\ exn = "none" /\ Now.op = op
    BY DEF Running, Now
  <1>2. pr' = p /\ ctrl' = Rest /\ exn' = exn
    BY DEF Do, Continue
  <1>3. Sane(pr')
    BY <1>2
  <1> QED BY <1>1, <1>2, <1>3, RestControl DEF SaveInv

LEMMA ExpandKeeps ==
  ASSUME SaveInv, NEW op, Running(op), op # "return",
         NEW b, Plain(b), op \in Ending => Closing(b), Expand(b)
  PROVE  SaveInv'
  <1>1. ~Idle /\ exn = "none" /\ Now.op = op
    BY DEF Running, Now
  <1>2. pr' = pr /\ ctrl' = b \o Rest /\ exn' = exn
    BY DEF Expand, Continue
  <1> QED BY <1>1, <1>2, ExpandControl DEF SaveInv

LEMMA TransactionsKeep ==
  ASSUME SaveInv, Begin \/ Commit \/ Save \/ SaveMode \/ SetMode \/ UndoMany \/ Pop
  PROVE  SaveInv'
  <1>1. PICK U : IsUndo(U) /\ IsProof(pr, U)
    BY DEF SaveInv, Sane
  <1>2. CASE Begin
    <2> DEFINE t == Append(pr.trans, <<>>)
               p == [pr EXCEPT !.trans = t]
    <2>1. t \in Seq(Seq(U))
      BY <1>1, EmptySeq, AppendProperties DEF IsProof
    <2> HIDE DEF t
    <2>2. IsProof(p, U) /\ p.state = pr.state
      <3>1. p = [state |-> pr.state, undo |-> pr.undo, trans |-> t, mode |-> pr.mode]
        BY <1>1, WithField DEF IsProof
      <3> HIDE DEF p
      <3> QED BY <1>1, <2>1, <3>1 DEF IsProof
    <2>3. Running("begin") /\ Do(p)
      BY <1>1, <1>2 DEF Begin, t, IsProof
    <2> HIDE DEF p
    <2> QED BY <1>1, <2>2, <2>3, DoKeeps DEF Sane
  <1>3. CASE Commit
    <2> DEFINE n == Len(Last(pr.trans))
    <2>1. n \in 0..n
      BY <1>1, <1>3, ClosedIsProof, LenProperties DEF Commit
    <2>2. IsProof(Committed(pr, n), U) /\ Committed(pr, n).state = pr.state
      BY <1>1, <1>3, <2>1, CommittedIsProof DEF Commit
    <2> QED BY <1>1, <1>3, <2>2, DoKeeps DEF Commit, Sane
  <1>4. CASE Save
    BY <1>4, SaneUndos, DoKeeps DEF Save, SaveInv, Ending
  <1>5. CASE SaveMode
    BY <1>5, SaneUndos, DoKeeps DEF SaveMode, SaveInv, Ending
  <1>6. CASE SetMode
    <2> DEFINE m == Now.mode
               p == [pr EXCEPT !.mode = m]
    <2>1. IsProof(p, U)
      <3> HIDE DEF m
      <3>1. p = [state |-> pr.state, undo |-> pr.undo, trans |-> pr.trans, mode |-> m]
        BY <1>1, WithField DEF IsProof
      <3> HIDE DEF p
      <3> QED BY <1>1, <3>1 DEF IsProof
    <2>2. Running("setMode") /\ Do(p)
      BY <1>6 DEF SetMode
    <2> HIDE DEF p
    <2> QED BY <1>1, <2>1, <2>2, DoKeeps DEF Sane, Ending
  <1>7. CASE UndoMany
    <2> DEFINE b == [i \in 1..Now.n |-> Op("pop")]
    <2>1. PICK C : ctrl \in Seq(C) /\ IsInstr(C)
      BY DEF SaveInv, Control, Body
    <2>2. Running("undo") /\ Now \in C /\ Now.op = "undo"
      BY <1>7, <2>1, HeadTailProperties DEF UndoMany, Running, Idle, Now
    <2>3. Now.n \in Nat
      BY <2>1, <2>2 DEF IsInstr
    <2>4. b \in Seq({Op("pop")}) /\ DOMAIN b = 1..Now.n /\ \A i \in DOMAIN b : b[i].op = "pop"
      BY <2>3 DEF Op
    <2>5. IsInstr({Op("pop")})
      BY DEF IsInstr, Op
    <2>6. Plain(b)
      <3> HIDE DEF b
      <3> QED BY <2>4, <2>5 DEF Plain, Body, Declares
    <2>7. Raise("Error") \/ Expand(b)
      BY <1>7 DEF UndoMany
    <2> HIDE DEF b
    <2> QED BY <2>2, <2>6, <2>7, RaiseKeeps, ExpandKeeps DEF Ending
  <1>8. CASE Pop
    <2>1. CASE Visible(pr) = <<>> /\ Raise("Error")
      BY <2>1, RaiseKeeps
    <2>2. CASE Visible(pr) # <<>> /\ Do(Popped(pr, 1))
      <3>1. 1 \in 0..Len(Visible(pr))
        BY <1>1, <2>2, VisibleIsSeq, EmptySeq
      <3>2. Sane(Popped(pr, 1))
        BY <1>1, <3>1, PoppedIsProof DEF Sane
      <3> QED BY <1>8, <2>2, <3>2, DoKeeps DEF Pop, Ending
    <2> QED BY <1>8, <2>1, <2>2 DEF Pop
  <1> QED BY <1>2, <1>3, <1>4, <1>5, <1>6, <1>7, <1>8

LEMMA EvarsKeep ==
  ASSUME SaveInv, Tactic \/ Instantiate \/ GrabEvars \/ ToGoals
  PROVE  SaveInv'
  <1> DEFINE s == pr.state
  <1>1. Sane(pr) /\ IsState(s)
    BY DEF SaveInv, Sane, IsProof
  <1>2. CASE Tactic
    <2>1. Running("tactic")
      BY <1>2 DEF Tactic
    <2>2. ASSUME NEW t, IsState(t), Do(Step(t)) PROVE SaveInv'
      BY <1>1, <2>1, <2>2, SaneStates, DoKeeps DEF Ending
    <2>3. \/ Raise("Error")
          \/ Do(Step(Replaced(s, s.comb, Now.goal, <<s.comb[Now.goal]>>)))
          \/ \E o \in Outcomes(s, s.comb[Now.goal]) :
               Do(Step(Replaced(Solving(s, o.solved, o.goals, o.holes), s.comb, Now.goal,
                                [i \in 1..o.goals |-> s.made + i])))
      BY <1>2 DEF Tactic
    <2> HIDE DEF s
    <2>4. CASE Raise("Error")
      BY <2>4, RaiseKeeps
    <2>5. CASE Do(Step(Replaced(s, s.comb, Now.goal, <<s.comb[Now.goal]>>)))
      BY <1>1, <2>2, <2>5, StatesAreRecords
    <2>6. ASSUME NEW o \in Outcomes(s, s.comb[Now.goal]),
                 Do(Step(Replaced(Solving(s, o.solved, o.goals, o.holes), s.comb, Now.goal,
                                  [i \in 1..o.goals |-> s.made + i])))
          PROVE  SaveInv'
      <3>1. IsState(Solving(s, o.solved, o.goals, o.holes))
        BY <1>1, StatesAreRecords
      <3> QED BY <2>2, <2>6, <3>1, StatesAreRecords
    <2> QED BY <2>3, <2>4, <2>5, <2>6
  <1>3. CASE Instantiate
    <2>1. Running("instantiate")
      BY <1>3 DEF Instantiate
    <2>2. ASSUME NEW e, NEW h, Do(Step(Solving(pr.state, {e}, 0, h))) PROVE SaveInv'
      BY <1>1, <2>1, <2>2, StatesAreRecords, SaneStates, DoKeeps DEF Ending
    <2> QED BY <1>3, <2>2, RaiseKeeps DEF Instantiate
  <1>4. CASE GrabEvars
    <2>1. Plain(<<Op("save"), Op("toGoals")>>)
      <3>1. Op("save").op = "save" /\ Op("toGoals").op = "toGoals"
        BY DEF Op
      <3> QED BY <3>1, PlainTuples
    <2> QED BY <1>4, <2>1, RaiseKeeps, ExpandKeeps DEF GrabEvars, Ending
  <1>5. CASE ToGoals
    <2> DEFINE c == SetToSeq(Unsolved(s))
               u == Unsolved(s)
               t == [s EXCEPT !.comb = c, !.goals = u, !.holes = {}]
    <2>1. Running("toGoals") /\ Do(WithState(t))
      BY <1>5 DEF ToGoals
    <2>2. IsState(t)
      <3> DEFINE v == [s EXCEPT !.comb = c]
                 w == [v EXCEPT !.goals = u]
      <3> HIDE DEF c, u, s
      <3>1. IsState(v)
        BY <1>1, WithComb
      <3> HIDE DEF v
      <3>2. IsState(w)
        BY <3>1 DEF IsState
      <3> HIDE DEF w
      <3>3. IsState([w EXCEPT !.holes = {}])
        BY <3>2 DEF IsState
      <3> QED BY <3>3 DEF v, w
    <2> HIDE DEF t
    <2> QED BY <1>1, <2>1, <2>2, SaneStates, DoKeeps DEF Ending
  <1> QED BY <1>2, <1>3, <1>4, <1>5

LEMMA FocusesKeep ==
  ASSUME SaveInv, FocusStep \/ UnfocusStep \/ Relabel \/ Maximal
  PROVE  SaveInv'
  <1> DEFINE s == pr.state
  <1>1. Sane(pr) /\ IsState(s)
    BY DEF SaveInv, Sane, IsProof
  <1>2. IsState(Unfocused(s)) /\ Unsolved(Unfocused(s)) = Unsolved(s)
    BY <1>1, StatesAreRecords
  <1>3. CASE FocusStep
    <2>1. Running("focus")
      BY <1>3 DEF FocusStep
    <2>2. ASSUME NEW kind, NEW bullets, NEW i, Do(WithState(Focused(s, kind, bullets, i)))
          PROVE  SaveInv'
      BY <1>1, <2>1, <2>2, StatesAreRecords, SaneStates, DoKeeps DEF Ending
    <2> QED BY <1>3, <2>2, RaiseKeeps DEF FocusStep
  <1>4. CASE UnfocusStep
    <2> DEFINE answer == UnfocusCheck(s, Now.kind)
    <2>1. Running("unfocus") /\ ~Idle /\ exn = "none" /\ Now.op = "unfocus"
      BY <1>4 DEF UnfocusStep, Running, Now
    <2>2. answer # "none"
      BY DEF UnfocusCheck, FocusCondition, Refusal
    <2>3. \/ Raise(answer)
          \/ Do(Step(Unfocused(s)))
          \/ pr' = Step(Unfocused(s)) /\ Continue(<<Now, Op("relabel")>> \o Rest)
      BY <1>4 DEF UnfocusStep
    <2> HIDE DEF answer
    <2>4. CASE Raise(answer)
      BY <2>2, <2>4, RaiseKeeps
    <2>5. CASE Do(Step(Unfocused(s)))
      BY <1>1, <1>2, <2>1, <2>5, SaneStates, DoKeeps
    <2>6. CASE pr' = Step(Unfocused(s)) /\ Continue(<<Now, Op("relabel")>> \o Rest)
      <3> DEFINE b == <<Now, Op("relabel")>>
      <3>1. Closing(b) /\ Plain(b)
        <4>1. Op("relabel").op = "relabel"
          BY DEF Op
        <4> QED BY <2>1, <4>1, PlainTuples DEF Ending
      <3>2. Sane(pr') /\ Unsolved(pr'.state) = Unsolved(pr.state)
        BY <1>1, <1>2, <2>6, SaneStates
      <3>3. ctrl' = b \o Rest /\ exn' = exn
        BY <2>6 DEF Continue
      <3> HIDE DEF b
      <3> QED BY <2>1, <3>1, <3>2, <3>3, ExpandControl DEF SaveInv
    <2> QED BY <2>3, <2>4, <2>5, <2>6
  <1>5. CASE Relabel
    BY <1>1, <1>5, DoKeeps DEF Relabel
  <1>6. CASE Maximal
    <2> DEFINE b == Transaction(<<UnfocusOp("command")>>) \o <<Now>>
    <2>1. Running("maximal") /\ Now.op = "maximal"
      BY <1>6 DEF Maximal, Running, Now
    <2>2. Plain(b)
      <3>1. Plain(<<UnfocusOp("command")>>) /\ Plain(<<Now>>)
        <4>1. UnfocusOp("command").op = "unfocus"
          BY DEF UnfocusOp
        <4> QED BY <2>1, <4>1, PlainTuples
      <3> QED BY <3>1, PlainTransaction, PlainConcat
    <2>3. Expand(b) \/ Do(pr)
      BY <1>6 DEF Maximal
    <2> HIDE DEF b
    <2>4. CASE Expand(b)
      BY <2>1, <2>2, <2>4, ExpandKeeps DEF Ending
    <2>5. CASE Do(pr)
      BY <1>1, <2>1, <2>5, DoKeeps DEF Ending
    <2> QED BY <2>3, <2>4, <2>5
  <1> QED BY <1>3, <1>4, <1>5, <1>6

LEMMA BulletsKeep ==
  ASSUME SaveInv, PutBullet \/ PopBullet \/ PushBullet
  PROVE  SaveInv'
  <1>1. /\ \A op, b : BulletOp(op, b).op = op
        /\ \A kind : UnfocusOp(kind).op = "unfocus"
        /\ \A kind, bullets, i : FocusOp(kind, bullets, i).op = "focus"
        /\ \A op : Op(op).op = op
    BY DEF BulletOp, UnfocusOp, FocusOp, Op
  <1>2. CASE PutBullet
    <2> DEFINE b == <<BulletOp("popUntil", Now.bullet), BulletOp("push", Now.bullet)>>
               c == <<BulletOp("push", Now.bullet)>>
    <2>1. Plain(b) /\ Plain(c)
      <3> DEFINE x == BulletOp("popUntil", Now.bullet)
                 y == BulletOp("push", Now.bullet)
      <3>1. x.op = "popUntil" /\ y.op = "push"
        BY <1>1
      <3> HIDE DEF x, y
      <3>2. Plain(<<x, y>>) /\ Plain(<<y>>)
        BY <3>1, PlainTuples
      <3> QED BY <3>2 DEF x, y
    <2>2. Running("put") /\ (Raise("Failure") \/ Expand(Transaction(b)) \/ Expand(c))
      BY <1>2 DEF PutBullet, NoFocus
    <2> HIDE DEF b, c
    <2>3. Plain(Transaction(b))
      BY <2>1, PlainTransaction
    <2> QED BY <2>1, <2>2, <2>3, RaiseKeeps, ExpandKeeps DEF Ending
  <1>3. CASE PopBullet
    <2> DEFINE more == IF Head(GetBullets(pr.state)) = Now.bullet THEN <<>> ELSE <<Now>>
               b == Transaction(<<UnfocusOp("bullet")>>)
    <2>1. Running("popUntil") /\ Now.op = "popUntil" /\ Expand(b \o more)
      BY <1>3 DEF PopBullet, Running, Now
    <2>2. Plain(more) /\ Plain(<<UnfocusOp("bullet")>>)
      BY <1>1, <2>1, PlainTuples
    <2>3. Plain(b \o more)
      BY <2>2, PlainTransaction, PlainConcat
    <2> HIDE DEF b, more
    <2> QED BY <2>1, <2>3, ExpandKeeps DEF Ending
  <1>4. CASE PushBullet
    <2> DEFINE b == <<Op("save"), FocusOp("bullet", <<Now.bullet>> \o GetBullets(pr.state), 1)>>
    <2>1. Plain(b)
      BY <1>1, PlainTuples
    <2>2. Running("push") /\ Expand(b)
      BY <1>4 DEF PushBullet
    <2> HIDE DEF b
    <2> QED BY <2>1, <2>2, ExpandKeeps DEF Ending
  <1> QED BY <1>2, <1>3, <1>4

LEMMA EndingKeeps ==
  ASSUME SaveInv, Return \/ Declare
  PROVE  SaveInv'
  <1>1. CASE Return
    <2> DEFINE b == Transaction(<<UnfocusOp("end")>>)
    <2>1. ~Idle /\ exn = "none" /\ Now.op = "return"
      BY <1>1 DEF Return, Running, Now
    <2>2. Raise("Error") \/ (Unsolved(pr.state) = {} /\ Expand(b))
      BY <1>1 DEF Return
    <2>3. CASE Raise("Error")
      BY <2>3, RaiseKeeps
    <2>4. CASE Unsolved(pr.state) = {} /\ Expand(b)
      <3>1. Closing(b) /\ Plain(b)
        <4>1. UnfocusOp("end").op = "unfocus"
          BY DEF UnfocusOp
        <4> QED BY <4>1, PlainTuples, PlainTransaction DEF Ending, Closing
      <3> HIDE DEF b
      <3>2. pr' = pr /\ ctrl' = b \o Rest /\ exn' = exn
        BY <2>4 DEF Expand, Continue
      <3>3. PICK C : ctrl \in Seq(C) /\ IsInstr(C)
        BY DEF SaveInv, Control, Body
      <3>4. PICK B : b \in Seq(B) /\ IsInstr(B)
        BY <3>1 DEF Plain, Body
      <3>5. Rest \in Seq(C) /\ Shape(Rest)
        BY <2>1, <3>3, TailShape DEF SaveInv, Control, Idle, Rest
      <3> DEFINE D == B \union C
      <3>6. b \in Seq(D) /\ Rest \in Seq(D) /\ IsInstr(D)
        BY <3>3, <3>4, <3>5, SeqMonotonic DEF IsInstr
      <3> HIDE DEF D
      <3>7. b \o Rest \in Seq(D) /\ Shape(b \o Rest)
        BY <3>1, <3>5, <3>6, ConcatShape DEF Plain, Closing
      <3> QED BY <2>4, <3>2, <3>6, <3>7 DEF SaveInv, Control, Body, Covered
    <2> QED BY <2>2, <2>3, <2>4
  <1>2. CASE Declare
    <2>1. CASE Raise("Error")
      BY <2>1, RaiseKeeps
    <2>2. CASE pr' = NewProof /\ ctrl' = <<>>
      BY <2>2, EmptyBody, SaneNewProof DEF SaveInv, Control, Covered
    <2> QED BY <1>2, <2>1, <2>2 DEF Declare
  <1> QED BY <1>1, <1>2

\* Declare finds no instruction "return" after it, so that the evar map is solved.
LEMMA DeclareIsSound ==
  ASSUME SaveInv, Running("declare")
  PROVE  Unsolved(pr.state) = {}
  <1>1. PICK C : ctrl \in Seq(C)
    BY DEF SaveInv, Control, Body
  <1>2. ctrl # <<>> /\ Head(ctrl).op = "declare" /\ exn = "none"
    BY DEF Running, Idle
  <1>3. ~Returns(ctrl)
    BY <1>1, <1>2, TailShape DEF SaveInv, Control
  <1>4. Declares(ctrl)
    <2>1. Head(ctrl) = ctrl[1] /\ 1 \in DOMAIN ctrl
      BY <1>1, <1>2, EmptySeq, LenProperties
    <2> QED BY <1>2, <2>1 DEF Declares
  <1> QED BY <1>2, <1>3, <1>4 DEF SaveInv, Covered

LEMMA HandlersKeep ==
  ASSUME SaveInv, Rollback \/ Relabelled \/ MaximalEnds \/ RollbackInterrupted
  PROVE  SaveInv'
  <1>1. PICK U : IsUndo(U) /\ IsProof(pr, U)
    BY DEF SaveInv, Sane
  <1>2. ~Idle /\ exn # "none"
    BY DEF Rollback, Relabelled, MaximalEnds, RollbackInterrupted, Unwinding
  <1>3. CASE Rollback
    <2> DEFINE n == Len(Visible(pr))
               p == Popped(pr, n)
    <2>1. n \in 0..n
      BY <1>1, VisibleIsSeq, LenProperties
    <2>2. IsProof(p, U) /\ (p.trans = <<>> <=> pr.trans = <<>>)
      BY <1>1, <2>1, PoppedIsProof
    <2>3. \/ pr.trans # <<>> /\ pr' = Closed(p) /\ RaiseIn(Rest, exn)
          \/ pr' = p /\ RaiseIn(Rest, "Assert")
      BY <1>3 DEF Rollback
    <2> HIDE DEF p
    <2>4. Sane(pr')
      BY <1>1, <2>2, <2>3, ClosedIsProof DEF Sane
    <2> QED BY <1>2, <2>3, <2>4, RaiseRest DEF SaveInv
  <1>4. CASE Relabelled
    <2> DEFINE e == IF exn = "FullyUnfocused" THEN "CannotUnfocusThisWay" ELSE exn
    <2>1. pr' = pr /\ RaiseIn(Rest, e) /\ e # "none"
      BY <1>2, <1>4 DEF Relabelled
    <2> HIDE DEF e
    <2> QED BY <1>2, <2>1, RaiseRest DEF SaveInv
  <1>5. CASE MaximalEnds
    <2>1. pr' = pr /\ Now.op = "maximal"
      BY <1>5 DEF MaximalEnds, Unwinding, Now
    <2>2. PICK C : ctrl \in Seq(C) /\ IsInstr(C)
      BY DEF SaveInv, Control, Body
    <2>3. Rest \in Seq(C) /\ Shape(Rest) /\ ~Declares(Rest)
      BY <1>2, <2>1, <2>2, TailShape DEF SaveInv, Control, Idle, Rest, Now, Ending
    <2>4. CASE ctrl' = Rest
      BY <2>1, <2>2, <2>3, <2>4 DEF SaveInv, Control, Body, Covered
    <2>5. CASE RaiseIn(Rest, exn)
      BY <1>2, <2>1, <2>5, RaiseRest DEF SaveInv
    <2> QED BY <1>5, <2>4, <2>5 DEF MaximalEnds
  <1>6. CASE RollbackInterrupted
    <2>1. PICK n \in 0..Len(Visible(pr)) : pr' = Popped(pr, n)
      BY <1>6 DEF RollbackInterrupted
    <2>2. Sane(pr')
      BY <1>1, <2>1, PoppedIsProof DEF Sane
    <2>3. RaiseIn(Rest, "Break")
      BY <1>6 DEF RollbackInterrupted
    <2> QED BY <1>2, <2>2, <2>3, RaiseRest DEF SaveInv
  <1> QED BY <1>3, <1>4, <1>5, <1>6

LEMMA InterruptsKeep ==
  ASSUME SaveInv, Interrupt \/ UnfocusInterrupted \/ FocusInterrupted \/ CommitInterrupted
  PROVE  SaveInv'
  <1>1. PICK U : IsUndo(U) /\ IsProof(pr, U)
    BY DEF SaveInv, Sane
  <1>2. ASSUME NEW p, Sane(p), BrokenAt(p) PROVE SaveInv'
    BY <1>2, RaiseControl DEF BrokenAt, SaveInv, Control
  <1>3. ASSUME NEW s, IsState(s), BrokenAt(WithState(s)) PROVE SaveInv'
    BY <1>2, <1>3, SaneStates DEF SaveInv
  <1>4. IsState(pr.state)
    BY <1>1 DEF IsProof
  <1>5. CASE Interrupt
    BY <1>5, RaiseKeeps DEF Interrupt
  <1>6. CASE UnfocusInterrupted
    BY <1>3, <1>4, <1>6, StatesAreRecords DEF UnfocusInterrupted
  <1>7. CASE FocusInterrupted
    BY <1>3, <1>4, <1>7, StatesAreRecords DEF FocusInterrupted
  <1>8. CASE CommitInterrupted
    <2>1. PICK n \in 0..Len(Last(pr.trans)) : pr.trans # <<>> /\ BrokenAt(Committed(pr, n))
      BY <1>8 DEF CommitInterrupted
    <2> QED BY <1>1, <1>2, <2>1, CommittedIsProof DEF Sane
  <1> QED BY <1>5, <1>6, <1>7, <1>8

-----------------------------------------------------------------------------
\* Whatever the goals, the focuses, the bounds and the interrupts, the evar
\* map is solved, or not yet found to be, while the rest of the command ends in
\* the declaration of a theorem (Proof.return, then Lemmas.save).
THEOREM SaveInvariant == Spec => []SaveInv
  <1>1. Init => SaveInv
    BY EmptyBody, SaneNewProof DEF Init, SaveInv, Control, Covered
  <1>2. SaveInv /\ [Next]_vars => SaveInv'
    <2> SUFFICES ASSUME SaveInv, [Next]_vars PROVE SaveInv'
      OBVIOUS
    <2>1. CASE Command
      BY <2>1, CommandKeeps
    <2>2. CASE Instruction
      BY <2>2, TransactionsKeep, EvarsKeep, FocusesKeep, BulletsKeep, EndingKeeps, HandlersKeep
         DEF Instruction
    <2>3. CASE Interrupted
      BY <2>3, HandlersKeep, InterruptsKeep DEF Interrupted
    <2>4. CASE UNCHANGED vars
      BY <2>4 DEF vars, SaveInv, Control, Covered
    <2> QED BY <2>1, <2>2, <2>3, <2>4 DEF Next
  <1> QED BY <1>1, <1>2, PTL DEF Spec

\* Qed declares a theorem only if no evar is left undefined, whatever the
\* commands, their failures, the automatic unfocusing and the interrupts
\* before (SoundSave).
THEOREM SaveIsSound == Spec => SoundSave
  <1>1. SaveInv /\ [Next]_vars
          => [Running("declare") /\ ctrl' = <<>> /\ exn' = "none" => Unsolved(pr.state) = {}]_vars
    BY DeclareIsSound
  <1> QED BY <1>1, SaveInvariant, PTL DEF Spec, SoundSave
=============================================================================
