---------------------------- MODULE HistoryProofs ----------------------------
(***************************************************************************)
(* What one command leaves behind, when no interrupt arrives: a command    *)
(* that fails has rolled everything back, and one that answers has either  *)
(* added to the states that Undo can restore or gone back to one of them.  *)
(*                                                                         *)
(* Both follow from one invariant on the command that runs.  In a          *)
(* transaction, the instructions left close exactly the transactions that  *)
(* are open, the last of them with the last instruction, and the oldest    *)
(* undo action recorded since the call restores the state it was called in.*)
(* Outside of any transaction, a command has done nothing that its own     *)
(* undo action does not undo.                                              *)
(***************************************************************************)
EXTENDS ProofEngineProofs, FiniteSetTheorems

-----------------------------------------------------------------------------
(* Control.  A list of instructions of transactions is well framed when its *)
(* commits are as many as the transactions to close.                       *)

\* The instructions of the commands that run in a transaction
TransactionOps ==
  {"begin", "commit", "save", "tactic", "focus", "unfocus", "relabel", "maximal",
   "put", "popUntil", "push", "return", "declare"}

\* The places of the commits, counted from the end: the instructions before
\* them come and go.
Commits(c) == {n \in 0 .. Len(c) - 1 : c[Len(c) - n].op = "commit"}

\* A transaction opens first, and a focus follows the save of the state.
Ordered(c) ==
  \A i \in DOMAIN c :
    /\ c[i].op \in TransactionOps
    /\ c[i].op = "begin" => i = 1
    /\ c[i].op = "focus" => i = 1 \/ (i = 2 /\ c[1].op = "save")

Framed(c, d) ==
  /\ Ordered(c)
  /\ IsFiniteSet(Commits(c)) /\ Cardinality(Commits(c)) = d
  /\ c # <<>> => c[Len(c)].op = "commit"

\* Instructions of transactions, without a focus that has still to be saved for.
Clear(c) == \A i \in DOMAIN c : c[i].op \notin {"begin", "focus"}

\* A well framed list ends with the last transaction, and not before.
LEMMA FrameEnds ==
  ASSUME NEW C, NEW c \in Seq(C), NEW d, Framed(c, d)
  PROVE  d \in Nat /\ (c = <<>> <=> d = 0)
  <1>1. IsFiniteSet(Commits(c)) /\ Cardinality(Commits(c)) = d
    BY DEF Framed
  <1>2. d \in Nat /\ (d = 0 <=> Commits(c) = {})
    BY <1>1, FS_CardinalityType, FS_EmptySet
  <1>3. CASE c = <<>>
    <2>1. 0 .. Len(c) - 1 = {}
      BY <1>3, EmptySeq
    <2> QED BY <1>2, <1>3, <2>1 DEF Commits
  <1>4. CASE c # <<>>
    <2>1. Len(c) \in Nat \ {0}
      BY <1>4, EmptySeq
    <2>2. 0 \in 0 .. Len(c) - 1 /\ Len(c) - 0 = Len(c)
      BY <2>1
    <2>3. 0 \in Commits(c)
      BY <1>4, <2>2 DEF Framed, Commits
    <2> QED BY <1>2, <1>4, <2>3
  <1> QED BY <1>3, <1>4

\* One instruction less
LEMMA FrameTail ==
  ASSUME NEW C, NEW c \in Seq(C), c # <<>>, NEW d, Framed(c, d)
  PROVE  /\ Tail(c) \in Seq(C)
         /\ Head(c).op # "commit" => Framed(Tail(c), d)
         /\ Head(c).op = "commit" => Framed(Tail(c), d - 1)
         /\ Head(c).op # "save" => Clear(Tail(c))
         /\ \A i \in DOMAIN Tail(c) : /\ Tail(c)[i].op # "begin"
                                      /\ Tail(c)[i].op = "focus" => i = 1
  <1> DEFINE n == Len(c)
             t == Tail(c)
  <1>1. DOMAIN c = 1..n /\ n \in Nat \ {0} /\ Head(c) = c[1]
    BY LenProperties, EmptySeq
  <1>2. t \in Seq(C) /\ Len(t) = n - 1 /\ DOMAIN t = 1..(n - 1)
    BY HeadTailProperties, LenProperties
  <1>3. \A i \in 1..(n - 1) : t[i] = c[i + 1]
    BY <1>2, HeadTailProperties
  <1> HIDE DEF n, t
  <1>4. \A i \in DOMAIN t : t[i] = c[i + 1] /\ i + 1 \in DOMAIN c /\ i + 1 # 1 /\ (i + 1 = 2 => i = 1)
    BY <1>1, <1>2, <1>3
  <1>5. \A i \in DOMAIN t : /\ t[i].op \in TransactionOps
                            /\ t[i].op # "begin"
                            /\ t[i].op = "focus" => i = 1 /\ c[1].op = "save"
    BY <1>4 DEF Framed, Ordered
  <1>6. Ordered(t)
    BY <1>5 DEF Ordered
  <1>7. t # <<>> => t[Len(t)].op = "commit"
    <2>1. ASSUME t # <<>> PROVE n - 1 \in DOMAIN t /\ (n - 1) + 1 = n
      BY <1>1, <1>2, <2>1, EmptySeq
    <2>2. c # <<>> => c[n].op = "commit"
      BY DEF Framed, n
    <2> QED BY <1>2, <1>4, <2>1, <2>2
  <1>8. \A k \in 0 .. n - 2 : t[(n - 1) - k] = c[n - k]
    <2>1. ASSUME NEW k \in 0 .. n - 2
          PROVE  (n - 1) - k \in 1..(n - 1) /\ ((n - 1) - k) + 1 = n - k
      BY <1>1
    <2> QED BY <1>3, <2>1
  <1>9. Commits(t) = {k \in 0 .. n - 2 : c[n - k].op = "commit"}
    <2>1. (n - 1) - 1 = n - 2
      BY <1>1
    <2> QED BY <1>2, <1>8, <2>1 DEF Commits
  <1>10. Commits(c) = {k \in 0 .. n - 1 : c[n - k].op = "commit"}
    BY DEF Commits, n
  <1>11. 0 .. n - 1 = (0 .. n - 2) \union {n - 1} /\ n - 1 \notin 0 .. n - 2 /\ n - (n - 1) = 1
    BY <1>1
  <1>12. c[1].op # "commit" => Commits(t) = Commits(c)
    BY <1>9, <1>10, <1>11
  <1>13. c[1].op = "commit" => Commits(t) = Commits(c) \ {n - 1} /\ n - 1 \in Commits(c)
    BY <1>9, <1>10, <1>11
  <1>14. IsFiniteSet(Commits(c)) /\ Cardinality(Commits(c)) = d
    BY DEF Framed
  <1>15. IsFiniteSet(Commits(t))
         /\ Cardinality(Commits(t)) = IF c[1].op = "commit" THEN d - 1 ELSE d
    BY <1>12, <1>13, <1>14, FS_RemoveElement
  <1> QED BY <1>1, <1>2, <1>5, <1>6, <1>7, <1>15 DEF Framed, Clear, t

\* Instructions put before others: those of c keep their place from the end.
LEMMA FrameBefore ==
  ASSUME NEW C, NEW b \in Seq(C), NEW c \in Seq(C), c # <<>>, NEW d, Framed(c, d), Clear(c),
         Ordered(b), \A i \in DOMAIN b : b[i].op # "commit"
  PROVE  b \o c \in Seq(C) /\ Framed(b \o c, d) /\ (Clear(b) => Clear(b \o c))
  <1> DEFINE m == Len(b)
             n == Len(c)
             e == b \o c
  <1>1. DOMAIN b = 1..m /\ m \in Nat /\ DOMAIN c = 1..n /\ n \in Nat \ {0}
    BY LenProperties, EmptySeq
  <1>2. e \in Seq(C) /\ Len(e) = m + n /\ DOMAIN e = 1 .. m + n
    BY ConcatProperties, LenProperties
  <1>3. \A i \in 1 .. m + n : e[i] = IF i <= m THEN b[i] ELSE c[i - m]
    BY ConcatProperties
  <1> HIDE DEF m, n, e
  <1>4. \A i \in DOMAIN e : \/ i \in DOMAIN b /\ e[i] = b[i]
                            \/ i > m /\ i - m \in DOMAIN c /\ e[i] = c[i - m]
    BY <1>1, <1>2, <1>3
  <1>5. \A i \in DOMAIN b : i \in DOMAIN e /\ e[i] = b[i]
    BY <1>1, <1>2, <1>3
  <1>6. Ordered(e)
    <2>1. ASSUME NEW i \in DOMAIN e
          PROVE  /\ e[i].op \in TransactionOps
                 /\ e[i].op = "begin" => i = 1
                 /\ e[i].op = "focus" => i = 1 \/ (i = 2 /\ e[1].op = "save")
      <3>1. CASE i \in DOMAIN b /\ e[i] = b[i]
        <4>1. 1 \in DOMAIN b /\ e[1] = b[1]
          BY <1>1, <1>5, <3>1
        <4> QED BY <3>1, <4>1 DEF Ordered
      <3>2. CASE i > m /\ i - m \in DOMAIN c /\ e[i] = c[i - m]
        BY <3>2 DEF Framed, Ordered, Clear
      <3> QED BY <1>4, <2>1, <3>1, <3>2
    <2> QED BY <2>1 DEF Ordered
  <1>7. \A k \in 0 .. n - 1 : e[(m + n) - k] = c[n - k]
    <2>1. ASSUME NEW k \in 0 .. n - 1
          PROVE  /\ (m + n) - k \in 1 .. m + n
                 /\ ~((m + n) - k <= m)
                 /\ ((m + n) - k) - m = n - k
      BY <1>1
    <2> QED BY <1>3, <2>1
  <1>8. \A k \in n .. (m + n) - 1 : e[(m + n) - k].op # "commit"
    <2>1. ASSUME NEW k \in n .. (m + n) - 1
          PROVE  (m + n) - k \in 1 .. m + n /\ (m + n) - k <= m /\ (m + n) - k \in DOMAIN b
      BY <1>1
    <2> QED BY <1>3, <2>1
  <1>9. Commits(e) = Commits(c)
    <2>1. Commits(e) = {k \in 0 .. (m + n) - 1 : e[(m + n) - k].op = "commit"}
      BY <1>2 DEF Commits
    <2>2. Commits(c) = {k \in 0 .. n - 1 : c[n - k].op = "commit"}
      BY DEF Commits, n
    <2>3. \A k : k \in 0 .. (m + n) - 1 <=> k \in 0 .. n - 1 \/ k \in n .. (m + n) - 1
      BY <1>1
    <2> QED BY <1>7, <1>8, <2>1, <2>2, <2>3
  <1>10. e[Len(e)].op = "commit"
    <2>1. 0 \in 0 .. n - 1 /\ (m + n) - 0 = m + n /\ n - 0 = n
      BY <1>1
    <2>2. e[m + n] = c[n]
      BY <1>7, <2>1
    <2> QED BY <1>2, <2>2 DEF Framed, n
  <1>11. Clear(b) => Clear(e)
    BY <1>4 DEF Clear
  <1> QED BY <1>2, <1>6, <1>9, <1>10, <1>11 DEF Framed, e

LEMMA TransactionList ==
  ASSUME NEW C, NEW b \in Seq(C), Op("begin") \in C, Op("commit") \in C
  PROVE  LET t == Transaction(b)
         IN  /\ t \in Seq(C)
             /\ Len(t) = Len(b) + 2
             /\ t[1] = Op("begin") /\ t[Len(b) + 2] = Op("commit")
             /\ \A i \in 2 .. Len(b) + 1 : t[i] = b[i - 1]
  <1> DEFINE x == <<Op("begin")>>
             y == <<Op("commit")>>
             l == x \o b
             t == l \o y
  <1>1. x \in Seq(C) /\ y \in Seq(C) /\ Len(x) = 1 /\ Len(y) = 1
        /\ x[1] = Op("begin") /\ y[1] = Op("commit")
    OBVIOUS
  <1>2. Len(b) \in Nat
    BY LenProperties
  <1> HIDE DEF x, y
  <1>3. /\ l \in Seq(C) /\ Len(l) = 1 + Len(b)
        /\ \A i \in 1 .. 1 + Len(b) : l[i] = IF i <= 1 THEN x[i] ELSE b[i - 1]
    <2>1. /\ l \in Seq(C) /\ Len(l) = Len(x) + Len(b)
          /\ \A i \in 1 .. Len(x) + Len(b) : l[i] = IF i <= Len(x) THEN x[i] ELSE b[i - Len(x)]
      BY <1>1, ConcatProperties, Zenon
    <2> HIDE DEF l
    <2> QED BY <1>1, <2>1
  <1> HIDE DEF l
  <1>4. /\ t \in Seq(C) /\ Len(t) = Len(l) + 1
        /\ \A i \in 1 .. Len(l) + 1 : t[i] = IF i <= Len(l) THEN l[i] ELSE y[i - Len(l)]
    <2>1. /\ t \in Seq(C) /\ Len(t) = Len(l) + Len(y)
          /\ \A i \in 1 .. Len(l) + Len(y) : t[i] = IF i <= Len(l) THEN l[i] ELSE y[i - Len(l)]
      BY <1>1, <1>3, ConcatProperties, Zenon
    <2> HIDE DEF t
    <2> QED BY <1>1, <2>1
  <1> HIDE DEF t
  <1>5. Len(t) = Len(b) + 2
    BY <1>2, <1>3, <1>4
  <1>6. t[1] = Op("begin")
    BY <1>1, <1>2, <1>3, <1>4
  <1>7. t[Len(b) + 2] = Op("commit")
    <2>1. Len(b) + 2 \in 1 .. Len(l) + 1 /\ ~(Len(b) + 2 <= Len(l)) /\ (Len(b) + 2) - Len(l) = 1
      BY <1>2, <1>3
    <2> QED BY <1>1, <1>4, <2>1
  <1>8. \A i \in 2 .. Len(b) + 1 : t[i] = b[i - 1]
    <2>1. ASSUME NEW i \in 2 .. Len(b) + 1
          PROVE  i \in 1 .. Len(l) + 1 /\ i <= Len(l) /\ i \in 1 .. 1 + Len(b) /\ ~(i <= 1)
      BY <1>2, <1>3
    <2> QED BY <1>3, <1>4, <2>1
  <1> QED BY <1>4, <1>5, <1>6, <1>7, <1>8 DEF Transaction, t, l, x, y

\* A transaction put before c
LEMMA FrameTransaction ==
  ASSUME NEW C, NEW b \in Seq(C), NEW c \in Seq(C), NEW d, Framed(c, d), Clear(c),
         Op("begin") \in C, Op("commit") \in C,
         \A i \in DOMAIN b : b[i].op \in TransactionOps \ {"begin", "commit", "focus"}
  PROVE  /\ Transaction(b) \o c \in Seq(C)
         /\ Transaction(b) \o c # <<>>
         /\ Head(Transaction(b) \o c) = Op("begin")
         /\ Framed(Transaction(b) \o c, d + 1)
  <1> DEFINE t == Transaction(b)
             m == Len(b)
             n == Len(c)
             e == t \o c
  <1>1. DOMAIN b = 1..m /\ m \in Nat /\ DOMAIN c = 1..n /\ n \in Nat
    BY LenProperties
  <1>2. /\ t \in Seq(C) /\ Len(t) = m + 2
        /\ t[1] = Op("begin") /\ t[m + 2] = Op("commit")
        /\ \A i \in 2 .. m + 1 : t[i] = b[i - 1]
    BY TransactionList
  <1> HIDE DEF t
  <1>3. /\ e \in Seq(C) /\ Len(e) = (m + 2) + n /\ DOMAIN e = 1 .. (m + 2) + n
        /\ \A i \in 1 .. (m + 2) + n : e[i] = IF i <= m + 2 THEN t[i] ELSE c[i - (m + 2)]
    <2>1. /\ e \in Seq(C) /\ Len(e) = Len(t) + Len(c)
          /\ \A i \in 1 .. Len(t) + Len(c) : e[i] = IF i <= Len(t) THEN t[i] ELSE c[i - Len(t)]
      BY <1>2, ConcatProperties, Zenon
    <2> HIDE DEF e
    <2> QED BY <1>2, <2>1, LenProperties
  <1> HIDE DEF m, n, e
  <1>4. e[1] = Op("begin") /\ e[m + 2] = Op("commit")
    BY <1>1, <1>2, <1>3
  <1>5. \A i \in 2 .. m + 1 : e[i] = b[i - 1] /\ i - 1 \in DOMAIN b
    BY <1>1, <1>2, <1>3
  <1>6. \A i \in m + 3 .. (m + 2) + n : e[i] = c[i - (m + 2)] /\ i - (m + 2) \in DOMAIN c
    BY <1>1, <1>3
  <1>7. Op("begin").op = "begin" /\ Op("commit").op = "commit"
    BY DEF Op
  <1>8. \A i \in DOMAIN e : i = 1 \/ i = m + 2 \/ i \in 2 .. m + 1 \/ i \in m + 3 .. (m + 2) + n
    BY <1>1, <1>3
  <1>9. Ordered(e)
    <2>1. ASSUME NEW i \in DOMAIN e
          PROVE  /\ e[i].op \in TransactionOps
                 /\ e[i].op = "begin" => i = 1
                 /\ e[i].op # "focus"
      BY <1>4, <1>5, <1>6, <1>7, <1>8 DEF TransactionOps, Framed, Ordered, Clear
    <2> QED BY <2>1 DEF Ordered
  <1>10. \A k \in 0 .. n - 1 : e[((m + 2) + n) - k] = c[n - k]
    <2>1. ASSUME NEW k \in 0 .. n - 1
          PROVE  /\ ((m + 2) + n) - k \in m + 3 .. (m + 2) + n
                 /\ (((m + 2) + n) - k) - (m + 2) = n - k
      BY <1>1
    <2> QED BY <1>6, <2>1
  <1>11. \A k \in n + 1 .. ((m + 2) + n) - 1 : e[((m + 2) + n) - k].op # "commit"
    <2>1. ASSUME NEW k \in n + 1 .. ((m + 2) + n) - 1
          PROVE  ((m + 2) + n) - k = 1 \/ ((m + 2) + n) - k \in 2 .. m + 1
      BY <1>1
    <2> QED BY <1>4, <1>5, <1>7, <2>1
  <1>12. e[((m + 2) + n) - n].op = "commit"
    BY <1>1, <1>4, <1>7
  <1>13. Commits(e) = Commits(c) \union {n}
    <2>1. Commits(e) = {k \in 0 .. ((m + 2) + n) - 1 : e[((m + 2) + n) - k].op = "commit"}
      BY <1>3 DEF Commits
    <2>2. Commits(c) = {k \in 0 .. n - 1 : c[n - k].op = "commit"}
      BY DEF Commits, n
    <2>3. \A k : k \in 0 .. ((m + 2) + n) - 1
                  <=> k \in 0 .. n - 1 \/ k = n \/ k \in n + 1 .. ((m + 2) + n) - 1
      BY <1>1
    <2> QED BY <1>10, <1>11, <1>12, <2>1, <2>2, <2>3
  <1>14. n \notin Commits(c)
    BY <1>1 DEF Commits, n
  <1>15. IsFiniteSet(Commits(e)) /\ Cardinality(Commits(e)) = d + 1
    BY <1>13, <1>14, FS_AddElement DEF Framed
  <1>16. e[Len(e)].op = "commit"
    <2>1. CASE n = 0
      BY <1>1, <1>3, <1>4, <1>7, <2>1
    <2>2. CASE n # 0
      <3>1. 0 \in 0 .. n - 1 /\ ((m + 2) + n) - 0 = Len(e) /\ n - 0 = n
        BY <1>1, <1>3, <2>2
      <3>2. e[Len(e)] = c[n]
        BY <1>10, <3>1
      <3>3. c # <<>>
        BY <2>2, EmptySeq DEF n
      <3> QED BY <3>2, <3>3 DEF Framed, n
    <2> QED BY <2>1, <2>2
  <1>17. e # <<>>
    BY <1>1, <1>3, EmptySeq
  <1>18. Head(e) = e[1]
    BY <1>3, <1>17
  <1> QED BY <1>3, <1>4, <1>9, <1>15, <1>16, <1>17, <1>18 DEF Framed, e, t

\* An exception passes by the instructions that handle none, and no commit.
LEMMA FrameRaise ==
  ASSUME NEW C, NEW c \in Seq(C), NEW d, Framed(c, d), NEW e, RaiseIn(c, e)
  PROVE  /\ exn' = e
         /\ Framed(ctrl', d)
         /\ ctrl' # <<>> => Head(ctrl').op \notin {"begin", "focus"}
  <1>1. exn' = e
    BY DEF RaiseIn
  <1>2. DOMAIN c = 1..Len(c) /\ Len(c) \in Nat
    BY LenProperties
  <1>3. CASE c = <<>>
    <2>1. DOMAIN c = {}
      BY <1>3
    <2>2. ctrl' = <<>>
      BY <2>1 DEF RaiseIn
    <2> QED BY <1>1, <1>3, <2>2
  <1>4. CASE c # <<>>
    <2>1. Len(c) \in DOMAIN c /\ IsHandler(c[Len(c)])
      BY <1>2, <1>4, EmptySeq DEF Framed, IsHandler
    <2>2. PICK h \in DOMAIN c :
            /\ IsHandler(c[h])
            /\ \A i \in 1..(h - 1) : ~IsHandler(c[i])
            /\ ctrl' = SubSeq(c, h, Len(c))
      BY <2>1 DEF RaiseIn
    <2> DEFINE n == Len(c)
               t == ctrl'
    <2>3. \A i \in h..n : c[i] \in C
      BY <1>2, ElementOfSeq
    <2>4. /\ t \in Seq(C) /\ Len(t) = n - h + 1
          /\ \A i \in 1..(n - h + 1) : t[i] = c[h + i - 1]
      BY <1>2, <2>2, <2>3, SubSeqProperties
    <2> HIDE DEF n, t
    <2>5. DOMAIN t = 1..(n - h + 1) /\ h \in 1..n /\ n \in Nat \ {0} /\ DOMAIN c = 1..n
      BY <1>2, <2>1, <2>4, LenProperties DEF n
    <2>6. \A i \in DOMAIN t : /\ h + i - 1 \in DOMAIN c /\ t[i] = c[h + i - 1]
                              /\ h + i - 1 = 1 => h = 1 /\ i = 1
                              /\ h + i - 1 = 2 => (h = 1 /\ i = 2) \/ (h = 2 /\ i = 1)
      <3>1. ASSUME NEW i \in 1..(n - h + 1)
            PROVE  /\ h + i - 1 \in 1..n
                   /\ h + i - 1 = 1 => h = 1 /\ i = 1
                   /\ h + i - 1 = 2 => (h = 1 /\ i = 2) \/ (h = 2 /\ i = 1)
        BY <2>5
      <3> QED BY <2>4, <2>5, <3>1
    <2>7. c[h].op \in {"commit", "relabel", "maximal"}
      BY <2>2 DEF IsHandler
    <2>8. 1 \in DOMAIN t /\ t[1] = c[h] /\ t # <<>> /\ Head(t) = t[1]
      BY <2>4, <2>5, EmptySeq
    <2>9. Ordered(t)
      <3>1. ASSUME NEW i \in DOMAIN t
            PROVE  /\ t[i].op \in TransactionOps
                   /\ t[i].op = "begin" => i = 1
                   /\ t[i].op = "focus" => i = 1 \/ (i = 2 /\ t[1].op = "save")
        BY <2>6, <2>7, <2>8 DEF Framed, Ordered
      <3> QED BY <3>1 DEF Ordered
    <2>10. \A k \in 0 .. n - h : t[(n - h + 1) - k] = c[n - k]
      <3>1. ASSUME NEW k \in 0 .. n - h
            PROVE  (n - h + 1) - k \in 1..(n - h + 1) /\ h + ((n - h + 1) - k) - 1 = n - k
        BY <2>5
      <3> QED BY <2>4, <3>1
    <2>11. \A k \in n - h + 1 .. n - 1 : c[n - k].op # "commit"
      <3>1. ASSUME NEW k \in n - h + 1 .. n - 1 PROVE n - k \in 1..(h - 1)
        BY <2>5
      <3> QED BY <2>2, <3>1 DEF IsHandler
    <2>12. Commits(t) = Commits(c)
      <3>1. Commits(t) = {k \in 0 .. n - h : t[(n - h + 1) - k].op = "commit"}
        <4>1. (n - h + 1) - 1 = n - h
          BY <2>5
        <4> QED BY <2>4, <4>1 DEF Commits
      <3>2. Commits(c) = {k \in 0 .. n - 1 : c[n - k].op = "commit"}
        BY DEF Commits, n
      <3>3. \A k : k \in 0 .. n - 1 <=> k \in 0 .. n - h \/ k \in n - h + 1 .. n - 1
        BY <2>5
      <3> QED BY <2>10, <2>11, <3>1, <3>2, <3>3
    <2>13. t[Len(t)].op = "commit"
      <3>1. 0 \in 0 .. n - h /\ (n - h + 1) - 0 = Len(t) /\ n - 0 = n
        BY <2>4, <2>5
      <3>2. t[Len(t)] = c[n]
        BY <2>10, <3>1
      <3> QED BY <1>4, <3>2 DEF Framed, n
    <2>14. Framed(t, d)
      BY <2>9, <2>12, <2>13 DEF Framed
    <2> QED BY <1>1, <2>7, <2>8, <2>14 DEF t
  <1> QED BY <1>3, <1>4

-----------------------------------------------------------------------------
(* What undo actions give back. *)

LEMMA RewoundShows ==
  ASSUME NEW U, NEW p, IsProof(p, U), NEW es
  PROVE  /\ Rewound(p, es).state = IF HasSort(es, "state") THEN Oldest(es, "state").state ELSE p.state
         /\ Rewound(p, es).mode = IF HasSort(es, "mode") THEN Oldest(es, "mode").mode ELSE p.mode
         /\ Rewound(p, es).undo = p.undo
         /\ Rewound(p, es).trans = p.trans
  <1> DEFINE s == IF HasSort(es, "state") THEN Oldest(es, "state").state ELSE p.state
             m == IF HasSort(es, "mode") THEN Oldest(es, "mode").mode ELSE p.mode
  <1>1. p = [state |-> p.state, undo |-> p.undo, trans |-> p.trans, mode |-> p.mode]
    BY DEF IsProof
  <1>2. Rewound(p, es) = [p EXCEPT !.state = s, !.mode = m]
    BY <1>1 DEF Rewound
  <1> HIDE DEF s, m
  <1>3. [p EXCEPT !.state = s, !.mode = m]
          = [state |-> s, undo |-> p.undo, trans |-> p.trans, mode |-> m]
    <2> DEFINE q == [p EXCEPT !.state = s]
    <2>1. q = [state |-> s, undo |-> p.undo, trans |-> p.trans, mode |-> p.mode]
      BY <1>1, WithField
    <2> HIDE DEF q
    <2>2. [q EXCEPT !.mode = m] = [state |-> s, undo |-> p.undo, trans |-> p.trans, mode |-> m]
      BY <2>1, WithField
    <2> QED BY <2>2 DEF q
  <1> QED BY <1>2, <1>3 DEF s, m

\* The oldest action of a sort in a \o b is that of a, if there is one.
LEMMA OldestOfConcat ==
  ASSUME NEW U, NEW a \in Seq(U), NEW b \in Seq(U), NEW sort
  PROVE  /\ HasSort(a \o b, sort) <=> HasSort(a, sort) \/ HasSort(b, sort)
         /\ HasSort(a, sort) => Oldest(a \o b, sort) = Oldest(a, sort)
         /\ ~HasSort(a, sort) /\ HasSort(b, sort) => Oldest(a \o b, sort) = Oldest(b, sort)
  <1> DEFINE m == Len(a)
             n == Len(b)
             e == a \o b
  <1>1. DOMAIN a = 1..m /\ m \in Nat /\ DOMAIN b = 1..n /\ n \in Nat
    BY LenProperties
  <1>2. /\ e \in Seq(U) /\ DOMAIN e = 1 .. m + n
        /\ \A i \in 1 .. m + n : e[i] = IF i <= m THEN a[i] ELSE b[i - m]
    BY ConcatProperties, LenProperties
  <1> HIDE DEF m, n, e
  <1>3. \A i \in DOMAIN a : i \in DOMAIN e /\ e[i] = a[i]
    BY <1>1, <1>2
  <1>4. \A i \in DOMAIN b : m + i \in DOMAIN e /\ e[m + i] = b[i]
    <2>1. ASSUME NEW i \in DOMAIN b
          PROVE  m + i \in 1 .. m + n /\ ~(m + i <= m) /\ (m + i) - m = i
      BY <1>1
    <2> QED BY <1>2, <2>1
  <1>5. \A i \in DOMAIN e : \/ i \in DOMAIN a /\ e[i] = a[i]
                            \/ i - m \in DOMAIN b /\ e[i] = b[i - m]
    BY <1>1, <1>2
  <1>6. HasSort(e, sort) <=> HasSort(a, sort) \/ HasSort(b, sort)
    BY <1>3, <1>4, <1>5 DEF HasSort
  <1>7. ASSUME HasSort(a, sort) PROVE Oldest(e, sort) = Oldest(a, sort)
    <2>1. PICK i \in DOMAIN a : a[i].undo = sort /\ \A j \in 1..(i - 1) : a[j].undo # sort
      BY <1>7, OldestIndex
    <2>2. \A j \in 1..(i - 1) : j \in DOMAIN a
      BY <1>1
    <2>3. Oldest(a, sort) = a[i]
      BY <2>1, OldestIs
    <2>4. i \in DOMAIN e /\ e[i].undo = sort /\ \A j \in 1..(i - 1) : e[j].undo # sort
      BY <1>3, <2>1, <2>2
    <2>5. Oldest(e, sort) = e[i]
      BY <1>2, <2>4, OldestIs
    <2> QED BY <1>3, <2>3, <2>5
  <1>8. ASSUME ~HasSort(a, sort), HasSort(b, sort) PROVE Oldest(e, sort) = Oldest(b, sort)
    <2>1. PICK i \in DOMAIN b : b[i].undo = sort /\ \A j \in 1..(i - 1) : b[j].undo # sort
      BY <1>8, OldestIndex
    <2>2. Oldest(b, sort) = b[i]
      BY <2>1, OldestIs
    <2>3. m + i \in DOMAIN e /\ e[m + i].undo = sort
      BY <1>4, <2>1
    <2>4. \A j \in 1..(m + i) - 1 : e[j].undo # sort
      <3>1. ASSUME NEW j \in 1..(m + i) - 1
            PROVE  j \in DOMAIN e /\ (j - m \in DOMAIN b => j - m \in 1..(i - 1))
        BY <1>1, <1>2
      <3> QED BY <1>5, <1>8, <2>1, <3>1 DEF HasSort
    <2>5. Oldest(e, sort) = e[m + i]
      BY <1>2, <2>3, <2>4, OldestIs
    <2> QED BY <1>4, <2>2, <2>5
  <1> QED BY <1>6, <1>7, <1>8 DEF e

\* To rewind a \o b is to rewind b, the newer actions, then a.
LEMMA RewoundConcat ==
  ASSUME NEW U, NEW V, IsUndo(V), NEW p, IsProof(p, V), NEW q, IsProof(q, U),
         NEW a \in Seq(V), NEW b \in Seq(V), Shown(q) = Shown(Rewound(p, b))
  PROVE  Shown(Rewound(p, a \o b)) = Shown(Rewound(q, a))
  <1>1. q.state = Rewound(p, b).state /\ q.mode = Rewound(p, b).mode
    BY DEF Shown
  <1> DEFINE e == a \o b
  <1>2. \A sort \in {"state", "mode"} :
          /\ HasSort(e, sort) <=> HasSort(a, sort) \/ HasSort(b, sort)
          /\ HasSort(a, sort) => Oldest(e, sort) = Oldest(a, sort)
          /\ ~HasSort(a, sort) /\ HasSort(b, sort) => Oldest(e, sort) = Oldest(b, sort)
    BY OldestOfConcat
  <1> HIDE DEF e
  <1>3. Rewound(p, e).state = Rewound(q, a).state
    BY <1>1, <1>2, RewoundShows
  <1>4. Rewound(p, e).mode = Rewound(q, a).mode
    BY <1>1, <1>2, RewoundShows
  <1> QED BY <1>3, <1>4 DEF Shown, e

-----------------------------------------------------------------------------
(* The open transactions t of a proof whose state is cur hold what it takes to *)
(* come back to the state s.                                                  *)

StatesOnly(t) == \A i \in DOMAIN t : \A k \in DOMAIN t[i] : t[i][k].undo = "state"

\* Nothing has been recorded since, or the oldest action recorded restores s.
Origin(t, cur, s) ==
  \/ cur = s /\ \A i \in DOMAIN t : t[i] = <<>>
  \/ \E i \in DOMAIN t : /\ t[i] # <<>> /\ t[i][1].state = s
                         /\ \A j \in 1..(i - 1) : t[j] = <<>>

Dirty(t) == \E i \in DOMAIN t : t[i] # <<>>

\* p is q plus open transactions.
Held(p, q) ==
  /\ p.undo = q.undo /\ p.mode = q.mode
  /\ StatesOnly(p.trans)
  /\ Origin(p.trans, p.state, q.state)

LEMMA HeldBegins ==
  ASSUME NEW U, NEW p, IsProof(p, U), NEW q, Held(p, q)
  PROVE  LET r == [p EXCEPT !.trans = Append(@, <<>>)]
         IN  Held(r, q) /\ Len(r.trans) = Len(p.trans) + 1
  <1> DEFINE t == p.trans
             n == Len(t)
             u == Append(t, <<>>)
             r == [p EXCEPT !.trans = u]
  <1>1. t \in Seq(Seq(U)) /\ n \in Nat /\ DOMAIN t = 1..n
    BY LenProperties DEF IsProof
  <1>2. u \in Seq(Seq(U)) /\ Len(u) = n + 1 /\ DOMAIN u = 1..(n + 1)
        /\ u[n + 1] = <<>> /\ \A i \in 1..n : u[i] = t[i]
    BY <1>1, EmptySeq, AppendProperties, LenProperties
  <1> HIDE DEF u
  <1>3. r = [state |-> p.state, undo |-> p.undo, trans |-> u, mode |-> p.mode]
    BY WithField DEF IsProof
  <1> HIDE DEF t, n, r
  <1>4. \A i \in DOMAIN u : (i = n + 1 /\ u[i] = <<>>) \/ (i \in DOMAIN t /\ u[i] = t[i])
    BY <1>1, <1>2
  <1>5. \A i \in DOMAIN t : i \in DOMAIN u /\ u[i] = t[i] /\ \A j \in 1..(i - 1) : j \in DOMAIN t
    BY <1>1, <1>2
  <1>6. DOMAIN <<>> = {}
    OBVIOUS
  <1>7. StatesOnly(u)
    BY <1>4, <1>6 DEF Held, StatesOnly, t
  <1>8. Origin(u, p.state, q.state)
    BY <1>4, <1>5 DEF Held, Origin, t
  <1>9. r.undo = p.undo /\ r.mode = p.mode /\ r.trans = u /\ r.state = p.state
    BY <1>3
  <1>10. Held(r, q) /\ Len(r.trans) = n + 1
    BY <1>2, <1>7, <1>8, <1>9 DEF Held
  <1> QED BY <1>10 DEF r, u, t, n, IsProof

\* An instruction has saved the state before it, and left the state s.
LEMMA HeldSteps ==
  ASSUME NEW U, NEW p, IsProof(p, U), NEW q, Held(p, q), p.trans # <<>>, NEW s
  PROVE  LET r == Pushed([p EXCEPT !.state = s], <<StateUndo(p)>>)
         IN  Held(r, q) /\ Len(r.trans) = Len(p.trans) /\ Dirty(r.trans)
  <1> DEFINE t == p.trans
             n == Len(t)
             x == StateUndo(p)
             V == U \union {x}
             w == [p EXCEPT !.state = s]
             l == t[n] \o <<x>>
             u == [t EXCEPT ![n] = l]
             r == Pushed(w, <<x>>)
  <1>1. t \in Seq(Seq(V))
    <2>1. U \subseteq V /\ Seq(U) \subseteq Seq(V) /\ Seq(Seq(U)) \subseteq Seq(Seq(V))
      BY SeqMonotonic
    <2> QED BY <2>1 DEF IsProof
  <1>2. x.undo = "state" /\ x.state = p.state /\ x \in V
    BY DEF StateUndo
  <1> HIDE DEF x, V
  <1>3. n \in Nat \ {0} /\ n \in 1..n /\ DOMAIN t = 1..n
    BY <1>1, EmptySeq, LenProperties
  <1>4. t[n] \in Seq(V) /\ Len(t[n]) \in Nat /\ DOMAIN t[n] = 1..Len(t[n])
    BY <1>1, <1>3, ElementOfSeq, LenProperties
  <1>5. l = Append(t[n], x)
    BY <1>2, <1>4, AppendIsConcat
  <1> HIDE DEF l
  <1>6. /\ l \in Seq(V) /\ l # <<>> /\ DOMAIN l = 1..(Len(t[n]) + 1)
        /\ l[Len(t[n]) + 1] = x
        /\ \A k \in 1..Len(t[n]) : l[k] = t[n][k]
    BY <1>2, <1>4, <1>5, AppendProperties, LenProperties
  <1>7. u \in Seq(Seq(V)) /\ Len(u) = n /\ DOMAIN u = 1..n
        /\ \A i \in 1..n : u[i] = IF i = n THEN l ELSE t[i]
    BY <1>1, <1>3, <1>6, ExceptSeq, LenProperties
  <1> HIDE DEF u
  <1>8. w = [state |-> s, undo |-> p.undo, trans |-> t, mode |-> p.mode]
    BY WithField DEF IsProof
  <1>9. r = [state |-> s, undo |-> p.undo, trans |-> u, mode |-> p.mode]
    <2> HIDE DEF w
    <2>1. w = [state |-> w.state, undo |-> w.undo, trans |-> w.trans, mode |-> w.mode]
          /\ w.trans = t /\ w.trans # <<>>
      BY <1>8
    <2>2. r = [w EXCEPT !.trans = u]
      BY <2>1 DEF Pushed, u, l
    <2>3. r = [state |-> w.state, undo |-> w.undo, trans |-> u, mode |-> w.mode]
      BY <2>1, <2>2, WithField
    <2> QED BY <1>8, <2>3
  <1>10. r.state = s /\ r.undo = p.undo /\ r.mode = p.mode /\ r.trans = u
    BY <1>9
  <1> HIDE DEF r, w, t, n
  <1>11. StatesOnly(u)
    <2>1. \A k \in DOMAIN l : (k = Len(t[n]) + 1 /\ l[k] = x) \/ (k \in DOMAIN t[n] /\ l[k] = t[n][k])
      BY <1>4, <1>6
    <2>2. \A k \in DOMAIN l : l[k].undo = "state"
      BY <1>2, <1>3, <2>1 DEF Held, StatesOnly, t
    <2> QED BY <1>3, <1>7, <2>2 DEF Held, StatesOnly, t
  <1>12. Dirty(u)
    BY <1>3, <1>6, <1>7 DEF Dirty
  <1>13. Origin(u, s, q.state)
    <2>1. CASE p.state = q.state /\ \A i \in DOMAIN t : t[i] = <<>>
      <3>1. Len(t[n]) = 0 /\ l[1] = x
        BY <1>3, <1>6, <2>1, EmptySeq
      <3>2. \A j \in 1..(n - 1) : u[j] = <<>>
        BY <1>3, <1>7, <2>1
      <3>3. n \in DOMAIN u /\ u[n] = l
        BY <1>3, <1>7
      <3> QED BY <1>2, <1>6, <2>1, <3>1, <3>2, <3>3 DEF Origin
    <2>2. ASSUME NEW i \in DOMAIN t, t[i] # <<>>, t[i][1].state = q.state,
                 \A j \in 1..(i - 1) : t[j] = <<>>
          PROVE  Origin(u, s, q.state)
      <3>1. \A j \in 1..(i - 1) : j \in 1..n /\ j # n
        BY <1>3, <2>2
      <3>2. \A j \in 1..(i - 1) : u[j] = <<>>
        BY <1>7, <2>2, <3>1
      <3>3. i \in DOMAIN u /\ u[i] # <<>> /\ u[i][1].state = q.state
        <4>1. CASE i = n
          <5>1. 1 \in 1..Len(t[n])
            BY <1>4, <2>2, <4>1, EmptySeq
          <5> QED BY <1>3, <1>6, <1>7, <2>2, <4>1, <5>1
        <4>2. CASE i # n
          BY <1>3, <1>7, <2>2, <4>2
        <4> QED BY <4>1, <4>2
      <3> QED BY <3>2, <3>3 DEF Origin
    <2> QED BY <2>1, <2>2 DEF Held, Origin, t
  <1>14. Held(r, q) /\ Len(r.trans) = n /\ Dirty(r.trans)
    BY <1>7, <1>10, <1>11, <1>12, <1>13 DEF Held
  <1> QED BY <1>14 DEF r, w, x, t, n

\* Once an action is recorded, the current state no longer counts.
LEMMA HeldMoves ==
  ASSUME NEW U, NEW p, IsProof(p, U), NEW q, Held(p, q), Dirty(p.trans), NEW s
  PROVE  LET r == [p EXCEPT !.state = s]
         IN  Held(r, q) /\ r.trans = p.trans
  <1> DEFINE r == [p EXCEPT !.state = s]
  <1>1. r = [state |-> s, undo |-> p.undo, trans |-> p.trans, mode |-> p.mode]
    BY WithField DEF IsProof
  <1>2. r.state = s /\ r.undo = p.undo /\ r.mode = p.mode /\ r.trans = p.trans
    BY <1>1
  <1> HIDE DEF r
  <1>3. Origin(p.trans, s, q.state)
    BY DEF Held, Origin, Dirty
  <1>4. Held(r, q) /\ r.trans = p.trans
    BY <1>2, <1>3 DEF Held
  <1> QED BY <1>4 DEF r

LEMMA FirstOfStates ==
  ASSUME NEW U, NEW l \in Seq(U), \A k \in DOMAIN l : l[k].undo = "state"
  PROVE  /\ ~HasSort(l, "mode")
         /\ HasSort(l, "state") <=> l # <<>>
         /\ l # <<>> => Oldest(l, "state") = l[1]
  <1>1. DOMAIN l = 1..Len(l) /\ Len(l) \in Nat
    BY LenProperties
  <1>2. ~HasSort(l, "mode")
    BY DEF HasSort
  <1>3. CASE l = <<>>
    BY <1>3 DEF HasSort
  <1>4. CASE l # <<>>
    <2>1. 1 \in DOMAIN l /\ 1..(1 - 1) = {}
      BY <1>1, <1>4, EmptySeq
    <2> QED BY <1>2, <1>4, <2>1, OldestIs
  <1> QED BY <1>2, <1>3, <1>4

\* A concatenation is cut where it was made.
LEMMA ConcatParts ==
  ASSUME NEW U, NEW a \in Seq(U), NEW b \in Seq(U)
  PROVE  /\ a \o b \in Seq(U) /\ Len(a \o b) = Len(a) + Len(b)
         /\ SubSeq(a \o b, 1, Len(a)) = a
         /\ SubSeq(a \o b, Len(a) + 1, Len(a \o b)) = b
  <1> DEFINE m == Len(a)
             n == Len(b)
             e == a \o b
             x == SubSeq(e, 1, m)
             y == SubSeq(e, m + 1, m + n)
  <1>1. DOMAIN a = 1..m /\ m \in Nat /\ DOMAIN b = 1..n /\ n \in Nat
    BY LenProperties
  <1>2. /\ e \in Seq(U) /\ Len(e) = m + n
        /\ \A i \in 1 .. m + n : e[i] = IF i <= m THEN a[i] ELSE b[i - m]
    BY ConcatProperties
  <1> HIDE DEF e
  <1>3. \A i \in 1 .. m + n : e[i] \in U
    BY <1>2, ElementOfSeq
  <1> HIDE DEF m, n
  <1>4. x \in Seq(U) /\ Len(x) = m /\ \A i \in 1..m : x[i] = e[i]
    <2>1. (\A i \in 1..m : e[i] \in U) /\ m \in Int /\ 1 \in Int
          /\ (IF 1 <= m THEN m - 1 + 1 ELSE 0) = m /\ m - 1 + 1 = m
      BY <1>1, <1>3
    <2>2. /\ x \in Seq(U) /\ Len(x) = IF 1 <= m THEN m - 1 + 1 ELSE 0
          /\ \A i \in 1 .. m - 1 + 1 : x[i] = e[1 + i - 1]
      BY <2>1, SubSeqProperties
    <2>3. \A i \in 1..m : 1 + i - 1 = i
      BY <1>1
    <2> HIDE DEF x
    <2> QED BY <2>1, <2>2, <2>3
  <1>5. y \in Seq(U) /\ Len(y) = n /\ \A i \in 1..n : y[i] = e[m + i]
    <2>1. /\ \A i \in m + 1 .. m + n : e[i] \in U
          /\ m + n \in Int /\ m + 1 \in Int
          /\ (IF m + 1 <= m + n THEN (m + n) - (m + 1) + 1 ELSE 0) = n
          /\ (m + n) - (m + 1) + 1 = n
      BY <1>1, <1>3
    <2>2. /\ y \in Seq(U) /\ Len(y) = IF m + 1 <= m + n THEN (m + n) - (m + 1) + 1 ELSE 0
          /\ \A i \in 1 .. (m + n) - (m + 1) + 1 : y[i] = e[(m + 1) + i - 1]
      BY <2>1, SubSeqProperties
    <2>3. \A i \in 1..n : (m + 1) + i - 1 = m + i
      BY <1>1
    <2> HIDE DEF y
    <2> QED BY <2>1, <2>2, <2>3
  <1> HIDE DEF x, y
  <1>6. x = a
    <2>1. \A i \in 1..m : x[i] = a[i]
      BY <1>1, <1>2, <1>4
    <2> QED BY <1>4, <2>1, SeqEqual DEF m
  <1>7. y = b
    <2>1. \A i \in 1..n : m + i \in 1 .. m + n /\ ~(m + i <= m) /\ (m + i) - m = i
      BY <1>1
    <2>2. \A i \in 1..n : y[i] = b[i]
      BY <1>2, <1>5, <2>1
    <2> QED BY <1>5, <2>2, SeqEqual DEF n
  <1> QED BY <1>2, <1>6, <1>7 DEF x, y, e, m, n

\* Undo of the last actions of p gives q.
Recalls(p, q) ==
  \E n \in 0..Len(p.undo) :
    /\ q.undo = SubSeq(p.undo, 1, n)
    /\ Shown(q) = Shown(Rewound(p, SubSeq(p.undo, n + 1, Len(p.undo))))

\* p is q after the actions es have been recorded.
LEMMA RecallsWhatWasAdded ==
  ASSUME NEW U, NEW p, NEW q, IsProof(p, U), q.undo \in Seq(U),
         NEW es \in Seq(U), p.undo = q.undo \o es, Shown(q) = Shown(Rewound(p, es))
  PROVE  Recalls(p, q)
  <1> DEFINE n == Len(q.undo)
  <1>1. /\ Len(p.undo) = n + Len(es)
        /\ SubSeq(p.undo, 1, n) = q.undo
        /\ SubSeq(p.undo, n + 1, Len(p.undo)) = es
    <2> DEFINE a == q.undo
    <2>2. a \in Seq(U)
      OBVIOUS
    <2> HIDE DEF a
    <2>1. /\ Len(a \o es) = Len(a) + Len(es)
          /\ SubSeq(a \o es, 1, Len(a)) = a
          /\ SubSeq(a \o es, Len(a) + 1, Len(a \o es)) = es
      BY <2>2, ConcatParts
    <2> QED BY <2>1 DEF a
  <1>2. n \in Nat /\ Len(es) \in Nat
    BY LenProperties
  <1>3. n \in 0..Len(p.undo)
    BY <1>1, <1>2
  <1> HIDE DEF n
  <1> QED BY <1>1, <1>3 DEF Recalls

LEMMA RecallsItself ==
  ASSUME NEW U, NEW p, NEW q, IsProof(p, U), p.undo = q.undo, Shown(p) = Shown(q)
  PROVE  Recalls(p, q)
  <1>1. <<>> \in Seq(U) /\ q.undo \in Seq(U) /\ p.undo = q.undo \o <<>>
    BY ConcatEmptySeq, EmptySeq DEF IsProof
  <1>2. Shown(Rewound(p, <<>>)) = Shown(p)
    BY RewoundShows DEF HasSort, Shown
  <1> QED BY <1>1, <1>2, RecallsWhatWasAdded

\* The transactions but the last
LEMMA WithoutLast ==
  ASSUME NEW U, NEW t \in Seq(Seq(U)), t # <<>>
  PROVE  LET n == Len(t)
             f == Front(t)
         IN  /\ n \in Nat \ {0} /\ DOMAIN t = 1..n
             /\ Last(t) = t[n] /\ Last(t) \in Seq(U)
             /\ f \in Seq(Seq(U)) /\ Len(f) = n - 1 /\ DOMAIN f = 1..(n - 1)
             /\ \A i \in 1..(n - 1) : f[i] = t[i]
             /\ f = <<>> <=> n = 1
  <1> DEFINE n == Len(t)
             f == Front(t)
  <1>1. n \in Nat \ {0} /\ DOMAIN t = 1..n /\ n \in 1..n
    BY EmptySeq, LenProperties
  <1>2. Last(t) = t[n] /\ t[n] \in Seq(U)
    BY <1>1, ElementOfSeq DEF Last
  <1>3. \A i \in 1..(n - 1) : t[i] \in Seq(U)
    BY <1>1, ElementOfSeq
  <1>4. (IF 1 <= n - 1 THEN (n - 1) - 1 + 1 ELSE 0) = n - 1 /\ (n - 1) - 1 + 1 = n - 1
        /\ n - 1 \in Int /\ 1 \in Int
    BY <1>1
  <1>5. f = SubSeq(t, 1, n - 1)
    BY DEF Front
  <1> HIDE DEF n, f
  <1>6. /\ f \in Seq(Seq(U)) /\ Len(f) = IF 1 <= n - 1 THEN (n - 1) - 1 + 1 ELSE 0
        /\ \A i \in 1 .. (n - 1) - 1 + 1 : f[i] = t[1 + i - 1]
    BY <1>3, <1>4, <1>5, SubSeqProperties
  <1>7. \A i \in 1..(n - 1) : 1 + i - 1 = i
    BY <1>1
  <1>8. Len(f) = n - 1 /\ DOMAIN f = 1..(n - 1) /\ \A i \in 1..(n - 1) : f[i] = t[i]
    BY <1>4, <1>6, <1>7, LenProperties
  <1>9. f = <<>> <=> n = 1
    BY <1>1, <1>6, <1>8, EmptySeq
  <1> QED BY <1>1, <1>2, <1>6, <1>8, <1>9 DEF n, f

\* The commit of a transaction: the last one gives its actions to the undo
\* stack, any other to the transaction around it.
LEMMA HeldCommits ==
  ASSUME NEW U, NEW p, IsProof(p, U), NEW q, Held(p, q), p.trans # <<>>
  PROVE  LET r == Committed(p, Len(Last(p.trans)))
         IN  /\ Len(r.trans) = Len(p.trans) - 1
             /\ r.trans # <<>> => Held(r, q)
             /\ r.trans = <<>> => Recalls(r, q)
  <1> DEFINE t == p.trans
             n == Len(t)
             f == Front(t)
             l == Last(t)
             w == Closed(p)
             r == Committed(p, Len(l))
  <1>1. t \in Seq(Seq(U)) /\ t # <<>>
    BY DEF IsProof
  <1>2. /\ n \in Nat \ {0} /\ DOMAIN t = 1..n /\ l = t[n] /\ l \in Seq(U)
        /\ f \in Seq(Seq(U)) /\ Len(f) = n - 1 /\ DOMAIN f = 1..(n - 1)
        /\ \A i \in 1..(n - 1) : f[i] = t[i]
        /\ f = <<>> <=> n = 1
    BY <1>1, WithoutLast
  <1>3. w = [state |-> p.state, undo |-> p.undo, trans |-> f, mode |-> p.mode]
    BY WithField DEF Closed, IsProof
  <1>4. r = Pushed(w, l)
    <2> HIDE DEF l, w
    <2>1. SubSeq(l, 1, Len(l)) = l
      BY <1>2, SubSeqFull
    <2> QED BY <2>1 DEF Committed, l, w, t
  <1>5. n \in DOMAIN t
    BY <1>2
  <1> HIDE DEF t, n, f, l, w, r
  <1>6. \A k \in DOMAIN l : l[k].undo = "state"
    BY <1>2, <1>5 DEF Held, StatesOnly, t
  <1>7. /\ ~HasSort(l, "mode")
        /\ HasSort(l, "state") <=> l # <<>>
        /\ l # <<>> => Oldest(l, "state") = l[1]
    BY <1>2, <1>6, FirstOfStates
  <1>8. CASE n = 1
    <2> DEFINE a == p.undo \o l
    <2>1. a \in Seq(U)
      BY <1>2, ConcatProperties DEF IsProof
    <2>2. r = [w EXCEPT !.undo = a]
      BY <1>2, <1>3, <1>4, <1>8 DEF Pushed
    <2> HIDE DEF a
    <2>3. r = [state |-> p.state, undo |-> a, trans |-> f, mode |-> p.mode]
      BY <1>3, <2>2
    <2>4. r.state = p.state /\ r.undo = a /\ r.trans = <<>> /\ r.mode = p.mode
      BY <1>2, <1>8, <2>3
    <2>5. IsProof(r, U)
      BY <1>2, <2>1, <2>3 DEF IsProof
    <2>6. Rewound(r, l).state = q.state /\ Rewound(r, l).mode = q.mode
      <3>1. p.mode = q.mode
        BY DEF Held
      <3>2. IF l = <<>> THEN p.state = q.state ELSE l[1].state = q.state
        <4>1. \A i \in DOMAIN t : i = n /\ t[i] = l
          BY <1>2, <1>8
        <4> QED BY <1>5, <4>1 DEF Held, Origin, t
      <3>3. /\ Rewound(r, l).state
                 = IF HasSort(l, "state") THEN Oldest(l, "state").state ELSE r.state
            /\ Rewound(r, l).mode = IF HasSort(l, "mode") THEN Oldest(l, "mode").mode ELSE r.mode
        BY <2>5, RewoundShows
      <3> QED BY <1>7, <2>4, <3>1, <3>2, <3>3
    <2>7. Shown(q) = Shown(Rewound(r, l))
      BY <2>6 DEF Shown
    <2>8. r.undo = q.undo \o l /\ q.undo \in Seq(U)
      BY <2>4 DEF a, Held, IsProof
    <2>9. Recalls(r, q)
      BY <1>2, <2>5, <2>7, <2>8, RecallsWhatWasAdded
    <2>10. Len(r.trans) = n - 1
      BY <1>2, <1>8, <2>4, EmptySeq
    <2> QED BY <2>4, <2>9, <2>10 DEF r, l, t, n
  <1>9. CASE n # 1
    <2> DEFINE m == n - 1
               g == f[m] \o l
               u == [f EXCEPT ![m] = g]
    <2>1. m \in Nat \ {0} /\ m \in 1..m /\ n = m + 1 /\ m \in DOMAIN t
      BY <1>2, <1>9
    <2> HIDE DEF m
    <2>2. Len(f) = m /\ DOMAIN f = 1..m /\ f # <<>> /\ \A i \in 1..m : f[i] = t[i]
      BY <1>2, <1>9 DEF m
    <2>3. f[m] \in Seq(U)
      BY <1>2, <2>1, <2>2, ElementOfSeq
    <2>4. /\ Len(f[m]) \in Nat /\ DOMAIN f[m] = 1..Len(f[m])
          /\ Len(l) \in Nat /\ DOMAIN l = 1..Len(l)
      BY <1>2, <2>3, LenProperties
    <2>5. /\ g \in Seq(U) /\ DOMAIN g = 1 .. Len(f[m]) + Len(l)
          /\ \A k \in 1 .. Len(f[m]) + Len(l) : g[k] = IF k <= Len(f[m]) THEN f[m][k] ELSE l[k - Len(f[m])]
          /\ g = <<>> <=> f[m] = <<>> /\ l = <<>>
      <3> DEFINE x == f[m]
      <3>1. x \in Seq(U) /\ l \in Seq(U)
        BY <1>2, <2>3
      <3> HIDE DEF x
      <3>2. x \o l = <<>> <=> x = <<>> /\ l = <<>>
        BY <3>1, ConcatEqualIffEmpty
      <3>3. /\ x \o l \in Seq(U) /\ Len(x \o l) = Len(x) + Len(l)
            /\ \A k \in 1 .. Len(x) + Len(l) : (x \o l)[k] = IF k <= Len(x) THEN x[k] ELSE l[k - Len(x)]
        BY <3>1, ConcatProperties
      <3> QED BY <3>2, <3>3, LenProperties DEF x
    <2> HIDE DEF g
    <2>6. u \in Seq(Seq(U)) /\ Len(u) = m /\ DOMAIN u = 1..m
          /\ \A i \in 1..m : u[i] = IF i = m THEN g ELSE f[i]
      BY <1>2, <2>1, <2>2, <2>5, ExceptSeq, LenProperties
    <2> HIDE DEF u
    <2>7. r = [w EXCEPT !.trans = u]
      BY <1>3, <1>4, <2>2 DEF Pushed, u, g
    <2>8. r = [state |-> p.state, undo |-> p.undo, trans |-> u, mode |-> p.mode]
      BY <1>3, <2>7
    <2>9. r.state = p.state /\ r.undo = p.undo /\ r.trans = u /\ r.mode = p.mode
      BY <2>8
    <2>10. StatesOnly(u)
      <3>1. \A k \in DOMAIN g : \/ k \in DOMAIN f[m] /\ g[k] = f[m][k]
                                \/ k - Len(f[m]) \in DOMAIN l /\ g[k] = l[k - Len(f[m])]
        BY <2>4, <2>5
      <3>2. f[m] = t[m]
        BY <2>1, <2>2
      <3>3. \A k \in DOMAIN g : g[k].undo = "state"
        BY <1>6, <2>1, <3>1, <3>2 DEF Held, StatesOnly, t
      <3>4. \A i \in 1..m : i \in DOMAIN t
        BY <1>2, <2>1
      <3>5. ASSUME NEW i \in DOMAIN u PROVE \A k \in DOMAIN u[i] : u[i][k].undo = "state"
        <4>1. CASE i = m
          BY <2>1, <2>6, <3>3, <4>1
        <4>2. CASE i # m
          BY <2>2, <2>6, <3>4, <4>2 DEF Held, StatesOnly, t
        <4> QED BY <4>1, <4>2
      <3> QED BY <3>5 DEF StatesOnly
    <2>11. Origin(u, p.state, q.state)
      <3>1. CASE p.state = q.state /\ \A i \in DOMAIN t : t[i] = <<>>
        <4>0. \A i \in 1..m : i \in DOMAIN t
          BY <1>2, <2>1
        <4>1. l = <<>> /\ \A i \in 1..m : f[i] = <<>>
          BY <1>2, <1>5, <2>2, <3>1, <4>0
        <4>2. g = <<>>
          BY <2>1, <2>5, <4>1
        <4>3. \A i \in 1..m : u[i] = <<>>
          BY <2>6, <4>1, <4>2
        <4> QED BY <2>6, <3>1, <4>3 DEF Origin
      <3>2. ASSUME NEW i \in DOMAIN t, t[i] # <<>>, t[i][1].state = q.state,
                   \A j \in 1..(i - 1) : t[j] = <<>>
            PROVE  Origin(u, p.state, q.state)
        <4>1. i \in 1..n
          BY <1>2
        <4>2. CASE i = n
          <5>1. \A j \in 1..m : j \in 1..(i - 1)
            BY <2>1, <4>2
          <5>2. f[m] = <<>> /\ \A j \in 1..m : f[j] = <<>>
            BY <2>1, <2>2, <3>2, <5>1
          <5>3. l # <<>> /\ l[1].state = q.state
            BY <1>2, <3>2, <4>2
          <5>4. g = l
            BY <1>2, <5>2, ConcatEmptySeq DEF g
          <5>5. \A j \in 1..(m - 1) : j \in 1..m /\ j # m
            BY <2>1
          <5>6. \A j \in 1..(m - 1) : u[j] = <<>>
            BY <2>6, <5>2, <5>5
          <5>7. m \in DOMAIN u /\ u[m] = l
            BY <2>1, <2>6, <5>4
          <5> QED BY <5>3, <5>6, <5>7 DEF Origin
        <4>3. CASE i # n
          <5>1. i \in 1..m /\ \A j \in 1..(i - 1) : j \in 1..m /\ j # m
            BY <2>1, <4>1, <4>3
          <5>2. f[i] = t[i] /\ \A j \in 1..(i - 1) : f[j] = <<>>
            BY <2>2, <3>2, <5>1
          <5>3. \A j \in 1..(i - 1) : u[j] = <<>>
            BY <2>6, <5>1, <5>2
          <5>4. u[i] # <<>> /\ u[i][1].state = q.state
            <6>1. CASE i = m
              <7>1. 1 \in 1 .. Len(f[m]) + Len(l) /\ 1 <= Len(f[m])
                BY <2>3, <2>4, <3>2, <5>2, <6>1, EmptySeq
              <7>2. g[1] = f[m][1] /\ g # <<>>
                BY <2>5, <3>2, <5>2, <6>1, <7>1
              <7> QED BY <2>1, <2>6, <3>2, <5>2, <6>1, <7>2
            <6>2. CASE i # m
              BY <2>6, <3>2, <5>1, <5>2, <6>2
            <6> QED BY <6>1, <6>2
          <5> QED BY <2>6, <5>1, <5>3, <5>4 DEF Origin
        <4> QED BY <4>2, <4>3
      <3> QED BY <3>1, <3>2 DEF Held, Origin, t
    <2>12. Held(r, q)
      BY <2>9, <2>10, <2>11 DEF Held
    <2>13. u # <<>>
      BY <2>1, <2>6, EmptySeq
    <2> QED BY <2>1, <2>6, <2>9, <2>12, <2>13 DEF r, l, t, n
  <1> QED BY <1>8, <1>9

\* The rollback of a transaction: it is emptied, its actions executed, and closed.
LEMMA HeldCloses ==
  ASSUME NEW U, NEW p, IsProof(p, U), NEW q, Held(p, q), p.trans # <<>>
  PROVE  LET r == Closed(Popped(p, Len(Visible(p))))
         IN  /\ Len(r.trans) = Len(p.trans) - 1
             /\ Held(r, q)
             /\ r.trans = <<>> => Shown(r) = Shown(q) /\ r.undo = q.undo
  <1> DEFINE t == p.trans
             n == Len(t)
             f == Front(t)
             l == t[n]
             w == Rewound(p, l)
             u == [t EXCEPT ![n] = <<>>]
             o == Popped(p, Len(Visible(p)))
             r == Closed(o)
  <1>1. t \in Seq(Seq(U)) /\ t # <<>>
    BY DEF IsProof
  <1>2. /\ n \in Nat \ {0} /\ DOMAIN t = 1..n /\ Last(t) = l /\ l \in Seq(U)
        /\ f \in Seq(Seq(U)) /\ Len(f) = n - 1 /\ DOMAIN f = 1..(n - 1)
        /\ \A i \in 1..(n - 1) : f[i] = t[i]
        /\ f = <<>> <=> n = 1
    BY <1>1, WithoutLast
  <1>3. n \in 1..n /\ <<>> \in Seq(U)
    BY <1>2, EmptySeq
  <1>4. u \in Seq(Seq(U)) /\ Len(u) = n /\ \A i \in 1..n : u[i] = IF i = n THEN <<>> ELSE t[i]
    BY <1>1, <1>3, ExceptSeq
  <1>5. w.undo = p.undo /\ w.trans = t
        /\ w.state = (IF HasSort(l, "state") THEN Oldest(l, "state").state ELSE p.state)
        /\ w.mode = (IF HasSort(l, "mode") THEN Oldest(l, "mode").mode ELSE p.mode)
    BY RewoundShows
  <1>6. w = [state |-> w.state, undo |-> p.undo, trans |-> t, mode |-> w.mode]
    <2> DEFINE s == IF HasSort(l, "state") THEN Oldest(l, "state").state ELSE p.state
               m == IF HasSort(l, "mode") THEN Oldest(l, "mode").mode ELSE p.mode
               x == [p EXCEPT !.state = s]
    <2>1. w = [p EXCEPT !.state = s, !.mode = m]
      BY DEF Rewound, IsProof
    <2> HIDE DEF s, m
    <2>2. x = [state |-> s, undo |-> p.undo, trans |-> t, mode |-> p.mode]
      BY WithField DEF IsProof
    <2> HIDE DEF x
    <2>3. [x EXCEPT !.mode = m] = [state |-> s, undo |-> p.undo, trans |-> t, mode |-> m]
      BY <2>2, WithField
    <2>4. [x EXCEPT !.mode = m] = [p EXCEPT !.state = s, !.mode = m]
      BY DEF x
    <2> QED BY <2>1, <2>3, <2>4
  <1>7. o = [w EXCEPT !.trans = u]
    <2> HIDE DEF t, n, f, l, w
    <2>1. Visible(p) = l
      BY <1>1, <1>2 DEF Visible, t
    <2>2. Len(l) \in Nat /\ Len(l) - Len(l) = 0 /\ 0 + 1 = 1
      BY <1>2, LenProperties
    <2>3. SubSeq(l, 1, Len(l)) = l /\ SubSeq(t[n], 1, 0) = <<>>
      BY <1>2, SubSeqFull, SubSeqEmpty
    <2>4. o = [w EXCEPT !.trans[n] = SubSeq(@, 1, 0)]
      BY <1>1, <2>1, <2>2, <2>3 DEF Popped, w, n, t
    <2> HIDE DEF o
    <2>5. [w EXCEPT !.trans[n] = SubSeq(@, 1, 0)]
            = [w EXCEPT !.trans = [w.trans EXCEPT ![n] = SubSeq(w.trans[n], 1, 0)]]
      BY <1>6
    <2>6. w.trans = t
      BY <1>5
    <2> QED BY <2>3, <2>4, <2>5, <2>6
  <1> HIDE DEF t, n, f, l, w, u, o
  <1>8. Front(u) = f
    <2>1. u # <<>>
      BY <1>2, <1>4, EmptySeq
    <2>2. /\ Front(u) \in Seq(Seq(U)) /\ Len(Front(u)) = n - 1
          /\ \A i \in 1..(n - 1) : Front(u)[i] = u[i]
      BY <1>4, <2>1, WithoutLast
    <2>3. \A i \in 1..(n - 1) : i \in 1..n /\ i # n
      BY <1>2
    <2>4. \A i \in 1..(n - 1) : Front(u)[i] = f[i]
      BY <1>2, <1>4, <2>2, <2>3
    <2> QED BY <1>2, <2>2, <2>4, SeqEqual
  <1>9. r = [state |-> w.state, undo |-> p.undo, trans |-> f, mode |-> w.mode]
    <2>1. o = [state |-> w.state, undo |-> p.undo, trans |-> u, mode |-> w.mode]
      BY <1>6, <1>7
    <2>2. Closed(o) = [o EXCEPT !.trans = f]
      BY <1>8, <2>1 DEF Closed
    <2> QED BY <2>1, <2>2
  <1>10. r.state = w.state /\ r.undo = p.undo /\ r.trans = f /\ r.mode = w.mode
    BY <1>9
  <1> HIDE DEF r
  <1>11. \A k \in DOMAIN l : l[k].undo = "state"
    BY <1>2, <1>3 DEF Held, StatesOnly, t, l
  <1>12. /\ ~HasSort(l, "mode")
         /\ HasSort(l, "state") <=> l # <<>>
         /\ l # <<>> => Oldest(l, "state") = l[1]
    BY <1>2, <1>11, FirstOfStates
  <1>13. w.mode = p.mode /\ w.state = IF l = <<>> THEN p.state ELSE l[1].state
    BY <1>5, <1>12
  <1>14. \A i \in 1..(n - 1) : i \in DOMAIN t /\ f[i] = t[i]
    BY <1>2
  <1>15. StatesOnly(f)
    BY <1>2, <1>14 DEF Held, StatesOnly, t
  <1>16. Origin(f, w.state, q.state)
    <2>1. CASE p.state = q.state /\ \A i \in DOMAIN t : t[i] = <<>>
      BY <1>2, <1>3, <1>13, <1>14, <2>1 DEF Origin, l
    <2>2. ASSUME NEW i \in DOMAIN t, t[i] # <<>>, t[i][1].state = q.state,
                 \A j \in 1..(i - 1) : t[j] = <<>>
          PROVE  Origin(f, w.state, q.state)
      <3>1. CASE i = n
        <4>1. w.state = q.state
          BY <1>13, <2>2, <3>1 DEF l
        <4>2. \A j \in DOMAIN f : f[j] = <<>>
          BY <1>2, <1>14, <2>2, <3>1
        <4> QED BY <4>1, <4>2 DEF Origin
      <3>2. CASE i # n
        <4>1. i \in DOMAIN f /\ \A j \in 1..(i - 1) : j \in 1..(n - 1)
          BY <1>2, <2>2, <3>2
        <4>2. f[i] = t[i] /\ \A j \in 1..(i - 1) : f[j] = <<>>
          BY <1>2, <1>14, <2>2, <4>1
        <4> QED BY <2>2, <4>1, <4>2 DEF Origin
      <3> QED BY <3>1, <3>2
    <2> QED BY <2>1, <2>2 DEF Held, Origin, t
  <1>17. Held(r, q)
    BY <1>10, <1>13, <1>15, <1>16 DEF Held
  <1>18. r.trans = <<>> => Shown(r) = Shown(q) /\ r.undo = q.undo
    <2>1. DOMAIN <<>> = {}
      OBVIOUS
    <2>2. r.trans = <<>> => r.state = q.state
      BY <1>17, <2>1 DEF Held, Origin
    <2> QED BY <1>17, <2>2 DEF Held, Shown
  <1> QED BY <1>2, <1>10, <1>17, <1>18 DEF r, o, t, n

-----------------------------------------------------------------------------
(* The invariant. *)

\* The transactions to close: those open, and the one that the next
\* instruction opens.
Level == Len(pr.trans) + (IF Now.op = "begin" THEN 1 ELSE 0)

InTransaction ==
  /\ Framed(ctrl, Level)
  /\ Held(pr, call.pr)
  /\ Now.op = "focus" => Dirty(pr.trans)

\* The instructions that follow the save of the state
AfterSave(y) == y.op = "toGoals" \/ (y.op = "focus" /\ call.cmd \in {"Focus", "Subproof"})

\* The commands that run outside of any transaction, instruction by instruction
Outside ==
  /\ exn = "none"
  /\ pr.trans = <<>>
  /\ \/ /\ pr = call.pr
        /\ \E x, y : /\ ctrl = <<x, y>>
                     /\ \/ x.op = "save" /\ AfterSave(y)
                        \/ x.op = "saveMode" /\ y.op = "setMode"
     \/ \E x : /\ ctrl = <<x>>
               /\ \/ AfterSave(x) /\ pr = Pushed(call.pr, <<StateUndo(call.pr)>>)
                  \/ x.op = "setMode" /\ pr = Pushed(call.pr, <<ModeUndo(call.pr)>>)
                  \/ x.op \in {"instantiate", "grab", "undo"} /\ pr = call.pr
     \/ /\ \A i \in DOMAIN ctrl : ctrl[i].op = "pop"
        /\ Recalls(call.pr, pr)
        /\ Len(pr.undo) > Len(ctrl)

Answered ==
  /\ pr.trans = <<>>
  /\ exn # "none" => /\ Shown(pr) = Shown(call.pr)
                     /\ call.cmd \notin {"Focus", "Subproof"} => pr.undo = call.pr.undo
  /\ Recalls(pr, call.pr) \/ Recalls(call.pr, pr) \/ pr = NewProof

HistoryInv ==
  /\ Sane(call.pr)
  /\ call.pr.trans = <<>>
  /\ IF Idle THEN Answered ELSE InTransaction \/ Outside

-----------------------------------------------------------------------------
(* The sorts of steps in a transaction. *)

\* The instructions left, c, have d transactions to close, which are those open.
LEMMA GoesOn ==
  ASSUME HistoryInv, NEW C, NEW c \in Seq(C), c # <<>>,
         ctrl' = c, call' = call, Held(pr', call.pr),
         Framed(c, Len(pr'.trans) + (IF Head(c).op = "begin" THEN 1 ELSE 0)),
         Head(c).op = "focus" => Dirty(pr'.trans)
  PROVE  HistoryInv'
  <1>1. InTransaction'
    BY DEF InTransaction, Level, Now
  <1>2. ~Idle'
    BY DEF Idle
  <1> QED BY <1>1, <1>2 DEF HistoryInv

\* An exception is raised before c.
LEMMA FailsOn ==
  ASSUME HistoryInv, NEW C, NEW c \in Seq(C), NEW e, RaiseIn(c, e),
         call' = call, Sane(pr'), Held(pr', call.pr), Framed(c, Len(pr'.trans)),
         pr'.trans = <<>> => Shown(pr') = Shown(call.pr) /\ pr'.undo = call.pr.undo
  PROVE  HistoryInv'
  <1> DEFINE d == Len(pr'.trans)
  <1>1. PICK U : IsProof(pr', U)
    BY DEF Sane
  <1>2. d \in Nat /\ (pr'.trans = <<>> <=> d = 0)
    BY <1>1, EmptySeq, LenProperties DEF IsProof
  <1>3. ctrl' \in Seq(C)
    <2>1. \A h \in DOMAIN c : SubSeq(c, h, Len(c)) \in Seq(C)
      <3>1. ASSUME NEW h \in DOMAIN c PROVE SubSeq(c, h, Len(c)) \in Seq(C)
        <4>1. h \in Int /\ Len(c) \in Int /\ \A i \in h..Len(c) : i \in 1..Len(c)
          BY LenProperties
        <4>2. \A i \in h..Len(c) : c[i] \in C
          BY <4>1, ElementOfSeq
        <4> QED BY <4>1, <4>2, SubSeqProperties
      <3> QED BY <3>1
    <2> QED BY <2>1, EmptySeq DEF RaiseIn
  <1>4. /\ Framed(ctrl', d)
        /\ ctrl' # <<>> => Head(ctrl').op \notin {"begin", "focus"}
    BY FrameRaise
  <1>5. ctrl' = <<>> <=> d = 0
    BY <1>3, <1>4, FrameEnds
  <1>6. CASE ctrl' = <<>>
    <2>1. Recalls(pr', call.pr)
      BY <1>1, <1>2, <1>5, <1>6, RecallsItself
    <2>2. Answered'
      BY <1>2, <1>5, <1>6, <2>1 DEF Answered
    <2> QED BY <1>6, <2>2 DEF HistoryInv, Idle
  <1>7. CASE ctrl' # <<>>
    <2> DEFINE c2 == ctrl'
    <2> HIDE DEF d
    <2>1. d + (IF Head(c2).op = "begin" THEN 1 ELSE 0) = d
      <3>1. d + 0 = d
        BY <1>2
      <3> QED BY <1>4, <1>7, <3>1
    <2>2. Framed(c2, d + (IF Head(c2).op = "begin" THEN 1 ELSE 0))
      BY <1>4, <2>1
    <2> QED BY <1>3, <1>4, <1>7, <2>2, GoesOn DEF d
  <1> QED BY <1>6, <1>7

\* What a running transaction is.
LEMMA Inside ==
  ASSUME SaveInv, HistoryInv, ~Idle, InTransaction
  PROVE  /\ Held(pr, call.pr)
         /\ \E U : IsUndo(U) /\ IsProof(pr, U)
         /\ \E C : ctrl \in Seq(C) /\ Rest \in Seq(C)
         /\ Len(pr.trans) \in Nat
         /\ Now.op # "begin" => /\ pr.trans # <<>> /\ Framed(ctrl, Len(pr.trans))
                                /\ Level = Len(pr.trans)
         /\ Now.op # "commit" => Framed(Rest, Level) /\ Rest # <<>>
         /\ Now.op = "commit" => Framed(Rest, Len(pr.trans) - 1)
         /\ Now.op # "save" => Clear(Rest)
         /\ Rest # <<>> => Head(Rest).op # "begin"
         /\ Rest # <<>> /\ Now.op # "save" => Head(Rest).op # "focus"
  <1>1. PICK U : IsUndo(U) /\ IsProof(pr, U)
    BY DEF SaveInv, Sane
  <1>2. Len(pr.trans) \in Nat /\ (pr.trans = <<>> <=> Len(pr.trans) = 0)
    BY <1>1, EmptySeq, LenProperties DEF IsProof
  <1>3. PICK C : ctrl \in Seq(C)
    BY DEF SaveInv, Control, Body
  <1>4. ctrl # <<>> /\ Framed(ctrl, Level)
    BY DEF Idle, InTransaction
  <1>5. Level # 0
    BY <1>3, <1>4, FrameEnds
  <1>6. /\ Rest \in Seq(C)
        /\ Now.op # "commit" => Framed(Rest, Level)
        /\ Now.op = "commit" => Framed(Rest, Level - 1)
        /\ Now.op # "save" => Clear(Rest)
        /\ \A i \in DOMAIN Rest : Rest[i].op # "begin"
    BY <1>3, <1>4, FrameTail DEF Rest, Now
  <1>7. Now.op # "begin" => Level = Len(pr.trans)
    BY <1>2 DEF Level
  <1>8. Now.op # "commit" => Rest # <<>>
    BY <1>5, <1>6, FrameEnds
  <1>9. Rest # <<>> => 1 \in DOMAIN Rest /\ Head(Rest) = Rest[1]
    BY <1>6, EmptySeq, LenProperties
  <1>10. Held(pr, call.pr)
    BY DEF InTransaction
  <1> QED BY <1>1, <1>2, <1>3, <1>4, <1>5, <1>6, <1>7, <1>8, <1>9, <1>10 DEF Clear

\* An instruction that is done
LEMMA DoesInside ==
  ASSUME SaveInv, HistoryInv, ~Idle, InTransaction, Now.op # "commit",
         NEW p, Do(p), Held(p, call.pr), Len(p.trans) = Level,
         Now.op = "save" => Dirty(p.trans)
  PROVE  HistoryInv'
  <1>1. pr' = p /\ ctrl' = Rest /\ call' = call
    BY DEF Do, Continue
  <1>2. PICK C : Rest \in Seq(C)
    BY Inside
  <1>3. /\ Rest # <<>> /\ Framed(Rest, Level)
        /\ Head(Rest).op # "begin" /\ (Now.op # "save" => Head(Rest).op # "focus")
    BY Inside
  <1>4. Len(pr.trans) \in Nat
    BY Inside
  <1>5. Level + 0 = Level
    BY <1>4 DEF Level
  <1>6. Framed(Rest, Len(pr'.trans) + (IF Head(Rest).op = "begin" THEN 1 ELSE 0))
    BY <1>1, <1>3, <1>5
  <1> QED BY <1>1, <1>2, <1>3, <1>6, GoesOn

\* The same for an instruction that opens no transaction
LEMMA DoneInside ==
  ASSUME SaveInv, HistoryInv, ~Idle, InTransaction, Now.op \notin {"commit", "begin", "save"},
         NEW p, Do(p), Held(p, call.pr), Len(p.trans) = Len(pr.trans)
  PROVE  HistoryInv'
  <1>1. Level = Len(pr.trans)
    BY Inside
  <1> QED BY <1>1, DoesInside

\* An instruction that fails
LEMMA RaisesInside ==
  ASSUME SaveInv, HistoryInv, ~Idle, InTransaction, Now.op # "begin", NEW e, Raise(e)
  PROVE  HistoryInv'
  <1>1. PICK C : ctrl \in Seq(C)
    BY Inside
  <1>2. pr' = pr /\ call' = call /\ RaiseIn(ctrl, e)
    BY DEF Raise
  <1>3. Framed(ctrl, Len(pr'.trans)) /\ pr'.trans # <<>> /\ Held(pr', call.pr) /\ Sane(pr')
    BY <1>2, Inside DEF SaveInv
  <1> QED BY <1>1, <1>2, <1>3, FailsOn

\* An instruction that amounts to others
LEMMA ExpandsInside ==
  ASSUME SaveInv, HistoryInv, ~Idle, InTransaction, Now.op \notin {"begin", "save", "commit"},
         NEW B, NEW b \in Seq(B), b # <<>>, Ordered(b), \A i \in DOMAIN b : b[i].op # "commit",
         b[1].op \notin {"begin", "focus"},
         Continue(b \o Rest), Held(pr', call.pr), Len(pr'.trans) = Len(pr.trans)
  PROVE  HistoryInv'
  <1>1. PICK C : Rest \in Seq(C)
    BY Inside
  <1> DEFINE D == B \union C
             c == b \o Rest
             d == Len(pr.trans)
  <1>2. b \in Seq(D) /\ Rest \in Seq(D)
    BY <1>1, SeqMonotonic
  <1> HIDE DEF D
  <1>3. Rest # <<>> /\ Framed(Rest, d) /\ Clear(Rest) /\ d \in Nat
    <2>1. Rest # <<>> /\ Framed(Rest, Level) /\ Clear(Rest) /\ d \in Nat
      BY Inside
    <2>2. Level = d
      BY Inside
    <2> QED BY <2>1, <2>2
  <1>4. c \in Seq(D) /\ Framed(c, d)
    BY <1>2, <1>3, FrameBefore
  <1>5. c # <<>> /\ Head(c) = b[1]
    <2>1. Len(b) \in Nat \ {0} /\ Len(Rest) \in Nat
      BY <1>2, EmptySeq, LenProperties
    <2>2. Len(c) = Len(b) + Len(Rest) /\ c[1] = b[1]
      <3>1. 1 \in 1 .. Len(b) + Len(Rest) /\ 1 <= Len(b)
        BY <2>1
      <3> QED BY <1>2, <3>1, ConcatProperties
    <2>3. c # <<>>
      BY <2>1, <2>2, EmptySeq
    <2> HIDE DEF c
    <2> QED BY <1>4, <2>2, <2>3
  <1>6. ctrl' = c /\ call' = call
    BY DEF Continue
  <1> HIDE DEF c
  <1>7. Framed(c, Len(pr'.trans) + (IF Head(c).op = "begin" THEN 1 ELSE 0))
    <2>1. Len(pr'.trans) + (IF Head(c).op = "begin" THEN 1 ELSE 0) = d
      <3>1. d + 0 = d /\ Len(pr'.trans) = d
        BY <1>3
      <3> QED BY <1>5, <3>1
    <2> QED BY <1>4, <2>1
  <1> QED BY <1>4, <1>5, <1>6, <1>7, GoesOn

\* An instruction that opens a transaction, before c
LEMMA OpensBefore ==
  ASSUME SaveInv, HistoryInv, NEW B, NEW b \in Seq(B), NEW C, NEW c \in Seq(C),
         Framed(c, Len(pr.trans)), Clear(c), Held(pr, call'.pr),
         \A i \in DOMAIN b : b[i].op \in TransactionOps \ {"begin", "commit", "focus"},
         ctrl' = Transaction(b) \o c, pr' = pr, Sane(call'.pr), call'.pr.trans = <<>>
  PROVE  HistoryInv'
  <1> DEFINE D == (B \union C) \union {Op("begin"), Op("commit")}
             e == Transaction(b) \o c
  <1>1. b \in Seq(D) /\ c \in Seq(D) /\ Op("begin") \in D /\ Op("commit") \in D
    BY SeqMonotonic
  <1> HIDE DEF D
  <1>2. e # <<>> /\ Head(e) = Op("begin") /\ Framed(e, Len(pr.trans) + 1)
    BY <1>1, FrameTransaction
  <1> HIDE DEF e
  <1>3. Op("begin").op = "begin"
    BY DEF Op
  <1>4. ctrl' = e
    BY DEF e
  <1>5. InTransaction'
    BY <1>2, <1>3, <1>4 DEF InTransaction, Level, Now
  <1>6. ~Idle'
    BY <1>2, <1>4 DEF Idle
  <1> QED BY <1>5, <1>6 DEF HistoryInv

\* An instruction that amounts to a transaction, after which it may come again
LEMMA OpensInside ==
  ASSUME SaveInv, HistoryInv, ~Idle, InTransaction,
         Now.op \notin {"begin", "save", "commit", "focus"},
         NEW B, NEW b \in Seq(B),
         \A i \in DOMAIN b : b[i].op \in TransactionOps \ {"begin", "commit", "focus"},
         NEW more, more \in {<<>>, <<Now>>}, Expand(Transaction(b) \o more)
  PROVE  HistoryInv'
  <1>1. PICK C : ctrl \in Seq(C) /\ Rest \in Seq(C)
    BY Inside
  <1> DEFINE D == (B \union C) \union {Op("begin"), Op("commit")}
             d == Len(pr.trans)
             t == Transaction(b)
             c == more \o Rest
  <1>2. ctrl \in Seq(D) /\ Rest \in Seq(D) /\ b \in Seq(D) /\ Op("begin") \in D /\ Op("commit") \in D
    BY <1>1, SeqMonotonic
  <1> HIDE DEF D
  <1>3. Now \in D /\ Now.op \in TransactionOps
    <2>1. ctrl # <<>> /\ Framed(ctrl, Level)
      BY DEF Idle, InTransaction
    <2>2. 1 \in DOMAIN ctrl /\ Head(ctrl) = ctrl[1] /\ Head(ctrl) \in D
      BY <1>2, <2>1, EmptySeq, LenProperties, HeadTailProperties
    <2> QED BY <2>1, <2>2 DEF Framed, Ordered, Now
  <1>4. Rest # <<>> /\ Framed(Rest, d) /\ Clear(Rest)
    <2>1. Rest # <<>> /\ Framed(Rest, Level) /\ Clear(Rest) /\ Level = d
      BY Inside
    <2> QED BY <2>1
  <1>5. c \in Seq(D) /\ Framed(c, d) /\ Clear(c)
    <2>1. CASE more = <<>>
      BY <1>2, <1>4, <2>1, ConcatEmptySeq
    <2>2. CASE more = <<Now>>
      <3> DEFINE l == <<Now>>
      <3>1. l \in Seq(D) /\ DOMAIN l = {1} /\ l[1] = Now
        BY <1>3
      <3> HIDE DEF l
      <3>2. Ordered(l) /\ Clear(l) /\ \A i \in DOMAIN l : l[i].op # "commit"
        BY <1>3, <3>1 DEF Ordered, Clear
      <3>3. l \o Rest \in Seq(D) /\ Framed(l \o Rest, d) /\ Clear(l \o Rest)
        BY <1>2, <1>4, <3>1, <3>2, FrameBefore
      <3> QED BY <2>2, <3>3 DEF l
    <2> QED BY <2>1, <2>2
  <1>6. more \in Seq(D)
    <2>1. <<>> \in Seq(D)
      OBVIOUS
    <2>2. <<Now>> \in Seq(D)
      BY <1>3
    <2> QED BY <2>1, <2>2
  <1>7. t \in Seq(D)
    BY <1>2, TransactionList
  <1> HIDE DEF t, d
  <1>8. (t \o more) \o Rest = t \o c
    <2>1. \A x, y, z \in Seq(D) : (x \o y) \o z = x \o (y \o z)
      BY ConcatAssociative
    <2> QED BY <1>2, <1>6, <1>7, <2>1, Zenon
  <1>9. ctrl' = t \o c /\ pr' = pr /\ call' = call
    BY <1>8 DEF Expand, Continue, t
  <1>10. Held(pr, call'.pr) /\ Sane(call'.pr) /\ call'.pr.trans = <<>>
    BY <1>9 DEF HistoryInv, InTransaction
  <1> HIDE DEF c
  <1> QED BY <1>2, <1>5, <1>9, <1>10, OpensBefore DEF t, d

LEMMA BeginsInside ==
  ASSUME SaveInv, HistoryInv, InTransaction, Begin
  PROVE  HistoryInv'
  <1>1. ~Idle /\ Now.op = "begin" /\ Do([pr EXCEPT !.trans = Append(@, <<>>)])
    BY DEF Begin, Running, Now
  <1> DEFINE p == [pr EXCEPT !.trans = Append(@, <<>>)]
  <1>2. PICK U : IsProof(pr, U)
    BY DEF SaveInv, Sane
  <1>3. Held(p, call.pr) /\ Len(p.trans) = Len(pr.trans) + 1
    BY <1>2, HeldBegins DEF InTransaction
  <1>4. Level = Len(pr.trans) + 1
    BY <1>1 DEF Level
  <1> HIDE DEF p
  <1> QED BY <1>1, <1>3, <1>4, DoesInside DEF p

LEMMA CommitsInside ==
  ASSUME SaveInv, HistoryInv, InTransaction, Commit
  PROVE  HistoryInv'
  <1> DEFINE p == Committed(pr, Len(Last(pr.trans)))
  <1>1. ~Idle /\ exn = "none" /\ Now.op = "commit" /\ pr.trans # <<>> /\ Do(p)
    BY DEF Commit, Running, Now
  <1>2. PICK U : IsUndo(U) /\ IsProof(pr, U)
    BY DEF SaveInv, Sane
  <1>3. /\ Len(p.trans) = Len(pr.trans) - 1
        /\ p.trans # <<>> => Held(p, call.pr)
        /\ p.trans = <<>> => Recalls(p, call.pr)
    BY <1>1, <1>2, HeldCommits DEF InTransaction
  <1>4. IsProof(p, U)
    <2>1. Len(Last(pr.trans)) \in 0..Len(Last(pr.trans))
      BY <1>1, <1>2, ClosedIsProof, LenProperties
    <2> QED BY <1>1, <1>2, <2>1, CommittedIsProof
  <1> HIDE DEF p
  <1>5. pr' = p /\ ctrl' = Rest /\ exn' = "none" /\ call' = call
    BY <1>1 DEF Do, Continue
  <1>6. PICK C : Rest \in Seq(C)
    BY <1>1, Inside
  <1>7. Framed(Rest, Len(p.trans)) /\ (Rest # <<>> => Head(Rest).op \notin {"begin", "focus"})
    BY <1>1, <1>3, Inside
  <1>8. Len(p.trans) \in Nat /\ (p.trans = <<>> <=> Len(p.trans) = 0)
    BY <1>4, EmptySeq, LenProperties DEF IsProof
  <1>9. Rest = <<>> <=> p.trans = <<>>
    BY <1>6, <1>7, <1>8, FrameEnds
  <1>10. CASE Rest = <<>>
    <2>1. Answered'
      BY <1>3, <1>5, <1>9, <1>10 DEF Answered
    <2> QED BY <1>5, <1>10, <2>1 DEF HistoryInv, Idle
  <1>11. CASE Rest # <<>>
    <2>1. Framed(Rest, Len(pr'.trans) + (IF Head(Rest).op = "begin" THEN 1 ELSE 0))
      <3> DEFINE d == Len(p.trans)
      <3> HIDE DEF d
      <3>1. d + 0 = d
        BY <1>8 DEF d
      <3> QED BY <1>5, <1>7, <1>11, <3>1 DEF d
    <2> QED BY <1>3, <1>5, <1>6, <1>7, <1>9, <1>11, <2>1, GoesOn
  <1> QED BY <1>10, <1>11

\* The instructions that save the state before they change it, and a focus,
\* which relies on the instruction before it to have done so
LEMMA StepsInside ==
  ASSUME SaveInv, HistoryInv, InTransaction, Save \/ Tactic \/ FocusStep \/ UnfocusStep
  PROVE  HistoryInv'
  <1>1. PICK U : IsUndo(U) /\ IsProof(pr, U)
    BY DEF SaveInv, Sane
  <1>2. Held(pr, call.pr)
    BY DEF InTransaction
  <1>3. /\ ~Idle /\ exn = "none"
        /\ Save => Now.op = "save"
        /\ Tactic => Now.op = "tactic"
        /\ FocusStep => Now.op = "focus"
        /\ UnfocusStep => Now.op = "unfocus"
    BY DEF Save, Tactic, FocusStep, UnfocusStep, Running, Now
  <1>4. pr.trans # <<>> /\ Level = Len(pr.trans)
    BY <1>3, Inside
  <1>5. ASSUME NEW s
        PROVE  /\ Held(Step(s), call.pr) /\ Len(Step(s).trans) = Len(pr.trans)
               /\ Dirty(Step(s).trans)
    BY <1>1, <1>2, <1>4, HeldSteps DEF Step, WithState
  <1>6. CASE Save
    <2>1. [pr EXCEPT !.state = pr.state] = pr
      BY <1>1, WithField DEF IsProof
    <2>2. Pushed(pr, <<StateUndo(pr)>>) = Step(pr.state)
      BY <2>1 DEF Step, WithState
    <2>3. Do(Step(pr.state))
      BY <1>6, <2>2 DEF Save
    <2> QED BY <1>3, <1>4, <1>5, <1>6, <2>3, DoesInside
  <1>7. CASE Tactic
    <2>1. ASSUME NEW s, Do(Step(s)) PROVE HistoryInv'
      BY <1>3, <1>5, <1>7, <2>1, DoneInside
    <2>2. Raise("Error") \/ \E s : Do(Step(s))
      BY <1>7 DEF Tactic
    <2> QED BY <1>3, <1>7, <2>1, <2>2, RaisesInside
  <1>8. CASE FocusStep
    <2>1. Raise("Failure") \/ Raise("IndexOutOfRange") \/ \E s : Do(WithState(s))
      BY <1>8 DEF FocusStep
    <2>2. ASSUME NEW s, Do(WithState(s)) PROVE HistoryInv'
      <3>1. Dirty(pr.trans)
        BY <1>3, <1>8 DEF InTransaction
      <3>2. Held(WithState(s), call.pr) /\ WithState(s).trans = pr.trans
        BY <1>1, <1>2, <3>1, HeldMoves DEF WithState
      <3> QED BY <1>3, <1>8, <2>2, <3>2, DoneInside
    <2> QED BY <1>3, <1>8, <2>1, <2>2, RaisesInside
  <1>9. CASE UnfocusStep
    <2> DEFINE s == Unfocused(pr.state)
               b == <<Now, Op("relabel")>>
    <2>1. \/ \E e : Raise(e)
          \/ Do(Step(s))
          \/ pr' = Step(s) /\ Continue(b \o Rest)
      BY <1>9 DEF UnfocusStep
    <2>2. ASSUME NEW e, Raise(e) PROVE HistoryInv'
      BY <1>3, <1>9, <2>2, RaisesInside
    <2>3. CASE Do(Step(s))
      BY <1>3, <1>5, <1>9, <2>3, DoneInside
    <2>4. CASE pr' = Step(s) /\ Continue(b \o Rest)
      <3>1. Op("relabel").op = "relabel" /\ Now.op = "unfocus"
        BY <1>3, <1>9 DEF Op
      <3>2. b \in Seq({Now, Op("relabel")}) /\ DOMAIN b = {1, 2} /\ b[1] = Now
            /\ b[2] = Op("relabel") /\ b # <<>>
        OBVIOUS
      <3> HIDE DEF b
      <3>3. \A i \in DOMAIN b : b[i].op \in {"unfocus", "relabel"}
        BY <3>1, <3>2
      <3>4. Ordered(b)
        BY <3>3 DEF Ordered, TransactionOps
      <3>5. Held(pr', call.pr) /\ Len(pr'.trans) = Len(pr.trans)
        BY <1>5, <2>4
      <3> QED BY <1>3, <1>9, <2>4, <3>1, <3>2, <3>3, <3>4, <3>5, ExpandsInside
    <2> QED BY <2>1, <2>2, <2>3, <2>4
  <1> QED BY <1>6, <1>7, <1>8, <1>9

\* The instructions that put others before the rest of the command
LEMMA ListsInside ==
  ASSUME SaveInv, HistoryInv, InTransaction,
         Relabel \/ Maximal \/ PutBullet \/ PopBullet \/ PushBullet \/ Return
  PROVE  HistoryInv'
  <1>1. PICK U : IsUndo(U) /\ IsProof(pr, U)
    BY DEF SaveInv, Sane
  <1>2. Held(pr, call.pr)
    BY DEF InTransaction
  <1>3. /\ ~Idle /\ exn = "none"
        /\ Relabel => Now.op = "relabel"
        /\ Maximal => Now.op = "maximal"
        /\ PutBullet => Now.op = "put"
        /\ PopBullet => Now.op = "popUntil"
        /\ PushBullet => Now.op = "push"
        /\ Return => Now.op = "return"
    BY DEF Relabel, Maximal, PutBullet, PopBullet, PushBullet, Return, Running, Now
  <1>4. ASSUME Do(pr), Now.op \notin {"commit", "begin", "save"} PROVE HistoryInv'
    BY <1>2, <1>3, <1>4, DoneInside
  <1>5. ASSUME NEW kind, NEW more, more \in {<<>>, <<Now>>},
               Expand(Transaction(<<UnfocusOp(kind)>>) \o more),
               Now.op \notin {"begin", "save", "commit", "focus"}
        PROVE  HistoryInv'
    <2> DEFINE x == UnfocusOp(kind)
               b == <<x>>
    <2>1. x.op = "unfocus"
      BY DEF UnfocusOp
    <2>2. b \in Seq({x}) /\ DOMAIN b = {1} /\ b[1] = x
      OBVIOUS
    <2> HIDE DEF x, b
    <2>3. \A i \in DOMAIN b : b[i].op \in TransactionOps \ {"begin", "commit", "focus"}
      BY <2>1, <2>2 DEF TransactionOps
    <2>4. Expand(Transaction(b) \o more)
      BY <1>5 DEF b, x
    <2> QED BY <1>3, <1>5, <2>2, <2>3, <2>4, OpensInside
  <1>6. ASSUME NEW B, NEW b \in Seq(B), Expand(Transaction(b)) PROVE Expand(Transaction(b) \o <<>>)
    <2> DEFINE D == B \union {Op("begin"), Op("commit")}
    <2>1. b \in Seq(D) /\ Op("begin") \in D /\ Op("commit") \in D
      BY SeqMonotonic
    <2> HIDE DEF D
    <2>2. Transaction(b) \in Seq(D)
      BY <2>1, TransactionList
    <2> QED BY <1>6, <2>2, ConcatEmptySeq
  <1>7. CASE Relabel
    BY <1>3, <1>4, <1>7 DEF Relabel
  <1>8. CASE Maximal
    BY <1>3, <1>4, <1>5, <1>8 DEF Maximal
  <1>9. CASE PutBullet
    <2> DEFINE x == BulletOp("popUntil", Now.bullet)
               y == BulletOp("push", Now.bullet)
               b == <<x, y>>
               c == <<y>>
    <2>1. x.op = "popUntil" /\ y.op = "push"
      BY DEF BulletOp
    <2>2. /\ b \in Seq({x, y}) /\ DOMAIN b = {1, 2} /\ b[1] = x /\ b[2] = y
          /\ c \in Seq({y}) /\ DOMAIN c = {1} /\ c[1] = y /\ c # <<>>
      OBVIOUS
    <2>3. Raise("Failure") \/ Expand(Transaction(b)) \/ Expand(c)
      BY <1>9 DEF PutBullet, NoFocus
    <2> HIDE DEF x, y, b, c
    <2>4. CASE Raise("Failure")
      BY <1>3, <1>9, <2>4, RaisesInside
    <2>5. CASE Expand(Transaction(b))
      <3>1. \A i \in DOMAIN b : b[i].op \in TransactionOps \ {"begin", "commit", "focus"}
        BY <2>1, <2>2 DEF TransactionOps
      <3>2. Expand(Transaction(b) \o <<>>)
        BY <1>6, <2>2, <2>5
      <3> QED BY <1>3, <1>9, <2>2, <3>1, <3>2, OpensInside
    <2>6. CASE Expand(c)
      <3>1. Ordered(c) /\ \A i \in DOMAIN c : c[i].op # "commit"
        BY <2>1, <2>2 DEF Ordered, TransactionOps
      <3>2. pr' = pr /\ Continue(c \o Rest)
        BY <2>6 DEF Expand
      <3> QED BY <1>2, <1>3, <1>9, <2>1, <2>2, <3>1, <3>2, ExpandsInside
    <2> QED BY <2>3, <2>4, <2>5, <2>6
  <1>10. CASE PopBullet
    <2> DEFINE more == IF Head(GetBullets(pr.state)) = Now.bullet THEN <<>> ELSE <<Now>>
    <2>1. Expand(Transaction(<<UnfocusOp("bullet")>>) \o more)
      BY <1>10 DEF PopBullet
    <2>2. more \in {<<>>, <<Now>>}
      OBVIOUS
    <2> HIDE DEF more
    <2> QED BY <1>3, <1>5, <1>10, <2>1, <2>2
  <1>11. CASE PushBullet
    <2> DEFINE x == Op("save")
               y == FocusOp("bullet", <<Now.bullet>> \o GetBullets(pr.state), 1)
               b == <<x, y>>
    <2>1. x.op = "save" /\ y.op = "focus"
      BY DEF Op, FocusOp
    <2>2. pr' = pr /\ Continue(b \o Rest)
      BY <1>11 DEF PushBullet, Expand
    <2> HIDE DEF x, y
    <2>3. b \in Seq({x, y}) /\ DOMAIN b = {1, 2} /\ b[1] = x /\ b[2] = y /\ b # <<>>
      OBVIOUS
    <2> HIDE DEF b
    <2>4. Ordered(b) /\ \A i \in DOMAIN b : b[i].op # "commit"
      BY <2>1, <2>3 DEF Ordered, TransactionOps
    <2> QED BY <1>2, <1>3, <1>11, <2>1, <2>2, <2>3, <2>4, ExpandsInside
  <1>12. CASE Return
    <2> DEFINE b == <<UnfocusOp("end")>>
    <2>1. Raise("Error") \/ Expand(Transaction(b))
      BY <1>12 DEF Return
    <2>2. CASE Raise("Error")
      BY <1>3, <1>12, <2>2, RaisesInside
    <2>3. CASE Expand(Transaction(b))
      <3>1. b \in Seq({UnfocusOp("end")})
        OBVIOUS
      <3> HIDE DEF b
      <3>2. Expand(Transaction(b) \o <<>>)
        BY <1>6, <2>3, <3>1
      <3> QED BY <1>3, <1>5, <1>12, <3>2 DEF b
    <2> QED BY <2>1, <2>2, <2>3
  <1> QED BY <1>7, <1>8, <1>9, <1>10, <1>11, <1>12

\* The declaration starts another proof, which has nothing to undo.
LEMMA DeclaresInside ==
  ASSUME SaveInv, HistoryInv, InTransaction, Declare
  PROVE  HistoryInv'
  <1>1. ~Idle /\ exn = "none" /\ Now.op = "declare"
    BY DEF Declare, Running, Now
  <1>2. CASE Raise("Error")
    BY <1>1, <1>2, RaisesInside
  <1>3. CASE pr' = NewProof /\ ctrl' = <<>> /\ UNCHANGED <<exn, call>>
    <2>1. Answered'
      BY <1>1, <1>3 DEF Answered, NewProof
    <2> QED BY <1>3, <2>1 DEF HistoryInv, Idle
  <1> QED BY <1>2, <1>3 DEF Declare

LEMMA HandlersInside ==
  ASSUME SaveInv, HistoryInv, InTransaction, Rollback \/ Relabelled \/ MaximalEnds
  PROVE  HistoryInv'
  <1>1. PICK U : IsUndo(U) /\ IsProof(pr, U)
    BY DEF SaveInv, Sane
  <1>2. /\ ~Idle
        /\ Rollback => Now.op = "commit"
        /\ Relabelled => Now.op = "relabel"
        /\ MaximalEnds => Now.op = "maximal"
    BY DEF Rollback, Relabelled, MaximalEnds, Unwinding
  <1>3. PICK C : Rest \in Seq(C)
    BY <1>2, Inside
  <1>4. pr.trans # <<>> /\ Held(pr, call.pr)
    BY <1>2, Inside
  <1>5. CASE Rollback
    <2> DEFINE o == Popped(pr, Len(Visible(pr)))
               p == Closed(o)
    <2>1. pr' = p /\ RaiseIn(Rest, exn) /\ call' = call
      BY <1>4, <1>5 DEF Rollback
    <2>2. /\ Len(p.trans) = Len(pr.trans) - 1
          /\ Held(p, call.pr)
          /\ p.trans = <<>> => Shown(p) = Shown(call.pr) /\ p.undo = call.pr.undo
      BY <1>1, <1>4, HeldCloses
    <2>3. Sane(p)
      <3>1. Len(Visible(pr)) \in 0..Len(Visible(pr))
        BY <1>1, VisibleIsSeq, LenProperties
      <3>2. IsProof(o, U) /\ o.trans # <<>>
        BY <1>1, <1>4, <3>1, PoppedIsProof
      <3> QED BY <1>1, <3>2, ClosedIsProof DEF Sane
    <2> HIDE DEF p
    <2>4. Framed(Rest, Len(p.trans))
      BY <1>2, <1>5, <2>2, Inside
    <2> QED BY <1>3, <2>1, <2>2, <2>3, <2>4, FailsOn
  <1>6. ASSUME NEW e, RaiseIn(Rest, e), UNCHANGED <<pr, call>>,
               Now.op \in {"relabel", "maximal"}
        PROVE  HistoryInv'
    <2>1. Framed(Rest, Len(pr.trans))
      <3>1. Framed(Rest, Level) /\ Level = Len(pr.trans)
        BY <1>2, <1>6, Inside
      <3> QED BY <3>1
    <2> QED BY <1>3, <1>4, <1>6, <2>1, FailsOn DEF SaveInv
  <1>7. CASE Relabelled
    BY <1>2, <1>6, <1>7 DEF Relabelled
  <1>8. CASE MaximalEnds
    <2>1. \/ RaiseIn(Rest, exn) /\ UNCHANGED <<pr, call>>
          \/ ctrl' = Rest /\ UNCHANGED <<pr, call>>
      BY <1>8 DEF MaximalEnds
    <2>2. CASE ctrl' = Rest /\ UNCHANGED <<pr, call>>
      <3>1. /\ Rest # <<>> /\ Framed(Rest, Level) /\ Level = Len(pr.trans)
            /\ Head(Rest).op \notin {"begin", "focus"} /\ Len(pr.trans) \in Nat
        BY <1>2, <1>8, Inside
      <3>2. Framed(Rest, Len(pr'.trans) + (IF Head(Rest).op = "begin" THEN 1 ELSE 0))
        <4> DEFINE d == Len(pr.trans)
        <4>1. d + 0 = d
          BY <3>1
        <4> HIDE DEF d
        <4>2. Len(pr'.trans) = d /\ Framed(Rest, d)
          BY <2>2, <3>1 DEF d
        <4> QED BY <3>1, <4>1, <4>2
      <3> QED BY <1>3, <1>4, <2>2, <3>1, <3>2, GoesOn
    <2> QED BY <1>2, <1>6, <1>8, <2>1, <2>2
  <1> QED BY <1>5, <1>7, <1>8

-----------------------------------------------------------------------------
(* Outside of any transaction. *)

LEMMA Tuples ==
  ASSUME NEW x, NEW y
  PROVE  /\ <<x>> # <<>> /\ Head(<<x>>) = x /\ Tail(<<x>>) = <<>>
         /\ <<x, y>> # <<>> /\ Head(<<x, y>>) = x /\ Tail(<<x, y>>) = <<y>>
  OBVIOUS

LEMMA Dispatch ==
  ASSUME Instruction, exn = "none"
  PROVE  /\ ~Idle
         /\ Now.op = "save" => Save
         /\ Now.op = "saveMode" => SaveMode
         /\ Now.op = "setMode" => SetMode
         /\ Now.op = "undo" => UndoMany
         /\ Now.op = "pop" => Pop
         /\ Now.op = "instantiate" => Instantiate
         /\ Now.op = "grab" => GrabEvars
         /\ Now.op = "toGoals" => ToGoals
         /\ Now.op = "focus" => FocusStep
         /\ Now.op = "begin" => Begin
         /\ Now.op = "commit" => Commit
         /\ Now.op = "unfocus" => UnfocusStep
         /\ Now.op = "put" => PutBullet
         /\ Now.op = "popUntil" => PopBullet
         /\ Now.op = "push" => PushBullet
         /\ Now.op = "relabel" => Relabel
         /\ Now.op = "return" => Return
         /\ Now.op = "declare" => Declare
  <1>1. ~Rollback /\ ~Relabelled /\ ~MaximalEnds
    BY DEF Rollback, Relabelled, MaximalEnds, Unwinding
  <1>2. \A op : Running(op) => ~Idle /\ Now.op = op
    BY DEF Running, Now
  <1>3. /\ Begin => Running("begin")
        /\ Commit => Running("commit")
        /\ Save => Running("save")
        /\ SaveMode => Running("saveMode")
        /\ SetMode => Running("setMode")
        /\ UndoMany => Running("undo")
        /\ Pop => Running("pop")
        /\ Tactic => Running("tactic")
        /\ Instantiate => Running("instantiate")
        /\ GrabEvars => Running("grab")
        /\ ToGoals => Running("toGoals")
        /\ FocusStep => Running("focus")
        /\ UnfocusStep => Running("unfocus")
        /\ Relabel => Running("relabel")
        /\ Maximal => Running("maximal")
        /\ PutBullet => Running("put")
        /\ PopBullet => Running("popUntil")
        /\ PushBullet => Running("push")
        /\ Return => Running("return")
        /\ Declare => Running("declare")
    BY DEF Begin, Commit, Save, SaveMode, SetMode, UndoMany, Pop, Tactic, Instantiate, GrabEvars,
           ToGoals, FocusStep, UnfocusStep, Relabel, Maximal, PutBullet, PopBullet, PushBullet,
           Return, Declare
  <1>4. \/ Running("begin") /\ Begin
        \/ Running("commit") /\ Commit
        \/ Running("save") /\ Save
        \/ Running("saveMode") /\ SaveMode
        \/ Running("setMode") /\ SetMode
        \/ Running("undo") /\ UndoMany
        \/ Running("pop") /\ Pop
        \/ Running("tactic") /\ Tactic
        \/ Running("instantiate") /\ Instantiate
        \/ Running("grab") /\ GrabEvars
        \/ Running("toGoals") /\ ToGoals
        \/ Running("focus") /\ FocusStep
        \/ Running("unfocus") /\ UnfocusStep
        \/ Running("relabel") /\ Relabel
        \/ Running("maximal") /\ Maximal
        \/ Running("put") /\ PutBullet
        \/ Running("popUntil") /\ PopBullet
        \/ Running("push") /\ PushBullet
        \/ Running("return") /\ Return
        \/ Running("declare") /\ Declare
    BY <1>1, <1>3 DEF Instruction
  <1> HIDE DEF Now
  <1> QED BY <1>2, <1>4

\* q with the actions es recorded, outside of any transaction
Recorded(q, es) ==
  [state |-> q.state, undo |-> q.undo \o es, trans |-> <<>>, mode |-> q.mode]

LEMMA RecordedFields ==
  ASSUME NEW q, NEW es
  PROVE  LET r == Recorded(q, es)
         IN  r.state = q.state /\ r.undo = q.undo \o es /\ r.trans = <<>> /\ r.mode = q.mode
  BY DEF Recorded

LEMMA PushedOutside ==
  ASSUME NEW U, NEW q, IsProof(q, U), q.trans = <<>>, NEW es, NEW r, r = Pushed(q, es)
  PROVE  /\ r = Recorded(q, es)
         /\ r.state = q.state /\ r.undo = q.undo \o es /\ r.trans = <<>> /\ r.mode = q.mode
  <1> DEFINE u == q.undo \o es
  <1>1. q = [state |-> q.state, undo |-> q.undo, trans |-> <<>>, mode |-> q.mode]
    BY DEF IsProof
  <1>2. r = [q EXCEPT !.undo = u]
    BY <1>1 DEF Pushed
  <1> HIDE DEF u
  <1>3. r = [state |-> q.state, undo |-> u, trans |-> <<>>, mode |-> q.mode]
    BY <1>1, <1>2
  <1>4. r.state = q.state /\ r.undo = u /\ r.trans = <<>> /\ r.mode = q.mode
    BY <1>3
  <1> QED BY <1>3, <1>4 DEF u, Recorded

\* One action recorded is enough to come back, whatever has changed that it
\* restores.
LEMMA RecallsOneAction ==
  ASSUME NEW U, IsUndo(U), NEW q, IsProof(q, U), q.trans = <<>>, NEW p, NEW x,
         p = [state |-> p.state, undo |-> q.undo \o <<x>>, trans |-> <<>>, mode |-> p.mode],
         IsState(p.state),
         \/ x = StateUndo(q) /\ p.mode = q.mode
         \/ x = ModeUndo(q) /\ p.state = q.state
  PROVE  Recalls(p, q)
  <1> DEFINE V == U \union {x}
             es == <<x>>
             a == q.undo
  <1>1. a \in Seq(V) /\ es \in Seq(V) /\ x \in V
    <2>1. U \subseteq V /\ Seq(U) \subseteq Seq(V)
      BY SeqMonotonic
    <2>2. es \in Seq(V)
      OBVIOUS
    <2> QED BY <2>1, <2>2 DEF IsProof
  <1>2. DOMAIN es = {1} /\ es[1] = x
    OBVIOUS
  <1>3. p.undo = a \o es /\ p.trans = <<>>
    OBVIOUS
  <1>4. <<>> \in Seq(Seq(V))
    OBVIOUS
  <1> HIDE DEF V, es, a
  <1>5. a \o es \in Seq(V)
    BY <1>1, ConcatProperties
  <1>6. IsProof(p, V)
    BY <1>3, <1>4, <1>5 DEF IsProof, a, es
  <1>7. \A sort : HasSort(es, sort) <=> x.undo = sort
    BY <1>2 DEF HasSort
  <1>8. \A sort : x.undo = sort => Oldest(es, sort) = x
    <2>1. \A j \in 1..(1 - 1) : FALSE
      OBVIOUS
    <2> QED BY <1>1, <1>2, <2>1, OldestIs
  <1>9. /\ Rewound(p, es).state = IF HasSort(es, "state") THEN Oldest(es, "state").state ELSE p.state
        /\ Rewound(p, es).mode = IF HasSort(es, "mode") THEN Oldest(es, "mode").mode ELSE p.mode
    BY <1>6, RewoundShows
  <1>10. Rewound(p, es).state = q.state /\ Rewound(p, es).mode = q.mode
    <2>1. CASE x = StateUndo(q) /\ p.mode = q.mode
      <3>1. x.undo = "state" /\ x.state = q.state
        BY <2>1 DEF StateUndo
      <3> QED BY <1>7, <1>8, <1>9, <2>1, <3>1
    <2>2. CASE x = ModeUndo(q) /\ p.state = q.state
      <3>1. x.undo = "mode" /\ x.mode = q.mode
        BY <2>2 DEF ModeUndo
      <3> QED BY <1>7, <1>8, <1>9, <2>2, <3>1
    <2> QED BY <2>1, <2>2
  <1>11. Shown(q) = Shown(Rewound(p, es))
    BY <1>10 DEF Shown
  <1> QED BY <1>1, <1>3, <1>6, <1>11, RecallsWhatWasAdded DEF a

\* One pop more
LEMMA RecalledByPop ==
  ASSUME NEW V, IsUndo(V), NEW q, IsProof(q, V), NEW U, NEW p, IsProof(p, U),
         p.trans = <<>>, p.undo # <<>>, Recalls(q, p)
  PROVE  LET r == Popped(p, 1)
         IN  /\ r.trans = <<>> /\ Len(r.undo) = Len(p.undo) - 1
             /\ Recalls(q, r)
  <1> DEFINE h == q.undo
             m == Len(h)
  <1>1. PICK k \in 0..m : p.undo = SubSeq(h, 1, k)
                          /\ Shown(p) = Shown(Rewound(q, SubSeq(h, k + 1, m)))
    BY DEF Recalls
  <1>2. h \in Seq(V) /\ m \in Nat
    BY LenProperties DEF IsProof
  <1> HIDE DEF h, m
  <1> DEFINE b == SubSeq(h, k + 1, m)
             a == SubSeq(h, k, k)
             w == SubSeq(h, 1, k - 1)
             r == Popped(p, 1)
  <1>3. \A i \in 1..m : h[i] \in V
    BY <1>2, ElementOfSeq DEF m
  <1>4. \A i, j \in 0 .. m + 1 : i >= 1 /\ j <= m => SubSeq(h, i, j) \in Seq(V)
    <2>1. ASSUME NEW i \in 0 .. m + 1, NEW j \in 0 .. m + 1, i >= 1, j <= m
          PROVE  SubSeq(h, i, j) \in Seq(V)
      <3>1. i \in Int /\ j \in Int /\ \A n \in i..j : n \in 1..m
        BY <1>2, <2>1
      <3>2. \A n \in i..j : h[n] \in V
        BY <1>3, <3>1
      <3> QED BY <3>1, <3>2, SubSeqProperties
    <2> QED BY <2>1
  <1>5. Len(p.undo) = k
    <2>1. \A i \in 1..k : h[i] \in V
      BY <1>2, <1>3
    <2>2. Len(SubSeq(h, 1, k)) = IF 1 <= k THEN k - 1 + 1 ELSE 0
      BY <2>1, SubSeqProperties
    <2> QED BY <1>1, <2>2
  <1>6. k \in 1..m
    <2>1. Len(p.undo) # 0
      BY EmptySeq DEF IsProof
    <2> QED BY <1>2, <1>5, <2>1
  <1>7. a \in Seq(V) /\ b \in Seq(V) /\ w \in Seq(V)
    <2>1. k \in Nat /\ k >= 1 /\ k <= m
      BY <1>2, <1>6
    <2>2. /\ k \in 0 .. m + 1 /\ k + 1 \in 0 .. m + 1 /\ k - 1 \in 0 .. m + 1 /\ m \in 0 .. m + 1
          /\ 1 \in 0 .. m + 1 /\ k + 1 >= 1 /\ 1 >= 1 /\ k - 1 <= m /\ m <= m
      BY <1>2, <2>1
    <2>3. SubSeq(h, k, k) \in Seq(V)
      BY <1>4, <2>1, <2>2, Zenon
    <2>4. SubSeq(h, k + 1, m) \in Seq(V)
      BY <1>4, <2>2, Zenon
    <2>5. SubSeq(h, 1, k - 1) \in Seq(V)
      BY <1>4, <2>2, Zenon
    <2> QED BY <2>3, <2>4, <2>5
  <1>8. a \o b = SubSeq(h, k, m)
    <2>1. k \in 1 .. Len(h) + 1 /\ k \in k - 1 .. Len(h) /\ m \in k .. Len(h)
      BY <1>2, <1>6 DEF m
    <2> QED BY <1>2, <2>1, ConcatAdjacentSubSeq
  <1>9. SubSeq(p.undo, 1, k - 1) = w /\ SubSeq(p.undo, k, k) = a /\ Len(w) = k - 1
    <2> DEFINE u == p.undo
    <2>1. u \in Seq(V) /\ Len(u) = k /\ \A i \in 1..k : u[i] = h[i]
      <3>1. (\A i \in 1..k : h[i] \in V) /\ k - 1 + 1 = k /\ 1 <= k
            /\ \A i \in 1..k : 1 + i - 1 = i
        BY <1>2, <1>3, <1>6
      <3>2. /\ SubSeq(h, 1, k) \in Seq(V)
            /\ \A i \in 1 .. k - 1 + 1 : SubSeq(h, 1, k)[i] = h[1 + i - 1]
        BY <3>1, SubSeqProperties
      <3> QED BY <1>1, <1>5, <3>1, <3>2
    <2> HIDE DEF u
    <2>2. \A i, j \in 1..k : /\ SubSeq(u, i, j) \in Seq(V) /\ SubSeq(h, i, j) \in Seq(V)
                             /\ Len(SubSeq(u, i, j)) = IF i <= j THEN j - i + 1 ELSE 0
                             /\ Len(SubSeq(h, i, j)) = IF i <= j THEN j - i + 1 ELSE 0
                             /\ \A n \in 1 .. j - i + 1 : SubSeq(u, i, j)[n] = SubSeq(h, i, j)[n]
      <3>1. ASSUME NEW i \in 1..k, NEW j \in 1..k
            PROVE  /\ SubSeq(u, i, j) \in Seq(V) /\ SubSeq(h, i, j) \in Seq(V)
                   /\ Len(SubSeq(u, i, j)) = IF i <= j THEN j - i + 1 ELSE 0
                   /\ Len(SubSeq(h, i, j)) = IF i <= j THEN j - i + 1 ELSE 0
                   /\ \A n \in 1 .. j - i + 1 : SubSeq(u, i, j)[n] = SubSeq(h, i, j)[n]
        <4>1. i \in Int /\ j \in Int /\ \A n \in i..j : n \in 1..m /\ n \in 1..k
          BY <1>2, <1>6
        <4>2. \A n \in i..j : h[n] \in V /\ u[n] \in V
          BY <1>3, <2>1, <4>1
        <4>3. \A n \in 1 .. j - i + 1 : i + n - 1 \in 1..k
          OBVIOUS
        <4> QED BY <2>1, <4>1, <4>2, <4>3, SubSeqProperties
      <3> QED BY <3>1
    <2>3. SubSeq(u, k, k) = SubSeq(h, k, k)
      <3>1. k \in 1..k /\ (IF k <= k THEN k - k + 1 ELSE 0) = 1 /\ k - k + 1 = 1
        BY <1>6
      <3>2. /\ SubSeq(u, k, k) \in Seq(V) /\ SubSeq(h, k, k) \in Seq(V)
            /\ Len(SubSeq(u, k, k)) = 1 /\ Len(SubSeq(h, k, k)) = 1
            /\ \A n \in 1..1 : SubSeq(u, k, k)[n] = SubSeq(h, k, k)[n]
        BY <2>2, <3>1
      <3> QED BY <3>2, SeqEqual
    <2>4. SubSeq(u, 1, k - 1) = SubSeq(h, 1, k - 1) /\ Len(SubSeq(h, 1, k - 1)) = k - 1
      <3>1. CASE k = 1
        <4>1. SubSeq(u, 1, 0) = <<>> /\ SubSeq(h, 1, 0) = <<>>
          BY SubSeqEmpty
        <4> QED BY <3>1, <4>1, EmptySeq
      <3>2. CASE k # 1
        <4>1. 1 \in 1..k /\ k - 1 \in 1..k /\ (k - 1) - 1 + 1 = k - 1 /\ 1 <= k - 1
          BY <1>6, <3>2
        <4>2. /\ SubSeq(u, 1, k - 1) \in Seq(V) /\ SubSeq(h, 1, k - 1) \in Seq(V)
              /\ Len(SubSeq(u, 1, k - 1)) = k - 1 /\ Len(SubSeq(h, 1, k - 1)) = k - 1
              /\ \A n \in 1 .. k - 1 : SubSeq(u, 1, k - 1)[n] = SubSeq(h, 1, k - 1)[n]
          BY <2>2, <4>1
        <4> QED BY <4>2, SeqEqual
      <3> QED BY <3>1, <3>2
    <2> QED BY <2>3, <2>4 DEF u
  <1>10. /\ r.undo = w /\ r.trans = <<>> /\ Shown(r) = Shown(Rewound(p, a))
    <2> DEFINE z == Rewound(p, a)
    <2>1. Visible(p) = p.undo /\ Len(p.undo) - 1 = k - 1 /\ (k - 1) + 1 = k
      BY <1>5, <1>6 DEF Visible
    <2>2. z.undo = p.undo /\ z.trans = <<>>
      BY RewoundShows
    <2>3. IsProof(p, U)
      OBVIOUS
    <2>4. z = [state |-> z.state, undo |-> z.undo, trans |-> z.trans, mode |-> z.mode]
      <3> DEFINE s == IF HasSort(a, "state") THEN Oldest(a, "state").state ELSE p.state
                 o == IF HasSort(a, "mode") THEN Oldest(a, "mode").mode ELSE p.mode
      <3>1. z = [p EXCEPT !.state = s, !.mode = o]
        BY DEF Rewound, IsProof
      <3> HIDE DEF s, o, z
      <3> QED BY <3>1 DEF IsProof
    <2>5. r = [z EXCEPT !.undo = SubSeq(@, 1, k - 1)]
      BY <1>5, <1>9, <2>1 DEF Popped
    <2> HIDE DEF z, r, w
    <2>6. r = [state |-> z.state, undo |-> w, trans |-> <<>>, mode |-> z.mode]
      BY <1>9, <2>2, <2>4, <2>5
    <2>7. r.state = z.state /\ r.undo = w /\ r.trans = <<>> /\ r.mode = z.mode
      BY <2>6
    <2> QED BY <2>7 DEF Shown, z
  <1>11. Shown(Rewound(q, a \o b)) = Shown(Rewound(p, a))
    <2>1. Shown(p) = Shown(Rewound(q, b))
      BY <1>1
    <2> HIDE DEF a, b
    <2> QED BY <1>7, <2>1, RewoundConcat
  <1> HIDE DEF a, b, w, r
  <1>12. Recalls(q, r)
    <2>1. k - 1 \in 0..m /\ (k - 1) + 1 = k
      BY <1>2, <1>6
    <2>2. r.undo = SubSeq(h, 1, k - 1) /\ Shown(r) = Shown(Rewound(q, SubSeq(h, (k - 1) + 1, m)))
      BY <1>8, <1>10, <1>11, <2>1 DEF w
    <2> QED BY <2>1, <2>2 DEF Recalls, h, m
  <1> QED BY <1>5, <1>9, <1>10, <1>12 DEF r

\* A list of one instruction that handles nothing
LEMMA RaisesOutside ==
  ASSUME NEW x, ctrl = <<x>>, ~IsHandler(x), NEW e, Raise(e)
  PROVE  pr' = pr /\ call' = call /\ ctrl' = <<>> /\ exn' = e
  <1>1. DOMAIN ctrl = {1} /\ ctrl[1] = x
    OBVIOUS
  <1>2. RaiseIn(ctrl, e) /\ pr' = pr /\ call' = call
    BY DEF Raise
  <1> QED BY <1>1, <1>2 DEF RaiseIn

\* A command that ends with an answer
LEMMA AnswersOutside ==
  ASSUME HistoryInv, ctrl' = <<>>, call' = call, exn' = "none", pr'.trans = <<>>,
         Recalls(pr', call.pr) \/ Recalls(call.pr, pr')
  PROVE  HistoryInv'
  BY DEF HistoryInv, Answered, Idle

LEMMA SavesOutside ==
  ASSUME SaveInv, HistoryInv, exn = "none", Instruction, pr = call.pr,
         NEW x, NEW y, ctrl = <<x, y>>,
         \/ x.op = "save" /\ AfterSave(y)
         \/ x.op = "saveMode" /\ y.op = "setMode"
  PROVE  HistoryInv'
  <1>1. Now = x /\ Rest = <<y>>
    BY Tuples DEF Now, Rest
  <1>2. PICK U : IsProof(pr, U)
    BY DEF SaveInv, Sane
  <1>3. pr.trans = <<>>
    BY DEF HistoryInv
  <1>4. \A u : Pushed(pr, <<u>>).trans = <<>>
    <2>1. ASSUME NEW u PROVE Pushed(pr, <<u>>).trans = <<>>
      <3> DEFINE es == <<u>>
                 r == Pushed(pr, es)
      <3>1. r = Pushed(pr, es)
        OBVIOUS
      <3> HIDE DEF es, r
      <3>2. r.trans = <<>>
        BY <1>2, <1>3, <3>1, PushedOutside
      <3> QED BY <3>2 DEF es, r
    <2> QED BY <2>1
  <1>5. ~Idle /\ (Now.op = "save" => Save) /\ (Now.op = "saveMode" => SaveMode)
    BY Dispatch
  <1>6. \/ AfterSave(y) /\ Do(Pushed(pr, <<StateUndo(pr)>>))
        \/ y.op = "setMode" /\ Do(Pushed(pr, <<ModeUndo(pr)>>))
    BY <1>1, <1>5 DEF Save, SaveMode
  <1>7. ctrl' = <<y>> /\ exn' = "none" /\ call' = call
    BY <1>1, <1>6 DEF Do, Continue
  <1>8. pr'.trans = <<>>
    BY <1>4, <1>6 DEF Do
  <1>9. \/ AfterSave(y)' /\ pr' = Pushed(call'.pr, <<StateUndo(call'.pr)>>)
        \/ y.op = "setMode" /\ pr' = Pushed(call'.pr, <<ModeUndo(call'.pr)>>)
    BY <1>6, <1>7 DEF Do, AfterSave
  <1>10. Outside'
    BY <1>7, <1>8, <1>9 DEF Outside
  <1> QED BY <1>7, <1>10, Tuples DEF HistoryInv, Idle

\* What follows the save of the state
LEMMA MovesOutside ==
  ASSUME SaveInv, HistoryInv, exn = "none", Instruction,
         NEW x, ctrl = <<x>>, AfterSave(x), pr = Pushed(call.pr, <<StateUndo(call.pr)>>)
  PROVE  HistoryInv'
  <1> DEFINE q == call.pr
  <1>1. Now = x /\ Rest = <<>>
    BY Tuples DEF Now, Rest
  <1>2. PICK U : IsUndo(U) /\ IsProof(q, U)
    BY DEF HistoryInv, Sane
  <1>3. q.trans = <<>>
    BY DEF HistoryInv
  <1>4. /\ pr = [state |-> q.state, undo |-> q.undo \o <<StateUndo(q)>>,
                 trans |-> <<>>, mode |-> q.mode]
        /\ pr.state = q.state /\ pr.undo = q.undo \o <<StateUndo(q)>>
        /\ pr.trans = <<>> /\ pr.mode = q.mode
    <2> DEFINE es == <<StateUndo(q)>>
    <2>1. pr = Pushed(q, es)
      OBVIOUS
    <2> HIDE DEF q, es
    <2>2. pr = Recorded(q, es)
      BY <1>2, <1>3, <2>1, PushedOutside
    <2>3. pr = [state |-> q.state, undo |-> q.undo \o es, trans |-> <<>>, mode |-> q.mode]
      BY <2>2 DEF Recorded
    <2>4. pr.state = q.state /\ pr.undo = q.undo \o es /\ pr.trans = <<>> /\ pr.mode = q.mode
      BY <2>3
    <2> QED BY <2>3, <2>4 DEF es
  <1>5. IsState(q.state)
    BY <1>2 DEF IsProof
  <1> HIDE DEF q
  <1>6. ASSUME NEW s, IsState(s)
        PROVE  WithState(s).trans = <<>> /\ Recalls(WithState(s), q)
    <2> DEFINE p == WithState(s)
               u == q.undo \o <<StateUndo(q)>>
    <2>1. pr.undo = u
      BY <1>4
    <2> HIDE DEF u
    <2>2. p = [state |-> s, undo |-> u, trans |-> <<>>, mode |-> q.mode]
      BY <1>4, <2>1, WithField DEF WithState
    <2> HIDE DEF p
    <2>3. p.state = s /\ p.undo = u /\ p.trans = <<>> /\ p.mode = q.mode
      BY <2>2
    <2>4. p = [state |-> p.state, undo |-> q.undo \o <<StateUndo(q)>>, trans |-> <<>>,
               mode |-> p.mode]
      BY <2>2, <2>3 DEF u
    <2>5. Recalls(p, q)
      BY <1>2, <1>3, <1>6, <2>3, <2>4, RecallsOneAction
    <2> QED BY <2>3, <2>5 DEF p
  <1>7. ASSUME NEW s, IsState(s), Do(WithState(s)) PROVE HistoryInv'
    <2>1. pr' = WithState(s) /\ ctrl' = <<>> /\ exn' = "none" /\ call' = call
      BY <1>1, <1>7 DEF Do, Continue
    <2>2. pr'.trans = <<>> /\ Recalls(pr', call.pr)
      BY <1>6, <1>7, <2>1 DEF q
    <2> QED BY <2>1, <2>2, AnswersOutside
  <1>8. (Now.op = "toGoals" => ToGoals) /\ (Now.op = "focus" => FocusStep)
    BY Dispatch
  <1>9. CASE x.op = "toGoals"
    <2> DEFINE s == pr.state
               g == Unsolved(s)
               c == SetToSeq(g)
               t == [s EXCEPT !.comb = c]
               v == [t EXCEPT !.goals = g, !.holes = {}]
    <2>1. Do(WithState([s EXCEPT !.comb = c, !.goals = g, !.holes = {}]))
      BY <1>1, <1>8, <1>9 DEF ToGoals
    <2> HIDE DEF g, c
    <2>2. IsState(t)
      BY <1>4, <1>5, WithComb
    <2>3. v = [t EXCEPT !.made = t.made, !.goals = g, !.holes = {}]
      <3> HIDE DEF t
      <3> QED BY <2>2 DEF IsState
    <2>4. IsState(v)
      <3> HIDE DEF t, v
      <3> QED BY <2>2, <2>3, WithEvars
    <2>5. v = [s EXCEPT !.comb = c, !.goals = g, !.holes = {}]
      BY <1>4, <1>5 DEF IsState
    <2> QED BY <1>7, <2>1, <2>4, <2>5
  <1>10. CASE x.op = "focus" /\ call.cmd \in {"Focus", "Subproof"}
    <2>1. \/ Do(WithState(Focused(pr.state, x.kind, x.bullets, x.i)))
          \/ Raise("Failure") \/ Raise("IndexOutOfRange")
      BY <1>1, <1>8, <1>10 DEF FocusStep
    <2>2. ASSUME NEW e, e # "none", Raise(e) PROVE HistoryInv'
      <3>1. pr' = pr /\ call' = call /\ ctrl' = <<>> /\ exn' = e
        BY <1>10, <2>2, RaisesOutside DEF IsHandler
      <3>2. Shown(pr) = Shown(q)
        BY <1>4 DEF Shown
      <3>3. Recalls(pr, q)
        BY <1>2, <1>3, <1>4, <1>5, RecallsOneAction
      <3>4. Answered'
        BY <1>4, <1>10, <3>1, <3>2, <3>3 DEF Answered, q
      <3> QED BY <3>1, <3>4 DEF HistoryInv, Idle
    <2>3. IsState(Focused(pr.state, x.kind, x.bullets, x.i))
      BY <1>4, <1>5, StatesAreRecords
    <2> QED BY <1>7, <2>1, <2>2, <2>3
  <1> QED BY <1>9, <1>10 DEF AfterSave

LEMMA SetsOutside ==
  ASSUME SaveInv, HistoryInv, exn = "none", Instruction,
         NEW x, ctrl = <<x>>, x.op = "setMode", pr = Pushed(call.pr, <<ModeUndo(call.pr)>>)
  PROVE  HistoryInv'
  <1> DEFINE q == call.pr
             u == q.undo \o <<ModeUndo(q)>>
             m == x.mode
             p == [pr EXCEPT !.mode = m]
  <1>1. Now = x /\ Rest = <<>>
    BY Tuples DEF Now, Rest
  <1>2. PICK U : IsUndo(U) /\ IsProof(q, U)
    BY DEF HistoryInv, Sane
  <1>3. q.trans = <<>> /\ IsState(q.state)
    BY <1>2 DEF HistoryInv, IsProof
  <1>4. /\ pr = [state |-> q.state, undo |-> u, trans |-> <<>>, mode |-> q.mode]
        /\ pr.state = q.state /\ pr.undo = u /\ pr.trans = <<>> /\ pr.mode = q.mode
    <2> DEFINE es == <<ModeUndo(q)>>
    <2>1. pr = Pushed(q, es)
      OBVIOUS
    <2> HIDE DEF q, es
    <2>2. pr = Recorded(q, es)
      BY <1>2, <1>3, <2>1, PushedOutside
    <2>3. pr = [state |-> q.state, undo |-> q.undo \o es, trans |-> <<>>, mode |-> q.mode]
      BY <2>2 DEF Recorded
    <2>4. pr.state = q.state /\ pr.undo = q.undo \o es /\ pr.trans = <<>> /\ pr.mode = q.mode
      BY <2>3
    <2> QED BY <2>3, <2>4 DEF es
  <1>5. SetMode
    BY <1>1, Dispatch
  <1>6. pr' = p /\ ctrl' = <<>> /\ exn' = "none" /\ call' = call
    BY <1>1, <1>5 DEF SetMode, Do, Continue
  <1> HIDE DEF q, u, m
  <1>7. p = [state |-> q.state, undo |-> u, trans |-> <<>>, mode |-> m]
    BY <1>4, WithField
  <1> HIDE DEF p
  <1>8. p.state = q.state /\ p.undo = u /\ p.trans = <<>> /\ p.mode = m
    BY <1>7
  <1>9. p = [state |-> p.state, undo |-> q.undo \o <<ModeUndo(q)>>, trans |-> <<>>, mode |-> p.mode]
    BY <1>7, <1>8 DEF u
  <1>10. Recalls(p, q)
    BY <1>2, <1>3, <1>8, <1>9, RecallsOneAction
  <1> QED BY <1>6, <1>8, <1>10, AnswersOutside DEF q

\* The commands that are one instruction
LEMMA StartsOutside ==
  ASSUME SaveInv, HistoryInv, exn = "none", Instruction,
         NEW x, ctrl = <<x>>, x.op \in {"instantiate", "grab", "undo"}, pr = call.pr
  PROVE  HistoryInv'
  <1>1. Now = x /\ Rest = <<>>
    BY Tuples DEF Now, Rest
  <1>2. PICK U : IsUndo(U) /\ IsProof(pr, U)
    BY DEF SaveInv, Sane
  <1>3. pr.trans = <<>> /\ IsState(pr.state)
    BY <1>2 DEF HistoryInv, IsProof
  <1>4. Recalls(pr, pr)
    BY <1>2, RecallsItself
  <1>5. ASSUME NEW e, e # "none", Raise(e) PROVE HistoryInv'
    <2>1. pr' = pr /\ call' = call /\ ctrl' = <<>> /\ exn' = e
      BY <1>5, RaisesOutside DEF IsHandler
    <2>2. Answered'
      BY <1>3, <1>4, <2>1 DEF Answered
    <2> QED BY <2>1, <2>2 DEF HistoryInv, Idle
  <1>6. ASSUME NEW s, IsState(s), Do(Step(s)) PROVE HistoryInv'
    <2> DEFINE w == WithState(s)
               y == StateUndo(pr)
               u == pr.undo \o <<y>>
               p == Pushed(w, <<y>>)
    <2>1. pr' = p /\ ctrl' = <<>> /\ exn' = "none" /\ call' = call
      BY <1>1, <1>6 DEF Do, Continue, Step
    <2> HIDE DEF y
    <2>2. w = [state |-> s, undo |-> pr.undo, trans |-> <<>>, mode |-> pr.mode]
      <3>1. pr = [state |-> pr.state, undo |-> pr.undo, trans |-> pr.trans, mode |-> pr.mode]
        BY <1>2 DEF IsProof
      <3>2. w = [state |-> s, undo |-> pr.undo, trans |-> pr.trans, mode |-> pr.mode]
        BY <3>1, WithField DEF WithState
      <3> QED BY <1>3, <3>2
    <2> HIDE DEF w
    <2>3. w.state = s /\ w.undo = pr.undo /\ w.trans = <<>> /\ w.mode = pr.mode
      BY <2>2
    <2>4. IsProof(w, U)
      BY <1>2, <1>3, <1>6, <2>2, <2>3 DEF IsProof
    <2>5. /\ p = [state |-> s, undo |-> u, trans |-> <<>>, mode |-> pr.mode]
          /\ p.state = s /\ p.undo = u /\ p.trans = <<>> /\ p.mode = pr.mode
      <3> DEFINE es == <<y>>
      <3>1. p = Pushed(w, es)
        OBVIOUS
      <3> HIDE DEF es, p, u
      <3>2. p = Recorded(w, es)
        BY <2>3, <2>4, <3>1, PushedOutside
      <3>3. w.undo \o es = u
        BY <2>3 DEF es, u
      <3> QED BY <2>3, <3>2, <3>3, RecordedFields DEF Recorded
    <2> HIDE DEF p
    <2>6. p = [state |-> p.state, undo |-> pr.undo \o <<y>>, trans |-> <<>>, mode |-> p.mode]
      BY <2>5
    <2>7. Recalls(p, pr)
      BY <1>2, <1>3, <1>6, <2>5, <2>6, RecallsOneAction DEF y
    <2> QED BY <2>1, <2>5, <2>7, AnswersOutside
  <1>7. /\ Now.op = "instantiate" => Instantiate
        /\ Now.op = "grab" => GrabEvars
        /\ Now.op = "undo" => UndoMany
    BY Dispatch
  <1>8. CASE x.op = "instantiate"
    <2>1. \/ Raise("Error")
          \/ \E e, h : Do(Step(Solving(pr.state, {e}, 0, h)))
      BY <1>1, <1>7, <1>8 DEF Instantiate
    <2>2. \A e, h : IsState(Solving(pr.state, {e}, 0, h))
      BY <1>3, StatesAreRecords
    <2> QED BY <1>5, <1>6, <2>1, <2>2
  <1>9. CASE x.op = "grab"
    <2>1. \/ Raise("Error")
          \/ Expand(<<Op("save"), Op("toGoals")>>)
      BY <1>1, <1>7, <1>9 DEF GrabEvars
    <2>2. CASE Expand(<<Op("save"), Op("toGoals")>>)
      <3> DEFINE a == Op("save")
                 b == Op("toGoals")
      <3>1. a.op = "save" /\ b.op = "toGoals"
        BY DEF Op
      <3> HIDE DEF a, b
      <3>2. <<a, b>> \o <<>> = <<a, b>>
        OBVIOUS
      <3>3. ctrl' = <<a, b>> /\ pr' = pr /\ exn' = "none" /\ call' = call
        BY <1>1, <2>2, <3>2 DEF Expand, Continue, a, b
      <3>4. Outside'
        BY <1>3, <3>1, <3>3 DEF Outside, AfterSave
      <3> QED BY <3>3, <3>4, Tuples DEF HistoryInv, Idle
    <2> QED BY <1>5, <2>1, <2>2
  <1>10. CASE x.op = "undo"
    <2> DEFINE n == x.n
               c == [i \in 1..n |-> Op("pop")]
    <2>1. n \in Nat
      <3>1. PICK C : ctrl \in Seq(C) /\ IsInstr(C)
        BY DEF SaveInv, Control, Body
      <3>2. 1 \in DOMAIN <<x>> /\ <<x>>[1] = x
        OBVIOUS
      <3>3. x \in C
        BY <3>1, <3>2, ElementOfSeq, LenProperties
      <3> QED BY <1>10, <3>1, <3>3 DEF IsInstr
    <2>2. IF n >= Len(pr.undo) THEN Raise("Error") ELSE Expand(c)
      BY <1>1, <1>7, <1>10 DEF UndoMany
    <2>3. CASE ~(n >= Len(pr.undo)) /\ Expand(c)
      <3>1. c \in Seq({Op("pop")}) /\ Len(c) = n /\ DOMAIN c = 1..n
        BY <2>1
      <3>2. \A i \in DOMAIN c : c[i].op = "pop"
        BY DEF Op
      <3> HIDE DEF c, n
      <3>3. c \o <<>> = c
        BY <3>1, ConcatEmptySeq
      <3>4. ctrl' = c /\ pr' = pr /\ exn' = "none" /\ call' = call
        BY <1>1, <2>3, <3>3 DEF Expand, Continue
      <3>5. Len(pr.undo) \in Nat /\ Len(pr.undo) > n
        BY <1>2, <2>1, <2>3, LenProperties DEF IsProof
      <3>6. CASE c = <<>>
        BY <1>3, <1>4, <3>4, <3>6, AnswersOutside
      <3>7. CASE c # <<>>
        <4>1. Outside'
          BY <1>3, <1>4, <3>1, <3>2, <3>4, <3>5 DEF Outside
        <4> QED BY <3>4, <3>7, <4>1 DEF HistoryInv, Idle
      <3> QED BY <3>6, <3>7
    <2> QED BY <1>5, <2>2, <2>3
  <1> QED BY <1>8, <1>9, <1>10

LEMMA PopsOutside ==
  ASSUME SaveInv, HistoryInv, ~Idle, exn = "none", Instruction, pr.trans = <<>>,
         \A i \in DOMAIN ctrl : ctrl[i].op = "pop", Recalls(call.pr, pr), Len(pr.undo) > Len(ctrl)
  PROVE  HistoryInv'
  <1>1. PICK U : IsUndo(U) /\ IsProof(pr, U)
    BY DEF SaveInv, Sane
  <1>2. PICK V : IsUndo(V) /\ IsProof(call.pr, V)
    BY DEF HistoryInv, Sane
  <1>3. PICK C : ctrl \in Seq(C)
    BY DEF SaveInv, Control, Body
  <1> DEFINE n == Len(ctrl)
             m == Len(pr.undo)
  <1>4. n \in Nat \ {0} /\ DOMAIN ctrl = 1..n /\ Head(ctrl) = ctrl[1] /\ m \in Nat /\ ctrl # <<>>
    BY <1>1, <1>3, EmptySeq, LenProperties DEF Idle, IsProof
  <1>5. Now.op = "pop"
    BY <1>4 DEF Now
  <1>6. pr.undo # <<>>
    BY <1>4, EmptySeq
  <1>7. Do(Popped(pr, 1))
    BY <1>5, <1>6, Dispatch DEF Pop, Visible
  <1> DEFINE r == Popped(pr, 1)
  <1>8. r.trans = <<>> /\ Len(r.undo) = m - 1 /\ Recalls(call.pr, r)
    BY <1>1, <1>2, <1>6, RecalledByPop
  <1>9. pr' = r /\ ctrl' = Rest /\ exn' = "none" /\ call' = call
    BY <1>7 DEF Do, Continue
  <1>10. Rest \in Seq(C) /\ Len(Rest) = n - 1 /\ \A i \in 1..(n - 1) : Rest[i] = ctrl[i + 1]
    BY <1>3, <1>4, HeadTailProperties DEF Rest
  <1>11. CASE Rest = <<>>
    BY <1>8, <1>9, <1>11, AnswersOutside
  <1>12. CASE Rest # <<>>
    <2>1. DOMAIN Rest = 1..(n - 1)
      BY <1>10, LenProperties
    <2> HIDE DEF r, n, m
    <2>2. \A i \in DOMAIN Rest : i + 1 \in DOMAIN ctrl /\ Rest[i] = ctrl[i + 1]
      BY <1>4, <1>10, <2>1
    <2>3. \A i \in DOMAIN Rest : Rest[i].op = "pop"
      BY <2>2
    <2>4. m - 1 > n - 1
      BY <1>4 DEF m, n
    <2>5. Outside'
      BY <1>8, <1>9, <1>10, <2>3, <2>4 DEF Outside
    <2> QED BY <1>9, <1>12, <2>5 DEF HistoryInv, Idle
  <1> QED BY <1>11, <1>12

LEMMA StepsOutside ==
  ASSUME SaveInv, HistoryInv, ~Idle, Outside, Instruction
  PROVE  HistoryInv'
  <1>1. exn = "none" /\ pr.trans = <<>>
    BY DEF Outside
  <1>2. CASE /\ pr = call.pr
             /\ \E x, y : /\ ctrl = <<x, y>>
                          /\ \/ x.op = "save" /\ AfterSave(y)
                             \/ x.op = "saveMode" /\ y.op = "setMode"
    BY <1>1, <1>2, SavesOutside
  <1>3. CASE \E x : /\ ctrl = <<x>>
                    /\ \/ AfterSave(x) /\ pr = Pushed(call.pr, <<StateUndo(call.pr)>>)
                       \/ x.op = "setMode" /\ pr = Pushed(call.pr, <<ModeUndo(call.pr)>>)
                       \/ x.op \in {"instantiate", "grab", "undo"} /\ pr = call.pr
    BY <1>1, <1>3, MovesOutside, SetsOutside, StartsOutside
  <1>4. CASE /\ \A i \in DOMAIN ctrl : ctrl[i].op = "pop"
             /\ Recalls(call.pr, pr)
             /\ Len(pr.undo) > Len(ctrl)
    BY <1>1, <1>4, PopsOutside
  <1> QED BY <1>2, <1>3, <1>4 DEF Outside

-----------------------------------------------------------------------------
(* Commands. *)

\* A command that is one transaction
LEMMA CallOpens ==
  ASSUME SaveInv, HistoryInv, NEW cmd, NEW B, NEW b \in Seq(B),
         \A i \in DOMAIN b : b[i].op \in TransactionOps \ {"begin", "commit", "focus"},
         Call(cmd, Transaction(b))
  PROVE  HistoryInv'
  <1>1. Idle /\ call' = [cmd |-> cmd, pr |-> pr] /\ ctrl' = Transaction(b) /\ pr' = pr
    BY DEF Call
  <1>2. pr.trans = <<>> /\ Sane(pr) /\ call'.pr = pr
    BY <1>1 DEF HistoryInv, Answered, SaveInv
  <1>3. Framed(<<>>, Len(pr.trans))
    <2>1. DOMAIN <<>> = {} /\ Len(<<>>) = 0 /\ 0 .. 0 - 1 = {}
      OBVIOUS
    <2>2. Commits(<<>>) = {}
      BY <2>1 DEF Commits
    <2>3. IsFiniteSet({}) /\ Cardinality({}) = 0
      BY FS_EmptySet
    <2> QED BY <1>2, <2>1, <2>2, <2>3 DEF Framed, Ordered
  <1>4. Held(pr, pr)
    <2>1. DOMAIN <<>> = {}
      OBVIOUS
    <2> QED BY <1>2, <2>1 DEF Held, StatesOnly, Origin
  <1>5. ctrl' = Transaction(b) \o <<>>
    <2> DEFINE D == B \union {Op("begin"), Op("commit")}
    <2>1. b \in Seq(D) /\ Op("begin") \in D /\ Op("commit") \in D
      BY SeqMonotonic
    <2> HIDE DEF D
    <2>2. Transaction(b) \in Seq(D)
      BY <2>1, TransactionList
    <2> QED BY <1>1, <2>2, ConcatEmptySeq
  <1>6. Clear(<<>>) /\ <<>> \in Seq(B)
    BY DEF Clear
  <1> QED BY <1>1, <1>2, <1>3, <1>4, <1>5, <1>6, OpensBefore

LEMMA CallGoesOutside ==
  ASSUME SaveInv, HistoryInv, NEW cmd, NEW b, b # <<>>, Call(cmd, b),
         \/ \E x, y : /\ b = <<x, y>>
                      /\ \/ x.op = "save" /\ y.op = "focus" /\ cmd \in {"Focus", "Subproof"}
                         \/ x.op = "saveMode" /\ y.op = "setMode"
         \/ \E x : b = <<x>> /\ x.op \in {"instantiate", "grab", "undo"}
  PROVE  HistoryInv'
  <1>1. /\ Idle /\ call' = [cmd |-> cmd, pr |-> pr] /\ ctrl' = b /\ pr' = pr /\ exn' = "none"
    BY DEF Call
  <1>2. pr.trans = <<>> /\ Sane(pr)
    BY <1>1 DEF HistoryInv, Answered, SaveInv
  <1>3. call'.pr = pr /\ call'.cmd = cmd
    BY <1>1
  <1>4. \/ /\ pr' = call'.pr
           /\ \E x, y : /\ ctrl' = <<x, y>>
                        /\ \/ x.op = "save" /\ AfterSave(y)'
                           \/ x.op = "saveMode" /\ y.op = "setMode"
        \/ \E x : /\ ctrl' = <<x>>
                  /\ x.op \in {"instantiate", "grab", "undo"} /\ pr' = call'.pr
    BY <1>1, <1>3 DEF AfterSave
  <1>5. Outside'
    BY <1>1, <1>2, <1>4 DEF Outside
  <1> QED BY <1>1, <1>2, <1>3, <1>5 DEF HistoryInv, Idle

LEMMA CommandsStart ==
  ASSUME SaveInv, HistoryInv, Command
  PROVE  HistoryInv'
  <1>1. /\ \A op : Op(op).op = op
        /\ \A kind : UnfocusOp(kind).op = "unfocus"
        /\ \A kind, bullets, i : FocusOp(kind, bullets, i).op = "focus"
        /\ \A op, b : BulletOp(op, b).op = op
        /\ \A n : [op |-> "tactic", goal |-> n].op = "tactic"
        /\ \A m : [op |-> "setMode", mode |-> m].op = "setMode"
        /\ \A n : [op |-> "undo", n |-> n].op = "undo"
    BY DEF Op, UnfocusOp, FocusOp, BulletOp
  <1>2. ASSUME NEW x, NEW cmd, Call(cmd, Transaction(<<x>>)), x.op \in {"unfocus", "put"}
        PROVE  HistoryInv'
    <2> DEFINE b == <<x>>
    <2>1. b \in Seq({x}) /\ DOMAIN b = {1} /\ b[1] = x
      OBVIOUS
    <2> HIDE DEF b
    <2>2. \A i \in DOMAIN b : b[i].op \in TransactionOps \ {"begin", "commit", "focus"}
      BY <1>2, <2>1 DEF TransactionOps
    <2>3. Call(cmd, Transaction(b))
      BY <1>2 DEF b
    <2> QED BY <2>1, <2>2, <2>3, CallOpens
  <1>3. ASSUME NEW x, NEW y, NEW cmd, Call(cmd, Transaction(<<x, y>>)),
               x.op \in {"tactic", "return"}, y.op \in {"maximal", "declare"}
        PROVE  HistoryInv'
    <2> DEFINE b == <<x, y>>
    <2>1. b \in Seq({x, y}) /\ DOMAIN b = {1, 2} /\ b[1] = x /\ b[2] = y
      OBVIOUS
    <2> HIDE DEF b
    <2>2. \A i \in DOMAIN b : b[i].op \in TransactionOps \ {"begin", "commit", "focus"}
      BY <1>3, <2>1 DEF TransactionOps
    <2>3. Call(cmd, Transaction(b))
      BY <1>3 DEF b
    <2> QED BY <2>1, <2>2, <2>3, CallOpens
  <1>4. ASSUME NEW x, NEW y, NEW cmd, Call(cmd, <<x, y>>),
               \/ x.op = "save" /\ y.op = "focus" /\ cmd \in {"Focus", "Subproof"}
               \/ x.op = "saveMode" /\ y.op = "setMode"
        PROVE  HistoryInv'
    <2>1. <<x, y>> # <<>>
      OBVIOUS
    <2> QED BY <1>4, <2>1, CallGoesOutside
  <1>5. ASSUME NEW x, NEW cmd, Call(cmd, <<x>>), x.op \in {"instantiate", "grab", "undo"}
        PROVE  HistoryInv'
    <2>1. <<x>> # <<>>
      OBVIOUS
    <2> QED BY <1>5, <2>1, CallGoesOutside
  <1>6. ASSUME NEW n, Solve(n) PROVE HistoryInv'
    BY <1>1, <1>3, <1>6 DEF Solve
  <1>7. ASSUME NEW n, FocusCommand(n) PROVE HistoryInv'
    BY <1>1, <1>4, <1>7 DEF FocusCommand
  <1>8. ASSUME Unfocus PROVE HistoryInv'
    BY <1>1, <1>2, <1>8 DEF Unfocus
  <1>9. ASSUME Subproof PROVE HistoryInv'
    BY <1>1, <1>4, <1>9 DEF Subproof
  <1>10. ASSUME EndSubproof PROVE HistoryInv'
    BY <1>1, <1>2, <1>10 DEF EndSubproof
  <1>11. ASSUME NEW b, Bullet(b) PROVE HistoryInv'
    BY <1>1, <1>2, <1>11 DEF Bullet
  <1>12. ASSUME SaveProof PROVE HistoryInv'
    BY <1>1, <1>3, <1>12 DEF SaveProof
  <1>13. ASSUME NEW m, ProofMode(m) PROVE HistoryInv'
    BY <1>1, <1>4, <1>13 DEF ProofMode
  <1>14. ASSUME Existential PROVE HistoryInv'
    BY <1>1, <1>5, <1>14 DEF Existential
  <1>15. ASSUME Grab PROVE HistoryInv'
    BY <1>1, <1>5, <1>15 DEF Grab
  <1>16. ASSUME NEW n, Undo(n) PROVE HistoryInv'
    BY <1>1, <1>5, <1>16 DEF Undo
  <1> QED BY <1>6, <1>7, <1>8, <1>9, <1>10, <1>11, <1>12, <1>13, <1>14, <1>15, <1>16 DEF Command

-----------------------------------------------------------------------------
(* The invariant holds. *)

LEMMA InstructionsKeep ==
  ASSUME SaveInv, HistoryInv, Instruction
  PROVE  HistoryInv'
  <1>1. ~Idle
    BY DEF Instruction, Begin, Commit, Save, SaveMode, SetMode, UndoMany, Pop, Tactic, Instantiate,
           GrabEvars, ToGoals, FocusStep, UnfocusStep, Relabel, Maximal, PutBullet, PopBullet,
           PushBullet, Return, Declare, Rollback, Relabelled, MaximalEnds, Running, Unwinding
  <1>2. CASE Outside
    BY <1>1, <1>2, StepsOutside
  <1>3. CASE InTransaction
    <2>1. Now.op \in TransactionOps
      <3>1. PICK C : ctrl \in Seq(C)
        BY DEF SaveInv, Control, Body
      <3>2. 1 \in DOMAIN ctrl /\ Now = ctrl[1]
        BY <1>1, <3>1, EmptySeq, LenProperties DEF Now, Idle
      <3> QED BY <1>3, <3>2 DEF InTransaction, Framed, Ordered
    <2>2. CASE Begin
      BY <1>3, <2>2, BeginsInside
    <2>3. CASE Commit
      BY <1>3, <2>3, CommitsInside
    <2>4. CASE Save \/ Tactic \/ FocusStep \/ UnfocusStep
      BY <1>3, <2>4, StepsInside
    <2>5. CASE Relabel \/ Maximal \/ PutBullet \/ PopBullet \/ PushBullet \/ Return
      BY <1>3, <2>5, ListsInside
    <2>6. CASE Declare
      BY <1>3, <2>6, DeclaresInside
    <2>7. CASE Rollback \/ Relabelled \/ MaximalEnds
      BY <1>3, <2>7, HandlersInside
    <2>8. CASE SaveMode \/ SetMode \/ UndoMany \/ Pop \/ Instantiate \/ GrabEvars \/ ToGoals
      <3>1. Now.op \in {"saveMode", "setMode", "undo", "pop", "instantiate", "grab", "toGoals"}
        BY <2>8 DEF SaveMode, SetMode, UndoMany, Pop, Instantiate, GrabEvars, ToGoals, Running, Now
      <3> QED BY <2>1, <3>1 DEF TransactionOps
    <2> QED BY <2>2, <2>3, <2>4, <2>5, <2>6, <2>7, <2>8 DEF Instruction
  <1> QED BY <1>1, <1>2, <1>3 DEF HistoryInv

\* Where no interrupt arrives, whatever the bounds, a command that runs is on
\* the way either to an exception that leaves no trace or to an answer that
\* Undo can take back (Proof.transaction, Proof.undo, Pfedit.undo).
THEOREM HistoryInvariant == Async = FALSE => (Spec => []HistoryInv)
  <1> SUFFICES ASSUME Async = FALSE PROVE Spec => []HistoryInv
    OBVIOUS
  <1>1. Init => HistoryInv
    <2> SUFFICES ASSUME Init PROVE HistoryInv
      OBVIOUS
    <2>1. call.pr = NewProof /\ pr = NewProof /\ exn = "none" /\ Idle
      BY DEF Init, Idle
    <2>2. NewProof.trans = <<>>
      BY DEF NewProof
    <2> QED BY <2>1, <2>2, SaneNewProof DEF HistoryInv, Answered
  <1>2. SaveInv /\ HistoryInv /\ [Next]_vars => HistoryInv'
    <2> SUFFICES ASSUME SaveInv, HistoryInv, [Next]_vars PROVE HistoryInv'
      OBVIOUS
    <2>1. CASE Command
      BY <2>1, CommandsStart
    <2>2. CASE Instruction
      BY <2>2, InstructionsKeep
    <2>3. CASE Interrupted
      BY <2>3 DEF Interrupted, Interrupt, UnfocusInterrupted, FocusInterrupted, CommitInterrupted,
                  RollbackInterrupted
    <2>4. CASE UNCHANGED vars
      BY <2>4 DEF vars, HistoryInv, Answered, InTransaction, Outside, AfterSave, Idle, Level, Now
    <2> QED BY <2>1, <2>2, <2>3, <2>4 DEF Next
  <1> QED BY <1>1, <1>2, SaveInvariant, PTL DEF Spec

\* A command that fails leaves the proof as it was and no transaction open,
\* whatever its transactions have done before they were rolled back
\* (Proof.transaction, NoTrace).
THEOREM FailuresLeaveNoTrace == Async = FALSE => (Spec => []NoTrace)
  <1> SUFFICES ASSUME Async = FALSE PROVE Spec => []NoTrace
    OBVIOUS
  <1>1. HistoryInv => NoTrace
    BY DEF HistoryInv, Answered, NoTrace
  <1> QED BY <1>1, HistoryInvariant, PTL

-----------------------------------------------------------------------------
(* What Undo can restore. *)

\* The states that Undo can restore in q are those it can restore in p, up to
\* the current one of q.
LEMMA RecalledPast ==
  ASSUME NEW U, IsUndo(U), NEW p, IsProof(p, U), NEW V, NEW q, IsProof(q, V), Recalls(p, q)
  PROVE  /\ PastOf(q) # <<>>
         /\ \E n \in Nat : /\ n = Len(PastOf(q)) /\ n <= Len(PastOf(p))
                           /\ SubSeq(PastOf(q), 1, n) = SubSeq(PastOf(p), 1, n)
  <1> DEFINE h == p.undo
             m == Len(h)
  <1>1. PICK n \in 0..m : /\ q.undo = SubSeq(h, 1, n)
                          /\ Shown(q) = Shown(Rewound(p, SubSeq(h, n + 1, m)))
    BY DEF Recalls
  <1>2. h \in Seq(U) /\ m \in Nat
    BY LenProperties DEF IsProof
  <1> HIDE DEF h, m
  <1>3. \A i \in 1..m : h[i] \in U
    BY <1>2, ElementOfSeq DEF m
  <1>4. q.undo \in Seq(U) /\ Len(q.undo) = n /\ \A i \in 1..n : q.undo[i] = h[i]
    <2>1. /\ \A i \in 1..n : h[i] \in U
          /\ (IF 1 <= n THEN n - 1 + 1 ELSE 0) = n /\ n - 1 + 1 = n
          /\ \A i \in 1..n : 1 + i - 1 = i
          /\ 1 \in Int /\ n \in Int
      BY <1>2, <1>3
    <2>2. /\ SubSeq(h, 1, n) \in Seq(U) /\ Len(SubSeq(h, 1, n)) = IF 1 <= n THEN n - 1 + 1 ELSE 0
          /\ \A i \in 1 .. n - 1 + 1 : SubSeq(h, 1, n)[i] = h[1 + i - 1]
      BY <2>1, SubSeqProperties
    <2> QED BY <1>1, <2>1, <2>2
  <1> DEFINE b == SubSeq(h, n + 1, m)
  <1>5. b \in Seq(U)
    <2>1. \A i \in n + 1 .. m : h[i] \in U
      BY <1>2, <1>3
    <2> QED BY <1>2, <2>1, SubSeqProperties
  <1>6. ASSUME NEW i \in 1 .. n + 1
        PROVE  Shown(Rewound(q, SubSeq(q.undo, i, n))) = Shown(Rewound(p, SubSeq(h, i, m)))
    <2> DEFINE a == SubSeq(h, i, n)
               u == q.undo
    <2>1. (\A j \in i..n : j \in 1..m /\ j \in 1..n) /\ i \in Int /\ n \in Int
      BY <1>2
    <2>2. \A j \in i..n : h[j] \in U
      BY <1>3, <2>1
    <2>3. \A j \in i..n : u[j] \in U
      BY <1>3, <1>4, <2>1
    <2> HIDE DEF u
    <2>4. /\ a \in Seq(U) /\ Len(a) = IF i <= n THEN n - i + 1 ELSE 0
          /\ \A j \in 1 .. n - i + 1 : a[j] = h[i + j - 1]
      BY <2>1, <2>2, SubSeqProperties
    <2>5. /\ SubSeq(u, i, n) \in Seq(U) /\ Len(SubSeq(u, i, n)) = IF i <= n THEN n - i + 1 ELSE 0
          /\ \A j \in 1 .. n - i + 1 : SubSeq(u, i, n)[j] = u[i + j - 1]
      BY <2>1, <2>3, SubSeqProperties
    <2>6. \A j \in 1 .. n - i + 1 : i + j - 1 \in 1..n
      OBVIOUS
    <2>7. \A j \in 1 .. n - i + 1 : SubSeq(u, i, n)[j] = a[j]
      BY <1>4, <2>4, <2>5, <2>6 DEF u
    <2>8. SubSeq(u, i, n) = a
      <3> DEFINE l == SubSeq(u, i, n)
      <3>1. Len(l) = Len(a) /\ \A j \in 1..Len(l) : j \in 1 .. n - i + 1
        BY <2>4, <2>5
      <3>2. l \in Seq(U) /\ a \in Seq(U) /\ \A j \in 1..Len(l) : l[j] = a[j]
        BY <2>4, <2>5, <2>7, <3>1
      <3> HIDE DEF l, a
      <3>3. l = a
        BY <3>1, <3>2, SeqEqual
      <3> QED BY <3>3 DEF l, a
    <2>9. a \o b = SubSeq(h, i, m)
      <3>1. i \in 1 .. Len(h) + 1 /\ n \in i - 1 .. Len(h) /\ m \in n .. Len(h)
        BY <1>2 DEF m
      <3> QED BY <1>2, <3>1, ConcatAdjacentSubSeq
    <2>10. Shown(q) = Shown(Rewound(p, b))
      BY <1>1
    <2> HIDE DEF a, b
    <2>11. Shown(Rewound(p, a \o b)) = Shown(Rewound(q, a))
      BY <1>5, <2>4, <2>10, RewoundConcat
    <2> QED BY <2>8, <2>9, <2>11 DEF u
  <1> DEFINE s == PastOf(q)
             t == PastOf(p)
             S == {Shown(Rewound(q, SubSeq(q.undo, i, n))) : i \in 1 .. n + 1}
             T == {Shown(Rewound(p, SubSeq(h, i, m))) : i \in 1 .. m + 1}
             A == S \union T
  <1>7. /\ s = [i \in 1 .. n + 1 |-> Shown(Rewound(q, SubSeq(q.undo, i, n)))]
        /\ t = [i \in 1 .. m + 1 |-> Shown(Rewound(p, SubSeq(h, i, m)))]
    BY <1>4 DEF PastOf, h, m
  <1>8. /\ s \in Seq(S) /\ Len(s) = n + 1
        /\ t \in Seq(T) /\ Len(t) = m + 1
    <2>1. ASSUME NEW k \in Nat, NEW f(_), NEW B, \A i \in 1 .. k + 1 : f(i) \in B
          PROVE  /\ [i \in 1 .. k + 1 |-> f(i)] \in Seq(B)
                 /\ Len([i \in 1 .. k + 1 |-> f(i)]) = k + 1
      <3>1. k + 1 \in Nat
        OBVIOUS
      <3> QED BY <2>1, <3>1
    <2> DEFINE f(i) == Shown(Rewound(q, SubSeq(q.undo, i, n)))
               g(i) == Shown(Rewound(p, SubSeq(h, i, m)))
    <2>2. (\A i \in 1 .. n + 1 : f(i) \in S) /\ (\A i \in 1 .. m + 1 : g(i) \in T)
          /\ s = [i \in 1 .. n + 1 |-> f(i)] /\ t = [i \in 1 .. m + 1 |-> g(i)]
      BY <1>7
    <2> HIDE DEF f, g, S, T, s, t
    <2>3. n + 1 \in Nat /\ m + 1 \in Nat
      BY <1>2
    <2> QED BY <2>2, <2>3
  <1>9. \A i \in 1 .. n + 1 : s[i] = t[i]
    <2>1. \A i \in 1 .. n + 1 : i \in 1 .. m + 1
      BY <1>2
    <2> HIDE DEF s, t
    <2> QED BY <1>6, <1>7, <2>1
  <1>10. s \in Seq(A) /\ t \in Seq(A)
    <2> HIDE DEF s, t, S, T
    <2> QED BY <1>8, SeqMonotonic
  <1> HIDE DEF s, t, S, T, A
  <1>11. \A i \in 1 .. n + 1 : s[i] \in A /\ t[i] \in A
    <2>1. \A i \in 1 .. n + 1 : i \in 1..Len(s) /\ i \in 1..Len(t)
      BY <1>2, <1>8
    <2> QED BY <1>10, <2>1, ElementOfSeq
  <1>12. SubSeq(s, 1, n + 1) = SubSeq(t, 1, n + 1)
    <2> DEFINE x == SubSeq(s, 1, n + 1)
               y == SubSeq(t, 1, n + 1)
               k == n + 1
    <2>1. k \in Nat \ {0} /\ (IF 1 <= k THEN k - 1 + 1 ELSE 0) = k /\ k - 1 + 1 = k
          /\ (\A j \in 1..k : 1 + j - 1 = j) /\ 1 \in Int /\ k \in Int
      BY <1>2
    <2> HIDE DEF k
    <2>2. /\ SubSeq(s, 1, k) \in Seq(A) /\ Len(SubSeq(s, 1, k)) = (IF 1 <= k THEN k - 1 + 1 ELSE 0)
          /\ \A j \in 1 .. k - 1 + 1 : SubSeq(s, 1, k)[j] = s[1 + j - 1]
      BY <1>11, <2>1, SubSeqProperties DEF k
    <2>3. /\ SubSeq(t, 1, k) \in Seq(A) /\ Len(SubSeq(t, 1, k)) = (IF 1 <= k THEN k - 1 + 1 ELSE 0)
          /\ \A j \in 1 .. k - 1 + 1 : SubSeq(t, 1, k)[j] = t[1 + j - 1]
      BY <1>11, <2>1, SubSeqProperties DEF k
    <2>4. x \in Seq(A) /\ y \in Seq(A) /\ Len(x) = k /\ Len(y) = k /\ \A j \in 1..k : x[j] = y[j]
      BY <1>9, <2>1, <2>2, <2>3 DEF k
    <2> HIDE DEF x, y
    <2> QED BY <2>4, SeqEqual DEF x, y
  <1>13. n + 1 \in Nat /\ n + 1 <= m + 1 /\ n + 1 # 0
    BY <1>2
  <1>14. s # <<>>
    BY <1>8, <1>13, EmptySeq
  <1> QED BY <1>8, <1>12, <1>13, <1>14 DEF s, t

\* The past as the refinement mapping sees it
Past == IF Idle THEN PastOf(pr) ELSE PastOf(call.pr)

LEMMA StepsImplementHistory ==
  ASSUME SaveInv', HistoryInv, HistoryInv', Next, ~Interrupted
  PROVE  \/ Past' = Past
         \/ History!Next
  <1>1. CASE Command
    <2>1. \E cmd, b : Call(cmd, b)
      BY <1>1 DEF Command, Solve, FocusCommand, Unfocus, Subproof, EndSubproof, Bullet, SaveProof,
                  ProofMode, Existential, Grab, Undo
    <2>2. Idle /\ pr' = pr /\ call'.pr = pr
      BY <2>1 DEF Call
    <2> QED BY <2>2 DEF Past
  <1>2. CASE Instruction
    <2>1. ~Idle /\ call' = call
      BY <1>2
         DEF Instruction, Begin, Commit, Save, SaveMode, SetMode, UndoMany, Pop, Tactic,
             Instantiate, GrabEvars, ToGoals, FocusStep, UnfocusStep, Relabel, Maximal, PutBullet,
             NoFocus, PopBullet, PushBullet, Return, Declare, Rollback, Relabelled, MaximalEnds,
             Running, Unwinding, Do, Expand, Continue, Raise
    <2>2. CASE ~Idle'
      BY <2>1, <2>2 DEF Past
    <2>3. CASE Idle'
      <3>1. Past = PastOf(call.pr) /\ Past' = PastOf(pr')
        BY <2>1, <2>3 DEF Past, PastOf, Shown, Rewound, HasSort, Oldest
      <3>2. PICK U : IsUndo(U) /\ IsProof(pr', U)
        BY DEF SaveInv, Sane
      <3>3. PICK V : IsUndo(V) /\ IsProof(call.pr, V)
        BY DEF HistoryInv, Sane
      <3>4. Recalls(pr', call.pr) \/ Recalls(call.pr, pr') \/ pr' = NewProof
        BY <2>1, <2>3 DEF HistoryInv, Answered, NewProof
      <3>5. CASE Recalls(pr', call.pr)
        <4>1. History!SameUpTo(Past, Past', Len(Past))
          BY <3>1, <3>2, <3>3, <3>5, RecalledPast DEF History!SameUpTo
        <4> QED BY <4>1 DEF History!Next, History!Advance, Past
      <3>6. CASE Recalls(call.pr, pr')
        <4>1. Past' # <<>> /\ History!SameUpTo(Past, Past', Len(Past'))
          BY <3>1, <3>2, <3>3, <3>6, RecalledPast DEF History!SameUpTo
        <4> QED BY <4>1 DEF History!Next, History!GoBack, Past
      <3>7. CASE pr' = NewProof
        BY <3>1, <3>7 DEF History!Next, History!StartAnew, Past
      <3> QED BY <3>4, <3>5, <3>6, <3>7
    <2> QED BY <2>2, <2>3
  <1> QED BY <1>1, <1>2 DEF Next

\* Where no interrupt arrives, Undo is the inverse of what was done: seen from
\* one answer to the next, a command extends the states that Undo can restore,
\* goes back to one of them or starts another proof, and never rewrites them
\* (ImplementsHistory).
THEOREM UndoIsHistory == Async = FALSE => (Spec => ImplementsHistory)
  <1> SUFFICES ASSUME Async = FALSE PROVE Spec => ImplementsHistory
    OBVIOUS
  <1>1. Init => History!Init
    BY DEF Init, Idle, History!Init
  <1>2. SaveInv' /\ HistoryInv /\ HistoryInv' /\ [Next]_vars
          => [History!Next]_(IF Idle THEN PastOf(pr) ELSE PastOf(call.pr))
    <2> SUFFICES ASSUME SaveInv', HistoryInv, HistoryInv', [Next]_vars
                 PROVE  History!Next \/ Past' = Past
      BY DEF Past
    <2>1. ~Interrupted
      BY DEF Interrupted, Interrupt, UnfocusInterrupted, FocusInterrupted, CommitInterrupted,
             RollbackInterrupted
    <2>2. CASE Next
      BY <2>1, <2>2, StepsImplementHistory
    <2>3. CASE UNCHANGED vars
      BY <2>3 DEF vars, Past, Idle
    <2> QED BY <2>2, <2>3
  <1> QED BY <1>1, <1>2, SaveInvariant, HistoryInvariant, PTL
          DEF Spec, ImplementsHistory, History!Spec
=============================================================================
