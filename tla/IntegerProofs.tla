--------------------------- MODULE IntegerProofs ---------------------------
(* The integers of the virtual machine.                                      *)
(*                                                                           *)
(* The 64-bit integers made of pairs of words, whatever the number of words: *)
(* the operations that a division uses are those of 64-bit arithmetic, and   *)
(* the division itself is right, by an invariant of the two loops of         *)
(* Division, proved inductive.                                               *)
(*                                                                           *)
(* The native integers, whatever their number: the instructions that are     *)
(* arithmetic compute the functions of Int31.v.                              *)
EXTENDS Division, Int31Arith, TLAPS

Range64 == 0..(B * B - 1)

-----------------------------------------------------------------------------
(* A number that is off by at most one modulus. *)
LEMMA ModOnce ==
  ASSUME NEW M \in Nat \ {0}, NEW r \in 0..(M - 1), NEW n \in Int,
         n = r \/ n = r + M \/ n = r - M
  PROVE  n % M = r
  OBVIOUS

(* What word does to a number that is off by at most one number of words. *)
LEMMA WordOnce ==
  ASSUME NEW n \in (-B)..(2 * B - 1)
  PROVE  /\ word(n) \in Words
         /\ n \in 0..(B - 1) => word(n) = n
         /\ n >= B => word(n) = n - B
         /\ n < 0 => word(n) = n + B
  <1>1. B \in Nat \ {0}
    BY BAssumption
  <1>2. n \in 0..(B - 1) => n % B = n
    BY <1>1
  <1>3. n >= B => n % B = n - B
    BY <1>1
  <1>4. n < 0 => n % B = n + B
    BY <1>1
  <1> QED
    BY <1>1, <1>2, <1>3, <1>4 DEF word, Words

(* A pair stands for a 64-bit integer, and determines it. *)
LEMMA ValRange ==
  ASSUME NEW x \in Int64s
  PROVE  /\ x.h \in Int /\ x.l \in Int /\ x.h * B \in Int
         /\ Val(x) = x.h * B + x.l
         /\ Val(x) \in Range64
  <1>1. B \in Nat \ {0} /\ x.h \in 0..(B - 1) /\ x.l \in 0..(B - 1)
    BY BAssumption DEF Int64s, Words
  <1>2. PICK d \in Nat : B = (x.h + 1) + d
    <2>1. B - 1 - x.h \in Nat /\ B = (x.h + 1) + (B - 1 - x.h)
      BY <1>1
    <2> QED
      BY <2>1
  <1>3. B * B = x.h * B + B + d * B
    <2>1. ((x.h + 1) + d) * B = (x.h * B + B) + d * B
      BY <1>1
    <2> QED
      BY <1>2, <2>1
  <1>4. d * B \in Nat /\ x.h * B \in Nat
    BY <1>1
  <1> QED
    BY <1>1, <1>3, <1>4 DEF Val, Range64

(* Division by the number of words. *)
LEMMA DivMod ==
  ASSUME NEW n \in Nat
  PROVE  /\ n \div B \in Nat /\ n % B \in 0..(B - 1)
         /\ n = (n \div B) * B + (n % B)
  <1>1. B \in Nat \ {0}
    BY BAssumption
  <1> QED
    BY <1>1

(* Quotient and remainder are unique. *)
LEMMA Unique ==
  ASSUME NEW p \in Nat, NEW d \in Nat, NEW n \in 0..(B - 1), NEW m \in 0..(B - 1),
         p * B + n = d * B + m
  PROVE  ~(p < d)
  <1>1. SUFFICES ASSUME p < d PROVE FALSE
    OBVIOUS
  <1>2. B \in Nat \ {0}
    BY BAssumption
  <1>3. PICK e \in Nat : d = p + 1 + e
    <2>1. d - p - 1 \in Nat /\ d = p + 1 + (d - p - 1)
      BY <1>1
    <2> QED
      BY <2>1
  <1>4. d * B = p * B + B + e * B /\ e * B \in Nat /\ p * B \in Nat
    BY <1>2, <1>3
  <1> QED
    BY <1>2, <1>4

(* The remainder of a multiple of the number of words, and a word. *)
LEMMA Multiple ==
  ASSUME NEW p \in Nat, NEW n \in 0..(B - 1)
  PROVE  (p * B + n) % B = n
  <1> DEFINE s == p * B + n
             d == s \div B
             m == s % B
  <1>1. B \in Nat \ {0} /\ p * B \in Nat /\ s \in Nat
    BY BAssumption
  <1>2. d \in Nat /\ m \in 0..(B - 1) /\ p * B + n = d * B + m
    BY <1>1, DivMod
  <1> HIDE DEF d, m
  <1>3. ~(p < d) /\ ~(d < p)
    BY <1>2, Unique
  <1>4. p = d
    BY <1>2, <1>3
  <1>5. n = m
    BY <1>1, <1>2, <1>4
  <1> QED
    BY <1>5 DEF m

(* The value of a pair whose words are off by a carry and a wrap. *)
LEMMA Shifted ==
  ASSUME NEW h \in Int, NEW l \in Int, NEW H \in Int, NEW L \in Int,
         NEW c \in {-1, 0, 1}, NEW k \in {-1, 0, 1},
         l = L - c * B, h = H + c - k * B
  PROVE  h * B + l = H * B + L - k * (B * B)
  <1>1. B \in Nat
    BY BAssumption
  <1>2. (H + c - k * B) * B = H * B + c * B - k * (B * B)
    BY <1>1
  <1> QED
    BY <1>1, <1>2

-----------------------------------------------------------------------------
(* The comparison of pairs is that of the integers they stand for. *)
THEOREM CompareCorrect ==
  ASSUME NEW x \in Int64s, NEW y \in Int64s
  PROVE  /\ ucompare(x, y) = 1 <=> Val(x) > Val(y)
         /\ ucompare(x, y) = -1 <=> Val(x) < Val(y)
         /\ ucompare(x, y) = 0 <=> Val(x) = Val(y)
  <1>1. /\ B \in Nat \ {0} /\ x.h \in 0..(B - 1) /\ x.l \in 0..(B - 1)
        /\ y.h \in 0..(B - 1) /\ y.l \in 0..(B - 1)
    BY BAssumption DEF Int64s, Words
  <1>2. ASSUME NEW u \in Int64s, NEW v \in Int64s, u.h > v.h
        PROVE  Val(u) > Val(v)
    <2>1. /\ u.h \in 0..(B - 1) /\ u.l \in 0..(B - 1)
          /\ v.h \in 0..(B - 1) /\ v.l \in 0..(B - 1)
      BY DEF Int64s, Words
    <2>2. PICK d \in Nat : u.h = (v.h + 1) + d
      <3>1. u.h - v.h - 1 \in Nat /\ u.h = (v.h + 1) + (u.h - v.h - 1)
        BY <1>2, <2>1
      <3> QED
        BY <3>1
    <2>3. u.h * B = v.h * B + B + d * B /\ d * B \in Nat
      BY <1>1, <2>1, <2>2
    <2>4. v.h * B \in Int
      BY <1>1, <2>1
    <2> QED
      BY <1>1, <2>1, <2>3, <2>4 DEF Val
  <1>3. CASE x.h > y.h
    BY <1>2, <1>3, <1>1, ValRange DEF ucompare, Range64
  <1>4. CASE x.h < y.h
    BY <1>2, <1>4, <1>1, ValRange DEF ucompare, Range64
  <1>5. CASE x.h = y.h
    <2>1. Val(x) = y.h * B + x.l /\ Val(y) = y.h * B + y.l /\ y.h * B \in Int
      BY <1>1, <1>5 DEF Val
    <2> QED
      BY <1>1, <1>5, <2>1 DEF ucompare
  <1> QED
    BY <1>1, <1>3, <1>4, <1>5

(* An addition carries from the low word to the high one, and wraps. *)
THEOREM AddCorrect ==
  ASSUME NEW x \in Int64s, NEW y \in Int64s
  PROVE  add(x, y) \in Int64s /\ Val(add(x, y)) = (Val(x) + Val(y)) % (B * B)
  <1> DEFINE l == word(x.l + y.l)
             h == word(x.h + y.h)
             r == add(x, y)
  <1>1. /\ B \in Nat \ {0} /\ x.h \in 0..(B - 1) /\ x.l \in 0..(B - 1)
        /\ y.h \in 0..(B - 1) /\ y.l \in 0..(B - 1)
    BY BAssumption DEF Int64s, Words
  <1>2. /\ l \in Words /\ h \in Words
        /\ l = x.l + y.l \/ l = x.l + y.l - B
        /\ h = x.h + y.h \/ h = x.h + y.h - B
        /\ l < x.l <=> l = x.l + y.l - B
    BY <1>1, WordOnce DEF Words
  <1>3. /\ r = Pair(IF l < x.l THEN word(h + 1) ELSE h, l)
        /\ word(h + 1) \in Words
        /\ word(h + 1) = h + 1 \/ (word(h + 1) = h + 1 - B /\ h = x.h + y.h)
    BY <1>1, <1>2, WordOnce DEF add, Words
  <1>4. r \in Int64s /\ r.l = l /\ r.h = IF l < x.l THEN word(h + 1) ELSE h
    BY <1>2, <1>3 DEF Pair, Int64s
  <1>5. \/ /\ r.l = x.l + y.l
           /\ r.h = x.h + y.h \/ r.h = x.h + y.h - B
        \/ /\ r.l = x.l + y.l - B
           /\ r.h = x.h + y.h + 1 \/ r.h = x.h + y.h + 1 - B
    <2> HIDE DEF r, l, h
    <2>1. CASE l < x.l
      BY <1>1, <1>2, <1>3, <1>4, <2>1 DEF Words
    <2>2. CASE ~(l < x.l)
      BY <1>1, <1>2, <1>4, <2>2 DEF Words
    <2> QED
      BY <2>1, <2>2
  <1>6. \/ Val(r) = Val(x) + Val(y)
        \/ Val(r) = Val(x) + Val(y) - B * B
    <2>1. /\ (x.h + y.h) * B = x.h * B + y.h * B
          /\ (x.h + y.h - B) * B = x.h * B + y.h * B - B * B
          /\ (x.h + y.h + 1) * B = x.h * B + y.h * B + B
          /\ (x.h + y.h + 1 - B) * B = x.h * B + y.h * B + B - B * B
          /\ x.h * B \in Int /\ y.h * B \in Int /\ B * B \in Int
      BY <1>1
    <2> HIDE DEF r
    <2> QED
      BY <1>1, <1>5, <2>1 DEF Val
  <1>7. Val(r) \in Range64 /\ Val(x) \in Int /\ Val(y) \in Int
    BY <1>4, ValRange DEF Range64
  <1>8. B * B \in Nat \ {0}
    BY <1>1
  <1> HIDE DEF r
  <1>9. (Val(x) + Val(y)) % (B * B) = Val(r)
    BY <1>6, <1>7, <1>8, ModOnce DEF Range64
  <1> QED
    BY <1>4, <1>9 DEF r

(* A subtraction borrows from the high word, and wraps. *)
THEOREM SubCorrect ==
  ASSUME NEW x \in Int64s, NEW y \in Int64s
  PROVE  sub(x, y) \in Int64s /\ Val(sub(x, y)) = (Val(x) - Val(y)) % (B * B)
  <1> DEFINE l == word(x.l - y.l)
             h == word(x.h - y.h)
             r == sub(x, y)
  <1>1. /\ B \in Nat \ {0} /\ x.h \in 0..(B - 1) /\ x.l \in 0..(B - 1)
        /\ y.h \in 0..(B - 1) /\ y.l \in 0..(B - 1)
    BY BAssumption DEF Int64s, Words
  <1>2. /\ l \in Words /\ h \in Words
        /\ IF x.l < y.l THEN l = x.l - y.l + B ELSE l = x.l - y.l
        /\ IF x.h < y.h THEN h = x.h - y.h + B ELSE h = x.h - y.h
    BY <1>1, WordOnce DEF Words
  <1>3. /\ r = Pair(IF x.l < y.l THEN word(h - 1) ELSE h, l)
        /\ word(h - 1) \in Words
        /\ word(h - 1) = h - 1 \/ (word(h - 1) = h - 1 + B /\ h = x.h - y.h)
    BY <1>1, <1>2, WordOnce DEF sub, Words
  <1>4. r \in Int64s /\ r.l = l /\ r.h = IF x.l < y.l THEN word(h - 1) ELSE h
    BY <1>2, <1>3 DEF Pair, Int64s
  <1>5. \/ /\ r.l = x.l - y.l
           /\ r.h = x.h - y.h \/ r.h = x.h - y.h + B
        \/ /\ r.l = x.l - y.l + B
           /\ r.h = x.h - y.h - 1 \/ r.h = x.h - y.h - 1 + B
    <2> HIDE DEF r, l, h
    <2>1. CASE x.l < y.l
      BY <1>1, <1>2, <1>3, <1>4, <2>1 DEF Words
    <2>2. CASE ~(x.l < y.l)
      BY <1>1, <1>2, <1>4, <2>2 DEF Words
    <2> QED
      BY <2>1, <2>2
  <1>6. \/ Val(r) = Val(x) - Val(y)
        \/ Val(r) = Val(x) - Val(y) + B * B
    <2> HIDE DEF r, l, h
    <2>1. /\ x.h \in Int /\ x.l \in Int /\ y.h \in Int /\ y.l \in Int
          /\ r.h \in Int /\ r.l \in Int
      BY <1>1, <1>4 DEF Int64s, Words
    <2>2. PICK c \in {-1, 0}, k \in {-1, 0} :
            r.l = (x.l - y.l) - c * B /\ r.h = (x.h - y.h) + c - k * B
      BY <1>1, <1>5, <2>1
    <2>3. r.h * B + r.l = (x.h - y.h) * B + (x.l - y.l) - k * (B * B)
      <3> DEFINE rh == r.h
                 rl == r.l
                 H == x.h - y.h
                 L == x.l - y.l
      <3>1. /\ rh \in Int /\ rl \in Int /\ H \in Int /\ L \in Int
            /\ c \in {-1, 0, 1} /\ k \in {-1, 0, 1}
        BY <2>1
      <3>2. rl = L - c * B /\ rh = H + c - k * B
        BY <2>2
      <3> HIDE DEF rh, rl, H, L
      <3>3. rh * B + rl = H * B + L - k * (B * B)
        BY <3>1, <3>2, Shifted
      <3> QED
        BY <3>3 DEF rh, rl, H, L
    <2>4. Val(r) = Val(x) - Val(y) - k * (B * B)
      <3>1. (x.h - y.h) * B = x.h * B - y.h * B /\ x.h * B \in Int /\ y.h * B \in Int
        BY <1>1
      <3>2. k * (B * B) \in Int
        BY <1>1
      <3> QED
        BY <2>1, <2>3, <3>1, <3>2 DEF Val
    <2>5. Val(x) \in Int /\ Val(y) \in Int /\ B * B \in Int
      BY <1>1, ValRange DEF Range64
    <2> QED
      BY <2>4, <2>5
  <1>7. Val(r) \in Range64 /\ Val(x) \in Int /\ Val(y) \in Int
    BY <1>4, ValRange DEF Range64
  <1>8. B * B \in Nat \ {0}
    BY <1>1
  <1> HIDE DEF r
  <1>9. (Val(x) - Val(y)) % (B * B) = Val(r)
    BY <1>6, <1>7, <1>8, ModOnce DEF Range64
  <1> QED
    BY <1>4, <1>9 DEF r

(* Doubling a pair carries the high bit of the low word. *)
THEOREM DoubleCorrect ==
  ASSUME NEW x \in Int64s
  PROVE  SHL1(x) \in Int64s /\ Val(SHL1(x)) = (2 * Val(x)) % (B * B)
  <1> DEFINE c == x.l \div HalfB
             r == SHL1(x)
  <1>1. /\ B \in Nat \ {0} /\ x.h \in 0..(B - 1) /\ x.l \in 0..(B - 1)
        /\ HalfB \in Nat \ {0} /\ B = 2 * HalfB
    BY BAssumption DEF Int64s, Words, HalfB
  <1>2. /\ c \in {0, 1} /\ word(2 * x.l) = 2 * x.l - c * B
        /\ word(2 * x.l) \in Words
    BY <1>1, WordOnce DEF Words
  <1>3. /\ word(2 * x.h) + c \in Words
        /\ word(2 * x.h) = 2 * x.h \/ word(2 * x.h) = 2 * x.h - B
    BY <1>1, <1>2, WordOnce DEF Words
  <1>4. r \in Int64s /\ r.l = 2 * x.l - c * B /\ r.h = word(2 * x.h) + c
    BY <1>2, <1>3 DEF SHL1, Pair, Int64s
  <1> HIDE DEF r, c
  <1>6. \/ Val(r) = 2 * Val(x)
        \/ Val(r) = 2 * Val(x) - B * B
    <2>1. /\ (2 * x.h) * B = 2 * (x.h * B)
          /\ (2 * x.h + 1) * B = 2 * (x.h * B) + B
          /\ (2 * x.h - B) * B = 2 * (x.h * B) - B * B
          /\ (2 * x.h - B + 1) * B = 2 * (x.h * B) - B * B + B
          /\ x.h * B \in Int /\ B * B \in Int
      BY <1>1
    <2>2. Val(r) = r.h * B + r.l /\ Val(x) = x.h * B + x.l
      BY DEF Val
    <2>3. CASE c = 0 /\ r.h = 2 * x.h
      BY <1>1, <1>4, <2>1, <2>2, <2>3
    <2>4. CASE c = 0 /\ r.h = 2 * x.h - B
      BY <1>1, <1>4, <2>1, <2>2, <2>4
    <2>5. CASE c = 1 /\ r.h = 2 * x.h + 1
      BY <1>1, <1>4, <2>1, <2>2, <2>5
    <2>6. CASE c = 1 /\ r.h = 2 * x.h - B + 1
      BY <1>1, <1>4, <2>1, <2>2, <2>6
    <2> QED
      BY <1>1, <1>2, <1>3, <1>4, <2>3, <2>4, <2>5, <2>6
  <1>7. Val(r) \in Range64 /\ Val(x) \in Int
    BY <1>4, ValRange DEF Range64
  <1>8. B * B \in Nat \ {0}
    BY <1>1
  <1>9. (2 * Val(x)) % (B * B) = Val(r)
    BY <1>6, <1>7, <1>8, ModOnce DEF Range64
  <1> QED
    BY <1>4, <1>9 DEF r

(* Halving a pair hands the low bit of the high word to the low word. *)
THEOREM HalveCorrect ==
  ASSUME NEW x \in Int64s
  PROVE  SHR1(x) \in Int64s /\ Val(SHR1(x)) = Val(x) \div 2
  <1> DEFINE p == x.h \div 2
             q == x.l \div 2
             r == SHR1(x)
  <1>1. /\ B \in Nat \ {0} /\ x.h \in 0..(B - 1) /\ x.l \in 0..(B - 1)
        /\ HalfB \in Nat \ {0} /\ B = 2 * HalfB
    BY BAssumption DEF Int64s, Words, HalfB
  <1>2. /\ p \in Nat /\ q \in Nat
        /\ x.h = 2 * p \/ x.h = 2 * p + 1
        /\ x.l = 2 * q \/ x.l = 2 * q + 1
    BY <1>1
  <1> HIDE DEF p, q
  <1>3. word(x.h * HalfB) = IF x.h = 2 * p THEN 0 ELSE HalfB
    <2>1. CASE x.h = 2 * p
      <3>1. x.h * HalfB = p * B + 0
        BY <1>1, <1>2, <2>1
      <3>2. (p * B + 0) % B = 0
        <4>1. 0 \in 0..(B - 1) /\ p \in Nat
          BY <1>1, <1>2
        <4> QED BY <4>1, Multiple, Zenon
      <3> QED
        BY <2>1, <3>1, <3>2 DEF word
    <2>2. CASE x.h = 2 * p + 1
      <3>1. x.h * HalfB = p * B + HalfB
        BY <1>1, <1>2, <2>2
      <3>2. HalfB \in 0..(B - 1)
        BY <1>1
      <3>3. (p * B + HalfB) % B = HalfB
        BY <1>2, <3>2, Multiple
      <3> QED
        BY <1>2, <2>2, <3>1, <3>3 DEF word
    <2> QED
      BY <1>2, <2>1, <2>2
  <1>4. /\ r = Pair(p, q + word(x.h * HalfB))
        /\ p \in Words /\ q + word(x.h * HalfB) \in Words
    BY <1>1, <1>2, <1>3 DEF SHR1, Words, p, q
  <1>5. r \in Int64s /\ r.h = p /\ r.l = q + word(x.h * HalfB)
    BY <1>4 DEF Pair, Int64s
  <1> HIDE DEF r
  <1>6. Val(x) = 2 * Val(r) \/ Val(x) = 2 * Val(r) + 1
    <2>1. /\ (2 * p) * B = 2 * (p * B) /\ (2 * p + 1) * B = 2 * (p * B) + B
          /\ p * B \in Int
      BY <1>1, <1>2
    <2>2. Val(r) = r.h * B + r.l /\ Val(x) = x.h * B + x.l
      BY DEF Val
    <2>3. CASE x.h = 2 * p
      BY <1>1, <1>2, <1>3, <1>5, <2>1, <2>2, <2>3
    <2>4. CASE x.h = 2 * p + 1
      BY <1>1, <1>2, <1>3, <1>5, <2>1, <2>2, <2>4
    <2> QED
      BY <1>2, <2>3, <2>4
  <1>7. Val(r) \in Nat
    BY <1>1, <1>5, ValRange DEF Range64
  <1>8. Val(x) \div 2 = Val(r)
    BY <1>6, <1>7
  <1> QED
    BY <1>5, <1>8 DEF r

-----------------------------------------------------------------------------
(* The division on integers. *)

(* The powers of two, without exponents: what is in every set that holds 1   *)
(* and the double of its members.                                            *)
Doubling(S) == 1 \in S /\ \A n \in S : 2 * n \in S
IsBit(m) == \A S \in SUBSET Nat : Doubling(S) => m \in S

TypeOK == /\ num \in U64
          /\ den \in U64 \ {0}
          /\ modulus \in U64
          /\ divisor \in U64
          /\ quotient \in U64
          /\ mask \in U64
          /\ at \in {"raise", "lower", "done"}

(* A mask is one bit, and the divisor that many times the denominator.       *)
Masked == mask # 0 => /\ IsBit(mask)
                      /\ divisor = den * mask

(* What is divided already, and what is left.                                *)
Split == num = quotient * den + modulus

(* What is left is below twice the divisor while the second loop runs, so    *)
(* that one subtraction is enough, and in the end below the denominator.     *)
Left == /\ at = "raise" => mask # 0 /\ quotient = 0
        /\ at = "lower" /\ mask # 0 => modulus < 2 * divisor
        /\ mask = 0 => modulus < den
        /\ at = "done" => mask = 0

IInv == TypeOK /\ Masked /\ Split /\ Left

-----------------------------------------------------------------------------
(* Half of the 64-bit integers have their high bit set. *)
LEMMA SizeEven == Size \in Nat \ {0} /\ Size % 2 = 0
  <1>1. B \in Nat \ {0} /\ B % 2 = 0
    BY BAssumption
  <1>2. PICK k \in Nat : B = 2 * k
    <2>1. B \div 2 \in Nat /\ B = 2 * (B \div 2)
      BY <1>1
    <2> QED
      BY <2>1
  <1>3. k * B \in Nat /\ (2 * k) * B = 2 * (k * B)
    BY <1>1
  <1>4. B * B \in Nat \ {0}
    BY <1>1
  <1> QED
    BY <1>2, <1>3, <1>4 DEF Size

(* One is a bit. *)
LEMMA BitOne == IsBit(1)
  BY DEF IsBit, Doubling

(* The double of a bit is a bit. *)
LEMMA BitDouble == ASSUME NEW m \in Nat, IsBit(m) PROVE IsBit(2 * m)
  BY DEF IsBit, Doubling

(* A bit is not zero. *)
LEMMA BitPositive == ASSUME NEW m \in Nat, IsBit(m) PROVE m # 0
  <1>1. Doubling(Nat \ {0})
    BY DEF Doubling
  <1> QED
    BY <1>1 DEF IsBit

(* A bit is one, or the double of a bit: the set of the numbers that are      *)
(* either holds one and the double of its members.                            *)
LEMMA BitHalf ==
  ASSUME NEW m \in Nat, IsBit(m)
  PROVE  m = 1 \/ \E k \in Nat : m = 2 * k /\ IsBit(k)
  <1> DEFINE S == {n \in Nat : n = 1 \/ \E k \in Nat : n = 2 * k /\ IsBit(k)}
  <1>1. ASSUME NEW n \in S PROVE IsBit(n)
    BY <1>1, BitOne, BitDouble
  <1>2. Doubling(S)
    <2>1. 1 \in S
      OBVIOUS
    <2>2. ASSUME NEW n \in S PROVE 2 * n \in S
      BY <1>1, <2>2
    <2> QED
      BY <2>1, <2>2 DEF Doubling
  <1>3. m \in S
    <2>1. S \in SUBSET Nat
      OBVIOUS
    <2> QED
      BY <1>2, <2>1 DEF IsBit
  <1> QED
    BY <1>3

(* Products of naturals, for the provers. *)
LEMMA Products ==
  ASSUME NEW a \in Nat, NEW b \in Nat, NEW c \in Nat
  PROVE  /\ a * b \in Nat
         /\ (a + b) * c = a * c + b * c
         /\ a * (2 * b) = 2 * (a * b)
         /\ b >= 1 => a * b >= a /\ b * a >= a
  <1>1. a * b \in Nat
    OBVIOUS
  <1>2. (a + b) * c = a * c + b * c
    OBVIOUS
  <1>3. a * (2 * b) = 2 * (a * b)
    OBVIOUS
  <1>4. ASSUME b >= 1 PROVE a * b >= a /\ b * a >= a
    <2>1. PICK d \in Nat : b = d + 1
      <3>1. b - 1 \in Nat /\ b = (b - 1) + 1
        BY <1>4
      <3> QED
        BY <3>1
    <2>2. a * (d + 1) = a * d + a /\ (d + 1) * a = d * a + a
      OBVIOUS
    <2>3. a * d \in Nat /\ d * a \in Nat
      OBVIOUS
    <2> QED
      BY <2>1, <2>2, <2>3
  <1> QED
    BY <1>1, <1>2, <1>3, <1>4

(* The parts of a sum are below what bounds it. *)
LEMMA Below ==
  ASSUME NEW n \in Nat, NEW p \in Nat, NEW q \in Nat, NEW r \in Nat, NEW s \in Nat,
         n < s, n = p + r, p >= q
  PROVE  q < s /\ r < s
  OBVIOUS

-----------------------------------------------------------------------------
LEMMA InitIInv == Init => IInv
  <1> SUFFICES ASSUME Init PROVE IInv
    OBVIOUS
  <1> USE SizeEven
  <1>1. TypeOK
    BY DEF Init, TypeOK, U64
  <1>2. Masked
    BY BitOne DEF Init, Masked, U64
  <1>3. Split /\ Left
    BY DEF Init, Split, Left, U64
  <1> QED
    BY <1>1, <1>2, <1>3 DEF IInv

LEMMA RaiseIInv == IInv /\ Raise => IInv'
  <1> SUFFICES ASSUME IInv, Raise PROVE IInv'
    OBVIOUS
  <1> USE SizeEven
  <1>t. /\ num \in Nat /\ den \in Nat /\ modulus \in Nat /\ divisor \in Nat
        /\ mask \in Nat /\ quotient \in Nat /\ Size \in Nat /\ den >= 1
    BY DEF IInv, TypeOK, U64
  <1>0. /\ mask # 0 /\ IsBit(mask) /\ divisor = den * mask /\ divisor >= mask
    BY <1>t, Products DEF IInv, Left, Masked, Raise
  <1>1. TypeOK'
    <2>1. 2 * divisor < Size
      BY <1>t DEF Raise, High
    <2>2. 2 * divisor \in U64 /\ 2 * mask \in U64
      BY <1>t, <1>0, <2>1 DEF U64
    <2> QED
      BY <2>2 DEF IInv, TypeOK, Raise
  <1>2. Masked'
    <2>1. IsBit(2 * mask)
      BY <1>t, <1>0, BitDouble
    <2>2. 2 * divisor = den * (2 * mask)
      BY <1>t, <1>0, Products
    <2> QED
      BY <2>1, <2>2 DEF Masked, Raise
  <1>3. Split'
    BY DEF IInv, Split, Raise
  <1>4. Left'
    <2>1. mask' # 0 /\ quotient' = quotient /\ modulus' = modulus
      BY <1>t, <1>0 DEF Raise
    <2>2. at' # "done" /\ (at' = "raise" => quotient' = 0)
      BY <2>1 DEF Raise, IInv, Left
    <2>3. ASSUME at' = "lower" PROVE modulus' < 2 * divisor'
      BY <1>t, <1>0, <2>1, <2>3 DEF Raise
    <2> QED
      BY <2>1, <2>2, <2>3 DEF Left
  <1> QED
    BY <1>1, <1>2, <1>3, <1>4 DEF IInv

LEMMA RaisedIInv == IInv /\ Raised => IInv'
  <1> SUFFICES ASSUME IInv, Raised PROVE IInv'
    OBVIOUS
  <1> USE SizeEven
  <1>1. modulus < 2 * divisor
    BY DEF IInv, TypeOK, U64, Raised, High
  <1>2. TypeOK' /\ Masked' /\ Split'
    BY DEF IInv, TypeOK, Masked, Split, Raised
  <1>3. Left'
    BY <1>1 DEF IInv, Left, Raised
  <1> QED
    BY <1>2, <1>3 DEF IInv

LEMMA LowerIInv == IInv /\ Lower => IInv'
  <1> SUFFICES ASSUME IInv, Lower PROVE IInv'
    OBVIOUS
  <1>t. /\ num \in Nat /\ den \in Nat /\ modulus \in Nat /\ divisor \in Nat
        /\ mask \in Nat /\ quotient \in Nat /\ Size \in Nat /\ den >= 1
    BY SizeEven DEF IInv, TypeOK, U64
  <1>0. /\ mask # 0 /\ IsBit(mask) /\ divisor = den * mask /\ modulus < 2 * divisor
        /\ num = quotient * den + modulus
    BY DEF IInv, Left, Masked, Split, Lower
  <1>1. /\ quotient' \in Nat /\ modulus' \in Nat
        /\ num = quotient' * den + modulus' /\ modulus' < divisor
    <2>1. CASE modulus >= divisor
      <3>1. quotient' = quotient + mask /\ modulus' = modulus - divisor
        BY <2>1 DEF Lower
      <3>2. (quotient + mask) * den = quotient * den + mask * den
        BY <1>t, Products
      <3>3. mask * den = divisor
        BY <1>t, <1>0
      <3>4. quotient * den \in Nat
        BY <1>t, Products
      <3> QED
        BY <1>t, <1>0, <2>1, <3>1, <3>2, <3>3, <3>4
    <2>2. CASE modulus < divisor
      BY <1>t, <1>0, <2>2 DEF Lower
    <2> QED
      BY <1>t, <2>1, <2>2
  <1>2. quotient' \in U64 /\ modulus' \in U64
    <2>1. quotient' * den \in Nat /\ quotient' * den >= quotient'
      BY <1>t, <1>1, Products
    <2>2. num < Size
      BY SizeEven DEF IInv, TypeOK, U64
    <2>3. quotient' < Size /\ modulus' < Size
      BY <1>t, <1>1, <2>1, <2>2, Below
    <2> QED
      BY <1>t, <1>1, <2>3 DEF U64
  <1>3. mask' \in U64 /\ divisor' \in U64
    BY <1>t, SizeEven DEF IInv, TypeOK, U64, Lower
  <1>4. TypeOK'
    BY <1>2, <1>3 DEF IInv, TypeOK, Lower
  <1>5. Split'
    BY <1>1 DEF Split, Lower
  <1>6. Masked' /\ Left'
    <2>1. CASE mask = 1
      <3>1. mask' = 0 /\ divisor = den
        BY <1>t, <1>0, <2>1 DEF Lower
      <3> QED
        BY <1>1, <3>1 DEF Masked, Left, Lower
    <2>2. CASE \E k \in Nat : mask = 2 * k /\ IsBit(k)
      <3>1. PICK k \in Nat : mask = 2 * k /\ IsBit(k)
        BY <2>2
      <3>2. mask' = k
        BY <3>1 DEF Lower
      <3>3. divisor = 2 * (den * k) /\ den * k \in Nat
        BY <1>t, <1>0, <3>1, Products
      <3>4. divisor' = den * k
        BY <3>3 DEF Lower
      <3>5. k # 0
        BY <1>0, <3>1
      <3>6. at' = "lower" /\ mask' # 0 /\ den' = den
        BY <3>2, <3>5 DEF Lower
      <3>7. Masked'
        BY <3>1, <3>2, <3>4, <3>6 DEF Masked
      <3>8. Left'
        <4>1. modulus' < 2 * divisor'
          BY <1>1, <3>3, <3>4
        <4> QED
          BY <3>6, <4>1 DEF Left
      <3> QED
        BY <3>7, <3>8
    <2> QED
      BY <1>t, <1>0, <2>1, <2>2, BitHalf
  <1> QED
    BY <1>4, <1>5, <1>6 DEF IInv

LEMMA FinishIInv == IInv /\ Finish => IInv'
  BY DEF IInv, TypeOK, Masked, Split, Left, Finish

LEMMA NextIInv == IInv /\ [Next]_vars => IInv'
  <1> SUFFICES ASSUME IInv, [Next]_vars PROVE IInv'
    OBVIOUS
  <1>1. CASE UNCHANGED vars
    BY <1>1 DEF vars, IInv, TypeOK, Masked, Split, Left
  <1> QED
    BY <1>1, RaiseIInv, RaisedIInv, LowerIInv, FinishIInv DEF Next

LEMMA Inductive == Spec => []IInv
  BY InitIInv, NextIInv, PTL DEF Spec

(* Whatever the width of integers, a division that ends leaves the quotient   *)
(* and the remainder of the Euclidean division.                               *)
THEOREM DivisionIsEuclidean == Spec => []Euclidean
  <1>1. IInv => Euclidean
    BY SizeEven DEF IInv, TypeOK, Split, Left, Euclidean, U64
  <1> QED
    BY <1>1, Inductive, PTL

(* Whatever the width of integers, no intermediate value leaves it.           *)
THEOREM DivisionStaysInRange == Spec => []NoWrap
  <1>1. IInv => NoWrap
    BY DEF IInv, TypeOK, NoWrap
  <1> QED
    BY <1>1, Inductive, PTL

-----------------------------------------------------------------------------
(* Native integers, whatever their number N. *)

(* A quotient is below another when it is so by one or more. *)
LEMMA Apart ==
  ASSUME NEW M \in Nat \ {0}, NEW p \in Int, NEW q \in Int,
         NEW r \in 0..(M - 1), NEW s \in 0..(M - 1), p * M + r = q * M + s
  PROVE  ~(p < q)
  <1>1. SUFFICES ASSUME p < q PROVE FALSE
    OBVIOUS
  <1>2. PICK e \in Nat : q = p + 1 + e
    <2>1. q - p - 1 \in Nat /\ q = p + 1 + (q - p - 1)
      BY <1>1
    <2> QED
      BY <2>1
  <1>3. q * M = p * M + M + e * M /\ e * M \in Nat /\ p * M \in Int
    BY <1>2
  <1> QED
    BY <1>3

(* What is written as a quotient and a remainder has these. *)
LEMMA Euclid ==
  ASSUME NEW M \in Nat \ {0}, NEW q \in Int, NEW r \in 0..(M - 1)
  PROVE  (q * M + r) % M = r /\ (q * M + r) \div M = q
  <1> DEFINE n == q * M + r
             d == n \div M
             m == n % M
  <1>1. q * M \in Int /\ n \in Int
    OBVIOUS
  <1>2. d \in Int /\ m \in 0..(M - 1) /\ n = d * M + m
    <2> HIDE DEF n
    <2> QED
      BY <1>1
  <1>3. q * M + r = d * M + m
    BY <1>2
  <1> HIDE DEF d, m, n
  <1>4. ~(q < d) /\ ~(d < q)
    BY <1>2, <1>3, Apart
  <1>5. q = d
    BY <1>2, <1>4
  <1>6. r = m
    BY <1>2, <1>3, <1>5
  <1> QED
    BY <1>5, <1>6 DEF d, m, n

(* Every integer is written so. *)
LEMMA Divided ==
  ASSUME NEW M \in Nat \ {0}, NEW n \in Int
  PROVE  /\ n \div M \in Int /\ n % M \in 0..(M - 1)
         /\ n = (n \div M) * M + (n % M)
  OBVIOUS

(* The words of tagged integers. *)
Tagged == {v \in 0..(Values - 1) : v % 2 = 1}

LEMMA Sizes ==
  /\ N \in Nat \ {0} /\ N >= 4 /\ N * N \in Nat /\ 2 * N \in Nat \ {0}
  /\ Values \in Nat \ {0} /\ 2 * N <= Values
  /\ Values = 2 * N \/ Values = 4 * (N * N)
  <1>1. N \in Nat \ {0} /\ N >= 4 /\ N * N \in Nat
    BY NumbersAssumption
  <1>2. (2 * N) * (2 * N) = 4 * (N * N)
    BY <1>1
  <1>3. N * N >= N
    <2>1. N * N = N * (N - 1) + N /\ N * (N - 1) \in Nat
      BY <1>1
    <2> QED
      BY <1>1, <2>1
  <1> QED
    BY <1>1, <1>2, <1>3, NumbersAssumption

(* A uint32 that is cut from an even or odd number keeps the parity, and the *)
(* integer that the number stands for, up to N.                              *)
LEMMA Cut ==
  ASSUME NEW z \in Int
  PROVE  /\ z % N \in 0..(N - 1)
         /\ uint32(2 * z) = 2 * (z % N)
         /\ uint32(2 * z + 1) = 2 * (z % N) + 1
         /\ phi(2 * z + 1) = z % N
  <1> DEFINE q == z \div N
             r == z % N
  <1>1. q \in Int /\ r \in 0..(N - 1) /\ z = q * N + r /\ q * N \in Int
    BY Sizes, Divided
  <1> HIDE DEF q, r
  <1>2. q * (2 * N) = 2 * (q * N)
    BY <1>1, Sizes
  <1>3. /\ 2 * r \in 0..(2 * N - 1) /\ 2 * r + 1 \in 0..(2 * N - 1)
        /\ 2 * z = q * (2 * N) + 2 * r /\ 2 * z + 1 = q * (2 * N) + (2 * r + 1)
    BY <1>1, <1>2, Sizes
  <1>4. uint32(2 * z) = 2 * r /\ uint32(2 * z + 1) = 2 * r + 1
    <2> DEFINE M == 2 * N
               t == 2 * r
               s == 2 * r + 1
    <2>1. M \in Nat \ {0} /\ t \in 0..(M - 1) /\ s \in 0..(M - 1)
      BY <1>3, Sizes
    <2> HIDE DEF M, t, s
    <2>2. (q * M + t) % M = t /\ (q * M + s) % M = s
      BY <1>1, <2>1, Euclid
    <2> QED
      BY <1>3, <2>2 DEF uint32, M, t, s
  <1>5. phi(2 * z + 1) = r
    BY <1>1, <1>4 DEF phi, uint32_of_value
  <1> QED
    BY <1>1, <1>4, <1>5 DEF r

(* The integer of a tagged word, and what C computes with. *)
LEMMA Untagged ==
  ASSUME NEW v \in Tagged
  PROVE  /\ phi(v) \in 0..(N - 1)
         /\ uint32(v) = 2 * phi(v) + 1
         /\ uint32(DropTag(v)) = 2 * phi(v)
  <1>1. PICK z \in Int : v = 2 * z + 1
    <2>1. v \in Int /\ v % 2 = 1 /\ v \div 2 \in Int /\ v = 2 * (v \div 2) + 1
      BY Sizes DEF Tagged
    <2> QED
      BY <2>1
  <1>2. DropTag(v) = 2 * z
    BY <1>1 DEF DropTag
  <1> QED
    BY <1>1, <1>2, Cut

(* The words that instructions build. *)
LEMMA Built ==
  ASSUME NEW z \in Int
  PROVE  /\ uint32(2 * z + 1) \in Tagged /\ phi(uint32(2 * z + 1)) = z % N
         /\ value_of_uint32(z) \in Tagged /\ phi(value_of_uint32(z)) = z % N
  <1> DEFINE r == z % N
  <1>1. /\ r \in 0..(N - 1) /\ uint32(2 * z + 1) = 2 * r + 1
        /\ value_of_uint32(z) = 2 * r + 1
    BY Cut DEF value_of_uint32
  <1> HIDE DEF r
  <1>2. 2 * r + 1 \in Tagged
    BY <1>1, Sizes DEF Tagged
  <1>3. r % N = r
    BY <1>1, Sizes
  <1>4. phi(2 * r + 1) = r
    BY <1>1, <1>3, Cut
  <1> QED
    BY <1>1, <1>2, <1>4 DEF r

-----------------------------------------------------------------------------
(* An instruction is right when it computes its function and what it leaves  *)
(* can be the operands of others.                                            *)
Correct(r, f, pops) == Same(r, f, pops) /\ \A i \in DOMAIN r.words : r.words[i] \in Tagged

LEMMA CorrectWord ==
  ASSUME NEW pops \in Nat, NEW w \in Tagged, NEW z \in Int, phi(w) = z % N
  PROVE  Correct(Word(pops, w), One(z), pops)
  <1>1. w % 2 = 1
    BY DEF Tagged
  <1> QED
    BY <1>1 DEF Correct, Same, Word, One

LEMMA CorrectCarried ==
  ASSUME NEW carry \in BOOLEAN, NEW w \in Tagged, NEW z \in Int, phi(w) = z % N,
         carry <=> z \notin 0..(N - 1)
  PROVE  Correct(Carried(carry, w), Exact(z), 1)
  <1>1. w % 2 = 1
    BY DEF Tagged
  <1> QED
    BY <1>1 DEF Correct, Same, Carried, Block, Exact

LEMMA CorrectBoth ==
  ASSUME NEW pops \in Nat, NEW v \in Tagged, NEW w \in Tagged,
         NEW h \in Int, NEW l \in Int,
         phi(v) = h % N, phi(w) = l % N
  PROVE  Correct(Block(pops, 1, <<v, w>>), Both(h, l), pops)
  <1>1. v % 2 = 1 /\ w % 2 = 1
    BY DEF Tagged
  <1> QED
    BY <1>1 DEF Correct, Same, Block, Both

(* The result and the carry of an operation that is off by at most N. *)
LEMMA Wrapped ==
  ASSUME NEW z \in (-N)..(2 * N - 1)
  PROVE  /\ z \in 0..(N - 1) => z % N = z
         /\ z >= N => z % N = z - N
         /\ z < 0 => z % N = z + N
  <1>1. N \in Nat \ {0}
    BY Sizes
  <1>2. z \in 0..(N - 1) => z % N = z
    BY <1>1
  <1>3. z >= N => z % N = z - N
    BY <1>1, ModOnce
  <1>4. z < 0 => z % N = z + N
    BY <1>1, ModOnce
  <1> QED
    BY <1>2, <1>3, <1>4

LEMMA Additions ==
  ASSUME NEW a \in Tagged, NEW b \in Tagged, NEW c \in Tagged
  PROVE  /\ Correct(Add(a, <<b, c>>), One(phi(a) + phi(b)), 1)
         /\ Correct(AddC(a, <<b, c>>), Exact(phi(a) + phi(b)), 1)
         /\ Correct(AddCarryC(a, <<b, c>>), Exact(phi(a) + phi(b) + 1), 1)
  <1> DEFINE x == phi(a)
             y == phi(b)
             z == x + y
             u == x + y + 1
  <1>1. /\ x \in 0..(N - 1) /\ y \in 0..(N - 1) /\ N \in Nat
        /\ uint32(a) = 2 * x + 1 /\ uint32(b) = 2 * y + 1
    BY Untagged, Sizes
  <1> HIDE DEF x, y
  <1>2. /\ z \in Int /\ u \in Int /\ z \in (-N)..(2 * N - 1) /\ u \in (-N)..(2 * N - 1)
        /\ uint32(a) + uint32(b) - 1 = 2 * z + 1
        /\ uint32(a) + uint32(b) + 1 = 2 * u + 1
    BY <1>1
  <1>3. /\ uint32(2 * z + 1) < uint32(a) <=> z \notin 0..(N - 1)
        /\ uint32(2 * u + 1) <= uint32(a) <=> u \notin 0..(N - 1)
    <2>1. uint32(2 * z + 1) = 2 * (z % N) + 1 /\ uint32(2 * u + 1) = 2 * (u % N) + 1
      BY <1>2, Cut
    <2>2. /\ z >= N => z % N = z - N
          /\ z \in 0..(N - 1) => z % N = z
          /\ u >= N => u % N = u - N
          /\ u \in 0..(N - 1) => u % N = u
      BY <1>2, Wrapped
    <2>3. (z >= N \/ z \in 0..(N - 1)) /\ (u >= N \/ u \in 0..(N - 1))
      BY <1>1
    <2> QED
      BY <1>1, <2>1, <2>2, <2>3
  <1> HIDE DEF z, u
  <1> DEFINE k == uint32(2 * z + 1) < uint32(a)
             l == uint32(2 * u + 1) <= uint32(a)
  <1>4. k \in BOOLEAN /\ l \in BOOLEAN
    OBVIOUS
  <1>5. /\ Add(a, <<b, c>>) = Word(1, uint32(2 * z + 1))
        /\ AddC(a, <<b, c>>) = Carried(k, uint32(2 * z + 1))
        /\ AddCarryC(a, <<b, c>>) = Carried(l, uint32(2 * u + 1))
    BY <1>2 DEF Add, AddC, AddCarryC
  <1>6. (k <=> z \notin 0..(N - 1)) /\ (l <=> u \notin 0..(N - 1))
    BY <1>3
  <1> HIDE DEF k, l
  <1>7. /\ Correct(Word(1, uint32(2 * z + 1)), One(z), 1)
        /\ Correct(Carried(k, uint32(2 * z + 1)), Exact(z), 1)
        /\ Correct(Carried(l, uint32(2 * u + 1)), Exact(u), 1)
    BY <1>2, <1>4, <1>6, Built, CorrectWord, CorrectCarried
  <1> QED
    BY <1>5, <1>7 DEF z, u, x, y

LEMMA Subtractions ==
  ASSUME NEW a \in Tagged, NEW b \in Tagged, NEW c \in Tagged
  PROVE  /\ Correct(Sub(a, <<b, c>>), One(phi(a) - phi(b)), 1)
         /\ Correct(SubC(a, <<b, c>>), Exact(phi(a) - phi(b)), 1)
         /\ Correct(SubCarryC(a, <<b, c>>), Exact(phi(a) - phi(b) - 1), 1)
  <1> DEFINE x == phi(a)
             y == phi(b)
             z == x - y
             u == x - y - 1
  <1>1. /\ x \in 0..(N - 1) /\ y \in 0..(N - 1) /\ N \in Nat
        /\ uint32(a) = 2 * x + 1 /\ uint32(b) = 2 * y + 1
    BY Untagged, Sizes
  <1> HIDE DEF x, y
  <1>2. /\ z \in Int /\ u \in Int
        /\ uint32(a) - uint32(b) + 1 = 2 * z + 1
        /\ uint32(a) - uint32(b) - 1 = 2 * u + 1
    BY <1>1
  <1> DEFINE k == uint32(a) < uint32(b)
             l == uint32(a) <= uint32(b)
  <1>3. k \in BOOLEAN /\ l \in BOOLEAN
    OBVIOUS
  <1>4. (k <=> z \notin 0..(N - 1)) /\ (l <=> u \notin 0..(N - 1))
    BY <1>1
  <1>5. /\ Sub(a, <<b, c>>) = Word(1, uint32(2 * z + 1))
        /\ SubC(a, <<b, c>>) = Carried(k, uint32(2 * z + 1))
        /\ SubCarryC(a, <<b, c>>) = Carried(l, uint32(2 * u + 1))
    BY <1>2 DEF Sub, SubC, SubCarryC
  <1> HIDE DEF z, u, k, l
  <1>6. /\ Correct(Word(1, uint32(2 * z + 1)), One(z), 1)
        /\ Correct(Carried(k, uint32(2 * z + 1)), Exact(z), 1)
        /\ Correct(Carried(l, uint32(2 * u + 1)), Exact(u), 1)
    BY <1>2, <1>3, <1>4, Built, CorrectWord, CorrectCarried
  <1> QED
    BY <1>5, <1>6 DEF z, u, x, y

LEMMA Comparison ==
  ASSUME NEW a \in Tagged, NEW b \in Tagged, NEW c \in Tagged
  PROVE  Correct(Compare(a, <<b, c>>),
               One(IF phi(a) = phi(b) THEN 0 ELSE IF phi(a) < phi(b) THEN 1 ELSE 2), 1)
  <1> DEFINE x == phi(a)
             y == phi(b)
             z == IF x = y THEN 0 ELSE IF x < y THEN 1 ELSE 2
  <1>1. /\ x \in Int /\ y \in Int
        /\ uint32(a) = 2 * x + 1 /\ uint32(b) = 2 * y + 1
    BY Untagged, Sizes
  <1>2. z \in {0, 1, 2} /\ Compare(a, <<b, c>>) = Word(1, 2 * z + 1)
    <2> HIDE DEF x, y
    <2> QED
      BY <1>1 DEF Compare
  <1> HIDE DEF x, y, z
  <1>3. 2 * z + 1 \in Tagged /\ z \in Int
    BY <1>2, Sizes DEF Tagged
  <1>4. phi(2 * z + 1) = z % N
    BY <1>3, Cut
  <1>5. Correct(Word(1, 2 * z + 1), One(z), 1)
    BY <1>3, <1>4, CorrectWord
  <1> QED
    BY <1>2, <1>5 DEF z, x, y

LEMMA Multiplications ==
  ASSUME NEW a \in Tagged, NEW b \in Tagged, NEW c \in Tagged
  PROVE  Correct(Mul(a, <<b, c>>), One(phi(a) * phi(b)), 1)
  <1> DEFINE x == phi(a)
             y == phi(b)
             z == x * y
  <1>1. x \in 0..(N - 1) /\ y \in 0..(N - 1)
    BY Untagged
  <1>2. Mul(a, <<b, c>>) = Word(1, value_of_uint32(z))
    BY DEF Mul, phi
  <1> HIDE DEF x, y
  <1>3. z \in Int
    BY <1>1, Sizes
  <1> HIDE DEF z
  <1>4. Correct(Word(1, value_of_uint32(z)), One(z), 1)
    BY <1>3, Built, CorrectWord
  <1>5. Correct(Mul(a, <<b, c>>), One(z), 1)
    BY <1>2, <1>4
  <1> QED
    BY <1>5 DEF z, x, y

(* The product of two integers is below the square of N. *)
LEMMA Square ==
  ASSUME NEW x \in 0..(N - 1), NEW y \in 0..(N - 1)
  PROVE  x * y \in 0..(N * N - 1) /\ x * N + y \in 0..(N * N - 1)
  <1>1. N \in Nat \ {0}
    BY Sizes
  <1>2. PICK e \in Nat : N = x + 1 + e
    <2>1. N - x - 1 \in Nat /\ N = x + 1 + (N - x - 1)
      BY <1>1
    <2> QED
      BY <2>1
  <1>3. N * N = x * N + N + e * N /\ x * N \in Nat /\ e * N \in Nat /\ N * N \in Nat
    BY <1>1, <1>2
  <1>4. PICK d \in Nat : N = y + 1 + d
    <2>1. N - y - 1 \in Nat /\ N = y + 1 + (N - y - 1)
      BY <1>1
    <2> QED
      BY <2>1
  <1>5. x * N = x * y + x + x * d /\ x * y \in Nat /\ x * d \in Nat
    BY <1>4
  <1> QED
    BY <1>1, <1>3, <1>5

LEMMA CorrectQuotient ==
  ASSUME NEW pops \in Nat, NEW n \in Nat, NEW d \in Nat
  PROVE  Correct(Quotient(pops, n, d), DivEucl(n, d), pops)
  <1>1. CASE d = 0
    <2>1. 2 * 0 + 1 = 1 /\ 1 \in Tagged
      BY Sizes DEF Tagged
    <2>2. phi(1) = 0 % N
      BY <2>1, Cut
    <2>3. Correct(Block(pops, 1, <<1, 1>>), Both(0, 0), pops)
      BY <2>1, <2>2, CorrectBoth
    <2> QED
      BY <1>1, <2>3 DEF Quotient, DivEucl
  <1>2. CASE d # 0
    <2> DEFINE q == n \div d
               r == n % d
    <2>1. q \in Int /\ r \in Int
      BY <1>2
    <2>2. /\ Quotient(pops, n, d) = Block(pops, 1, <<value_of_uint32(q), value_of_uint32(r)>>)
          /\ DivEucl(n, d) = Both(q, r)
      BY <1>2 DEF Quotient, DivEucl
    <2> HIDE DEF q, r
    <2> QED
      BY <2>1, <2>2, Built, CorrectBoth
  <1> QED
    BY <1>1, <1>2

LEMMA Divisions ==
  ASSUME NEW a \in Tagged, NEW b \in Tagged, NEW c \in Tagged
  PROVE  /\ Correct(Div(a, <<b, c>>), DivEucl(phi(a), phi(b)), 1)
         /\ Correct(Div21(a, <<b, c>>), DivEucl(phi(a) * N + phi(b), phi(c)), 2)
  <1> DEFINE x == phi(a)
             y == phi(b)
             z == phi(c)
             n == x * N + y
  <1>1. x \in 0..(N - 1) /\ y \in 0..(N - 1) /\ z \in 0..(N - 1)
    BY Untagged
  <1>2. /\ Div(a, <<b, c>>) = Quotient(1, x, y)
        /\ Div21(a, <<b, c>>) = Quotient(2, uint64(n), z)
    BY DEF Div, Div21, phi
  <1> HIDE DEF x, y, z
  <1>3. n \in 0..(N * N - 1) /\ n \in Nat /\ x \in Nat /\ y \in Nat /\ z \in Nat
    BY <1>1, Square, Sizes
  <1> HIDE DEF n
  <1>4. uint64(n) = n
    <2>1. (2 * N) * (2 * N) = 4 * (N * N)
      BY Sizes
    <2> DEFINE M == N * N
    <2>2. M \in Nat /\ n \in 0..(M - 1)
      BY <1>3, Sizes
    <2> HIDE DEF M
    <2>3. n % (4 * M) = n
      BY <2>2
    <2> QED
      BY <2>1, <2>3 DEF uint64, M
  <1>5. Correct(Quotient(1, x, y), DivEucl(x, y), 1) /\ Correct(Quotient(2, n, z), DivEucl(n, z), 2)
    BY <1>3, CorrectQuotient
  <1> QED
    BY <1>2, <1>4, <1>5 DEF n, x, y, z

(* The low word of a product, with the sign that its conversion gives it.   *)
LEMMA LowPart ==
  ASSUME NEW z \in Int
  PROVE  /\ SetTag(int32_to_value(2 * z)) \in Tagged
         /\ phi(SetTag(int32_to_value(2 * z))) = z % N
  <1> DEFINE r == z % N
  <1>1. r \in 0..(N - 1) /\ uint32(2 * z) = 2 * r
    BY Cut
  <1> HIDE DEF r
  <1>2. CASE 2 * r < N
    <2>1. int32_to_value(2 * z) = 2 * r
      BY <1>1, <1>2 DEF int32_to_value
    <2>2. SetTag(2 * r) = 2 * r + 1 /\ 2 * r + 1 \in Tagged
      BY <1>1, Sizes DEF SetTag, Tagged
    <2>3. r \in Int /\ r % N = r
      BY <1>1, Sizes
    <2>4. phi(2 * r + 1) = r
      BY <2>3, Cut
    <2> QED
      BY <2>1, <2>2, <2>4 DEF r
  <1>3. CASE ~(2 * r < N)
    <2> DEFINE u == 2 * r - 2 * N + Values
               h == u \div 2
    <2>1. 2 * r - 2 * N \in (-N)..(-1) /\ u \in 0..(Values - 1)
      BY <1>1, <1>3, Sizes
    <2>2. (2 * r - 2 * N) % Values = u
      BY <2>1, Sizes, ModOnce
    <2>3. int32_to_value(2 * z) = u
      BY <1>1, <1>3, <2>2 DEF int32_to_value, value
    <2>4. PICK q \in Int : u = 2 * (q * N + r) /\ q * N \in Int
      <3>1. CASE Values = 2 * N
        <4>1. 0 * N = 0 /\ u = 2 * r
          BY <1>1, <3>1, Sizes
        <4>2. u = 2 * (0 * N + r) /\ 0 * N \in Int /\ 0 \in Int
          BY <1>1, <4>1
        <4> QED
          BY <4>2
      <3>2. CASE Values = 4 * (N * N)
        <4> DEFINE q == 2 * N - 1
        <4>1. q \in Int /\ q * N = 2 * (N * N) - N /\ q * N \in Int
          BY Sizes
        <4>2. u = 2 * (q * N + r)
          BY <1>1, <3>2, <4>1, Sizes
        <4> QED
          BY <4>1, <4>2
      <3> QED
        BY <3>1, <3>2, Sizes
    <2>5. q * N + r \in Int /\ u \in Int /\ u = 2 * (q * N + r)
      BY <1>1, <2>4
    <2> HIDE DEF u
    <2>6. (q * N + r) % N = r
      BY <1>1, Sizes, Euclid
    <2>7. SetTag(u) = 2 * (q * N + r) + 1
      <3> DEFINE t == q * N + r
      <3>1. t \in Int /\ u = 2 * t
        BY <2>5
      <3> HIDE DEF t
      <3>2. SetTag(u) = 2 * t + 1
        BY <3>1 DEF SetTag
      <3> QED
        BY <3>2 DEF t
    <2>8. phi(SetTag(u)) = r
      BY <2>5, <2>6, <2>7, Cut
    <2>9. SetTag(u) \in Tagged
      <3>1. Values % 2 = 0 /\ Values \in Nat
        BY Sizes
      <3>2. u % 2 = 0
        <4> DEFINE t == q * N + r
        <4>1. t \in Int /\ u = 2 * t
          BY <2>5
        <4> HIDE DEF t
        <4> QED
          BY <4>1
      <3> QED
        BY <2>1, <2>5, <3>1, <3>2 DEF SetTag, Tagged
    <2> QED
      BY <2>3, <2>8, <2>9 DEF r
  <1> QED
    BY <1>2, <1>3

(* The high word of a product, once its tag is set.                         *)
LEMMA HighPart ==
  ASSUME NEW z \in 0..(N * N - 1)
  PROVE  /\ value(SetTag((2 * z) \div N)) \in Tagged
         /\ phi(value(SetTag((2 * z) \div N))) = (z \div N) % N
  <1> DEFINE q == z \div N
             r == z % N
             t == IF 2 * r < N THEN 0 ELSE 1
             s == 2 * r - t * N
  <1>1. /\ N \in Nat \ {0} /\ q \in Int /\ r \in 0..(N - 1)
        /\ z = q * N + r /\ q * N \in Int
    BY Sizes, Divided
  <1> HIDE DEF q, r
  <1>2. q \in 0..(N - 1)
    <2>1. ASSUME q < 0 PROVE FALSE
      <3>1. PICK e \in Nat : q = -(1 + e)
        <4>1. -q - 1 \in Nat /\ q = -(1 + (-q - 1))
          BY <1>1, <2>1
        <4> QED
          BY <4>1
      <3>2. q * N = -N - e * N /\ e * N \in Nat
        BY <1>1, <3>1
      <3> QED
        BY <1>1, <3>2, Sizes
    <2>2. ASSUME q >= N PROVE FALSE
      <3>1. PICK e \in Nat : q = N + e
        <4>1. q - N \in Nat /\ q = N + (q - N)
          BY <1>1, <2>2
        <4> QED
          BY <4>1
      <3>2. q * N = N * N + e * N /\ e * N \in Nat /\ N * N \in Nat
        BY <1>1, <3>1
      <3> QED
        BY <1>1, <3>2
    <2> QED
      BY <1>1, <2>1, <2>2
  <1>3. (2 * z) \div N = 2 * q + t
    <2>1. t \in {0, 1} /\ s \in 0..(N - 1)
      BY <1>1
    <2>2. (2 * q + t) * N = 2 * (q * N) + t * N
      BY <1>1, <2>1
    <2>3. 2 * z = (2 * q + t) * N + s /\ 2 * q + t \in Int
      BY <1>1, <2>1, <2>2
    <2> HIDE DEF s, t
    <2> DEFINE k == 2 * q + t
    <2>4. k \in Int
      BY <2>3
    <2> HIDE DEF k
    <2>5. (k * N + s) \div N = k
      BY <1>1, <2>1, <2>4, Euclid
    <2> QED
      BY <2>3, <2>5 DEF k
  <1>4. SetTag(2 * q + t) = 2 * q + 1
    BY <1>1 DEF SetTag
  <1>5. value(2 * q + 1) = 2 * q + 1 /\ 2 * q + 1 \in Tagged
    BY <1>2, Sizes DEF value, Tagged
  <1>6. phi(2 * q + 1) = q % N
    BY <1>1, Cut
  <1> QED
    BY <1>3, <1>4, <1>5, <1>6 DEF q

LEMMA DoubleMultiplications ==
  ASSUME NEW a \in Tagged, NEW b \in Tagged, NEW c \in Tagged
  PROVE  Correct(MulC(a, <<b, c>>),
               IF phi(a) * phi(b) = 0 THEN One(0)
               ELSE Both((phi(a) * phi(b)) \div N, phi(a) * phi(b)), 1)
  <1> DEFINE x == phi(a)
             y == phi(b)
             z == x * y
  <1>1. x \in 0..(N - 1) /\ y \in 0..(N - 1) /\ uint32(DropTag(b)) = 2 * y
    BY Untagged
  <1>2. uint32_of_value(a) = x
    BY DEF phi
  <1> HIDE DEF x, y
  <1>3. x * (2 * y) = 2 * z /\ z \in 0..(N * N - 1) /\ z \in Int
    BY <1>1, Square, Sizes
  <1> HIDE DEF z
  <1>4. uint64(2 * z) = 2 * z
    <2>1. (2 * N) * (2 * N) = 4 * (N * N)
      BY Sizes
    <2> DEFINE M == N * N
    <2>2. M \in Nat /\ z \in 0..(M - 1)
      BY <1>3, Sizes
    <2> HIDE DEF M
    <2>3. (2 * z) % (4 * M) = 2 * z
      BY <2>2
    <2> QED
      BY <2>1, <2>3 DEF uint64, M
  <1>5. uint64(uint32_of_value(a) * uint32(DropTag(b))) = 2 * z
    BY <1>1, <1>2, <1>3, <1>4
  <1> DEFINE h == value(SetTag((2 * z) \div N))
             l == SetTag(int32_to_value(2 * z))
  <1>6. /\ MulC(a, <<b, c>>) = IF 2 * z = 0 THEN Word(1, 1) ELSE Block(1, 1, <<h, l>>)
        /\ 2 * z = 0 <=> z = 0
    BY <1>3, <1>5 DEF MulC
  <1>7. /\ h \in Tagged /\ phi(h) = (z \div N) % N
        /\ l \in Tagged /\ phi(l) = z % N
    BY <1>3, HighPart, LowPart
  <1>8. z \div N \in Int
    BY <1>3, Sizes
  <1> HIDE DEF h, l
  <1>9. CASE z = 0
    <2>1. 2 * 0 + 1 = 1 /\ 1 \in Tagged
      BY Sizes DEF Tagged
    <2>2. phi(1) = 0 % N
      BY <2>1, Cut
    <2>3. Correct(Word(1, 1), One(0), 1)
      BY <2>1, <2>2, CorrectWord
    <2> QED
      BY <1>6, <1>9, <2>3 DEF z, x, y
  <1>10. CASE z # 0
    <2>1. Correct(Block(1, 1, <<h, l>>), Both(z \div N, z), 1)
      BY <1>3, <1>7, <1>8, CorrectBoth
    <2> QED
      BY <1>6, <1>10, <2>1 DEF z, x, y
  <1> QED
    BY <1>9, <1>10

(* Each arithmetic instruction computes the function of Int31.v it stands    *)
(* for, with its carry, pops its operands and leaves tagged words, whatever  *)
(* the number of integers, on words whose upper bits may be anything.        *)
THEOREM ArithmeticComputes ==
  ASSUME NEW op \in Arithmetic, NEW a \in Tagged, NEW b \in Tagged, NEW c \in Tagged
  PROVE  Correct(Compute(op, a, <<b, c>>), Meaning(op, phi(a), phi(b), phi(c)), Operands(op))
  <1>1. CASE op \in {"ADDINT31", "ADDCINT31", "ADDCARRYCINT31"}
    BY <1>1, Additions DEF Compute, Meaning, Operands
  <1>2. CASE op \in {"SUBINT31", "SUBCINT31", "SUBCARRYCINT31"}
    BY <1>2, Subtractions DEF Compute, Meaning, Operands
  <1>3. CASE op = "MULINT31"
    BY <1>3, Multiplications DEF Compute, Meaning, Operands
  <1>4. CASE op = "MULCINT31"
    BY <1>4, DoubleMultiplications DEF Compute, Meaning, Operands
  <1>5. CASE op \in {"DIVINT31", "DIV21INT31"}
    BY <1>5, Divisions DEF Compute, Meaning, Operands
  <1>6. CASE op = "COMPAREINT31"
    BY <1>6, Comparison DEF Compute, Meaning, Operands
  <1> QED
    BY <1>1, <1>2, <1>3, <1>4, <1>5, <1>6 DEF Arithmetic
=============================================================================
