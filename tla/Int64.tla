------------------------------- MODULE Int64 -------------------------------
(* The emulation of 64-bit integers by pairs of 32-bit words, used where    *)
(* the C compiler has none (kernel/byterun/int64_emul.h).  B is the number  *)
(* of words, 2^32 in the code.                                              *)
EXTENDS Integers

CONSTANT B

ASSUME BAssumption == B \in Nat \ {0} /\ B % 2 = 0

Words == 0..(B - 1)
Int64s == [h : Words, l : Words]

word(n) == n % B
HalfB == B \div 2
Size == B * B          \* 64-bit integers are those below
Pair(h, l) == [h |-> h, l |-> l]

\* The integer a pair stands for, unsigned.
Val(x) == x.h * B + x.l

-----------------------------------------------------------------------------
ucompare(x, y) ==
  CASE x.h > y.h -> 1
    [] x.h < y.h -> -1
    [] x.h = y.h /\ x.l > y.l -> 1
    [] x.h = y.h /\ x.l < y.l -> -1
    [] OTHER -> 0

neg(x) ==
  LET l == word(-x.l)
      h == B - 1 - x.h
  IN Pair(IF l = 0 THEN word(h + 1) ELSE h, l)

\* Mutant: a carry is seen when zero is added.
addCarryEq(x, y) ==
  LET l == word(x.l + y.l)
      h == word(x.h + y.h)
  IN Pair(IF l <= x.l THEN word(h + 1) ELSE h, l)

add(x, y) ==
  LET l == word(x.l + y.l)
      h == word(x.h + y.h)
  IN Pair(IF l < x.l THEN word(h + 1) ELSE h, l)

sub(x, y) ==
  LET l == word(x.l - y.l)
      h == word(x.h - y.h)
  IN Pair(IF x.l < y.l THEN word(h - 1) ELSE h, l)

is_zero(x) == x.l = 0 /\ x.h = 0
is_negative(x) == x.h >= HalfB

SHL1(x) == Pair(word(2 * x.h) + x.l \div HalfB, word(2 * x.l))
\* Mutant: the bit that leaves the high word is lost.
SHR1Apart(x) == Pair(x.h \div 2, x.l \div 2)

SHR1(x) == Pair(x.h \div 2, x.l \div 2 + word(x.h * HalfB))
=============================================================================
