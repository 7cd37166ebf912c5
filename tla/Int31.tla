------------------------------- MODULE Int31 -------------------------------
(* The instructions of the virtual machine on native integers that work on  *)
(* bits (kernel/byterun/coq_interp.c, from ADDMULDIVINT31 to XORINT31), and *)
(* all of them.  W is the width of uint32, so that integers have W-1 bits,  *)
(* and "31" below reads W-1.                                                *)
EXTENDS Int31Arith, Bitwise

CONSTANT W

ASSUME WidthsAssumption == /\ W \in {4, 8} /\ N = 2^(W - 1)
                           /\ Values \in {2^W, 2^(2 * W)}

Lsr(x, n) == x \div (2^n)

\* The shift is done on values; only the second operand is cast to uint32.
AddMulDiv(a, s) ==
  LET shiftby == uint32_of_value(a) IN
  CASE shiftby <= W - 1 ->
         Word(2, SetTag(value(DropTag(s[1]) * 2^shiftby)
                        | Lsr(uint32(s[2]), W - 1 - shiftby)))
    [] shiftby > W - 1 /\ shiftby < 2 * (W - 1) ->
         Word(2, SetTag(value(DropTag(s[2]) * 2^(shiftby - (W - 1)))))
    [] OTHER -> Word(0, 1)

\* A binary search: a half, then a quarter... of the word is skipped when it
\* is zero.  The last test sees the tag, or the bit above the integer.
RECURSIVE Leading(_, _, _), Trailing(_, _, _)
Leading(x, k, r) ==
  LET y == IF x < 2^(W - k) THEN uint32(x * 2^k) ELSE x
      q == IF x < 2^(W - k) THEN r + k ELSE r
  IN IF k > 1 THEN Leading(y, k \div 2, q)
     ELSE IF y < 2^(W - 1) THEN q + 1 ELSE q
Trailing(x, k, r) ==
  LET y == IF x % 2^k = 0 THEN Lsr(x, k) ELSE x
      q == IF x % 2^k = 0 THEN r + k ELSE r
  IN IF k > 1 THEN Trailing(y, k \div 2, q)
     ELSE IF y % 2 = 0 THEN q + 1 ELSE q
Head0(a, s) == Word(0, value_of_uint32(Leading(uint32(a), W \div 2, 0)))
Tail0(a, s) ==
  Word(0, value_of_uint32(Trailing(Lsr(uint32(a), 1) + 2^(W - 1), W \div 2, 0)))

BitOr(a, s)  == Word(1, value_of_uint32(uint32_of_value(a) | uint32_of_value(s[1])))
BitAnd(a, s) == Word(1, value_of_uint32(uint32_of_value(a) & uint32_of_value(s[1])))
BitXor(a, s) == Word(1, value_of_uint32(uint32_of_value(a) ^^ uint32_of_value(s[1])))

-----------------------------------------------------------------------------
(* An integer from its digits, the high one in the accumulator, and back.   *)
RECURSIVE Compose(_, _, _)
Compose(a, s, i) ==
  IF i > W - 2 THEN a
  ELSE Compose(uint32(2 * uint32(uint32(a) - 1)) | s[i], s, i + 1)
Comp(a, s) == Word(W - 2, Compose(a, s, 1))
\* Mutant: the bits above a digit are kept.
DecompUnmasked(a, s) ==
  Block(0, 1, [i \in 1..(W - 1) |-> SetTag(Lsr(uint32(a), W - 1 - i))])

Decomp(a, s) ==
  Block(0, 1, [i \in 1..(W - 1) |->
                 SetTag(Lsr(uint32(a), W - 1 - i)) % 4])

Arith == [ADDINT31 |-> 2, ADDCINT31 |-> 2, ADDCARRYCINT31 |-> 2,
          SUBINT31 |-> 2, SUBCINT31 |-> 2, SUBCARRYCINT31 |-> 2,
          MULINT31 |-> 2, MULCINT31 |-> 2, DIV21INT31 |-> 3, DIVINT31 |-> 2,
          ADDMULDIVINT31 |-> 3, COMPAREINT31 |-> 2, HEAD0INT31 |-> 1,
          TAIL0INT31 |-> 1, ORINT31 |-> 2, ANDINT31 |-> 2, XORINT31 |-> 2,
          COMPINT31 |-> W - 1, DECOMPINT31 |-> 1]      \* their operands

Execute(op, a, s) ==
  CASE op \in Arithmetic -> Compute(op, a, s)
    [] op = "ADDMULDIVINT31" -> AddMulDiv(a, s)
    [] op = "HEAD0INT31" -> Head0(a, s)  [] op = "TAIL0INT31" -> Tail0(a, s)
    [] op = "ORINT31" -> BitOr(a, s)        [] op = "ANDINT31" -> BitAnd(a, s)
    [] op = "XORINT31" -> BitXor(a, s)
    [] op = "COMPINT31" -> Comp(a, s)    [] op = "DECOMPINT31" -> Decomp(a, s)
=============================================================================
