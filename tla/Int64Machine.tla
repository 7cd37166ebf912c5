---------------------------- MODULE Int64Machine ----------------------------
(* The operations of Int64 that work on bits, and I64_udivmod on pairs of   *)
(* words, against 64-bit arithmetic.  Words have W bits, 32 in the code.    *)
EXTENDS Int64, Bitwise, Sequences

CONSTANT W

ASSUME WAssumption == W % 2 = 0 /\ B = 2^W

Lsl(n, s) == word(n * 2^s)             \* shifts of a word, by less than W
Lsr(n, s) == n \div (2^s)
signed(n) == IF n >= HalfB THEN n - B ELSE n

compare(x, y) ==
  CASE signed(x.h) > signed(y.h) -> 1
    [] signed(x.h) < signed(y.h) -> -1
    [] x.h = y.h /\ x.l > y.l -> 1
    [] x.h = y.h /\ x.l < y.l -> -1
    [] OTHER -> 0

mul(x, y) ==
  LET S == 2^(W \div 2)
      prod00 == word((x.l % S) * (y.l % S))
      prod10 == word((x.l \div S) * (y.l % S))
      prod01 == word((x.l % S) * (y.l \div S))
      prod11 == word((x.l \div S) * (y.l \div S))
      h0 == word(prod11 + prod01 \div S + prod10 \div S)
      p01 == word(prod01 * S)
      l1 == word(prod00 + p01)
      h1 == IF l1 < p01 THEN word(h0 + 1) ELSE h0
      p10 == word(prod10 * S)
      l2 == word(l1 + p10)
      h2 == IF l2 < p10 THEN word(h1 + 1) ELSE h1
  IN Pair(word(h2 + x.l * y.h + x.h * y.l), l2)

and(x, y) == Pair(x.h & y.h, x.l & y.l)
or(x, y)  == Pair(x.h | y.h, x.l | y.l)
xor(x, y) == Pair(x.h ^^ y.h, x.l ^^ y.l)

lsl(x, t) ==
  LET s == t % (2 * W) IN
  CASE s = 0 -> x
    [] s > 0 /\ s < W -> Pair(Lsl(x.h, s) | Lsr(x.l, W - s), Lsl(x.l, s))
    [] OTHER -> Pair(Lsl(x.l, s - W), 0)

lsr(x, t) ==
  LET s == t % (2 * W) IN
  CASE s = 0 -> x
    [] s > 0 /\ s < W -> Pair(Lsr(x.h, s), Lsr(x.l, s) | Lsl(x.h, W - s))
    [] OTHER -> Pair(0, Lsr(x.h, s - W))

asr(x, t) ==
  LET s == t % (2 * W) IN
  CASE s = 0 -> x
    [] s > 0 /\ s < W -> Pair(word(signed(x.h) \div (2^s)), Lsr(x.l, s) | Lsl(x.h, W - s))
    [] OTHER -> Pair(word(signed(x.h) \div HalfB), word(signed(x.h) \div (2^(s - W))))

of_int32(n) == Pair(word(signed(n) \div HalfB), n)
to_int32(x) == x.l

-----------------------------------------------------------------------------
VARIABLES num, den, modulus, divisor, quotient, mask, at

vars == <<num, den, modulus, divisor, quotient, mask, at>>

Init == /\ num \in Int64s
        /\ den \in {x \in Int64s : ~is_zero(x)}
        /\ modulus = num
        /\ divisor = den
        /\ quotient = Pair(0, 0)
        /\ mask = Pair(0, 1)
        /\ at = "raise"

Raise == /\ at = "raise"
         /\ ~is_negative(divisor)
         /\ divisor' = SHL1(divisor)
         /\ mask' = SHL1(mask)
         /\ at' = IF ucompare(divisor, modulus) >= 0 THEN "lower" ELSE "raise"
         /\ UNCHANGED <<num, den, modulus, quotient>>

Raised == /\ at = "raise"
          /\ is_negative(divisor)
          /\ at' = "lower"
          /\ UNCHANGED <<num, den, modulus, divisor, quotient, mask>>

\* Mutant: nothing is subtracted from an equal number.
LowerStrict == /\ at = "lower"
               /\ ~is_zero(mask)
               /\ IF ucompare(modulus, divisor) > 0
                  THEN quotient' = or(quotient, mask) /\ modulus' = sub(modulus, divisor)
                  ELSE UNCHANGED <<quotient, modulus>>
               /\ mask' = SHR1(mask)
               /\ divisor' = SHR1(divisor)
               /\ UNCHANGED <<num, den, at>>

\* Mutant: the mask is not halved.
LowerKeepsMask == /\ at = "lower"
                  /\ ~is_zero(mask)
                  /\ IF ucompare(modulus, divisor) >= 0
                     THEN quotient' = or(quotient, mask) /\ modulus' = sub(modulus, divisor)
                     ELSE UNCHANGED <<quotient, modulus>>
                  /\ divisor' = SHR1(divisor)
                  /\ UNCHANGED <<num, den, mask, at>>

Lower == /\ at = "lower"
         /\ ~is_zero(mask)
         /\ IF ucompare(modulus, divisor) >= 0
            THEN quotient' = or(quotient, mask) /\ modulus' = sub(modulus, divisor)
            ELSE UNCHANGED <<quotient, modulus>>
         /\ mask' = SHR1(mask)
         /\ divisor' = SHR1(divisor)
         /\ UNCHANGED <<num, den, at>>

Finish == /\ at = "lower"
          /\ is_zero(mask)
          /\ at' = "done"
          /\ UNCHANGED <<num, den, modulus, divisor, quotient, mask>>

Next == Raise \/ Raised \/ Lower \/ Finish

Spec == Init /\ [][Next]_vars /\ WF_vars(Next)

-----------------------------------------------------------------------------
(* The division on pairs does step by step what it does on integers: no      *)
(* carry is lost between the two words of a pair, and setting a bit of the   *)
(* quotient adds it.                                                         *)
I == INSTANCE Division
       WITH num <- Val(num), den <- Val(den),
            modulus <- Val(modulus), divisor <- Val(divisor),
            quotient <- Val(quotient), mask <- Val(mask)

ImplementsDivision == I!Spec
Euclidean == I!Euclidean
Terminates == I!Terminates

Signed(x) == IF is_negative(x) THEN Val(x) - Size ELSE Val(x)
Sign(n) == IF n > 0 THEN 1 ELSE IF n < 0 THEN -1 ELSE 0

(* Each operation on pairs is the one of its name on 64-bit integers, modulo *)
(* their number, through every carry from one word to the other.             *)
OperationsAgree ==
  at = "raise" /\ mask = Pair(0, 1) =>
    LET x == num  y == den IN
    /\ Val(add(x, y)) = (Val(x) + Val(y)) % Size
    /\ Val(sub(x, y)) = (Val(x) - Val(y)) % Size
    /\ Val(neg(x)) = (-Val(x)) % Size
    /\ Val(mul(x, y)) = (Val(x) * Val(y)) % Size
    /\ ucompare(x, y) = Sign(Val(x) - Val(y))
    /\ compare(x, y) = Sign(Signed(x) - Signed(y))
    /\ \A s \in {y.l} : /\ Val(lsl(x, s)) = (Val(x) * 2^(s % (2 * W))) % Size
                        /\ Val(lsr(x, s)) = Val(x) \div (2^(s % (2 * W)))
                        /\ Val(asr(x, s)) = (Signed(x) \div (2^(s % (2 * W)))) % Size
    /\ Val(and(x, y)) = Val(x) & Val(y)
    /\ Val(or(x, y)) = Val(x) | Val(y)
    /\ Val(xor(x, y)) = Val(x) ^^ Val(y)
    /\ Signed(of_int32(x.l)) = signed(x.l)
    /\ to_int32(of_int32(x.l)) = x.l
=============================================================================
