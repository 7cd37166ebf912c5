----------------------------- MODULE Int31Arith -----------------------------
(* The instructions of the virtual machine on native integers that are       *)
(* arithmetic (kernel/byterun/coq_interp.c, from ADDINT31 to COMPAREINT31),  *)
(* and the functions of theories/Numbers/Cyclic/Int31/Int31.v they stand     *)
(* for: the retroknowledge replaces each of these functions by its           *)
(* instruction.                                                              *)
(*                                                                           *)
(* C computes with the type uint32 on words of the type value, that hold an  *)
(* integer n of 31 bits as 2n+1.  A value has 32 bits too on some machines,  *)
(* and 64 on the others.  Both are parameters: N is the number of integers,  *)
(* 2^31 in the code, so that there are 2N of uint32, and Values that of      *)
(* values.                                                                   *)
EXTENDS Integers, Sequences

CONSTANTS N, Values

ASSUME NumbersAssumption == /\ N \in Nat /\ N >= 4
                            /\ Values = 2 * N \/ Values = (2 * N) * (2 * N)

uint32(x) == x % (2 * N)
uint64(x) == x % ((2 * N) * (2 * N))
value(x)  == x % Values

\* The conversion of an int32 to a value extends its sign.
int32_to_value(x) == IF uint32(x) < N THEN uint32(x) ELSE value(uint32(x) - 2 * N)

uint32_of_value(v) == uint32(v) \div 2
value_of_uint32(i) == uint32(2 * i) + 1

SetTag(x) == x + 1 - (x % 2)            \* x | 1
DropTag(x) == x - 1                     \* x ^ 1, of a word whose tag is set

-----------------------------------------------------------------------------
(* What an instruction leaves: how many words it pops, and either one word  *)
(* for the accumulator or a block of words with a tag.                      *)
Word(pop, w) == [pop |-> pop, block |-> FALSE, tag |-> 0, words |-> <<w>>]
Block(pop, tag, ws) == [pop |-> pop, block |-> TRUE, tag |-> tag, words |-> ws]

\* The constructors C1 (a carry) and C0 of the type carry.
Carried(carry, s) == Block(1, IF carry THEN 2 ELSE 1, <<s>>)

Add(a, s) == Word(1, uint32(uint32(a) + uint32(s[1]) - 1))
AddC(a, s) ==
  LET r == uint32(uint32(a) + uint32(s[1]) - 1) IN Carried(r < uint32(a), r)
\* Mutant: the carry is tested as that of an addition without one.
AddCarryCStrict(a, s) ==
  LET r == uint32(uint32(a) + uint32(s[1]) + 1) IN Carried(r < uint32(a), r)

AddCarryC(a, s) ==
  LET r == uint32(uint32(a) + uint32(s[1]) + 1) IN Carried(r <= uint32(a), r)
Sub(a, s) == Word(1, uint32(uint32(a) - uint32(s[1]) + 1))
SubC(a, s) == Carried(uint32(a) < uint32(s[1]),
                      uint32(uint32(a) - uint32(s[1]) + 1))
SubCarryC(a, s) == Carried(uint32(a) <= uint32(s[1]),
                           uint32(uint32(a) - uint32(s[1]) - 1))
Mul(a, s) == Word(1, value_of_uint32(uint32_of_value(a) * uint32_of_value(s[1])))

\* The product of two integers, twice: shifting it by "31" gives its high part
\* without its tag, and its low word the low part without its tag.
MulC(a, s) ==
  LET p == uint64(uint32_of_value(a) * uint32(DropTag(s[1])))
  IN IF p = 0 THEN Word(1, 1)
     ELSE Block(1, 1, <<value(SetTag(p \div N)), SetTag(int32_to_value(p))>>)

Quotient(pop, n, d) ==
  IF d = 0 THEN Block(pop, 1, <<1, 1>>)
  ELSE Block(pop, 1, <<value_of_uint32(n \div d), value_of_uint32(n % d)>>)
Div21(a, s) == Quotient(2, uint64(uint32_of_value(a) * N + uint32_of_value(s[1])),
                        uint32_of_value(s[2]))
Div(a, s) == Quotient(1, uint32_of_value(a), uint32_of_value(s[1]))

\* The constants Eq, Lt and Gt of the type comparison.
Compare(a, s) == Word(1, CASE uint32(a) = uint32(s[1]) -> 1
                           [] uint32(a) < uint32(s[1]) -> 3
                           [] OTHER -> 5)

Arithmetic == {"ADDINT31", "ADDCINT31", "ADDCARRYCINT31", "SUBINT31", "SUBCINT31",
               "SUBCARRYCINT31", "MULINT31", "MULCINT31", "DIV21INT31",
               "DIVINT31", "COMPAREINT31"}

Compute(op, a, s) ==
  CASE op = "ADDINT31" -> Add(a, s)    [] op = "ADDCINT31" -> AddC(a, s)
    [] op = "SUBINT31" -> Sub(a, s)    [] op = "SUBCINT31" -> SubC(a, s)
    [] op = "ADDCARRYCINT31" -> AddCarryC(a, s)
    [] op = "SUBCARRYCINT31" -> SubCarryC(a, s)
    [] op = "MULINT31" -> Mul(a, s)    [] op = "MULCINT31" -> MulC(a, s)
    [] op = "DIVINT31" -> Div(a, s)    [] op = "DIV21INT31" -> Div21(a, s)
    [] op = "COMPAREINT31" -> Compare(a, s)

-----------------------------------------------------------------------------
(* The definitions of Int31.v, on integers.  With carry, the result is the  *)
(* tag of C0 or C1 and an integer; otherwise one integer, or a pair of tag  *)
(* 1, except 0 for a product that is zero.                                  *)
phi(v) == uint32_of_value(v)

Exact(z) == [tag |-> IF z \in 0..(N - 1) THEN 1 ELSE 2, ints |-> <<z % N>>]
One(z)   == [tag |-> 0, ints |-> <<z % N>>]
Both(h, l) == [tag |-> 1, ints |-> <<h % N, l % N>>]

DivEucl(n, d) == IF d = 0 THEN Both(0, 0) ELSE Both(n \div d, n % d)

\* The function of Int31.v, and the number of its operands on the stack.
Meaning(op, a, b, c) ==
  CASE op = "ADDINT31" -> One(a + b)   [] op = "ADDCINT31" -> Exact(a + b)
    [] op = "SUBINT31" -> One(a - b)   [] op = "SUBCINT31" -> Exact(a - b)
    [] op = "ADDCARRYCINT31" -> Exact(a + b + 1)
    [] op = "SUBCARRYCINT31" -> Exact(a - b - 1)
    [] op = "MULINT31" -> One(a * b)
    [] op = "MULCINT31" -> IF a * b = 0 THEN One(0) ELSE Both((a * b) \div N, a * b)
    [] op = "DIVINT31" -> DivEucl(a, b)
    [] op = "DIV21INT31" -> DivEucl(a * N + b, c)
    [] op = "COMPAREINT31" -> One(IF a = b THEN 0 ELSE IF a < b THEN 1 ELSE 2)

Operands(op) == IF op = "DIV21INT31" THEN 2 ELSE 1

\* An instruction that leaves r computes f and pops its operands: its words
\* stand for the integers of f, and are tagged.
Same(r, f, pops) ==
  /\ r.pop = pops
  /\ r.tag = f.tag
  /\ [i \in DOMAIN r.words |-> phi(r.words[i])] = f.ints
  /\ \A i \in DOMAIN r.words : r.words[i] % 2 = 1
=============================================================================
