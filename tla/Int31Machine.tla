---------------------------- MODULE Int31Machine ----------------------------
(* Sequences of the instructions of Int31, against the functions of         *)
(* theories/Numbers/Cyclic/Int31/Int31.v they stand for: the retroknowledge *)
(* replaces each of these functions by its instruction.                     *)
EXTENDS Int31

CONSTANT Loaded        \* the integers a program loads

VARIABLES accu, s1, s2 \* the accumulator and two words of the stack

vars == <<accu, s1, s2>>

Digits == W - 1

-----------------------------------------------------------------------------
(* The definitions of Int31.v that work on bits, on integers. *)
RECURSIVE AddMulDiv31(_, _, _), HeadZeros(_, _), TailZeros(_, _)
\* One bit at a time, from the head of j into the tail of i.
AddMulDiv31(p, i, j) ==
  IF p = 0 THEN i
  ELSE AddMulDiv31(p - 1, (2 * i + (2 * j) \div N) % N, (2 * j) % N)
HeadZeros(n, k) == IF k = 0 \/ n >= 2^(k - 1) THEN Digits - k ELSE HeadZeros(n, k - 1)
TailZeros(n, k) == IF k = Digits \/ (n \div (2^k)) % 2 = 1 THEN k ELSE TailZeros(n, k + 1)

Function(op, a, b, c) ==
  CASE op \in Arithmetic -> Meaning(op, a, b, c)
    [] op = "ADDMULDIVINT31" -> One(AddMulDiv31(a, b, c))
    [] op = "HEAD0INT31" -> One(HeadZeros(a, Digits))
    [] op = "TAIL0INT31" -> One(TailZeros(a, 0))
    [] op = "ORINT31" -> One(a | b)     [] op = "ANDINT31" -> One(a & b)
    [] op = "XORINT31" -> One(a ^^ b)

Ops == DOMAIN Arith \ {"COMPINT31", "DECOMPINT31"}

-----------------------------------------------------------------------------
Init == /\ accu \in {value_of_uint32(n) : n \in Loaded}
        /\ s1 = value_of_uint32(0)
        /\ s2 = value_of_uint32(0)

\* PUSH and CONSTINT.
Load == \E n \in Loaded :
          accu' = value_of_uint32(n) /\ s1' = accu /\ s2' = s1

\* An instruction; the fields of a block are destructured, by PUSHFIELDS.
Run(op) ==
  LET r == Execute(op, accu, <<s1, s2>>) IN
  /\ op = "ADDMULDIVINT31" => phi(accu) < 2 * Digits
  /\ accu' = r.words[1]
  /\ IF Len(r.words) = 2 THEN s1' = r.words[2] /\ s2' = s1
                         ELSE UNCHANGED <<s1, s2>>

\* DECOMPINT31, then COMPINT31 on the digits.
Recompose ==
  LET d == Decomp(accu, <<>>).words IN
  /\ accu' = Comp(d[1], Tail(d)).words[1]
  /\ UNCHANGED <<s1, s2>>

Next == Load \/ (\E op \in Ops : Run(op)) \/ Recompose

Spec == Init /\ [][Next]_vars

-----------------------------------------------------------------------------
InDomain(op) == op = "ADDMULDIVINT31" => phi(accu) < 2 * Digits

(* Whatever instructions computed its operands, an instruction computes the  *)
(* function of Int31.v it stands for, with its carry and at every boundary,  *)
(* and pops its operands: shifts by twice the width of integers or more are  *)
(* apart, see ShiftsPop.                                                     *)
ComputesFunction ==
  \A op \in Ops :
     InDomain(op) => Same(Execute(op, accu, <<s1, s2>>),
                          Function(op, phi(accu), phi(s1), phi(s2)),
                          Arith[op] - 1)

(* The digits that a match on an integer binds are those of the integer,     *)
(* high one first, and building an integer from digits gives it back: what   *)
(* DECOMPINT31 leaves is what COMPINT31 takes.                               *)
DigitsRoundTrip ==
  LET d == Decomp(accu, <<>>).words IN
  /\ \A i \in 1..Digits : d[i] = 1 + 2 * ((phi(accu) \div (2^(Digits - i))) % 2)
  /\ Comp(d[1], Tail(d)).words = <<value_of_uint32(phi(accu))>>
  /\ Comp(d[1], Tail(d)).pop = Len(d) - 1

(* The same for ADDMULDIVINT31 whatever the shift: cbytecodes.ml and Int31.v *)
(* define it for every shift, and the code that runs next counts on the      *)
(* operands being popped.                                                    *)
ShiftsPop ==
  LET op == "ADDMULDIVINT31" IN
  Same(Execute(op, accu, <<s1, s2>>), Function(op, phi(accu), phi(s1), phi(s2)), 2)
=============================================================================
