------------------------------ MODULE Division ------------------------------
(* Unsigned division by shifting and subtracting, on integers: what         *)
(* I64_udivmod (kernel/byterun/int64_emul.h) does with pairs of words.  The *)
(* divisor is doubled, with the bit of the quotient it stands for, until it *)
(* exceeds the dividend or its high bit is set; then both are halved.       *)
EXTENDS Int64

VARIABLES num, den,    \* the arguments
          modulus, divisor, quotient, mask,
          at           \* the loop that runs: "raise", "lower", or "done"

vars == <<num, den, modulus, divisor, quotient, mask, at>>

U64 == 0..(Size - 1)
High(n) == 2 * n >= Size

Init == /\ num \in U64
        /\ den \in U64 \ {0}
        /\ modulus = num
        /\ divisor = den
        /\ quotient = 0
        /\ mask = 1
        /\ at = "raise"

\* One turn of the first loop, that a divisor not below the dividend ends.
Raise == /\ at = "raise"
         /\ ~High(divisor)
         /\ divisor' = 2 * divisor
         /\ mask' = 2 * mask
         /\ at' = IF divisor >= modulus THEN "lower" ELSE "raise"
         /\ UNCHANGED <<num, den, modulus, quotient>>

Raised == /\ at = "raise"
          /\ High(divisor)
          /\ at' = "lower"
          /\ UNCHANGED <<num, den, modulus, divisor, quotient, mask>>

\* One turn of the second loop.
Lower == /\ at = "lower"
         /\ mask # 0
         /\ IF modulus >= divisor
            THEN quotient' = quotient + mask /\ modulus' = modulus - divisor
            ELSE UNCHANGED <<quotient, modulus>>
         /\ mask' = mask \div 2
         /\ divisor' = divisor \div 2
         /\ UNCHANGED <<num, den, at>>

Finish == /\ at = "lower"
          /\ mask = 0
          /\ at' = "done"
          /\ UNCHANGED <<num, den, modulus, divisor, quotient, mask>>

Next == Raise \/ Raised \/ Lower \/ Finish

Spec == Init /\ [][Next]_vars /\ WF_vars(Next)

-----------------------------------------------------------------------------
(* The answer of a division is the quotient and the remainder of the         *)
(* Euclidean division: DIV21INT31 gives them to the program as such.         *)
Euclidean == at = "done" => /\ num = quotient * den + modulus
                            /\ modulus \in 0..(den - 1)

(* No intermediate value leaves the range of 64-bit integers: doubling the   *)
(* divisor and its mask never loses a bit, and no subtraction wraps.         *)
NoWrap == {modulus, divisor, quotient, mask} \subseteq U64

(* A division ends: DIV21INT31 is not interrupted by signals.                *)
Terminates == <>(at = "done")
=============================================================================
