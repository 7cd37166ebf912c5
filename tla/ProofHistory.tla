---------------------------- MODULE ProofHistory ----------------------------
(***************************************************************************)
(* What Undo promises to the author of a proof: the proof remembers the    *)
(* states it went through, a command adds to them and never rewrites them, *)
(* and going back gives one of them again.                                 *)
(***************************************************************************)
EXTENDS Naturals, Sequences

CONSTANTS ProofStart     \* the states a proof starts with

VARIABLES past           \* what can be had back, and the current state last

SameUpTo(s, t, n) == n <= Len(s) /\ n <= Len(t) /\ SubSeq(s, 1, n) = SubSeq(t, 1, n)

Init == past \in ProofStart

\* A command has gone through further states.
Advance == SameUpTo(past, past', Len(past))

\* A command has gone back to an earlier state.
GoBack == past' # <<>> /\ SameUpTo(past, past', Len(past'))

\* The proof has ended and another one begins.
StartAnew == past' \in ProofStart

Next == Advance \/ GoBack \/ StartAnew

Spec == Init /\ [][Next]_past
=============================================================================
