---------------------------- MODULE MCBacktrack -----------------------------
(* Model values and symmetry for checking Backtrack. *)
EXTENDS Backtrack, TLC

CONSTANTS a, b,            \* two names
          s0, done         \* a goal left, and none

MCNames == {a, b}
MCProofStates == {s0, done}
MCSolved == {done}
\* The last answer decides nothing, nor does an entry tagged unreachable but by
\* being in a proof or not; states that differ by them only behave alike.
View == <<[i \in DOMAIN hist |->
             IF hist[i].reachable THEN <<hist[i]>> ELSE <<hist[i].label, hist[i].prfname = None>>],
          proofs, env, lib, label, load>>

Sym == Permutations(MCNames)
=============================================================================
