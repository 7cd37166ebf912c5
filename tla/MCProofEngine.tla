--------------------------- MODULE MCProofEngine ----------------------------
(* Model values for checking ProofEngine, and the specification of the runs  *)
(* that leave Undo out to go deeper.                                         *)
EXTENDS ProofEngine

CONSTANTS dash, star,         \* two bullets
          standard, other     \* two proof modes

MCBullets == {dash, star}
MCModes == {standard, other}

\* Without Undo no action looks at what the undo stack holds, a rollback
\* outside of a transaction excepted, which only interrupts lead to.
ForwardNext == (Command /\ call'.cmd # "Undo") \/ Instruction
ForwardSpec == Init /\ [][ForwardNext]_vars

Without(p) == [state |-> p.state, trans |-> p.trans, mode |-> p.mode]
ForwardView == <<Without(pr), ctrl, exn, call.cmd, Braces(call.pr.state), call.pr.state.comb>>
=============================================================================
