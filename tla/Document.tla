------------------------------ MODULE Document ------------------------------
(***************************************************************************)
(* What the interactive toplevel promises to its user: a document, that is *)
(* the list of the states reached after each recorded command, the last of *)
(* which is the current state whenever a command has just succeeded.  The  *)
(* reference manual (doc/refman/RefMan-oth.tex, "Back" and "BackTo")       *)
(* describes going back as returning to one of these states, possibly an   *)
(* earlier one than asked for, and forgetting those that follow.           *)
(*                                                                         *)
(* Module Backtrack models how the code does it, with a history stack, a   *)
(* stack of proofs that each keep an undo stack, and frozen states.        *)
(***************************************************************************)
EXTENDS Naturals, Sequences

CONSTANTS Empty,     \* the state the toplevel starts in
          Answers    \* what a command may answer; "ok" is one of them

VARIABLES doc,       \* the recorded states, oldest first
          now,       \* the current state
          answer     \* the answer to the last command

docVars == <<doc, now, answer>>

Init == /\ doc = <<Empty>>
        /\ now = Empty
        /\ answer = "ok"

\* The document loses the states after the n-th.
Forget(n) == doc' = SubSeq(doc, 1, n)

\* A command succeeds; the state it reaches is recorded.
Record == /\ doc' = Append(doc, now')
          /\ answer' = "ok"

\* The system returns to a recorded state, the whole of it.
GoBack == \E n \in 1..Len(doc) : /\ Forget(n)
                                 /\ now' = doc[n]
                                 /\ answer' = "ok"

\* Anything else (a query, a failure, an interrupt) may change the current
\* state but never adds to the document, and does not pretend to succeed.
Drift == /\ \E n \in 1..Len(doc) : Forget(n)
         /\ answer' \in Answers \ {"ok"}

Next == Record \/ GoBack \/ Drift

Spec == Init /\ [][Next]_docVars
=============================================================================
