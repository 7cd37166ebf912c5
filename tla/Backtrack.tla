----------------------------- MODULE Backtrack ------------------------------
(***************************************************************************)
(* The state of an interactive Coq session and its backtracking:           *)
(*                                                                         *)
(*   toplevel/backtrack.ml    the command history stack                    *)
(*   toplevel/vernac.ml       one command: checks, rollback, marking       *)
(*   toplevel/vernacentries.ml  the proof-management commands              *)
(*   toplevel/lemmas.ml       saving and admitting a proof                 *)
(*   proofs/proof_global.ml, proofs/pfedit.ml  the stack of open proofs    *)
(*   library/lib.ml, library/states.ml   labels and frozen states          *)
(*                                                                         *)
(* The history, the open proofs and the library are three stacks that      *)
(* change at different moments and are rolled back by different code:      *)
(* States.freeze covers the library only, an undo stack covers one proof   *)
(* only, and the history covers neither.  The module is about their        *)
(* agreement.                                                              *)
(*                                                                         *)
(* Abstractions: the library and the summaries are the set of the names    *)
(* declared (env); a proof is the sequence of the states its undo stack    *)
(* can restore followed by its current one; goal counts, the command text  *)
(* and printing are left out.                                              *)
(***************************************************************************)
EXTENDS Naturals, Sequences, FiniteSets

CONSTANTS Names,       \* identifiers of constants and of open proofs
          None,        \* no proof is open
          ProofStates, \* contents of a proof, up to what is told apart
          Statement,   \* the state of a proof that has just been started
          Solved,      \* the states without remaining goals
          LoadKinds,   \* how files may be read: "atomic", "each" command
          MaxLabel,    \* bound: the largest command label
          MaxSteps     \* bound: the longest undo stack

ASSUME BacktrackAssumption ==
  /\ None \notin Names
  /\ Solved \subseteq ProofStates
  /\ Statement \in ProofStates \ Solved
  /\ LoadKinds \subseteq {"atomic", "each"}
  /\ MaxLabel \in Nat \ {0}
  /\ MaxSteps \in Nat \ {0}

VARIABLES
  hist,     \* Backtrack.history, oldest entry first
  proofs,   \* Proof_global.current_proof, the current proof last
  env,      \* the names declared: Lib.lib_stk and the summaries
  lib,      \* the labels of Lib.lib_stk, with the env frozen under each
  label,    \* the counter behind Lib.current_command_label
  load,     \* the file being read, with the kind of Load, or "no"
  answer    \* what the last command answered

\* recorded or restored; done but not recorded; an error; Fail on a command
\* that works; an interrupt
Answers == {"ok", "done", "failed", "unfailed", "interrupted"}

vars == <<hist, proofs, env, lib, label, load, answer>>

-----------------------------------------------------------------------------
(* Proofs.  [states] is the undo stack, oldest first, and the current state. *)

Proof == [name : Names, states : Seq(ProofStates)]

Depth(p) == Len(p.states) - 1
Top(s) == s[Len(s)]
OpenNames(ps) == {ps[i].name : i \in 1..Len(ps)}

NewProof(id) == [name |-> id, states |-> <<Statement, Statement>>]

Current == Top(proofs)

\* n pops of the undo stack of p
Undone(p, n) == [p EXCEPT !.states = SubSeq(@, 1, Len(@) - n)]
Discarded(ps, n) == SubSeq(ps, 1, Len(ps) - n)
WithTop(ps, p) == [ps EXCEPT ![Len(ps)] = p]

\* The current proof goes through the states ss.
Pushed(ss) == WithTop(proofs, [Current EXCEPT !.states = @ \o ss])
Room(n) == proofs # <<>> /\ Depth(Current) + n <= MaxSteps

-----------------------------------------------------------------------------
(* The history. *)

\* What Lib.lib_stk holds between two labels: the label, and the summaries
\* that going back to it restores.
Frame(l, e) == [label |-> l, env |-> e]

\* The state a history entry stands for.  Only the fields below nproofs,
\* prfname and prfdepth are in the code; snap is what they summarise.
Snapshot(ps, e) == [proofs |-> ps, env |-> e]

Info(l, ps, e) ==
  [ label     |-> l,
    nproofs   |-> Len(ps),
    prfname   |-> IF ps = <<>> THEN None ELSE Top(ps).name,
    prfdepth  |-> IF ps = <<>> THEN 0 ELSE Depth(Top(ps)),
    reachable |-> TRUE,
    snap      |-> Snapshot(ps, e) ]

\* The entries after the last one recorded outside of any proof.
InProofSince(h, i) == \A j \in i..Len(h) : h[j].prfname # None

\* Mutant: the mark stops at the first entry of another proof.
MarkInnermost(h, ids, after) ==
  [i \in DOMAIN h |->
     IF (\A j \in i..Len(h) : h[j].prfname \in ids) /\ h[i].prfdepth > after
     THEN [h[i] EXCEPT !.reachable = FALSE]
     ELSE h[i]]

MarkUnreachable(h, ids, after) ==
  [i \in DOMAIN h |->
     IF InProofSince(h, i) /\ h[i].prfname \in ids /\ h[i].prfdepth > after
     THEN [h[i] EXCEPT !.reachable = FALSE]
     ELSE h[i]]

-----------------------------------------------------------------------------
(* The end of a command. *)

\* bound: of the labels, and of the stacks whose labels may repeat once an
\* irregular action has set the counter back
MoreLabels == label < MaxLabel /\ Len(lib) < MaxLabel /\ Len(hist) < MaxLabel

\* Mutant: the summaries are frozen before the command instead of after.
MarkCommandEarly(h, ps, e) ==
  /\ MoreLabels
  /\ label' = label + 1
  /\ lib' = Append(lib, Frame(label + 1, env))
  /\ hist' = Append(h, Info(label + 1, ps, e))
  /\ answer' = "ok"

\* Backtrack.mark_command, after a command run at the top level
MarkCommand(h, ps, e) ==
  /\ MoreLabels
  /\ label' = label + 1
  /\ lib' = Append(lib, Frame(label + 1, e))
  /\ hist' = Append(h, Info(label + 1, ps, e))
  /\ answer' = "ok"

\* end_inner_command, after a command read from a file: one entry per
\* command, or none before the end of the file, and a label if the library
\* has changed since the last one
MarkInner(h, ps, e) ==
  \/ /\ load = "each"
     /\ MarkCommand(h, ps, e)
  \/ /\ load = "atomic"
     /\ hist' = h
     /\ answer' = "done"
     /\ IF e = Top(lib).env THEN UNCHANGED <<label, lib>>
        ELSE /\ MoreLabels
             /\ label' = label + 1
             /\ lib' = Append(lib, Frame(label + 1, e))

\* A command succeeds with history h, proofs ps and declarations e.
Succeed(h, ps, e) ==
  /\ proofs' = ps
  /\ env' = e
  /\ UNCHANGED load
  /\ IF load = "no" THEN MarkCommand(h, ps, e) ELSE MarkInner(h, ps, e)

\* An interrupt during mark_command, which no rollback protects: what the
\* command did stays, unrecorded; the label may be taken, or even be in place.
MarkInterrupted(h, ps, e) ==
  /\ hist' = h
  /\ proofs' = ps
  /\ env' = e
  /\ load' = "no"
  /\ answer' = "interrupted"
  /\ \/ UNCHANGED <<label, lib>>
     \/ /\ MoreLabels
        /\ label' = label + 1
        /\ lib' \in {lib, Append(lib, Frame(label + 1, e))}

\* A query of the IDE (eval_expr ~preserving:true): no mark at all.
Preserve(h, ps, e) ==
  /\ load = "no"
  /\ hist' = h
  /\ proofs' = ps
  /\ env' = e
  /\ answer' = "done"
  /\ UNCHANGED <<lib, label, load>>

\* Something else than success reaches the toplevel, answered by a: vernac_com
\* has restored the library and the summaries, and nothing else.  It ends a Load.
Raise(h, ps, a) ==
  /\ hist' = h
  /\ proofs' = ps
  /\ load' = "no"
  /\ answer' = a
  /\ UNCHANGED <<env, lib, label>>

\* A command that works: run by itself, as a query, under Fail, or interrupted
\* once its work is done.
Run(h, ps, e) ==
  \/ Succeed(h, ps, e)
  \/ Preserve(h, ps, e)
  \/ Raise(h, ps, "unfailed")
  \/ Raise(h, ps, "interrupted")
  \/ MarkInterrupted(h, ps, e)

\* A command that fails after having changed the history to h and the proofs
\* to ps: reported as an error, or run under Fail, which then succeeds.
FailWith(h, ps) == Raise(h, ps, "failed") \/ Succeed(h, ps, env)

-----------------------------------------------------------------------------
(* Commands outside of proof management. *)

Declare(id) == id \notin env /\ Run(hist, proofs, env \cup {id})

\* A command that changes nothing here (an option, a display), or one that
\* fails before it changes anything.
Neutral == Run(hist, proofs, env) \/ Raise(hist, proofs, "failed")

\* Load: the commands of the file follow, then its end.  One that fails
\* ends it, and what the previous ones did stays.
LoadStart(kind) ==
  /\ load = "no"
  /\ load' = kind
  /\ answer' = "done"
  /\ UNCHANGED <<hist, proofs, env, lib, label>>

LoadEnd ==
  /\ load # "no"
  /\ load' = "no"
  /\ MarkCommand(hist, proofs, env)
  /\ UNCHANGED <<proofs, env>>

-----------------------------------------------------------------------------
(* Proof management. *)

StartProof(id) ==
  /\ id \notin env \cup OpenNames(proofs)
  /\ Run(hist, Append(proofs, NewProof(id)), env)

\* A tactic leads the current proof to state s; k more entries of the undo
\* stack record the unfocusing that follows.
Solve(s, k) ==
  /\ Room(k + 1)
  /\ Top(Current.states) \notin Solved
  /\ Run(hist, Pushed([i \in 1..(k + 1) |-> s]), env)

\* Focus with a goal number out of range: the state is saved, then it fails.
FocusFails ==
  /\ Room(1)
  /\ FailWith(hist, Pushed(<<Top(Current.states)>>))

\* The current proof leaves the stack for the library, or for nothing.
\* Interrupted after the mark, it stays.
Leave(e) ==
  LET h == MarkUnreachable(hist, {Current.name}, 0)
  IN  Run(h, Discarded(proofs, 1), e) \/ Raise(h, proofs, "interrupted")

\* Qed, Defined, Save; Proof term when the proof is not solved yet
EndProof ==
  /\ proofs # <<>>
  /\ Current.name \notin env
  /\ Run(MarkUnreachable(hist, {Current.name}, 0),
         Discarded(proofs, 1), env \cup {Current.name})

\* Proof term, of a name declared meanwhile: Lemmas.save_named is a transaction
\* of the proof, the tactic that gives the term is before it.
EndProofFails ==
  /\ Room(1)
  /\ Current.name \in env
  /\ Top(Current.states) \notin Solved
  /\ \E s \in Solved : FailWith(hist, Pushed(<<s>>))

Admit ==
  /\ proofs # <<>>
  /\ Current.name \notin env
  /\ Leave(env \cup {Current.name})

\* Admitted, of a name declared meanwhile: the mark has been put.
AdmitFails ==
  /\ proofs # <<>>
  /\ Current.name \in env
  /\ FailWith(MarkUnreachable(hist, {Current.name}, 0), proofs)

Abort == proofs # <<>> /\ Leave(env)

AbortAll ==
  /\ proofs # <<>>
  /\ LET h == MarkUnreachable(hist, OpenNames(proofs), 0)
     IN  Run(h, <<>>, env) \/ Raise(h, proofs, "interrupted")

\* Undo n, and UndoTo, Restart: the steps to cancel are marked first, and an
\* interrupt may leave some of them.
UndoMarked(n, after) ==
  LET h == MarkUnreachable(hist, {Current.name}, after)
      Less(m) == WithTop(proofs, Undone(Current, m))
  IN  Run(h, Less(n), env) \/ \E m \in 0..(n - 1) : Raise(h, Less(m), "interrupted")

\* Mutant: the limit of Undo is off by one.
UndoOneMore(n) == /\ proofs # <<>>
                  /\ n <= Depth(Current)
                  /\ UndoMarked(n, Depth(Current) - n)

Undo(n) == /\ proofs # <<>>
           /\ n < Depth(Current)
           /\ UndoMarked(n, Depth(Current) - n)

UndoFails(n) ==
  /\ proofs # <<>>
  /\ n >= Depth(Current)
  /\ FailWith(MarkUnreachable(hist, {Current.name}, 0), proofs)

Restart == proofs # <<>> /\ UndoMarked(Depth(Current) - 1, 0)

-----------------------------------------------------------------------------
(* Navigation.  It is refused under Fail and, but for Reset, in a file; no  *)
(* command of it marks the history.                                        *)

Navigated == IF load = "atomic" THEN "done" ELSE "ok"

\* Going where one is: nothing is done.
AlreadyThere == /\ answer' = "done"
                /\ UNCHANGED <<hist, proofs, env, lib, label, load>>

Kept(ps, n) == SubSeq(ps, 1, IF n < Len(ps) THEN n ELSE Len(ps))

\* Pfedit.undo_todepth
CanUndoTo(ps, depth) == (ps = <<>>) = (depth = 0)
\* Mutant: the depth of the proof is not set back.
UndoForgotten(ps, depth) == ps

UndoneTo(ps, depth) ==
  IF ps = <<>> \/ Depth(Top(ps)) <= depth THEN ps
  ELSE WithTop(ps, Undone(Top(ps), Depth(Top(ps)) - depth))

\* Mutant: one label too many is refused.
CanResetBefore(l) == l + 1 < label /\ \E i \in DOMAIN lib : lib[i].label = l

\* Lib.reset_label: to the last place where the label is, the summaries
\* being those frozen there
CanReset(l) == l < label /\ \E i \in DOMAIN lib : lib[i].label = l
LastFrame(k, l) == lib[k].label = l /\ \A j \in (k + 1)..Len(lib) : lib[j].label # l
ResetLabel(l) ==
  \E k \in DOMAIN lib :
    /\ LastFrame(k, l)
    /\ lib' = SubSeq(lib, 1, k)
    /\ env' = lib[k].env
    /\ label' = l

\* Lib.reset_label, and what the command does after it, which is to print.
\* An interrupt there restores the library and the summaries, and not the
\* counter; one that comes after the rollback's scope finds all of it done.
GoTo(l) ==
  \/ ResetLabel(l) /\ answer' = Navigated /\ UNCHANGED load
  \/ /\ ResetLabel(l) \/ (label' = l /\ UNCHANGED <<env, lib>>)
     /\ answer' = "interrupted"
     /\ load' = "no"

\* raw_backtrack, once the proofs to abort are gone and ps remain.  The
\* library is rolled back if it fails; the history h and the proofs are not.
RawBacktrack(h, l, depth, ps) ==
  IF CanUndoTo(ps, depth) /\ CanReset(l)
  THEN /\ hist' = h
       /\ proofs' = UndoneTo(ps, depth)
       /\ GoTo(l)
  ELSE Raise(h, IF CanUndoTo(ps, depth) THEN UndoneTo(ps, depth) ELSE ps, "failed")

\* The entry where sync stops when the n first entries are left.
LastReachable(n, t) ==
  /\ t \in 1..n
  /\ hist[t].reachable
  /\ \A i \in (t + 1)..n : ~hist[i].reachable

\* sync, once the entries after the n-th have been popped
Sync(n) ==
  \E t \in 1..n :
    /\ LastReachable(n, t)
    /\ RawBacktrack(SubSeq(hist, 1, t), hist[t].label, hist[t].prfdepth,
                    Kept(proofs, hist[t].nproofs))

\* sync, interrupted before the library is touched (after it: GoTo)
SyncInterrupted(n) ==
  \E t \in 1..n :
    /\ LastReachable(n, t)
    /\ answer' = "interrupted"
    /\ load' = "no"
    /\ UNCHANGED <<env, lib, label>>
    /\ \/ /\ \E i \in t..Len(hist) : hist' = SubSeq(hist, 1, i)
          /\ UNCHANGED proofs
       \/ /\ hist' = SubSeq(hist, 1, t)
          /\ \/ \E m \in hist[t].nproofs..Len(proofs) : proofs' = Kept(proofs, m)
             \/ LET ps == Kept(proofs, hist[t].nproofs)
                IN  /\ ps # <<>>
                    /\ \E d \in hist[t].prfdepth..Depth(Top(ps)) :
                         proofs' = UndoneTo(ps, d)

Back(n) == /\ load = "no"
           /\ n < Len(hist)
           /\ Sync(Len(hist) - n) \/ SyncInterrupted(Len(hist) - n)

LastWithLabel(i, l) ==
  hist[i].label = l /\ \A j \in (i + 1)..Len(hist) : hist[j].label # l

BackToLabel(l) ==
  IF l = label THEN AlreadyThere
  ELSE \E i \in 1..Len(hist) :
         /\ LastWithLabel(i, l)
         /\ Sync(i) \/ SyncInterrupted(i)

BackTo(l) == load = "no" /\ BackToLabel(l)

\* Reset: to the last label before the definition of id
ResetName(id) ==
  \E i \in DOMAIN lib :
    /\ id \in env /\ id \notin lib[i].env
    /\ \A j \in (i + 1)..Len(lib) : id \in lib[j].env
    /\ BackToLabel(lib[i].label)

FirstLabel == 1
InitialEntry == Info(FirstLabel, <<>>, {})

\* Mutant: the initial entry is not pushed back.
ResetInitialEmpty ==
  IF label = FirstLabel THEN AlreadyThere
  ELSE /\ proofs' = <<>>
       /\ GoTo(FirstLabel)
       /\ hist' = <<>>

\* Mutant: the open proofs are not deleted.
ResetInitialInProof ==
  IF label = FirstLabel THEN AlreadyThere
  ELSE /\ GoTo(FirstLabel)
       /\ hist' = <<InitialEntry>>
       /\ UNCHANGED proofs

ResetInitial ==
  IF label = FirstLabel THEN AlreadyThere
  ELSE /\ proofs' = <<>>
       /\ GoTo(FirstLabel)
       /\ hist' = <<InitialEntry>>

-----------------------------------------------------------------------------
(* What makes the three stacks disagree. *)

\* Abort id, of the k-th proof, below the current one
AbortOther(k) ==
  /\ k < Len(proofs)
  /\ Run(MarkUnreachable(hist, {proofs[k].name}, 0),
         SubSeq(proofs, 1, k - 1) \o SubSeq(proofs, k + 1, Len(proofs)), env)

\* Qed raises after the proof is discarded: in the hook, or interrupted.
HookFails ==
  /\ proofs # <<>>
  /\ Current.name \notin env
  /\ FailWith(hist, Discarded(proofs, 1))

\* Fail Load, of a file that declares id, is read command by command and
\* then fails or not: the library is restored, the marks stay.
FailLoad(id) ==
  /\ load = "no" /\ id \notin env
  /\ MoreLabels /\ label + 1 < MaxLabel /\ Len(hist) + 1 < MaxLabel
  /\ LET h == Append(hist, Info(label + 1, proofs, env \cup {id}))
     IN  \/ /\ hist' = h
            /\ label' = label + 1
            /\ answer' = "unfailed"
            /\ UNCHANGED lib
         \/ /\ hist' = Append(h, Info(label + 2, proofs, env))
            /\ label' = label + 2
            /\ lib' = Append(lib, Frame(label + 2, env))
            /\ answer' = "ok"
  /\ UNCHANGED <<proofs, env, load>>

\* Backtrack, by the labels, depths and counts of an external interface
PGBacktrack(l, depth, naborts) ==
  /\ load = "no"
  /\ IF naborts > Len(proofs) THEN Raise(hist, <<>>, "failed")
     ELSE LET ps == Discarded(proofs, naborts)
              back == IF CanUndoTo(ps, depth) THEN UndoneTo(ps, depth) ELSE ps
          IN  IF ~CanUndoTo(ps, depth) \/ ~CanReset(l) THEN Raise(hist, back, "failed")
              ELSE \/ \E i \in DOMAIN hist :
                        /\ LastWithLabel(i, l)
                        /\ RawBacktrack(SubSeq(hist, 1, i), l, depth, ps)
                   \/ /\ \A i \in DOMAIN hist : hist[i].label # l
                      /\ proofs' = back
                      /\ label' = l     \* the rollback does not cover it
                      /\ answer' = "failed"
                      /\ UNCHANGED <<hist, env, lib, load>>

\* Backtrack, interrupted.  Before the label is set back this leaves what fewer
\* aborts and a greater depth would; after it, the history is being popped.
PGBacktrackInterrupted(l, depth, naborts) ==
  LET ps == Discarded(proofs, naborts)
  IN  /\ load = "no"
      /\ naborts <= Len(proofs)
      /\ \/ Raise(hist, ps, "interrupted")
         \/ /\ CanUndoTo(ps, depth)
            /\ Raise(hist, UndoneTo(ps, depth), "interrupted")
         \/ /\ CanUndoTo(ps, depth) /\ CanReset(l)
            /\ \E j \in DOMAIN hist :
                 /\ j = Len(hist) \/ \E i \in 1..j : LastWithLabel(i, l)
                 /\ hist' = SubSeq(hist, 1, j)
            /\ proofs' = UndoneTo(ps, depth)
            /\ label' = l
            /\ answer' = "interrupted"
            /\ UNCHANGED <<env, lib, load>>

\* Reset Initial, interrupted once the proofs are gone and before the history
\* is: the label may be set back already.
ResetInitialInterrupted ==
  /\ label # FirstLabel
  /\ hist' = hist
  /\ proofs' = <<>>
  /\ load' = "no"
  /\ answer' = "interrupted"
  /\ label' \in {label, FirstLabel}
  /\ UNCHANGED <<env, lib>>

-----------------------------------------------------------------------------
Init ==
  /\ hist = <<InitialEntry>>
  /\ proofs = <<>>
  /\ env = {}
  /\ lib = <<Frame(FirstLabel, {})>>
  /\ label = FirstLabel
  /\ load = "no"
  /\ answer = "ok"

RegularNext ==
  \/ Neutral
  \/ \E id \in Names : Declare(id) \/ StartProof(id) \/ ResetName(id)
  \/ \E kind \in LoadKinds : LoadStart(kind)
  \/ LoadEnd
  \/ \E s \in ProofStates, k \in 0..1 : Solve(s, k)
  \/ FocusFails
  \/ EndProof
  \/ EndProofFails
  \/ Admit
  \/ AdmitFails
  \/ Abort
  \/ AbortAll
  \/ Restart
  \/ \E n \in 1..MaxSteps : Undo(n) \/ UndoFails(n)
  \/ \E n \in 1..MaxLabel : Back(n)
  \/ \E l \in 1..MaxLabel : BackTo(l)
  \/ ResetInitial

IrregularNext ==
  \/ \E k \in 1..Cardinality(Names) : AbortOther(k)
  \/ \E id \in Names : FailLoad(id)
  \/ HookFails
  \/ ResetInitialInterrupted
  \/ \E l \in 1..MaxLabel, depth \in 0..MaxSteps, n \in 0..Cardinality(Names) :
       PGBacktrack(l, depth, n) \/ PGBacktrackInterrupted(l, depth, n)

RegularSpec == Init /\ [][RegularNext]_vars
Spec == Init /\ [][RegularNext \/ IrregularNext]_vars

-----------------------------------------------------------------------------
(* Properties. *)

Entry == [label : Nat \ {0}, nproofs : Nat, prfname : Names \cup {None},
          prfdepth : Nat, reachable : BOOLEAN,
          snap : [proofs : Seq(Proof), env : SUBSET Names]]

\* No proof is undone past its statement, and the fields of an entry tell
\* alike whether a proof was open (the comment on top of backtrack.ml).
ProofsOK(ps) == ps \in Seq(Proof) /\ \A i \in DOMAIN ps : Len(ps[i].states) >= 2
HistoryOK(h) == h \in Seq(Entry) /\ \A i \in DOMAIN h : h[i].nproofs = 0 <=> h[i].prfdepth = 0

TypeOK ==
  /\ HistoryOK(hist)
  /\ ProofsOK(proofs)
  /\ env \in SUBSET Names
  /\ lib \in Seq([label : Nat \ {0}, env : SUBSET Names])
  /\ label \in Nat \ {0}
  /\ load \in {"no", "atomic", "each"}
  /\ answer \in Answers

\* From the open proofs ps, discarding the last ones and popping the undo
\* stack of the one that remains on top leads to the proofs of entry e.
Restores(ps, e) ==
  LET qs == e.snap.proofs
      n  == Len(qs)
  IN  /\ n <= Len(ps)
      /\ \A i \in 1..(n - 1) : ps[i] = qs[i]
      /\ n # 0 => /\ ps[n].name = qs[n].name
                  /\ Len(qs[n].states) <= Len(ps[n].states)
                  /\ \A i \in 1..Len(qs[n].states) : ps[n].states[i] = qs[n].states[i]

\* Counting is enough (backtrack.ml, the comment in sync): the proofs of every
\* entry still tagged reachable can be had back by aborting the extra proofs
\* and popping one undo stack, whatever failed or was interrupted since.
Restorable == \A i \in DOMAIN hist : hist[i].reachable => Restores(proofs, hist[i])

\* The library has the same places to go back to.  Labels may be in it twice
\* and above the counter, since an interrupt restores it and not the counter;
\* but the last place of the label of an entry, where reset_label goes, is
\* below those of the entries that follow, and, while the entry is tagged
\* reachable, over the declarations its command left.  The labels of the
\* history rise, and the counter has passed them all.
LibraryRestorable ==
  /\ \A i \in DOMAIN hist : \E k \in DOMAIN lib :
       /\ LastFrame(k, hist[i].label)
       /\ hist[i].reachable => lib[k].env = hist[i].snap.env
       /\ \A j \in (i + 1)..Len(hist) :
            \E m \in (k + 1)..Len(lib) : LastFrame(m, hist[j].label)
  /\ \A i, j \in DOMAIN hist : i < j => hist[i].label < hist[j].label
  /\ Top(hist).label <= label

\* sync always finds a stop (the NB of its first comment), and that stop can
\* always be had back: the first entry and the first label stay as they are.
\* (The history is empty between Stack.clear and Stack.push in reset_initial,
\* backtrack.ml:190-191, one step here: an interrupt there is set aside.)
BottomEntry ==
  /\ hist # <<>> /\ hist[1] = InitialEntry
  /\ lib # <<>> /\ lib[1] = Frame(FirstLabel, {})
  /\ \A k \in DOMAIN lib : k # 1 => lib[k].label # FirstLabel

\* Back to a place in the history never fails, it is at most interrupted.
BackWorks ==
  [][(\E n \in 1..MaxLabel : Back(n)) => answer' \in {"ok", "interrupted"}]_vars

\* Reset Initial does what backto the first label does (the comment of
\* reset_initial), even after what IrregularNext may have done.
ResetInitialIsBackTo == [][ResetInitial => BackToLabel(FirstLabel)]_vars

\* The session implements the document: an answer "ok" is a new state recorded
\* or a recorded state restored, proofs and library together.
Doc == INSTANCE Document
         WITH Empty  <- Snapshot(<<>>, {}),
              doc    <- [i \in DOMAIN hist |-> hist[i].snap],
              now    <- Snapshot(proofs, env)
ImplementsDocument == Doc!Spec

-----------------------------------------------------------------------------
\* One irregular action
HookFailsSpec == Init /\ [][RegularNext \/ HookFails]_vars
=============================================================================
