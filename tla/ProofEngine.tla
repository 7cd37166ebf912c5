---------------------------- MODULE ProofEngine -----------------------------
(***************************************************************************)
(* One interactive proof of Coq:                                           *)
(*                                                                         *)
(*   proofs/proof.ml            focus stack, undo stack, transactions      *)
(*   proofs/proofview.ml        the comb of goals, focusing it             *)
(*   proofs/proof_global.ml     automatic unfocusing, bullets, proof mode  *)
(*   proofs/pfedit.ml           running a tactic on a goal, Undo           *)
(*   toplevel/vernacentries.ml, lemmas.ml   the commands                   *)
(*                                                                         *)
(* A command is an OCaml function that edits the mutable record pr in      *)
(* several steps, may raise an exception at any of them, and is then rolled*)
(* back by the handlers of the transactions it is in.  The module has that *)
(* granularity: ctrl is the list of the instructions left, the handlers    *)
(* among them, and a step executes the first, or passes an exception on to *)
(* the next handler.                                                       *)
(*                                                                         *)
(* Abstractions: an evar is a number, its type and its body are left out;  *)
(* a tactic is any change of the evar map that solves the goal it is run   *)
(* on, makes a few new goals and existential variables, and may solve one  *)
(* other evar by unification.  Clearing of hypotheses, which renames goals,*)
(* the end tactic and printing are left out.  Tactics terminate.           *)
(***************************************************************************)
EXTENDS Naturals, Sequences, FiniteSets, SequencesExt

CONSTANTS Bullets,      \* "-", "*", "+"
          Modes,        \* the proof modes registered
          DefaultMode,  \* default_proof_mode
          Async,        \* whether interrupts and timeouts may arrive
          MaxEvars,     \* bound: evars made in one proof
          MaxIndex,     \* bound: goal numbers given to commands
          MaxUndo,      \* bound: undo actions before a command
          MaxFocus      \* bound: nested focuses, end_of_stack excluded

ASSUME ProofEngineAssumption ==
  /\ DefaultMode \in Modes
  /\ Async \in BOOLEAN
  /\ MaxEvars \in Nat \ {0}
  /\ MaxIndex \in Nat \ {0}
  /\ MaxUndo \in Nat \ {0}
  /\ MaxFocus \in Nat

VARIABLES
  pr,     \* the proof: Proof.proof, and the mode of its proof_info
  ctrl,   \* instructions and handlers left, the next one first
  exn,    \* the exception being raised, or the last answer; "none"
  call    \* ghost: the last command, and pr when it was called

vars == <<pr, ctrl, exn, call>>

\* Errors.UserError; Failure; an anomaly; Sys.Break or Timeout; and the
\* exceptions of Proof and Proofview.
Exceptions == {"Error", "Failure", "Assert", "Break", "IndexOutOfRange",
               "FullyUnfocused", "CannotUnfocusThisWay"}

Idle == ctrl = <<>>
Running(op) == ~Idle /\ exn = "none" /\ Head(ctrl).op = op
Now == Head(ctrl)
Rest == Tail(ctrl)

-----------------------------------------------------------------------------
(* A proof_state: the comb and the evar map of its proofview, and the      *)
(* focus stack, top last.  In the evar map, made evars exist, of which     *)
(* those in goals (that have been in a comb) and holes are undefined.      *)

Focus(kind, bullets, left, right) ==
  [kind |-> kind, bullets |-> bullets, left |-> left, right |-> right]

EndOfStack == Focus("end", <<>>, <<>>, <<>>)

InitialState ==
  [comb |-> <<1>>, focus |-> <<EndOfStack>>, made |-> 1, goals |-> {1}, holes |-> {}]

Unsolved(s) == s.goals \union s.holes

\* List.filter: what the list l has in S, in order
Filter(l, S) ==
  LET kept[i \in 0..Len(l)] ==
        IF i = 0 THEN <<>>
        ELSE IF l[i] \in S THEN Append(kept[i - 1], l[i]) ELSE kept[i - 1]
  IN  kept[Len(l)]

\* Proofview.undefined, on a list of goals
Undefined(s, l) == Filter(l, s.goals)

\* Mutant: the goals before the focused ones are dropped.
UnfocusedRight(s) ==
  LET f == Last(s.focus)
  IN  [s EXCEPT !.focus = Front(@), !.comb = Undefined(s, s.comb \o f.right)]

PoppedFocus(s) == [s EXCEPT !.focus = Front(@)]

Unfocused(s) ==
  LET f == Last(s.focus)
  IN  [PoppedFocus(s) EXCEPT !.comb = Undefined(s, f.left \o s.comb \o f.right)]

PushedFocus(s, kind, bullets, i) ==
  [s EXCEPT !.focus = Append(@, Focus(kind, bullets, SubSeq(s.comb, 1, i - 1),
                                      SubSeq(s.comb, i + 1, Len(s.comb))))]

Focused(s, kind, bullets, i) ==
  [PushedFocus(s, kind, bullets, i) EXCEPT !.comb = <<s.comb[i]>>]

Unrolled(s) ==
  LET n == Len(s.focus)
      view[k \in 0..n] ==
        IF k = 0 THEN s.comb
        ELSE LET f == s.focus[n + 1 - k]
             IN  Undefined(s, f.left \o view[k - 1] \o f.right)
  IN  view[n]

IsDone(s) == s.comb = <<>> /\ Unrolled(s) = <<>>

\* The exception a focus refuses to be closed with.
Refusal(f) == IF f.kind = "end" THEN "FullyUnfocused" ELSE "CannotUnfocusThisWay"

\* Mutant: a completed brace may be left on the way, as a bullet.
FocusConditionLooseBrace(s, kind) ==
  LET f == Last(s.focus)
  IN  IF f.kind # "command" /\ s.comb # <<>> THEN Refusal(f)
      ELSE IF f.kind = kind THEN "Strict"
      ELSE IF f.kind \in {"bullet", "subproof"} THEN "Loose" ELSE Refusal(f)

\* The condition of the top focus, on the command of this kind: no_cond for
\* Focus, done_cond for the others, which is loose for bullets.
FocusCondition(s, kind) ==
  LET f == Last(s.focus)
  IN  IF f.kind # "command" /\ s.comb # <<>> THEN Refusal(f)
      ELSE IF f.kind = kind THEN "Strict"
      ELSE IF f.kind = "bullet" THEN "Loose" ELSE Refusal(f)

\* Mutant: the closest bullet, through braces and Focus.
GetBulletsThrough(s) ==
  LET i == SelectLastInSeq(s.focus, LAMBDA f : f.kind = "bullet")
  IN  IF i = 0 THEN <<>> ELSE s.focus[i].bullets

\* The bullets in use, if the last focus is one.
GetBullets(s) ==
  IF Last(s.focus).kind = "bullet" THEN Last(s.focus).bullets ELSE <<>>

-----------------------------------------------------------------------------
(* The undo stack and the transactions, newest last; the innermost         *)
(* transaction last.                                                       *)

StateUndo(p) == [undo |-> "state", state |-> p.state]
ModeUndo(p) == [undo |-> "mode", mode |-> p.mode]

NewProof ==
  [state |-> InitialState,
   undo  |-> <<[undo |-> "state", state |-> InitialState]>>,
   trans |-> <<>>,
   mode  |-> DefaultMode]

\* Mutant: undo actions bypass the open transaction.
PushedThrough(p, es) == [p EXCEPT !.undo = @ \o es]

\* push_undo, of one action or of several in order
Pushed(p, es) ==
  IF p.trans = <<>> THEN [p EXCEPT !.undo = @ \o es]
  ELSE [p EXCEPT !.trans[Len(p.trans)] = @ \o es]

\* Mutant: only the newest action is executed.
RewoundOnce(p, es) ==
  IF es = <<>> THEN p
  ELSE IF Last(es).undo = "state" THEN [p EXCEPT !.state = Last(es).state]
  ELSE [p EXCEPT !.mode = Last(es).mode]

HasSort(es, sort) == \E i \in DOMAIN es : es[i].undo = sort
Oldest(es, sort) ==
  es[CHOOSE i \in DOMAIN es : es[i].undo = sort /\ \A j \in 1..(i - 1) : es[j].undo # sort]

\* The undo actions es executed, the newest first: each overwrites the state
\* or the mode, so that the oldest of each sort decides.
Rewound(p, es) ==
  [p EXCEPT !.state = IF HasSort(es, "state") THEN Oldest(es, "state").state ELSE @,
            !.mode = IF HasSort(es, "mode") THEN Oldest(es, "mode").mode ELSE @]

\* What pop_undo sees: the innermost transaction, or the undo stack.
Visible(p) == IF p.trans = <<>> THEN p.undo ELSE Last(p.trans)

\* n pops of the undo stack it sees
Popped(p, n) ==
  LET kept == Len(Visible(p)) - n
      q == Rewound(p, SubSeq(Visible(p), kept + 1, Len(Visible(p))))
  IN  IF p.trans = <<>> THEN [q EXCEPT !.undo = SubSeq(@, 1, kept)]
      ELSE [q EXCEPT !.trans[Len(p.trans)] = SubSeq(@, 1, kept)]

Closed(p) == [p EXCEPT !.trans = Front(@)]

\* Mutant: the actions of the transaction are not put back in order.
CommittedReversed(p, n) == Pushed(Closed(p), SubSeq(Reverse(Last(p.trans)), 1, n))

\* commit_stack has pushed the n oldest actions of the transaction
Committed(p, n) == Pushed(Closed(p), SubSeq(Last(p.trans), 1, n))

-----------------------------------------------------------------------------
(* Instructions.  "commit" also is the handler that rolls back, "relabel"  *)
(* and "maximal" handle the exceptions of unfocus.                         *)

Op(op) == [op |-> op]
UnfocusOp(kind) == [op |-> "unfocus", kind |-> kind]
FocusOp(kind, bullets, i) == [op |-> "focus", kind |-> kind, bullets |-> bullets, i |-> i]
BulletOp(op, b) == [op |-> op, bullet |-> b]

\* Proof.transaction
Transaction(body) == <<Op("begin")>> \o body \o <<Op("commit")>>

IsHandler(i) == i.op \in {"commit", "relabel", "maximal"}

\* The exception e reaches the first handler in c, or the toplevel.
RaiseIn(c, e) ==
  /\ exn' = e
  /\ \/ /\ \A i \in DOMAIN c : ~IsHandler(c[i])
        /\ ctrl' = <<>>
     \/ \E h \in DOMAIN c :
          /\ IsHandler(c[h])
          /\ \A i \in 1..(h - 1) : ~IsHandler(c[i])
          /\ ctrl' = SubSeq(c, h, Len(c))

Raise(e) == RaiseIn(ctrl, e) /\ UNCHANGED <<pr, call>>

Continue(c) == ctrl' = c /\ UNCHANGED <<exn, call>>

\* The instruction is done and leaves the proof p.
Do(p) == pr' = p /\ Continue(Rest)

\* The instruction amounts to those in c.
Expand(c) == UNCHANGED pr /\ Continue(c \o Rest)

WithState(s) == [pr EXCEPT !.state = s]
Step(s) == Pushed(WithState(s), <<StateUndo(pr)>>)

-----------------------------------------------------------------------------
(* Commands. *)

\* bound: of the undo actions, with those of transactions left open
Room == Len(pr.undo) + Len(pr.trans) + Len(FlattenSeq(pr.trans)) < MaxUndo

\* bound: of the focus stack
FocusRoom == Room /\ Len(pr.state.focus) <= MaxFocus

Call(cmd, body) ==
  /\ Idle
  /\ call' = [cmd |-> cmd, pr |-> pr]
  /\ ctrl' = body
  /\ exn' = "none"
  /\ UNCHANGED pr

\* n: tac.
Solve(n) ==
  Room /\ Call("Solve", Transaction(<<[op |-> "tactic", goal |-> n], Op("maximal")>>))

\* Focus n.
FocusCommand(n) == FocusRoom /\ Call("Focus", <<Op("save"), FocusOp("command", <<>>, n)>>)

\* Unfocus.
Unfocus == Room /\ Call("Unfocus", Transaction(<<UnfocusOp("command")>>))

\* The opening brace
Subproof == FocusRoom /\ Call("Subproof", <<Op("save"), FocusOp("subproof", <<>>, 1)>>)

\* The closing brace
EndSubproof == Room /\ Call("EndSubproof", Transaction(<<UnfocusOp("subproof")>>))

\* A bullet
Bullet(b) == FocusRoom /\ Call("Bullet", Transaction(<<BulletOp("put", b)>>))

\* Save, Qed, Defined
SaveProof == Room /\ Call("Save", Transaction(<<Op("return"), Op("declare")>>))

\* Proof Mode m.
ProofMode(m) == Room /\ Call("ProofMode", <<Op("saveMode"), [op |-> "setMode", mode |-> m]>>)

\* Existential n := t.
Existential == Room /\ Call("Existential", <<Op("instantiate")>>)

\* Grab Existential Variables.
Grab == Room /\ Call("Grab", <<Op("grab")>>)

\* Undo n.
Undo(n) == Call("Undo", <<[op |-> "undo", n |-> n]>>)

Command ==
  \/ \E n \in 1..MaxIndex : Solve(n)
  \/ \E n \in 1..MaxIndex : FocusCommand(n)
  \/ Unfocus
  \/ Subproof
  \/ EndSubproof
  \/ \E b \in Bullets : Bullet(b)
  \/ SaveProof
  \/ \E m \in Modes : ProofMode(m)
  \/ Existential
  \/ Grab
  \/ \E n \in 1..MaxUndo : Undo(n)

-----------------------------------------------------------------------------
(* Instructions of transactions, of the undo stack and of the mode. *)

Begin == Running("begin") /\ Do([pr EXCEPT !.trans = Append(@, <<>>)])

\* A commit outside of any transaction would stop here: "should be called
\* only when a transaction is open".
Commit ==
  /\ Running("commit")
  /\ pr.trans # <<>>
  /\ Do(Committed(pr, Len(Last(pr.trans))))

Save == Running("save") /\ Do(Pushed(pr, <<StateUndo(pr)>>))

SaveMode == Running("saveMode") /\ Do(Pushed(pr, <<ModeUndo(pr)>>))
SetMode == Running("setMode") /\ Do([pr EXCEPT !.mode = Now.mode])

\* The loop of Pfedit.undo, once it has found enough undo actions
UndoMany ==
  /\ Running("undo")
  /\ IF Now.n >= Len(pr.undo) THEN Raise("Error")
     ELSE Expand([i \in 1..Now.n |-> Op("pop")])

Pop ==
  /\ Running("pop")
  /\ IF Visible(pr) = <<>> THEN Raise("Error") ELSE Do(Popped(pr, 1))

-----------------------------------------------------------------------------
(* Instructions on the evar map. *)

\* Mutant: new holes are numbered as the new goals.
SolvingAgain(s, solved, k, h) ==
  LET m == s.made
  IN  [s EXCEPT !.made = m + k + h,
                !.goals = (@ \ solved) \union (m + 1 .. m + k),
                !.holes = (@ \ solved) \union (m + 1 .. m + h)]

\* The evar map of s with the evars solved, k new goals and h new holes
Solving(s, solved, k, h) ==
  LET m == s.made
  IN  [s EXCEPT !.made = m + k + h,
                !.goals = (@ \ solved) \union (m + 1 .. m + k),
                !.holes = (@ \ solved) \union (m + k + 1 .. m + k + h)]

\* bounds: at most two new goals, one new hole and one evar solved on the side
Outcomes(s, e) ==
  {o \in [solved : SUBSET Unsolved(s), goals : 0..2, holes : 0..1] :
     /\ e \in o.solved
     /\ Cardinality(o.solved) <= 2
     /\ s.made + o.goals + o.holes <= MaxEvars}

\* The comb of s once its n-th goal has been replaced by the goals in new.
Replaced(s, comb, n, new) ==
  [s EXCEPT !.comb =
     Undefined(s, SubSeq(comb, 1, n - 1) \o new \o SubSeq(comb, n + 1, Len(comb)))]

\* The tactic may do nothing, the only thing it can do on a goal that has been
\* solved from elsewhere.
Tactic ==
  /\ Running("tactic")
  /\ LET s == pr.state
         n == Now.goal
     IN  \/ Raise("Error")
         \/ n <= Len(s.comb) /\ Do(Step(Replaced(s, s.comb, n, <<s.comb[n]>>)))
         \/ /\ n <= Len(s.comb)
            /\ s.comb[n] \in s.goals
            /\ \E o \in Outcomes(s, s.comb[n]) :
                 LET new == [i \in 1..o.goals |-> s.made + i]
                     t == Solving(s, o.solved, o.goals, o.holes)
                 IN  Do(Step(Replaced(t, s.comb, n, new)))

\* The term given for the evar may have holes, and no goal.
Instantiate ==
  /\ Running("instantiate")
  /\ \/ Raise("Error")
     \/ \E e \in Unsolved(pr.state), h \in 0..1 :
          /\ pr.state.made + h <= MaxEvars
          /\ Do(Step(Solving(pr.state, {e}, 0, h)))

GrabEvars ==
  /\ Running("grab")
  /\ IF IsDone(pr.state) THEN Expand(<<Op("save"), Op("toGoals")>>) ELSE Raise("Error")

ToGoals ==
  /\ Running("toGoals")
  /\ LET s == pr.state
     IN  Do(WithState([s EXCEPT !.comb = SetToSeq(Unsolved(s)),
                                !.goals = Unsolved(s), !.holes = {}]))

-----------------------------------------------------------------------------
(* Instructions on the focus stack. *)

FocusStep ==
  /\ Running("focus")
  /\ LET s == pr.state
     IN  \/ /\ Now.i <= Len(s.comb)
            /\ Do(WithState(Focused(s, Now.kind, Now.bullets, Now.i)))
         \/ Now.i = Len(s.comb) + 1 /\ Raise("Failure")
         \/ Now.i > Len(s.comb) + 1 /\ Raise("IndexOutOfRange")

\* How unfocus answers to the command of this kind
UnfocusCheck(s, kind) ==
  IF s.focus = <<>> THEN "FullyUnfocused" ELSE FocusCondition(s, kind)

MayUnfocus == UnfocusCheck(pr.state, Now.kind) \in {"Strict", "Loose"}

UnfocusStep ==
  /\ Running("unfocus")
  /\ LET answer == UnfocusCheck(pr.state, Now.kind)
     IN  \/ ~MayUnfocus /\ Raise(answer)
         \/ answer = "Strict" /\ Do(Step(Unfocused(pr.state)))
         \/ /\ answer = "Loose"
            /\ pr' = Step(Unfocused(pr.state))
            /\ Continue(<<Now, Op("relabel")>> \o Rest)

\* The end of the try of a loose unfocus
Relabel == Running("relabel") /\ Do(pr)

\* maximal_unfocus: the loop, inside its try
Maximal ==
  /\ Running("maximal")
  /\ IF pr.state.comb = <<>> THEN Expand(Transaction(<<UnfocusOp("command")>>) \o <<Now>>)
     ELSE Do(pr)

\* Bullets ask for the last focus with List.hd.
NoFocus == pr.state.focus = <<>> /\ Raise("Failure")

PutBullet ==
  /\ Running("put")
  /\ \/ NoFocus
     \/ /\ pr.state.focus # <<>>
        /\ IF Contains(GetBullets(pr.state), Now.bullet)
           THEN Expand(Transaction(<<BulletOp("popUntil", Now.bullet),
                                     BulletOp("push", Now.bullet)>>))
           ELSE Expand(<<BulletOp("push", Now.bullet)>>)

PopBullet ==
  /\ Running("popUntil")
  /\ LET bullets == GetBullets(pr.state)
         more == IF Head(bullets) = Now.bullet THEN <<>> ELSE <<Now>>
     IN  /\ pr.state.focus # <<>>
         /\ bullets # <<>>
         /\ Expand(Transaction(<<UnfocusOp("bullet")>>) \o more)

PushBullet ==
  /\ Running("push")
  /\ pr.state.focus # <<>>
  /\ Expand(<<Op("save"), FocusOp("bullet", <<Now.bullet>> \o GetBullets(pr.state), 1)>>)

-----------------------------------------------------------------------------
(* The end of the proof. *)

\* Mutant: the evars that are no goals in view are not looked for.
ReturnUnresolved ==
  /\ Running("return")
  /\ IF IsDone(pr.state) THEN Expand(Transaction(<<UnfocusOp("end")>>)) ELSE Raise("Error")

Return ==
  /\ Running("return")
  /\ IF IsDone(pr.state) /\ Unsolved(pr.state) = {}
     THEN Expand(Transaction(<<UnfocusOp("end")>>))
     ELSE Raise("Error")

\* The theorem is declared and the proof discarded; another is started.  What
\* is left of the command works on the discarded proof.
Declare ==
  /\ Running("declare")
  /\ \/ Raise("Error")
     \/ pr' = NewProof /\ ctrl' = <<>> /\ UNCHANGED <<exn, call>>

-----------------------------------------------------------------------------
(* Exceptions. *)

Unwinding(op) == ~Idle /\ exn # "none" /\ Now.op = op

\* rollback outside of a transaction empties the undo stack, then fails.
Rollback ==
  /\ Unwinding("commit")
  /\ LET p == Popped(pr, Len(Visible(pr)))
     IN  \/ /\ pr.trans # <<>>
            /\ pr' = Closed(p)
            /\ RaiseIn(Rest, exn)
         \/ /\ pr.trans = <<>>
            /\ pr' = p
            /\ RaiseIn(Rest, "Assert")
  /\ UNCHANGED call

Relabelled ==
  /\ Unwinding("relabel")
  /\ RaiseIn(Rest, IF exn = "FullyUnfocused" THEN "CannotUnfocusThisWay" ELSE exn)
  /\ UNCHANGED <<pr, call>>

\* Mutant: the try is inside the loop.
MaximalRetries ==
  /\ Unwinding("maximal")
  /\ IF exn \in {"FullyUnfocused", "CannotUnfocusThisWay"}
     THEN exn' = "none" /\ ctrl' = ctrl
     ELSE RaiseIn(Rest, exn)
  /\ UNCHANGED <<pr, call>>

MaximalEnds ==
  /\ Unwinding("maximal")
  /\ IF exn \in {"FullyUnfocused", "CannotUnfocusThisWay"}
     THEN exn' = "none" /\ ctrl' = Rest
     ELSE RaiseIn(Rest, exn)
  /\ UNCHANGED <<pr, call>>

-----------------------------------------------------------------------------
(* Interrupts and timeouts: Break is raised at an allocation or at a call, *)
(* between two instructions or inside one.                                 *)

Interrupt == Async /\ ~Idle /\ exn = "none" /\ Raise("Break")

\* The instruction has got as far as p.
BrokenAt(p) == pr' = p /\ RaiseIn(ctrl, "Break") /\ UNCHANGED call

\* _unfocus has popped the focus, without or with the goals, and the undo
\* action is not pushed yet.
UnfocusInterrupted ==
  /\ Async /\ Running("unfocus")
  /\ MayUnfocus
  /\ \/ BrokenAt(WithState(PoppedFocus(pr.state)))
     \/ BrokenAt(WithState(Unfocused(pr.state)))

\* _focus has pushed the focus, and the comb is not focused yet.
FocusInterrupted ==
  /\ Async /\ Running("focus")
  /\ Now.i <= Len(pr.state.comb)
  /\ BrokenAt(WithState(PushedFocus(pr.state, Now.kind, Now.bullets, Now.i)))

\* commit has closed the transaction and pushed a part of its actions; its
\* own handler then rolls back once more.
CommitInterrupted ==
  /\ Async /\ Running("commit")
  /\ pr.trans # <<>>
  /\ \E n \in 0..Len(Last(pr.trans)) : BrokenAt(Committed(pr, n))

\* rollback has executed a part of the actions: the transaction stays open.
RollbackInterrupted ==
  /\ Async /\ Unwinding("commit")
  /\ \E n \in 0..Len(Visible(pr)) : pr' = Popped(pr, n)
  /\ RaiseIn(Rest, "Break")
  /\ UNCHANGED call

Interrupted ==
  Interrupt \/ UnfocusInterrupted \/ FocusInterrupted \/ CommitInterrupted \/ RollbackInterrupted

-----------------------------------------------------------------------------
Init ==
  /\ pr = NewProof
  /\ ctrl = <<>>
  /\ exn = "none"
  /\ call = [cmd |-> "Start", pr |-> NewProof]

Instruction ==
  \/ Begin \/ Commit \/ Save \/ SaveMode \/ SetMode \/ UndoMany \/ Pop
  \/ Tactic \/ Instantiate \/ GrabEvars \/ ToGoals
  \/ FocusStep \/ UnfocusStep \/ Relabel \/ Maximal
  \/ PutBullet \/ PopBullet \/ PushBullet
  \/ Return \/ Declare
  \/ Rollback \/ Relabelled \/ MaximalEnds

Next == Command \/ Instruction \/ Interrupted

\* The command that runs goes on.
Spec == Init /\ [][Next]_vars /\ WF_vars(Instruction)

-----------------------------------------------------------------------------
(* Types. *)

Evars == 1..MaxEvars
Kinds == {"end", "command", "subproof", "bullet"}
FocusFrame == [kind : Kinds, bullets : Seq(Bullets), left : Seq(Evars), right : Seq(Evars)]
ProofState ==
  {s \in [comb : Seq(Evars), focus : Seq(FocusFrame), made : Evars,
          goals : SUBSET Evars, holes : SUBSET Evars] :
     s.goals \intersect s.holes = {} /\ Unsolved(s) \subseteq 1..s.made}
UndoAction == [undo : {"state"}, state : ProofState] \union [undo : {"mode"}, mode : Modes]
Proof == [state : ProofState, undo : Seq(UndoAction), trans : Seq(Seq(UndoAction)),
          mode : Modes]

Instr ==
  [op : {"begin", "commit", "save", "saveMode", "pop", "instantiate", "grab", "toGoals",
         "relabel", "maximal", "return", "declare"}]
    \union [op : {"tactic"}, goal : Nat \ {0}]
    \union [op : {"unfocus"}, kind : Kinds]
    \union [op : {"focus"}, kind : Kinds, bullets : Seq(Bullets), i : Nat \ {0}]
    \union [op : {"put", "popUntil", "push"}, bullet : Bullets]
    \union [op : {"setMode"}, mode : Modes]
    \union [op : {"undo"}, n : Nat]

\* Every variable has its type: goals and holes are distinct evars that exist,
\* undo actions restore a state or a mode (Proof.undo_action), and an exception
\* that is raised has reached a handler or the end of the command.
TypeOK ==
  /\ pr \in Proof
  /\ ctrl \in Seq(Instr)
  /\ exn \in Exceptions \union {"none"}
  /\ call.pr \in Proof
  /\ Idle \/ exn = "none" \/ IsHandler(Now)

-----------------------------------------------------------------------------
(* Safety. *)

Occurrences(g, l) == Cardinality({i \in DOMAIN l : l[i] = g})
Accounted(s) == \A g \in s.goals : Occurrences(g, Unrolled(s)) = 1

\* No goal is lost or shown twice by focusing, unfocusing, bullets and undo:
\* with every focus left (unroll_focus), each unsolved goal is there once.
GoalsAccounted == Accounted(pr.state)

\* Between two commands the bottom of the focus stack is end_of_stack, and
\* nothing else is, even after a Qed that has unfocused everything and failed:
\* Proof.proof, is_last_focus and Bullet.get_bullets take it for granted.
NeverBare ==
  Idle => /\ pr.state.focus # <<>>
          /\ \A i \in DOMAIN pr.state.focus : pr.state.focus[i].kind = "end" <=> i = 1

\* The bullets of nested subproofs are distinct until a brace or Focus starts
\* afresh, and each bullet focus knows those around it: "we keep a stack of
\* (distinct!) bullets" (proof_global.ml).
BulletsDistinct ==
  \A i \in DOMAIN pr.state.focus :
    LET f == pr.state.focus[i]
        below == IF i > 1 THEN pr.state.focus[i - 1].bullets ELSE <<>>
    IN  IF f.kind = "bullet" THEN IsInjective(f.bullets) /\ Tail(f.bullets) = below
        ELSE f.bullets = <<>>

Brace == {f \in FocusFrame : f.kind = "subproof"}
Braces(s) == Filter(s.focus, Brace)

\* A subproof opened by a brace stays open until a closing brace, Undo or the
\* end of the proof, whatever bullets and automatic unfocusing (loose
\* conditions, maximal_unfocus) do above it; and a closing brace closes the
\* innermost one and no other, once its goals are solved.
BracesMatch ==
  Idle /\ exn = "none" =>
    LET before == Braces(call.pr.state)
        after == Braces(pr.state)
    IN  CASE call.cmd \in {"Undo", "Save", "Start"} -> TRUE
          [] call.cmd = "Subproof" -> after # <<>> /\ Front(after) = before
          [] call.cmd = "EndSubproof" -> /\ before # <<>> /\ Front(before) = after
                                         /\ call.pr.state.comb = <<>>
          [] OTHER -> after = before

\* What a proof shows: its state and mode.
Shown(p) == [state |-> p.state, mode |-> p.mode]

\* A command that fails leaves the proof as it was, whatever its transactions
\* have done, and no transaction open; Focus and its like alone leave the
\* state they have saved on the undo stack.
NoTrace ==
  Idle /\ exn # "none" =>
    /\ Shown(pr) = Shown(call.pr)
    /\ pr.trans = <<>>
    /\ call.cmd \notin {"Focus", "Subproof"} => pr.undo = call.pr.undo

\* The states that Undo can restore, oldest first, and the current one.
PastOf(p) ==
  [i \in 1 .. Len(p.undo) + 1 |-> Shown(Rewound(p, SubSeq(p.undo, i, Len(p.undo))))]

History ==
  INSTANCE ProofHistory WITH
    past <- IF Idle THEN PastOf(pr) ELSE PastOf(call.pr),
    ProofStart <- {PastOf(NewProof)}

\* Undo is the inverse of what was done: commands, seen from one answer to the
\* next, extend the states that Undo can restore and never rewrite them.
ImplementsHistory == History!Spec

\* Qed declares a theorem only if no evar is left undefined, be it hidden by a
\* focus or lost from the view after an interrupt.
SoundSave ==
  [][Running("declare") /\ ctrl' = <<>> /\ exn' = "none" => Unsolved(pr.state) = {}]_vars

-----------------------------------------------------------------------------
(* Liveness. *)

\* Every command answers: the loops of maximal_unfocus and of bullets end.
CommandEnds == ~Idle ~> Idle

=============================================================================
