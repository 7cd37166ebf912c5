----------------------------- MODULE FocusProofs ------------------------------
(***************************************************************************)
(* The focus stack: bullets are distinct (BulletsDistinct), and between two*)
(* commands its bottom is end_of_stack (NeverBare).                        *)
(*                                                                         *)
(* Both are about the states of the proof, and a state comes either from a *)
(* step or from the undo stack and the transactions: the invariants hold   *)
(* for all of these.  Both rest on the control.  A bullet is closed and    *)
(* opened by instructions that were put there for the focus stack of before*)
(* (Bulleting); and the last focus is closed only on the way to declare    *)
(* (Finishing).                                                            *)
(***************************************************************************)
EXTENDS HistoryProofs

-----------------------------------------------------------------------------
(* Every state that the proof p may restore is in G.                       *)

Saved(p, G) ==
  \E U : IsUndo(U) /\ IsProof(p, U) /\ \A u \in U : u.undo = "state" => u.state \in G

LEMMA SavedGrows ==
  ASSUME NEW p, NEW G, NEW H, Saved(p, G), G \subseteq H
  PROVE  Saved(p, H)
  BY DEF Saved

LEMMA SavedState ==
  ASSUME NEW p, NEW G, Saved(p, G)
  PROVE  IsState(p.state)
  BY DEF Saved, IsProof

\* A proof with another state, with another mode, or in one more transaction
LEMMA SavedWith ==
  ASSUME NEW p, NEW G, Saved(p, G)
  PROVE  /\ \A s : IsState(s) => /\ Saved([p EXCEPT !.state = s], G)
                                 /\ [p EXCEPT !.state = s].state = s
         /\ \A m : /\ Saved([p EXCEPT !.mode = m], G)
                   /\ [p EXCEPT !.mode = m].state = p.state
         /\ LET q == [p EXCEPT !.trans = Append(@, <<>>)]
            IN  Saved(q, G) /\ q.state = p.state
  <1>1. PICK U : /\ IsUndo(U) /\ IsProof(p, U)
                 /\ \A u \in U : u.undo = "state" => u.state \in G
    BY DEF Saved
  <1>2. p = [state |-> p.state, undo |-> p.undo, trans |-> p.trans, mode |-> p.mode]
    BY <1>1 DEF IsProof
  <1>3. ASSUME NEW s, IsState(s)
        PROVE  Saved([p EXCEPT !.state = s], G) /\ [p EXCEPT !.state = s].state = s
    <2> DEFINE q == [p EXCEPT !.state = s]
    <2>1. q = [state |-> s, undo |-> p.undo, trans |-> p.trans, mode |-> p.mode]
      BY <1>2, WithField
    <2> HIDE DEF q
    <2>2. IsProof(q, U) /\ q.state = s
      BY <1>1, <1>3, <2>1 DEF IsProof
    <2> QED BY <1>1, <2>2 DEF Saved, q
  <1>4. ASSUME NEW m
        PROVE  Saved([p EXCEPT !.mode = m], G) /\ [p EXCEPT !.mode = m].state = p.state
    <2> DEFINE q == [p EXCEPT !.mode = m]
    <2>1. q = [state |-> p.state, undo |-> p.undo, trans |-> p.trans, mode |-> m]
      BY <1>2, WithField
    <2> HIDE DEF q
    <2>2. IsProof(q, U) /\ q.state = p.state
      BY <1>1, <2>1 DEF IsProof
    <2> QED BY <1>1, <2>2 DEF Saved, q
  <1>5. LET q == [p EXCEPT !.trans = Append(@, <<>>)]
        IN  Saved(q, G) /\ q.state = p.state
    <2> DEFINE t == Append(p.trans, <<>>)
               q == [p EXCEPT !.trans = t]
    <2>1. t \in Seq(Seq(U))
      BY <1>1, EmptySeq, AppendProperties DEF IsProof
    <2>2. q = [p EXCEPT !.trans = Append(@, <<>>)]
      BY <1>2
    <2> HIDE DEF t
    <2>3. q = [state |-> p.state, undo |-> p.undo, trans |-> t, mode |-> p.mode]
      BY <1>2, WithField
    <2> HIDE DEF q
    <2>4. IsProof(q, U) /\ q.state = p.state
      BY <1>1, <2>1, <2>3 DEF IsProof
    <2>5. Saved(q, G) /\ q.state = p.state
      BY <1>1, <2>4 DEF Saved
    <2> QED BY <2>2, <2>5
  <1> QED BY <1>3, <1>4, <1>5

LEMMA SavedPushed ==
  ASSUME NEW p, NEW G, Saved(p, G), NEW x,
         x.undo = "state" => x.state \in G /\ IsState(x.state)
  PROVE  Saved(Pushed(p, <<x>>), G) /\ Pushed(p, <<x>>).state = p.state
  <1>1. PICK U : /\ IsUndo(U) /\ IsProof(p, U)
                 /\ \A u \in U : u.undo = "state" => u.state \in G
    BY DEF Saved
  <1> DEFINE V == U \union {x}
             es == <<x>>
  <1>2. IsUndo(V) /\ \A u \in V : u.undo = "state" => u.state \in G
    BY <1>1 DEF IsUndo
  <1>3. p.undo \in Seq(V) /\ p.trans \in Seq(Seq(V))
    <2>1. U \subseteq V /\ Seq(U) \subseteq Seq(V)
      BY SeqMonotonic
    <2> QED BY <1>1, <2>1, SeqMonotonic DEF IsProof
  <1>4. es \in Seq(V)
    OBVIOUS
  <1> HIDE DEF V, es
  <1>5. IsProof(p, V)
    BY <1>1, <1>3 DEF IsProof
  <1>6. IsProof(Pushed(p, es), V) /\ Pushed(p, es).state = p.state
    BY <1>4, <1>5, PushedIsProof
  <1>7. Saved(Pushed(p, es), G)
    BY <1>2, <1>6 DEF Saved
  <1> QED BY <1>6, <1>7 DEF es

\* The undo actions of the proof
LEMMA SavedByPr ==
  ASSUME NEW G, Saved(pr, G)
  PROVE  /\ Saved(Pushed(pr, <<StateUndo(pr)>>), G \union {pr.state})
         /\ Pushed(pr, <<StateUndo(pr)>>).state = pr.state
         /\ Saved(Pushed(pr, <<ModeUndo(pr)>>), G)
         /\ Pushed(pr, <<ModeUndo(pr)>>).state = pr.state
         /\ \A s : IsState(s) => /\ Saved(WithState(s), G)
                                 /\ WithState(s).state = s
                                 /\ Saved(Step(s), G \union {pr.state})
                                 /\ Step(s).state = s
  <1> DEFINE H == G \union {pr.state}
  <1>1. StateUndo(pr).undo = "state" /\ StateUndo(pr).state = pr.state
    BY DEF StateUndo
  <1>2. ModeUndo(pr).undo # "state"
    BY DEF ModeUndo
  <1>3. IsState(pr.state) /\ pr.state \in H /\ Saved(pr, H)
    BY SavedState, SavedGrows
  <1> HIDE DEF H
  <1>4. /\ Saved(Pushed(pr, <<StateUndo(pr)>>), H)
        /\ Pushed(pr, <<StateUndo(pr)>>).state = pr.state
    BY <1>1, <1>3, SavedPushed
  <1>5. /\ Saved(Pushed(pr, <<ModeUndo(pr)>>), G)
        /\ Pushed(pr, <<ModeUndo(pr)>>).state = pr.state
    BY <1>2, SavedPushed
  <1>6. ASSUME NEW s, IsState(s)
        PROVE  /\ Saved(WithState(s), G) /\ WithState(s).state = s
               /\ Saved(Step(s), H) /\ Step(s).state = s
    <2>1. Saved(WithState(s), G) /\ WithState(s).state = s /\ Saved(WithState(s), H)
      BY <1>3, <1>6, SavedWith DEF WithState
    <2>2. Saved(Step(s), H) /\ Step(s).state = s
      BY <1>1, <1>3, <2>1, SavedPushed DEF Step
    <2> QED BY <2>1, <2>2
  <1> QED BY <1>4, <1>5, <1>6 DEF H

LEMMA SavedCommitted ==
  ASSUME NEW p, NEW G, Saved(p, G), p.trans # <<>>, NEW n \in 0..Len(Last(p.trans))
  PROVE  Saved(Committed(p, n), G) /\ Committed(p, n).state = p.state
  BY CommittedIsProof DEF Saved

LEMMA SavedClosed ==
  ASSUME NEW p, NEW G, Saved(p, G), p.trans # <<>>
  PROVE  Saved(Closed(p), G) /\ Closed(p).state = p.state
  BY ClosedIsProof DEF Saved

\* Undo actions restore a saved state, or none.
LEMMA SavedPopped ==
  ASSUME NEW p, NEW G, Saved(p, G), NEW n \in 0..Len(Visible(p))
  PROVE  /\ Saved(Popped(p, n), G)
         /\ Popped(p, n).state \in G \union {p.state}
         /\ Popped(p, n).trans = <<>> <=> p.trans = <<>>
  <1>1. PICK U : /\ IsUndo(U) /\ IsProof(p, U)
                 /\ \A u \in U : u.undo = "state" => u.state \in G
    BY DEF Saved
  <1>2. IsProof(Popped(p, n), U) /\ (Popped(p, n).trans = <<>> <=> p.trans = <<>>)
    BY <1>1, PoppedIsProof
  <1> DEFINE v == Visible(p)
             kept == Len(v) - n
             es == SubSeq(v, kept + 1, Len(v))
             q == Rewound(p, es)
             w == SubSeq(p.undo, 1, kept)
             t == [p.trans EXCEPT ![Len(p.trans)] = SubSeq(@, 1, kept)]
  <1>3. es \in Seq(U)
    <2>1. v \in Seq(U) /\ Len(v) \in Nat
      BY <1>1, VisibleIsSeq
    <2>2. n \in 0..Len(v)
      OBVIOUS
    <2> HIDE DEF v
    <2>3. \A i \in 1..Len(v) : v[i] \in U
      BY <2>1, ElementOfSeq
    <2>4. \A i \in kept + 1 .. Len(v) : v[i] \in U
      BY <2>1, <2>2, <2>3
    <2>5. kept + 1 \in Int /\ Len(v) \in Int
      BY <2>1, <2>2
    <2> QED BY <2>4, <2>5, SubSeqProperties
  <1> HIDE DEF es
  <1>4. q.state \in G \union {p.state} /\ q.undo = p.undo /\ q.trans = p.trans
    BY <1>1, <1>3, RewoundShows, OldestIsUndo
  <1>5. q = [state |-> q.state, undo |-> q.undo, trans |-> q.trans, mode |-> q.mode]
    BY <1>1, <1>3, RewoundIsProof DEF IsProof
  <1>6. Popped(p, n) = IF p.trans = <<>> THEN [q EXCEPT !.undo = SubSeq(@, 1, kept)]
                       ELSE [q EXCEPT !.trans[Len(p.trans)] = SubSeq(@, 1, kept)]
    BY DEF Popped, es
  <1> HIDE DEF q, kept, v
  <1>7. Popped(p, n).state = q.state
    BY <1>5, <1>6
  <1>8. Saved(Popped(p, n), G)
    BY <1>1, <1>2 DEF Saved
  <1> QED BY <1>2, <1>4, <1>7, <1>8

LEMMA SavedNew == Saved(NewProof, {InitialState}) /\ NewProof.state = InitialState
  <1> DEFINE u == [undo |-> "state", state |-> InitialState]
  <1>1. IsState(InitialState)
    BY SaneNewProof
  <1>2. <<u>> \in Seq({u}) /\ <<>> \in Seq(Seq({u})) /\ u.state = InitialState
    OBVIOUS
  <1> HIDE DEF InitialState
  <1>3. NewProof = [state |-> InitialState, undo |-> <<u>>, trans |-> <<>>, mode |-> DefaultMode]
    BY DEF NewProof
  <1>4. IsUndo({u})
    BY <1>1 DEF IsUndo
  <1>5. IsProof(NewProof, {u}) /\ NewProof.state = InitialState
    BY <1>1, <1>2, <1>3 DEF IsProof
  <1> QED BY <1>2, <1>4, <1>5 DEF Saved

-----------------------------------------------------------------------------
(* What an instruction does to the focus stack and to the saved states.    *)

\* The focus stack of the states that instructions make
LEMMA StackUnfocused ==
  ASSUME NEW s, IsState(s)
  PROVE  /\ IsState(PoppedFocus(s)) /\ PoppedFocus(s).focus = Front(s.focus)
         /\ IsState(Unfocused(s)) /\ Unfocused(s).focus = Front(s.focus)
  <1>1. IsState(PoppedFocus(s)) /\ IsState(Unfocused(s))
    BY StatesAreRecords
  <1>2. PoppedFocus(s).focus = Front(s.focus)
    BY DEF PoppedFocus, IsState
  <1>3. Unfocused(s).focus = Front(s.focus)
    <2> DEFINE p == PoppedFocus(s)
               u == Undefined(s, Last(s.focus).left \o s.comb \o Last(s.focus).right)
    <2>1. Unfocused(s) = [p EXCEPT !.comb = u]
      BY DEF Unfocused
    <2> HIDE DEF p, u
    <2>2. IsState(p) /\ p.focus = Front(s.focus)
      BY <1>1, <1>2 DEF p
    <2>3. [p EXCEPT !.comb = u].focus = p.focus
      BY <2>2 DEF IsState
    <2> QED BY <2>1, <2>2, <2>3
  <1> QED BY <1>1, <1>2, <1>3

LEMMA StackFocused ==
  ASSUME NEW s, IsState(s), NEW kind, NEW bullets, NEW i
  PROVE  /\ IsState(PushedFocus(s, kind, bullets, i))
         /\ IsState(Focused(s, kind, bullets, i))
         /\ \E l, r : PushedFocus(s, kind, bullets, i).focus
                        = Append(s.focus, Focus(kind, bullets, l, r))
         /\ \E l, r : Focused(s, kind, bullets, i).focus
                        = Append(s.focus, Focus(kind, bullets, l, r))
  <1> DEFINE p == PushedFocus(s, kind, bullets, i)
             u == <<s.comb[i]>>
             l == SubSeq(s.comb, 1, i - 1)
             r == SubSeq(s.comb, i + 1, Len(s.comb))
             f == Append(s.focus, Focus(kind, bullets, l, r))
  <1>1. IsState(p) /\ IsState(Focused(s, kind, bullets, i))
    BY StatesAreRecords
  <1>2. p = [s EXCEPT !.focus = f] /\ Focused(s, kind, bullets, i) = [p EXCEPT !.comb = u]
    BY DEF PushedFocus, IsState, Focused
  <1> HIDE DEF p, u, f
  <1>3. p.focus = f
    BY <1>2 DEF IsState
  <1>4. [p EXCEPT !.comb = u].focus = p.focus
    BY <1>1 DEF IsState
  <1> QED BY <1>1, <1>2, <1>3, <1>4 DEF p, f

LEMMA StackSolving ==
  ASSUME NEW s, IsState(s), NEW solved, NEW k, NEW h
  PROVE  IsState(Solving(s, solved, k, h)) /\ Solving(s, solved, k, h).focus = s.focus
  <1>1. IsState(Solving(s, solved, k, h))
    BY StatesAreRecords
  <1> QED BY <1>1 DEF Solving, IsState

LEMMA StackReplaced ==
  ASSUME NEW s, IsState(s), NEW comb, NEW i, NEW new
  PROVE  IsState(Replaced(s, comb, i, new)) /\ Replaced(s, comb, i, new).focus = s.focus
  <1> DEFINE u == Undefined(s, SubSeq(comb, 1, i - 1) \o new \o SubSeq(comb, i + 1, Len(comb)))
  <1>1. Replaced(s, comb, i, new) = [s EXCEPT !.comb = u]
    BY DEF Replaced
  <1> HIDE DEF u
  <1>2. [s EXCEPT !.comb = u].focus = s.focus
    BY DEF IsState
  <1> QED BY <1>1, <1>2, WithComb

LEMMA StackToGoals ==
  ASSUME NEW s, IsState(s), NEW c, NEW g
  PROVE  LET t == [s EXCEPT !.comb = c, !.goals = g, !.holes = {}]
         IN  IsState(t) /\ t.focus = s.focus
  <1> DEFINE t == [s EXCEPT !.comb = c]
             u == [t EXCEPT !.goals = g]
  <1>1. IsState(t) /\ t.focus = s.focus
    BY DEF IsState
  <1> HIDE DEF t
  <1>2. IsState(u) /\ u.focus = t.focus
    BY <1>1 DEF IsState
  <1> HIDE DEF u
  <1>3. IsState([u EXCEPT !.holes = {}]) /\ [u EXCEPT !.holes = {}].focus = u.focus
    BY <1>2 DEF IsState
  <1> QED BY <1>1, <1>2, <1>3 DEF t, u

\* The focus stack of a state made from that of the proof: the same, without
\* its last focus or with another one.
FocusMoves(s) ==
  \/ s.focus = pr.state.focus
  \/ Running("unfocus") /\ MayUnfocus /\ s.focus = Front(pr.state.focus)
  \/ /\ Running("focus")
     /\ \E l, r : s.focus = Append(pr.state.focus, Focus(Now.kind, Now.bullets, l, r))

\* The instructions that record the state of the proof
Recording ==
  \/ Running("save") \/ Running("tactic") \/ Running("instantiate")
  \/ Running("unfocus") /\ MayUnfocus

\* The proof starts again, or its next state is one of those in G, restored, or
\* made from the last one; and what it may restore is in G, or was its state.
Moved(G) ==
  \/ Running("declare") /\ pr' = NewProof /\ ctrl' = <<>>
  \/ /\ Saved(pr', G) \/ (Recording /\ Saved(pr', G \union {pr.state}))
     /\ \/ pr'.state \in G /\ (exn # "none" \/ Running("pop"))
        \/ FocusMoves(pr'.state)

LEMMA UnfocusMoves ==
  ASSUME NEW G, Saved(pr, G), UnfocusStep \/ UnfocusInterrupted \/ FocusStep \/ FocusInterrupted
  PROVE  Moved(G)
  <1> DEFINE s == pr.state
  <1>1. IsState(s)
    BY SavedState
  <1>2. /\ \A p : p.focus = s.focus => FocusMoves(p)
        /\ \A e : Raise(e) => pr' = pr
    BY DEF FocusMoves, Raise
  <1>3. CASE \E e : Raise(e)
    BY <1>2, <1>3 DEF Moved
  <1>4. CASE \/ UnfocusStep /\ ~\E e : Raise(e)
             \/ UnfocusInterrupted
    <2>1. Running("unfocus") /\ MayUnfocus
      BY <1>4 DEF UnfocusStep, UnfocusInterrupted, MayUnfocus
    <2>2. \/ pr' = Step(Unfocused(s)) \/ pr' = WithState(Unfocused(s))
          \/ pr' = WithState(PoppedFocus(s))
      BY <1>4 DEF UnfocusStep, UnfocusInterrupted, Do, BrokenAt
    <2>3. /\ IsState(Unfocused(s)) /\ Unfocused(s).focus = Front(s.focus)
          /\ IsState(PoppedFocus(s)) /\ PoppedFocus(s).focus = Front(s.focus)
      BY <1>1, StackUnfocused
    <2>4. /\ Saved(pr', G) \/ Saved(pr', G \union {pr.state})
          /\ pr'.state.focus = Front(s.focus)
      BY <2>2, <2>3, SavedByPr
    <2> QED BY <2>1, <2>4 DEF Moved, Recording, FocusMoves
  <1>5. CASE \/ FocusStep /\ ~\E e : Raise(e)
             \/ FocusInterrupted
    <2>1. Running("focus")
      BY <1>5 DEF FocusStep, FocusInterrupted
    <2>2. \/ pr' = WithState(Focused(s, Now.kind, Now.bullets, Now.i))
          \/ pr' = WithState(PushedFocus(s, Now.kind, Now.bullets, Now.i))
      BY <1>5 DEF FocusStep, FocusInterrupted, Do, BrokenAt
    <2>3. /\ IsState(Focused(s, Now.kind, Now.bullets, Now.i))
          /\ IsState(PushedFocus(s, Now.kind, Now.bullets, Now.i))
          /\ \E l, r : Focused(s, Now.kind, Now.bullets, Now.i).focus
                         = Append(s.focus, Focus(Now.kind, Now.bullets, l, r))
          /\ \E l, r : PushedFocus(s, Now.kind, Now.bullets, Now.i).focus
                         = Append(s.focus, Focus(Now.kind, Now.bullets, l, r))
      BY <1>1, StackFocused
    <2>4. ASSUME NEW t, IsState(t), pr' = WithState(t),
                 \E l, r : t.focus = Append(s.focus, Focus(Now.kind, Now.bullets, l, r))
          PROVE  Saved(pr', G) /\ pr'.state = t
      BY <2>4, SavedByPr
    <2>5. Saved(pr', G) /\ \E l, r : pr'.state.focus
                                       = Append(s.focus, Focus(Now.kind, Now.bullets, l, r))
      BY <2>2, <2>3, <2>4
    <2> QED BY <2>1, <2>5 DEF Moved, FocusMoves
  <1> QED BY <1>3, <1>4, <1>5 DEF UnfocusInterrupted, FocusInterrupted

LEMMA EvarsMove ==
  ASSUME NEW G, Saved(pr, G), Tactic \/ Instantiate \/ ToGoals
  PROVE  Moved(G)
  <1> DEFINE s == pr.state
  <1>1. IsState(s)
    BY SavedState
  <1>2. \A e : Raise(e) => Moved(G)
    BY DEF Moved, FocusMoves, Raise
  <1>3. ASSUME NEW t, IsState(t), t.focus = s.focus, pr' = Step(t),
               Running("tactic") \/ Running("instantiate")
        PROVE  Moved(G)
    <2>1. Saved(pr', G \union {pr.state}) /\ pr'.state.focus = s.focus
      BY <1>3, SavedByPr
    <2> QED BY <1>3, <2>1 DEF Moved, FocusMoves, Recording
  <1>4. CASE Tactic
    <2>1. Running("tactic")
      BY <1>4 DEF Tactic
    <2>2. \/ Raise("Error")
          \/ pr' = Step(Replaced(s, s.comb, Now.goal, <<s.comb[Now.goal]>>))
          \/ \E o \in Outcomes(s, s.comb[Now.goal]) :
               pr' = Step(Replaced(Solving(s, o.solved, o.goals, o.holes), s.comb, Now.goal,
                                   [i \in 1..o.goals |-> s.made + i]))
      BY <1>4 DEF Tactic, Do
    <2> HIDE DEF s
    <2>3. CASE Raise("Error")
      BY <1>2, <2>3
    <2>4. CASE pr' = Step(Replaced(s, s.comb, Now.goal, <<s.comb[Now.goal]>>))
      <3>1. /\ IsState(Replaced(s, s.comb, Now.goal, <<s.comb[Now.goal]>>))
            /\ Replaced(s, s.comb, Now.goal, <<s.comb[Now.goal]>>).focus = s.focus
        BY <1>1, StackReplaced
      <3> QED BY <1>3, <2>1, <2>4, <3>1
    <2>5. ASSUME NEW o \in Outcomes(s, s.comb[Now.goal]),
                 pr' = Step(Replaced(Solving(s, o.solved, o.goals, o.holes), s.comb, Now.goal,
                                     [i \in 1..o.goals |-> s.made + i]))
          PROVE  Moved(G)
      <3> DEFINE t == Solving(s, o.solved, o.goals, o.holes)
                 new == [i \in 1..o.goals |-> s.made + i]
      <3>1. IsState(t) /\ t.focus = s.focus
        BY <1>1, StackSolving
      <3>2. pr' = Step(Replaced(t, s.comb, Now.goal, new))
        BY <2>5
      <3> HIDE DEF t, new
      <3>3. /\ IsState(Replaced(t, s.comb, Now.goal, new))
            /\ Replaced(t, s.comb, Now.goal, new).focus = s.focus
        BY <3>1, StackReplaced
      <3> QED BY <1>3, <2>1, <3>2, <3>3
    <2> QED BY <2>2, <2>3, <2>4, <2>5
  <1>5. CASE Instantiate
    <2>1. Running("instantiate")
      BY <1>5 DEF Instantiate
    <2>2. Raise("Error") \/ \E e, h : pr' = Step(Solving(s, {e}, 0, h))
      BY <1>5 DEF Instantiate, Do
    <2>3. ASSUME NEW e, NEW h, pr' = Step(Solving(s, {e}, 0, h)) PROVE Moved(G)
      <3>1. IsState(Solving(s, {e}, 0, h)) /\ Solving(s, {e}, 0, h).focus = s.focus
        BY <1>1, StackSolving
      <3> QED BY <1>3, <2>1, <2>3, <3>1
    <2> QED BY <1>2, <2>2, <2>3
  <1>6. CASE ToGoals
    <2> DEFINE c == SetToSeq(Unsolved(s))
               u == Unsolved(s)
               t == [s EXCEPT !.comb = c, !.goals = u, !.holes = {}]
    <2>1. pr' = WithState(t)
      BY <1>6 DEF ToGoals, Do
    <2>2. IsState(t) /\ t.focus = s.focus
      <3> HIDE DEF c, u, s
      <3> QED BY <1>1, StackToGoals
    <2> HIDE DEF t
    <2>3. Saved(pr', G) /\ pr'.state.focus = s.focus
      BY <2>1, <2>2, SavedByPr
    <2> QED BY <2>3 DEF Moved, FocusMoves
  <1> QED BY <1>4, <1>5, <1>6

LEMMA UndoMoves ==
  ASSUME NEW G, Saved(pr, G), Pop \/ Rollback \/ RollbackInterrupted
  PROVE  Moved(G)
  <1>1. PICK U : IsProof(pr, U)
    BY DEF Saved
  <1>2. Visible(pr) \in Seq(U) /\ Len(Visible(pr)) \in Nat
    BY <1>1, VisibleIsSeq, LenProperties
  <1>3. ASSUME NEW n \in 0..Len(Visible(pr)), NEW q, q = Popped(pr, n), pr' = q,
               exn # "none" \/ Running("pop")
        PROVE  Moved(G)
    <2>1. Saved(pr', G) /\ pr'.state \in G \union {pr.state}
      BY <1>3, SavedPopped
    <2> QED BY <1>3, <2>1 DEF Moved, FocusMoves
  <1>4. CASE Pop
    <2>1. CASE Visible(pr) = <<>>
      <3>1. pr' = pr
        BY <1>4, <2>1 DEF Pop, Raise
      <3> QED BY <3>1 DEF Moved, FocusMoves
    <2>2. CASE Visible(pr) # <<>>
      <3>1. 1 \in 0..Len(Visible(pr))
        BY <1>2, <2>2, EmptySeq
      <3>2. pr' = Popped(pr, 1) /\ Running("pop")
        BY <1>4, <2>2 DEF Pop, Do
      <3> QED BY <1>3, <3>1, <3>2
    <2> QED BY <2>1, <2>2
  <1>5. CASE Rollback
    <2> DEFINE n == Len(Visible(pr))
               p == Popped(pr, n)
    <2>1. n \in 0..n
      BY <1>2
    <2>2. exn # "none" /\ (pr' = p \/ (pr.trans # <<>> /\ pr' = Closed(p)))
      BY <1>5 DEF Rollback, Unwinding
    <2>3. /\ Saved(p, G) /\ p.state \in G \union {pr.state}
          /\ p.trans = <<>> <=> pr.trans = <<>>
      BY <2>1, SavedPopped
    <2> HIDE DEF p
    <2>4. Saved(pr', G) /\ pr'.state = p.state
      BY <2>2, <2>3, SavedClosed
    <2> QED BY <2>2, <2>3, <2>4 DEF Moved, FocusMoves
  <1>6. CASE RollbackInterrupted
    <2>1. exn # "none" /\ \E n \in 0..Len(Visible(pr)) : pr' = Popped(pr, n)
      BY <1>6 DEF RollbackInterrupted, Unwinding
    <2> QED BY <1>3, <2>1
  <1> QED BY <1>4, <1>5, <1>6

\* The other instructions leave the state of the proof as it is.
LEMMA StatesMove ==
  ASSUME NEW G, Saved(pr, G), Instruction \/ Interrupted
  PROVE  Moved(G)
  <1>1. ASSUME Saved(pr', G) \/ (Recording /\ Saved(pr', G \union {pr.state})),
               pr'.state = pr.state
        PROVE  Moved(G)
    BY <1>1 DEF Moved, FocusMoves
  <1>2. ASSUME pr' = pr PROVE Moved(G)
    BY <1>1, <1>2
  <1>3. CASE Begin
    <2> DEFINE q == [pr EXCEPT !.trans = Append(@, <<>>)]
    <2>1. pr' = q
      BY <1>3 DEF Begin, Do
    <2> HIDE DEF q
    <2>2. Saved(q, G) /\ q.state = pr.state
      BY SavedWith DEF q
    <2> QED BY <1>1, <2>1, <2>2
  <1>4. CASE Commit \/ CommitInterrupted
    <2>1. PICK U : IsProof(pr, U)
      BY DEF Saved
    <2>2. pr.trans # <<>>
      BY <1>4 DEF Commit, CommitInterrupted
    <2>3. Len(Last(pr.trans)) \in Nat
      BY <2>1, <2>2, ClosedIsProof, LenProperties
    <2>4. \E n \in 0..Len(Last(pr.trans)) : pr' = Committed(pr, n)
      <3>1. Len(Last(pr.trans)) \in 0..Len(Last(pr.trans))
        BY <2>3
      <3> QED BY <1>4, <3>1 DEF Commit, CommitInterrupted, Do, BrokenAt
    <2> QED BY <1>1, <2>2, <2>4, SavedCommitted
  <1>5. CASE Save
    <2>1. Running("save") /\ pr' = Pushed(pr, <<StateUndo(pr)>>)
      BY <1>5 DEF Save, Do
    <2>2. Saved(pr', G \union {pr.state}) /\ pr'.state = pr.state
      BY <2>1, SavedByPr
    <2> QED BY <1>1, <2>1, <2>2 DEF Recording
  <1>6. CASE SaveMode
    <2>1. pr' = Pushed(pr, <<ModeUndo(pr)>>)
      BY <1>6 DEF SaveMode, Do
    <2>2. Saved(pr', G) /\ pr'.state = pr.state
      BY <2>1, SavedByPr
    <2> QED BY <1>1, <2>2
  <1>7. CASE SetMode
    <2>1. PICK m : pr' = [pr EXCEPT !.mode = m]
      BY <1>7 DEF SetMode, Do
    <2>2. Saved(pr', G) /\ pr'.state = pr.state
      BY <2>1, SavedWith
    <2> QED BY <1>1, <2>2
  <1>8. CASE \/ UndoMany \/ GrabEvars \/ Relabel \/ Maximal \/ PutBullet \/ PopBullet
             \/ PushBullet \/ Return \/ Relabelled \/ MaximalEnds \/ Interrupt
    <2>1. pr' = pr
      BY <1>8 DEF UndoMany, GrabEvars, Relabel, Maximal, PutBullet, NoFocus, PopBullet, PushBullet,
                  Return, Relabelled, MaximalEnds, Interrupt, Raise, Expand, Do
    <2> QED BY <1>2, <2>1
  <1>9. CASE Declare
    <2>1. Running("declare") /\ (pr' = pr \/ (pr' = NewProof /\ ctrl' = <<>>))
      BY <1>9 DEF Declare, Raise
    <2> QED BY <1>2, <2>1 DEF Moved
  <1> QED BY <1>3, <1>4, <1>5, <1>6, <1>7, <1>8, <1>9, UnfocusMoves, EvarsMove, UndoMoves
          DEF Instruction, Interrupted

-----------------------------------------------------------------------------
(* What an instruction puts into the control.                              *)

\* An instruction that the first one may leave to be executed
Added(y) ==
  \/ y = Now
  \/ y.op \in {"begin", "commit", "relabel"}
  \/ Now.op = "undo" /\ y.op = "pop"
  \/ Now.op = "grab" /\ y.op \in {"save", "toGoals"}
  \/ Now.op = "maximal" /\ y.op = "unfocus" /\ y.kind = "command"
  \/ Now.op = "popUntil" /\ y.op = "unfocus" /\ y.kind = "bullet"
  \/ Now.op = "return" /\ y.op = "unfocus" /\ y.kind = "end"
  \/ Now.op = "put" /\ y.op \in {"popUntil", "push"}
  \/ Now.op = "push" /\ y.op = "save"
  \/ Now.op = "push" /\ y.op = "focus" /\ y.kind = "bullet"

Adds(b) == \E Y : b \in Seq(Y) /\ \A y \in Y : Added(y)

\* The control has lost instructions, or some have been added.
Grown(X) == \E Y : ctrl' \in Seq(X \union Y) /\ \A y \in Y : Added(y)

LEMMA AddsTuples ==
  ASSUME NEW x, Added(x), NEW y, Added(y)
  PROVE  Adds(<<x>>) /\ Adds(<<x, y>>)
  <1> DEFINE Y == {x, y}
  <1>1. <<x>> \in Seq(Y) /\ <<x, y>> \in Seq(Y)
    OBVIOUS
  <1>2. \A z \in Y : Added(z)
    OBVIOUS
  <1> HIDE DEF Y
  <1> QED BY <1>1, <1>2 DEF Adds

LEMMA GrowsByNone ==
  ASSUME NEW X, ctrl' \in Seq(X)
  PROVE  Grown(X)
  <1> DEFINE Y == {}
  <1>1. \A y \in Y : Added(y)
    OBVIOUS
  <1>2. X \subseteq X \union Y
    OBVIOUS
  <1> HIDE DEF Y
  <1>3. ctrl' \in Seq(X \union Y)
    BY <1>2, SeqMonotonic
  <1> QED BY <1>1, <1>3 DEF Grown

LEMMA GrowsBy ==
  ASSUME NEW X, Rest \in Seq(X), NEW b, Adds(b), ctrl' = b \o Rest
  PROVE  Grown(X)
  <1>1. PICK Y : b \in Seq(Y) /\ \A y \in Y : Added(y)
    BY DEF Adds
  <1>2. b \in Seq(X \union Y) /\ Rest \in Seq(X \union Y)
    BY <1>1, SeqMonotonic
  <1>3. ctrl' \in Seq(X \union Y)
    BY <1>2, ConcatProperties
  <1> QED BY <1>1, <1>3 DEF Grown

LEMMA RaisedControl ==
  ASSUME NEW X, NEW c \in Seq(X), NEW e, RaiseIn(c, e)
  PROVE  ctrl' \in Seq(X) /\ exn' = e
  <1>1. CASE ctrl' = <<>>
    BY <1>1, EmptySeq DEF RaiseIn
  <1>2. CASE \E h \in DOMAIN c : ctrl' = SubSeq(c, h, Len(c))
    <2>1. PICK h \in DOMAIN c : ctrl' = SubSeq(c, h, Len(c))
      BY <1>2
    <2>2. h \in 1..Len(c) /\ Len(c) \in Nat
      BY LenProperties
    <2>3. \A i \in 1..Len(c) : c[i] \in X
      BY ElementOfSeq
    <2>4. (\A i \in h..Len(c) : c[i] \in X) /\ h \in Int /\ Len(c) \in Int
      BY <2>2, <2>3
    <2>5. SubSeq(c, h, Len(c)) \in Seq(X)
      BY <2>4, SubSeqProperties
    <2> QED BY <2>1, <2>5 DEF RaiseIn
  <1> QED BY <1>1, <1>2 DEF RaiseIn

\* A transaction before the rest
LEMMA AddsTransaction ==
  ASSUME NEW b, Adds(b)
  PROVE  /\ Adds(Transaction(b))
         /\ \A more : more \in {<<>>, <<Now>>} => Adds(Transaction(b) \o more)
  <1>1. PICK Y : b \in Seq(Y) /\ \A y \in Y : Added(y)
    BY DEF Adds
  <1> DEFINE Z == Y \union {Op("begin"), Op("commit"), Now}
             t == Transaction(b)
  <1>2. Y \subseteq Z /\ Op("begin") \in Z /\ Op("commit") \in Z /\ Now \in Z
    OBVIOUS
  <1>3. \A z \in Z : Added(z)
    BY <1>1 DEF Added, Op
  <1> HIDE DEF Z
  <1>4. b \in Seq(Z) /\ <<>> \in Seq(Z) /\ <<Now>> \in Seq(Z)
    BY <1>1, <1>2, SeqMonotonic
  <1>5. t \in Seq(Z)
    BY <1>2, <1>4, TransactionList
  <1> HIDE DEF t
  <1>6. ASSUME NEW more, more \in {<<>>, <<Now>>} PROVE Adds(t \o more)
    <2>1. t \o more \in Seq(Z)
      BY <1>4, <1>5, <1>6, ConcatProperties
    <2> QED BY <1>3, <2>1 DEF Adds
  <1>7. Adds(t)
    BY <1>3, <1>5 DEF Adds
  <1> QED BY <1>6, <1>7 DEF t

\* An instruction is at the head of the control.
LEMMA HeadOfControl ==
  ASSUME Instruction \/ Interrupted, NEW X, ctrl \in Seq(X)
  PROVE  ctrl # <<>> /\ Now \in X /\ Rest \in Seq(X)
  <1>1. ctrl # <<>>
    BY DEF Instruction, Interrupted, Idle, Begin, Commit, Save, SaveMode, SetMode, UndoMany, Pop,
           Tactic, Instantiate, GrabEvars, ToGoals, FocusStep, UnfocusStep, Relabel, Maximal,
           PutBullet, PopBullet, PushBullet, Return, Declare, Rollback, Relabelled, MaximalEnds,
           Interrupt, UnfocusInterrupted, FocusInterrupted, CommitInterrupted, RollbackInterrupted,
           Running, Unwinding
  <1> QED BY <1>1, HeadTailProperties DEF Rest, Now

LEMMA ControlGrows ==
  ASSUME SaveInv, NEW X, ctrl \in Seq(X), Instruction \/ Interrupted
  PROVE  Grown(X)
  <1>1. ctrl # <<>>
    BY HeadOfControl
  <1>2. Rest \in Seq(X) /\ Now \in X
    BY HeadOfControl
  <1>3. ASSUME NEW e, RaiseIn(ctrl, e) \/ RaiseIn(Rest, e) PROVE Grown(X)
    BY <1>2, <1>3, RaisedControl, GrowsByNone
  <1>4. \A e : Raise(e) => Grown(X)
    BY <1>3 DEF Raise
  <1>5. \A p : Do(p) => Grown(X)
    BY <1>2, GrowsByNone DEF Do, Continue
  <1>6. CASE Begin \/ Commit \/ Save \/ SaveMode \/ SetMode \/ Pop \/ Tactic \/ Instantiate
             \/ ToGoals \/ FocusStep \/ Relabel
    BY <1>4, <1>5, <1>6 DEF Begin, Commit, Save, SaveMode, SetMode, Pop, Tactic, Instantiate,
                            ToGoals, FocusStep, Relabel
  <1>7. CASE UndoMany
    <2> DEFINE b == [i \in 1..Now.n |-> Op("pop")]
    <2>1. PICK C : ctrl \in Seq(C) /\ IsInstr(C)
      BY DEF SaveInv, Control, Body
    <2>2. Now \in C /\ Now.op = "undo"
      BY <1>1, <1>7, <2>1, HeadTailProperties DEF UndoMany, Running, Now
    <2>3. Now.n \in Nat
      BY <2>1, <2>2 DEF IsInstr
    <2>4. b \in Seq({Op("pop")})
      BY <2>3 DEF Op
    <2>5. \A y \in {Op("pop")} : Added(y)
      BY <2>2 DEF Added, Op
    <2>6. Adds(b)
      BY <2>4, <2>5 DEF Adds
    <2>7. Raise("Error") \/ ctrl' = b \o Rest
      BY <1>7 DEF UndoMany, Expand, Continue
    <2> HIDE DEF b
    <2> QED BY <1>2, <1>4, <2>6, <2>7, GrowsBy
  <1>8. CASE GrabEvars
    <2> DEFINE b == <<Op("save"), Op("toGoals")>>
    <2>1. Now.op = "grab"
      BY <1>8 DEF GrabEvars, Running, Now
    <2>2. Added(Op("save")) /\ Added(Op("toGoals"))
      BY <2>1 DEF Added, Op
    <2>4. Adds(b)
      BY <2>2, AddsTuples
    <2>3. Raise("Error") \/ ctrl' = b \o Rest
      BY <1>8 DEF GrabEvars, Expand, Continue
    <2> HIDE DEF b
    <2> QED BY <1>2, <1>4, <2>3, <2>4, GrowsBy
  <1>9. CASE UnfocusStep
    <2> DEFINE b == <<Now, Op("relabel")>>
    <2>1. Adds(b)
      <3>1. Added(Now) /\ Added(Op("relabel"))
        BY DEF Added, Op
      <3> QED BY <3>1, AddsTuples
    <2>2. (\E e : Raise(e)) \/ ctrl' = Rest \/ ctrl' = b \o Rest
      BY <1>9 DEF UnfocusStep, Continue, Do
    <2> HIDE DEF b
    <2> QED BY <1>2, <1>4, <2>1, <2>2, GrowsBy, GrowsByNone
  <1>10. CASE Maximal
    <2> DEFINE x == UnfocusOp("command")
    <2>1. Now.op = "maximal"
      BY <1>10 DEF Maximal, Running, Now
    <2>2. x.op = "unfocus" /\ x.kind = "command"
      BY DEF UnfocusOp
    <2>3. Expand(Transaction(<<x>>) \o <<Now>>) \/ Do(pr)
      BY <1>10 DEF Maximal
    <2> HIDE DEF x
    <2>4. Adds(<<x>>)
      BY <2>1, <2>2, AddsTuples DEF Added
    <2> DEFINE b == Transaction(<<x>>) \o <<Now>>
    <2>5. Adds(b)
      BY <2>4, AddsTransaction
    <2> HIDE DEF b
    <2>6. Expand(b) => Grown(X)
      BY <1>2, <2>5, GrowsBy DEF Expand, Continue
    <2> QED BY <1>5, <2>3, <2>6 DEF b
  <1>11. CASE PutBullet
    <2> DEFINE x == BulletOp("popUntil", Now.bullet)
               y == BulletOp("push", Now.bullet)
    <2>1. Now.op = "put"
      BY <1>11 DEF PutBullet, Running, Now
    <2>2. x.op = "popUntil" /\ y.op = "push"
      BY DEF BulletOp
    <2>3. Raise("Failure") \/ Expand(Transaction(<<x, y>>)) \/ ctrl' = <<y>> \o Rest
      BY <1>11 DEF PutBullet, NoFocus, Expand, Continue
    <2> HIDE DEF x, y
    <2> DEFINE b == Transaction(<<x, y>>)
    <2>4. Adds(<<y>>) /\ Adds(b)
      BY <2>1, <2>2, AddsTuples, AddsTransaction DEF Added
    <2> HIDE DEF b
    <2>5. Expand(b) => Grown(X)
      BY <1>2, <2>4, GrowsBy DEF Expand, Continue
    <2>6. ctrl' = <<y>> \o Rest => Grown(X)
      BY <1>2, <2>4, GrowsBy
    <2> QED BY <1>4, <2>3, <2>5, <2>6 DEF b
  <1>12. CASE PopBullet
    <2> DEFINE x == UnfocusOp("bullet")
               more == IF Head(GetBullets(pr.state)) = Now.bullet THEN <<>> ELSE <<Now>>
    <2>1. Now.op = "popUntil"
      BY <1>12 DEF PopBullet, Running, Now
    <2>2. x.op = "unfocus" /\ x.kind = "bullet"
      BY DEF UnfocusOp
    <2>3. Expand(Transaction(<<x>>) \o more)
      BY <1>12 DEF PopBullet
    <2>4. more \in {<<>>, <<Now>>}
      OBVIOUS
    <2> HIDE DEF x, more
    <2> DEFINE b == Transaction(<<x>>) \o more
    <2>5. Adds(<<x>>)
      BY <2>1, <2>2, AddsTuples DEF Added
    <2>6. Adds(b)
      BY <2>4, <2>5, AddsTransaction
    <2>7. ctrl' = b \o Rest
      BY <2>3 DEF Expand, Continue
    <2> HIDE DEF b
    <2> QED BY <1>2, <2>6, <2>7, GrowsBy
  <1>13. CASE PushBullet
    <2> DEFINE x == FocusOp("bullet", <<Now.bullet>> \o GetBullets(pr.state), 1)
               y == Op("save")
    <2>1. Now.op = "push"
      BY <1>13 DEF PushBullet, Running, Now
    <2>2. x.op = "focus" /\ x.kind = "bullet" /\ y.op = "save"
      BY DEF FocusOp, Op
    <2>3. ctrl' = <<y, x>> \o Rest
      BY <1>13 DEF PushBullet, Expand, Continue
    <2> HIDE DEF x, y
    <2>4. Adds(<<y, x>>)
      BY <2>1, <2>2, AddsTuples DEF Added
    <2> QED BY <1>2, <2>3, <2>4, GrowsBy
  <1>14. CASE Return
    <2> DEFINE x == UnfocusOp("end")
    <2>1. Now.op = "return"
      BY <1>14 DEF Return, Running, Now
    <2>2. x.op = "unfocus" /\ x.kind = "end"
      BY DEF UnfocusOp
    <2>3. Raise("Error") \/ Expand(Transaction(<<x>>))
      BY <1>14 DEF Return
    <2> HIDE DEF x
    <2> DEFINE b == Transaction(<<x>>)
    <2>4. Adds(b)
      BY <2>1, <2>2, AddsTuples, AddsTransaction DEF Added
    <2> HIDE DEF b
    <2>5. Expand(b) => Grown(X)
      BY <1>2, <2>4, GrowsBy DEF Expand, Continue
    <2> QED BY <1>4, <2>3, <2>5 DEF b
  <1>15. CASE Declare
    BY <1>4, <1>15, EmptySeq, GrowsByNone DEF Declare
  <1>16. CASE Rollback \/ Relabelled \/ MaximalEnds
    <2>1. (\E e : RaiseIn(Rest, e)) \/ ctrl' = Rest
      BY <1>16 DEF Rollback, Relabelled, MaximalEnds
    <2> QED BY <1>2, <1>3, <2>1, GrowsByNone
  <1>17. CASE Interrupted
    <2>1. \E e : RaiseIn(ctrl, e) \/ RaiseIn(Rest, e)
      BY <1>17 DEF Interrupted, Interrupt, Raise, UnfocusInterrupted, FocusInterrupted,
                   CommitInterrupted, RollbackInterrupted, BrokenAt
    <2> QED BY <1>3, <2>1
  <1> QED BY <1>6, <1>7, <1>8, <1>9, <1>10, <1>11, <1>12, <1>13, <1>14, <1>15, <1>16, <1>17
          DEF Instruction

-----------------------------------------------------------------------------
(* Focus stacks: closing and opening a focus.                              *)

LEMMA FrontParts ==
  ASSUME NEW F, NEW f \in Seq(F), f # <<>>
  PROVE  LET n == Len(f)
         IN  /\ n \in Nat \ {0} /\ DOMAIN f = 1..n /\ Last(f) = f[n]
             /\ Front(f) \in Seq(F) /\ Len(Front(f)) = n - 1 /\ DOMAIN Front(f) = 1..(n - 1)
             /\ \A i \in 1..(n - 1) : Front(f)[i] = f[i]
             /\ Front(f) = <<>> <=> n = 1
  <1> DEFINE n == Len(f)
             g == Front(f)
  <1>1. n \in Nat \ {0} /\ DOMAIN f = 1..n /\ Last(f) = f[n]
    BY EmptySeq, LenProperties DEF Last
  <1>2. \A i \in 1..n : f[i] \in F
    BY ElementOfSeq
  <1>3. g = SubSeq(f, 1, n - 1)
    BY DEF Front
  <1> HIDE DEF n, g
  <1>4. (\A i \in 1..(n - 1) : f[i] \in F) /\ n - 1 \in Int
    BY <1>1, <1>2
  <1>5. /\ g \in Seq(F)
        /\ Len(g) = IF 1 <= n - 1 THEN n - 1 - 1 + 1 ELSE 0
        /\ \A i \in 1 .. (n - 1) - 1 + 1 : g[i] = f[1 + i - 1]
    BY <1>3, <1>4, SubSeqProperties
  <1>6. Len(g) = n - 1 /\ \A i \in 1..(n - 1) : g[i] = f[i]
    BY <1>1, <1>5
  <1>7. DOMAIN g = 1..(n - 1)
    BY <1>5, <1>6, LenProperties
  <1>8. g = <<>> <=> n = 1
    BY <1>1, <1>5, <1>6, EmptySeq
  <1> QED BY <1>1, <1>5, <1>6, <1>7, <1>8 DEF n, g

\* The bullets of the focus below the i-th
Below(f, i) == IF i > 1 THEN f[i - 1].bullets ELSE <<>>

\* The bullets of the last focus
InUse(f) == IF f = <<>> THEN <<>> ELSE Last(f).bullets

\* A bullet is distinct from those below it, up to a focus that is no bullet.
NestedAt(f, i) ==
  /\ \E B : f[i].bullets \in Seq(B)
  /\ IF f[i].kind = "bullet"
     THEN f[i].bullets # <<>> /\ IsInjective(f[i].bullets) /\ Tail(f[i].bullets) = Below(f, i)
     ELSE f[i].bullets = <<>>

Nested(f) == (\E F : f \in Seq(F)) /\ \A i \in DOMAIN f : NestedAt(f, i)

LEMMA NestedInUse ==
  ASSUME NEW f, Nested(f)
  PROVE  /\ \E B : InUse(f) \in Seq(B)
         /\ IsInjective(InUse(f))
         /\ InUse(f) # <<>> => f # <<>> /\ Last(f).kind = "bullet"
         /\ \A s : s.focus = f /\ f # <<>> => GetBullets(s) = InUse(f)
  <1>1. PICK F : f \in Seq(F)
    BY DEF Nested
  <1>2. <<>> \in Seq({}) /\ IsInjective(<<>>)
    BY EmptySeq DEF IsInjective
  <1>3. CASE f = <<>>
    BY <1>2, <1>3 DEF InUse
  <1>4. CASE f # <<>>
    <2>1. Len(f) \in DOMAIN f /\ Last(f) = f[Len(f)]
      <3>1. Len(f) \in Nat \ {0} /\ DOMAIN f = 1..Len(f) /\ Last(f) = f[Len(f)]
        BY <1>1, <1>4, FrontParts
      <3>2. Len(f) \in 1..Len(f)
        BY <3>1
      <3> QED BY <3>1, <3>2
    <2>2. NestedAt(f, Len(f)) /\ InUse(f) = f[Len(f)].bullets
      BY <1>4, <2>1 DEF Nested, InUse
    <2>3. Last(f).kind # "bullet" => InUse(f) = <<>>
      BY <2>1, <2>2 DEF NestedAt
    <2> QED BY <1>2, <1>4, <2>1, <2>2, <2>3 DEF NestedAt, GetBullets
  <1> QED BY <1>3, <1>4

LEMMA NestedFront ==
  ASSUME NEW f, Nested(f), f # <<>>
  PROVE  /\ Nested(Front(f))
         /\ Last(f).kind = "bullet" => InUse(Front(f)) = Tail(InUse(f))
  <1> DEFINE n == Len(f)
             g == Front(f)
  <1>1. PICK F : f \in Seq(F)
    BY DEF Nested
  <1>2. /\ n \in Nat \ {0} /\ DOMAIN f = 1..n /\ Last(f) = f[n]
        /\ g \in Seq(F) /\ Len(g) = n - 1 /\ DOMAIN g = 1..(n - 1)
        /\ \A i \in 1..(n - 1) : g[i] = f[i]
        /\ g = <<>> <=> n = 1
    BY <1>1, FrontParts
  <1> HIDE DEF n, g
  <1>3. ASSUME NEW i \in 1..(n - 1) PROVE NestedAt(g, i)
    <2>1. g[i] = f[i] /\ i \in DOMAIN f /\ i > 0
      BY <1>2
    <2>2. Below(g, i) = Below(f, i)
      <3>1. CASE i > 1
        <4>1. i - 1 \in 1..(n - 1)
          BY <1>2, <3>1
        <4> QED BY <1>2, <3>1, <4>1 DEF Below
      <3>2. CASE ~(i > 1)
        BY <3>2 DEF Below
      <3> QED BY <3>1, <3>2
    <2>3. NestedAt(f, i)
      BY <2>1 DEF Nested
    <2> QED BY <2>1, <2>2, <2>3 DEF NestedAt
  <1>4. Nested(g)
    BY <1>2, <1>3 DEF Nested
  <1>5. ASSUME f[n].kind = "bullet" PROVE InUse(g) = Tail(InUse(f))
    <2>1. n \in DOMAIN f /\ InUse(f) = f[n].bullets
      BY <1>2 DEF InUse
    <2>2. Tail(InUse(f)) = Below(f, n)
      BY <1>5, <2>1 DEF Nested, NestedAt
    <2>3. InUse(g) = Below(f, n)
      <3>1. CASE n = 1
        BY <1>2, <3>1 DEF InUse, Below
      <3>2. CASE n # 1
        <4>1. n > 1 /\ n - 1 \in 1..(n - 1)
          BY <1>2, <3>2
        <4>2. Last(g) = g[n - 1]
          BY <1>2 DEF Last
        <4> QED BY <1>2, <3>2, <4>1, <4>2 DEF InUse, Below
      <3> QED BY <3>1, <3>2
    <2> QED BY <2>2, <2>3
  <1> QED BY <1>2, <1>4, <1>5 DEF g

\* A bullet that is not among those of a sequence, before it
LEMMA NewBullet ==
  ASSUME NEW B, NEW l \in Seq(B), IsInjective(l), NEW b, ~Contains(l, b)
  PROVE  LET m == <<b>> \o l
         IN  /\ \E C : m \in Seq(C)
             /\ m # <<>> /\ IsInjective(m) /\ Head(m) = b /\ Tail(m) = l
  <1> DEFINE C == B \union {b}
             x == <<b>>
             m == x \o l
  <1>1. x \in Seq(C) /\ Len(x) = 1 /\ x[1] = b
    OBVIOUS
  <1>2. l \in Seq(C) /\ Len(l) \in Nat /\ DOMAIN l = 1..Len(l)
    BY SeqMonotonic, LenProperties
  <1> HIDE DEF C, x
  <1>3. /\ m \in Seq(C) /\ Len(m) = Len(x) + Len(l)
        /\ \A i \in 1 .. Len(x) + Len(l) : m[i] = IF i <= Len(x) THEN x[i] ELSE l[i - Len(x)]
    BY <1>1, <1>2, ConcatProperties, Zenon
  <1>4. DOMAIN m = 1..Len(m)
    BY <1>3, LenProperties
  <1> HIDE DEF m
  <1>5. Len(m) = 1 + Len(l) /\ m[1] = b
    BY <1>1, <1>2, <1>3
  <1>6. \A i \in 1..Len(l) : m[i + 1] = l[i]
    BY <1>1, <1>2, <1>3
  <1>7. m # <<>>
    BY <1>2, <1>5, EmptySeq
  <1>8. Head(m) = b
    BY <1>3, <1>5, <1>7
  <1>9. Tail(m) = l
    <2>1. /\ Tail(m) \in Seq(C) /\ Len(Tail(m)) = Len(m) - 1
          /\ \A i \in 1..Len(Tail(m)) : Tail(m)[i] = m[i + 1]
      BY <1>3, <1>7, HeadTailProperties
    <2>2. Len(Tail(m)) = Len(l)
      BY <1>2, <1>5, <2>1
    <2>3. \A i \in 1..Len(Tail(m)) : Tail(m)[i] = l[i]
      BY <1>6, <2>1, <2>2
    <2> QED BY <1>2, <2>1, <2>2, <2>3, SeqEqual
  <1>10. ASSUME NEW i \in DOMAIN m, NEW j \in DOMAIN m, m[i] = m[j] PROVE i = j
    <2>1. \A k \in DOMAIN m : k = 1 \/ (k - 1 \in 1..Len(l) /\ m[k] = l[k - 1])
      <3>1. ASSUME NEW k \in DOMAIN m, k # 1 PROVE k - 1 \in 1..Len(l) /\ m[k] = l[k - 1]
        <4>1. k \in 1 .. 1 + Len(l)
          BY <1>4, <1>5
        <4>2. k - 1 \in 1..Len(l) /\ (k - 1) + 1 = k
          BY <1>2, <3>1, <4>1
        <4> QED BY <1>6, <4>2
      <3> QED BY <3>1
    <2>2. \A k \in 1..Len(l) : l[k] # b
      BY DEF Contains
    <2>3. i = 1 <=> j = 1
      BY <1>5, <1>10, <2>1, <2>2
    <2>4. CASE i # 1
      <3>1. i - 1 \in DOMAIN l /\ j - 1 \in DOMAIN l /\ l[i - 1] = l[j - 1]
        BY <1>2, <1>10, <2>1, <2>3, <2>4
      <3>2. i - 1 = j - 1
        BY <3>1 DEF IsInjective
      <3>3. i \in Int /\ j \in Int
        BY <1>2, <1>4, <1>5
      <3> QED BY <3>2, <3>3
    <2> QED BY <2>3, <2>4
  <1>11. IsInjective(m)
    BY <1>10 DEF IsInjective
  <1> QED BY <1>3, <1>7, <1>8, <1>9, <1>11 DEF m, x

\* A focus that may be opened on the stack f
Opening(f, kind, bullets) ==
  \/ kind # "bullet" /\ bullets = <<>>
  \/ kind = "bullet" /\ \E b : ~Contains(InUse(f), b) /\ bullets = <<b>> \o InUse(f)

LEMMA NestedPush ==
  ASSUME NEW f, Nested(f), NEW kind, NEW bullets, Opening(f, kind, bullets), NEW l, NEW r
  PROVE  Nested(Append(f, Focus(kind, bullets, l, r)))
  <1> DEFINE n == Len(f)
             x == Focus(kind, bullets, l, r)
             g == Append(f, x)
  <1>1. PICK F : f \in Seq(F)
    BY DEF Nested
  <1> DEFINE G == F \union {x}
  <1>2. x.kind = kind /\ x.bullets = bullets
    BY DEF Focus
  <1>3. n \in Nat /\ DOMAIN f = 1..n /\ f \in Seq(G) /\ x \in G
    BY <1>1, LenProperties, SeqMonotonic
  <1> HIDE DEF G, x
  <1>4. /\ g \in Seq(G) /\ Len(g) = n + 1
        /\ \A i \in 1..n : g[i] = f[i]
        /\ g[n + 1] = x
    BY <1>3, AppendProperties
  <1>5. DOMAIN g = 1..(n + 1)
    BY <1>4, LenProperties
  <1> HIDE DEF n, g
  <1>6. ASSUME NEW i \in 1..n PROVE NestedAt(g, i)
    <2>1. g[i] = f[i] /\ i \in DOMAIN f
      BY <1>3, <1>4
    <2>2. Below(g, i) = Below(f, i)
      <3>1. CASE i > 1
        <4>1. i - 1 \in 1..n
          BY <1>3, <3>1
        <4> QED BY <1>4, <3>1, <4>1 DEF Below
      <3>2. CASE ~(i > 1)
        BY <3>2 DEF Below
      <3> QED BY <3>1, <3>2
    <2>3. NestedAt(f, i)
      BY <2>1 DEF Nested
    <2> QED BY <2>1, <2>2, <2>3 DEF NestedAt
  <1>7. NestedAt(g, n + 1)
    <2>1. Below(g, n + 1) = InUse(f)
      <3>1. CASE f = <<>>
        <4>1. n = 0 /\ ~(n + 1 > 1)
          BY <1>1, <3>1, EmptySeq DEF n
        <4> QED BY <3>1, <4>1 DEF Below, InUse
      <3>2. CASE f # <<>>
        <4>1. n \in Nat \ {0} /\ Last(f) = f[n]
          BY <1>1, <3>2, FrontParts DEF n
        <4>2. n + 1 > 1 /\ (n + 1) - 1 = n /\ n \in 1..n
          BY <4>1
        <4> QED BY <1>4, <3>2, <4>1, <4>2 DEF Below, InUse
      <3> QED BY <3>1, <3>2
    <2>2. CASE kind # "bullet" /\ bullets = <<>>
      BY <1>2, <1>4, <2>2, EmptySeq DEF NestedAt
    <2>3. CASE kind = "bullet" /\ \E b : ~Contains(InUse(f), b) /\ bullets = <<b>> \o InUse(f)
      <3>1. PICK b : ~Contains(InUse(f), b) /\ bullets = <<b>> \o InUse(f)
        BY <2>3
      <3>2. (\E B : InUse(f) \in Seq(B)) /\ IsInjective(InUse(f))
        BY NestedInUse
      <3>3. /\ \E C : bullets \in Seq(C)
            /\ bullets # <<>> /\ IsInjective(bullets) /\ Tail(bullets) = InUse(f)
        BY <3>1, <3>2, NewBullet
      <3> QED BY <1>2, <1>4, <2>1, <2>3, <3>3 DEF NestedAt
    <2> QED BY <2>2, <2>3 DEF Opening
  <1>8. \A i \in DOMAIN g : i \in 1..n \/ i = n + 1
    BY <1>3, <1>5
  <1> QED BY <1>4, <1>6, <1>7, <1>8 DEF Nested, g, x

-----------------------------------------------------------------------------
(* The control of a bullet, whose instructions are for the focus stack f.  *)

Starts(c, op) == c # <<>> /\ Head(c).op = op

OnlyCommits(c) == \E X : c \in Seq(X) /\ \A x \in X : x.op = "commit"

Puts(c) == Starts(c, "put") /\ OnlyCommits(Tail(c))

\* A bullet is opened that is not in use.
Pushes(c, f) ==
  /\ Starts(c, "push") /\ ~Contains(InUse(f), Head(c).bullet)
  /\ OnlyCommits(Tail(c))

Focuses(c, f) ==
  /\ Starts(c, "focus") /\ Opening(f, Head(c).kind, Head(c).bullets)
  /\ OnlyCommits(Tail(c))

Saves(c, f) == Starts(c, "save") /\ Focuses(Tail(c), f)

\* Bullets are closed until one that is in use, which is opened again.
Untils(c, f) ==
  /\ Starts(c, "popUntil") /\ Contains(InUse(f), Head(c).bullet)
  /\ Starts(Tail(c), "push") /\ Head(Tail(c)).bullet = Head(c).bullet
  /\ OnlyCommits(Tail(Tail(c)))

Closes(c, f) == Starts(c, "commit") /\ (Pushes(Tail(c), f) \/ Untils(Tail(c), f))

Leaves(c, f) ==
  /\ Starts(c, "unfocus") /\ Head(c).kind = "bullet" /\ InUse(f) # <<>>
  /\ Closes(Tail(c), Front(f))

Begins(c, f) == Starts(c, "begin") /\ (Puts(Tail(c)) \/ Untils(Tail(c), f) \/ Leaves(Tail(c), f))

Bulleting(c, f) ==
  \/ Puts(c) \/ Pushes(c, f) \/ Focuses(c, f) \/ Saves(c, f) \/ Untils(c, f)
  \/ Closes(c, f) \/ Leaves(c, f) \/ Begins(c, f) \/ OnlyCommits(c)

\* One instruction, two, or a transaction before others
LEMMA ConsOne ==
  ASSUME NEW C, NEW c \in Seq(C), NEW x
  PROVE  /\ <<x>> \o c # <<>>
         /\ Head(<<x>> \o c) = x
         /\ Tail(<<x>> \o c) = c
         /\ \E X : <<x>> \o c \in Seq(X)
  <1> DEFINE D == C \union {x}
             a == <<x>>
             d == a \o c
  <1>1. a \in Seq(D) /\ Len(a) = 1 /\ a[1] = x
    OBVIOUS
  <1>2. c \in Seq(D) /\ Len(c) \in Nat
    BY SeqMonotonic, LenProperties
  <1> HIDE DEF D, a
  <1>3. /\ d \in Seq(D) /\ Len(d) = Len(a) + Len(c)
        /\ \A i \in 1 .. Len(a) + Len(c) : d[i] = IF i <= Len(a) THEN a[i] ELSE c[i - Len(a)]
    BY <1>1, <1>2, ConcatProperties, Zenon
  <1> HIDE DEF d
  <1>4. Len(d) = 1 + Len(c) /\ d[1] = x /\ \A i \in 1..Len(c) : d[i + 1] = c[i]
    BY <1>1, <1>2, <1>3
  <1>5. d # <<>>
    BY <1>2, <1>4, EmptySeq
  <1>6. Head(d) = x
    BY <1>3, <1>4, <1>5
  <1>7. /\ Tail(d) \in Seq(D) /\ Len(Tail(d)) = Len(d) - 1
        /\ \A i \in 1..Len(Tail(d)) : Tail(d)[i] = d[i + 1]
    BY <1>3, <1>5, HeadTailProperties
  <1>8. Len(Tail(d)) = Len(c)
    BY <1>2, <1>4, <1>7
  <1>9. \A i \in 1..Len(Tail(d)) : Tail(d)[i] = c[i]
    BY <1>4, <1>7, <1>8
  <1>10. Tail(d) = c
    BY <1>2, <1>7, <1>8, <1>9, SeqEqual
  <1>11. \E X : d \in Seq(X)
    BY <1>3
  <1> QED BY <1>5, <1>6, <1>10, <1>11 DEF d, a

LEMMA ConsTwo ==
  ASSUME NEW C, NEW c \in Seq(C), NEW x, NEW y
  PROVE  <<x, y>> \o c = <<x>> \o (<<y>> \o c)
  <1> DEFINE D == C \union {x, y}
             a == <<x>>
             b == <<y>>
  <1>1. a \in Seq(D) /\ b \in Seq(D) /\ C \subseteq D
    OBVIOUS
  <1>2. a \o b = <<x, y>>
    <2> DEFINE l == <<x, y>>
    <2>1. /\ a \in Seq(D) /\ Len(a) = 1 /\ a[1] = x
          /\ b \in Seq(D) /\ Len(b) = 1 /\ b[1] = y
          /\ l \in Seq(D) /\ Len(l) = 2 /\ l[1] = x /\ l[2] = y
      OBVIOUS
    <2> HIDE DEF a, b, l, D
    <2>2. /\ a \o b \in Seq(D) /\ Len(a \o b) = Len(a) + Len(b)
          /\ \A i \in 1 .. Len(a) + Len(b) : (a \o b)[i] = IF i <= Len(a) THEN a[i] ELSE b[i - Len(a)]
      BY <2>1, ConcatProperties, Zenon
    <2>3. Len(a \o b) = 2 /\ (a \o b)[1] = x /\ (a \o b)[2] = y
      BY <2>1, <2>2
    <2>4. \A i \in 1 .. Len(a \o b) : (a \o b)[i] = l[i]
      <3>1. \A i \in 1..2 : i = 1 \/ i = 2
        OBVIOUS
      <3> QED BY <2>1, <2>3, <3>1
    <2>5. a \o b = l
      BY <2>1, <2>2, <2>3, <2>4, SeqEqual
    <2> QED BY <2>5 DEF l
  <1> HIDE DEF a, b, D
  <1>3. c \in Seq(D)
    BY <1>1, SeqMonotonic
  <1>4. (a \o b) \o c = a \o (b \o c)
    BY <1>1, <1>3, ConcatAssociative
  <1> QED BY <1>2, <1>4 DEF a, b

LEMMA ConsTransaction ==
  ASSUME NEW C, NEW c \in Seq(C), NEW b \in Seq(C)
  PROVE  Transaction(b) \o c = <<Op("begin")>> \o (b \o (<<Op("commit")>> \o c))
  <1> DEFINE D == C \union {Op("begin"), Op("commit")}
             x == <<Op("begin")>>
             y == <<Op("commit")>>
  <1>1. x \in Seq(D) /\ y \in Seq(D) /\ C \subseteq D
    OBVIOUS
  <1>2. Transaction(b) = (x \o b) \o y
    BY DEF Transaction
  <1> HIDE DEF x, y, D
  <1>3. b \in Seq(D) /\ c \in Seq(D)
    BY <1>1, SeqMonotonic
  <1>4. x \o b \in Seq(D) /\ y \o c \in Seq(D)
    BY <1>1, <1>3, ConcatProperties
  <1> DEFINE u == x \o b
             v == y \o c
  <1>5. u \in Seq(D) /\ v \in Seq(D)
    BY <1>4
  <1> HIDE DEF u, v
  <1>6. \A r, s, t \in Seq(D) : (r \o s) \o t = r \o (s \o t)
    BY ConcatAssociative
  <1>7. (u \o y) \o c = u \o (y \o c)
    BY <1>1, <1>3, <1>5, <1>6
  <1>8. (x \o b) \o v = x \o (b \o v)
    BY <1>1, <1>3, <1>5, <1>6
  <1> QED BY <1>2, <1>7, <1>8 DEF x, y, u, v

LEMMA OnlyCommitsTail ==
  ASSUME NEW c, OnlyCommits(c)
  PROVE  /\ OnlyCommits(<<Op("commit")>> \o c)
         /\ c # <<>> => Head(c).op = "commit" /\ OnlyCommits(Tail(c))
  <1>1. PICK X : c \in Seq(X) /\ \A x \in X : x.op = "commit"
    BY DEF OnlyCommits
  <1>2. OnlyCommits(<<Op("commit")>> \o c)
    <2> DEFINE Y == X \union {Op("commit")}
               a == <<Op("commit")>>
    <2>1. a \in Seq(Y)
      OBVIOUS
    <2>2. X \subseteq Y
      OBVIOUS
    <2>3. \A y \in Y : y.op = "commit"
      BY <1>1 DEF Op
    <2> HIDE DEF Y, a
    <2>4. c \in Seq(Y)
      BY <1>1, <2>2, SeqMonotonic
    <2>5. a \o c \in Seq(Y)
      BY <2>1, <2>4, ConcatProperties
    <2> QED BY <2>3, <2>5 DEF OnlyCommits, a
  <1>3. ASSUME c # <<>> PROVE Head(c).op = "commit" /\ OnlyCommits(Tail(c))
    <2>1. Head(c) \in X /\ Tail(c) \in Seq(X)
      BY <1>1, <1>3, HeadTailProperties
    <2> QED BY <1>1, <2>1 DEF OnlyCommits
  <1> QED BY <1>2, <1>3

LEMMA BulletBelow ==
  ASSUME NEW B, NEW l \in Seq(B), IsInjective(l), NEW b, Contains(l, b)
  PROVE  /\ l # <<>>
         /\ Head(l) = b => ~Contains(Tail(l), b)
         /\ Head(l) # b => Contains(Tail(l), b)
  <1>1. PICK k \in 1..Len(l) : l[k] = b
    BY DEF Contains
  <1>2. Len(l) \in Nat /\ DOMAIN l = 1..Len(l)
    BY LenProperties
  <1>3. l # <<>>
    BY <1>1, EmptySeq
  <1>4. /\ Tail(l) \in Seq(B) /\ Len(Tail(l)) = Len(l) - 1
        /\ \A i \in 1..Len(Tail(l)) : Tail(l)[i] = l[i + 1]
    BY <1>3, HeadTailProperties
  <1>5. Head(l) = l[1] /\ 1 \in DOMAIN l
    BY <1>1, <1>2, <1>3
  <1>6. ASSUME Head(l) = b, Contains(Tail(l), b) PROVE FALSE
    <2>1. PICK i \in 1..Len(Tail(l)) : Tail(l)[i] = b
      BY <1>6 DEF Contains
    <2>2. i + 1 \in DOMAIN l /\ l[i + 1] = b /\ i + 1 # 1
      BY <1>2, <1>4, <2>1
    <2> QED BY <1>5, <1>6, <2>2 DEF IsInjective
  <1>7. ASSUME Head(l) # b PROVE Contains(Tail(l), b)
    <2>1. k # 1
      BY <1>1, <1>5, <1>7
    <2>2. k - 1 \in 1..Len(Tail(l)) /\ (k - 1) + 1 = k
      BY <1>1, <1>2, <1>4, <2>1
    <2>3. Tail(l)[k - 1] = b
      BY <1>1, <1>4, <2>2
    <2> QED BY <2>2, <2>3 DEF Contains
  <1> QED BY <1>3, <1>6, <1>7

-----------------------------------------------------------------------------
(* Bullets: the invariant.                                                 *)

\* An instruction that no bullet is about
Harmless(x) ==
  /\ x.op \notin {"put", "popUntil", "push"}
  /\ x.op = "focus" => x.kind # "bullet" /\ x.bullets = <<>>

\* The control of another command, or that of a bullet, which no handler
\* resumes once an exception has been raised.
BulletControl ==
  \E X : /\ ctrl \in Seq(X)
         /\ \/ \A x \in X : Harmless(x)
            \/ /\ \A x \in X : x.op # "maximal"
               /\ exn = "none" => Bulleting(ctrl, pr.state.focus)

NestedStates == Nested(pr.state.focus) /\ \E G : Saved(pr, G) /\ \A s \in G : Nested(s.focus)

BulletInv == NestedStates /\ BulletControl

\* Which form the control of a bullet has is told by its first instruction.
LEMMA FirstOfBulleting ==
  ASSUME NEW c, NEW f, Bulleting(c, f), c # <<>>
  PROVE  LET op == Head(c).op
         IN  \/ op = "put" /\ Puts(c)
             \/ op = "push" /\ Pushes(c, f)
             \/ op = "focus" /\ Focuses(c, f)
             \/ op = "save" /\ Saves(c, f)
             \/ op = "popUntil" /\ Untils(c, f)
             \/ op = "commit" /\ Closes(c, f)
             \/ op = "unfocus" /\ Leaves(c, f)
             \/ op = "begin" /\ Begins(c, f)
             \/ op = "commit" /\ OnlyCommits(c)
  <1>1. OnlyCommits(c) => Head(c).op = "commit"
    BY OnlyCommitsTail
  <1> QED BY <1>1 DEF Bulleting, Starts, Puts, Pushes, Focuses, Saves, Untils, Closes, Leaves,
                      Begins

LEMMA NestedNew == Nested(InitialState.focus)
  <1> DEFINE f == <<EndOfStack>>
  <1>1. InitialState.focus = f
    BY DEF InitialState
  <1>2. f \in Seq({EndOfStack}) /\ DOMAIN f = {1} /\ f[1] = EndOfStack
    OBVIOUS
  <1>3. EndOfStack.kind # "bullet" /\ EndOfStack.bullets = <<>>
    BY DEF EndOfStack, Focus
  <1>4. <<>> \in Seq({})
    BY EmptySeq
  <1> HIDE DEF f
  <1>5. NestedAt(f, 1)
    BY <1>2, <1>3, <1>4 DEF NestedAt
  <1> QED BY <1>1, <1>2, <1>5 DEF Nested

LEMMA StatesStayNested ==
  ASSUME BulletInv, Instruction \/ Interrupted
  PROVE  NestedStates'
  <1>1. PICK G : Saved(pr, G) /\ \A s \in G : Nested(s.focus)
    BY DEF BulletInv, NestedStates
  <1>2. Nested(pr.state.focus)
    BY DEF BulletInv, NestedStates
  <1>3. Moved(G)
    BY <1>1, StatesMove
  <1>4. CASE pr' = NewProof
    <2>1. Saved(pr', {InitialState}) /\ pr'.state = InitialState
      BY <1>4, SavedNew
    <2>2. \A s \in {InitialState} : Nested(s.focus)
      BY NestedNew
    <2> HIDE DEF InitialState
    <2> QED BY <2>1, <2>2, NestedNew DEF NestedStates
  <1>5. CASE /\ Saved(pr', G) \/ Saved(pr', G \union {pr.state})
             /\ pr'.state \in G \/ FocusMoves(pr'.state)
    <2>1. \E H : Saved(pr', H) /\ \A s \in H : Nested(s.focus)
      <3>1. \A s \in G \union {pr.state} : Nested(s.focus)
        BY <1>1, <1>2
      <3> QED BY <1>1, <1>5, <3>1
    <2>2. CASE pr'.state \in G \/ pr'.state.focus = pr.state.focus
      BY <1>1, <1>2, <2>1, <2>2 DEF NestedStates
    <2>3. CASE MayUnfocus /\ pr'.state.focus = Front(pr.state.focus)
      <3>1. pr.state.focus # <<>>
        BY <2>3 DEF MayUnfocus, UnfocusCheck
      <3>2. Nested(pr'.state.focus)
        BY <1>2, <2>3, <3>1, NestedFront
      <3> QED BY <2>1, <3>2 DEF NestedStates
    <2>4. CASE /\ Running("focus")
               /\ \E l, r : pr'.state.focus
                              = Append(pr.state.focus, Focus(Now.kind, Now.bullets, l, r))
      <3>1. Now.op = "focus" /\ exn = "none"
        BY <2>4 DEF Running, Now
      <3>2. Opening(pr.state.focus, Now.kind, Now.bullets)
        <4>1. PICK X : /\ ctrl \in Seq(X)
                       /\ \/ \A x \in X : Harmless(x)
                          \/ Bulleting(ctrl, pr.state.focus)
          BY <3>1 DEF BulletInv, BulletControl
        <4>2. ctrl # <<>> /\ Now \in X
          BY <4>1, HeadOfControl
        <4>3. CASE \A x \in X : Harmless(x)
          BY <3>1, <4>2, <4>3 DEF Harmless, Opening
        <4>4. CASE Bulleting(ctrl, pr.state.focus)
          <5>1. Focuses(ctrl, pr.state.focus)
            BY <3>1, <4>2, <4>4, FirstOfBulleting DEF Now
          <5> QED BY <5>1 DEF Focuses, Now
        <4> QED BY <4>1, <4>3, <4>4
      <3>3. Nested(pr'.state.focus)
        BY <1>2, <2>4, <3>2, NestedPush
      <3> QED BY <2>1, <3>3 DEF NestedStates
    <2> QED BY <1>5, <2>2, <2>3, <2>4 DEF FocusMoves
  <1> QED BY <1>3, <1>4, <1>5 DEF Moved

\* The controls that bullets write: a transaction of two instructions, or a
\* transaction of one and maybe another instruction
LEMMA TransactionOfTwo ==
  ASSUME NEW X, NEW c \in Seq(X), NEW u, NEW v
  PROVE  Transaction(<<u, v>>) \o c
           = <<Op("begin")>> \o (<<u>> \o (<<v>> \o (<<Op("commit")>> \o c)))
  <1> DEFINE Y == X \union {u, v, Op("commit")}
             d == <<u, v>>
             e == <<Op("commit")>>
  <1>1. d \in Seq(Y) /\ e \in Seq(Y) /\ X \subseteq Y
    OBVIOUS
  <1>2. \A x \in Seq(Y) : <<u, v>> \o x = <<u>> \o (<<v>> \o x)
    BY ConsTwo
  <1> HIDE DEF Y, d, e
  <1>3. c \in Seq(Y)
    BY <1>1, SeqMonotonic
  <1>4. e \o c \in Seq(Y)
    BY <1>1, <1>3, ConcatProperties
  <1>5. d \o (e \o c) = <<u>> \o (<<v>> \o (e \o c))
    BY <1>2, <1>4 DEF d
  <1>6. Transaction(d) \o c = <<Op("begin")>> \o (d \o (<<Op("commit")>> \o c))
    BY <1>1, <1>3, ConsTransaction
  <1> QED BY <1>5, <1>6 DEF d, e

LEMMA TransactionOfOne ==
  ASSUME NEW X, NEW c \in Seq(X), NEW u
  PROVE  (Transaction(<<u>>) \o <<>>) \o c
           = <<Op("begin")>> \o (<<u>> \o (<<Op("commit")>> \o c))
  <1> DEFINE Y == X \union {u, Op("begin"), Op("commit")}
             a == <<u>>
             t == Transaction(a)
  <1>1. a \in Seq(Y) /\ X \subseteq Y /\ Op("begin") \in Y /\ Op("commit") \in Y
    OBVIOUS
  <1> HIDE DEF Y, a
  <1>2. c \in Seq(Y)
    BY <1>1, SeqMonotonic
  <1>3. t \in Seq(Y)
    BY <1>1, TransactionList
  <1>4. t \o <<>> = t
    <2> HIDE DEF t
    <2> QED BY <1>3, ConcatEmptySeq
  <1>5. t \o c = <<Op("begin")>> \o (a \o (<<Op("commit")>> \o c))
    BY <1>1, <1>2, ConsTransaction
  <1> QED BY <1>4, <1>5 DEF t, a

LEMMA TransactionBefore ==
  ASSUME NEW X, NEW c \in Seq(X), NEW u, NEW v
  PROVE  (Transaction(<<u>>) \o <<v>>) \o c
           = <<Op("begin")>> \o (<<u>> \o (<<Op("commit")>> \o (<<v>> \o c)))
  <1> DEFINE Y == X \union {u, v, Op("begin"), Op("commit")}
             a == <<u>>
             b == <<v>>
             t == Transaction(a)
  <1>1. a \in Seq(Y) /\ b \in Seq(Y) /\ X \subseteq Y /\ Op("begin") \in Y /\ Op("commit") \in Y
    OBVIOUS
  <1> HIDE DEF Y, a, b
  <1>2. c \in Seq(Y)
    BY <1>1, SeqMonotonic
  <1>3. t \in Seq(Y)
    BY <1>1, TransactionList
  <1>4. b \o c \in Seq(Y)
    BY <1>1, <1>2, ConcatProperties
  <1>5. t \o (b \o c) = <<Op("begin")>> \o (a \o (<<Op("commit")>> \o (b \o c)))
    BY <1>1, <1>4, ConsTransaction
  <1>6. (t \o b) \o c = t \o (b \o c)
    <2>1. \A r, s, q \in Seq(Y) : (r \o s) \o q = r \o (s \o q)
      BY ConcatAssociative
    <2> HIDE DEF t
    <2> QED BY <1>1, <1>2, <1>3, <2>1
  <1> QED BY <1>5, <1>6 DEF t, a, b

\* Between two exceptions, most instructions leave the focus stack as it is.
LEMMA FocusStays ==
  ASSUME BulletInv, Instruction, Now.op \notin {"pop", "unfocus", "focus", "declare"},
         exn = "none"
  PROVE  pr'.state.focus = pr.state.focus
  <1>1. PICK G : Saved(pr, G)
    BY DEF BulletInv, NestedStates
  <1>2. Moved(G)
    BY <1>1, StatesMove
  <1>3. \A op \in {"pop", "unfocus", "focus", "declare"} : ~Running(op)
    BY DEF Running, Now
  <1> QED BY <1>2, <1>3 DEF Moved, FocusMoves

LEMMA BulletPut ==
  ASSUME BulletInv, Instruction, exn = "none", exn' = "none", Puts(ctrl),
         NEW X, ctrl \in Seq(X)
  PROVE  Bulleting(ctrl', pr'.state.focus)
  <1> DEFINE f == pr.state.focus
             b == Now.bullet
             u == BulletOp("popUntil", b)
             v == BulletOp("push", b)
             d == <<v>> \o (<<Op("commit")>> \o Rest)
  <1>1. Now.op = "put" /\ OnlyCommits(Rest) /\ Rest \in Seq(X)
    BY HeadOfControl DEF Puts, Starts, Now, Rest
  <1>2. PutBullet /\ pr'.state.focus = f
    BY <1>1, Dispatch, FocusStays
  <1>3. /\ f # <<>>
        /\ IF Contains(GetBullets(pr.state), b) THEN ctrl' = Transaction(<<u, v>>) \o Rest
           ELSE ctrl' = <<v>> \o Rest
    BY <1>2 DEF PutBullet, NoFocus, Raise, RaiseIn, Expand, Continue
  <1>4. GetBullets(pr.state) = InUse(f)
    BY <1>3, NestedInUse DEF BulletInv, NestedStates
  <1>5. u.op = "popUntil" /\ u.bullet = b /\ v.op = "push" /\ v.bullet = b
    BY DEF BulletOp
  <1> HIDE DEF f, b, u, v
  <1>6. CASE Contains(InUse(f), b)
    <2>1. ctrl' = <<Op("begin")>> \o (<<u>> \o d)
      <3>1. Transaction(<<u, v>>) \o Rest
              = <<Op("begin")>> \o (<<u>> \o (<<v>> \o (<<Op("commit")>> \o Rest)))
        <4>1. \A x, y : Transaction(<<x, y>>) \o Rest
                = <<Op("begin")>> \o (<<x>> \o (<<y>> \o (<<Op("commit")>> \o Rest)))
          BY <1>1, TransactionOfTwo
        <4> QED BY <4>1, Zenon
      <3>2. ctrl' = Transaction(<<u, v>>) \o Rest
        BY <1>3, <1>4, <1>6
      <3> QED BY <3>1, <3>2, Zenon
    <2>2. OnlyCommits(<<Op("commit")>> \o Rest)
      BY <1>1, OnlyCommitsTail
    <2>3. PICK D : <<Op("commit")>> \o Rest \in Seq(D)
      BY <1>1, ConsOne
    <2>4. d # <<>> /\ Head(d) = v /\ Tail(d) = <<Op("commit")>> \o Rest /\ \E E : d \in Seq(E)
      BY <2>3, ConsOne
    <2> HIDE DEF d
    <2> DEFINE e == <<u>> \o d
    <2>5. e # <<>> /\ Head(e) = u /\ Tail(e) = d /\ \E E : e \in Seq(E)
      BY <2>4, ConsOne
    <2> HIDE DEF e
    <2>6. Untils(e, f)
      BY <1>5, <1>6, <2>2, <2>4, <2>5 DEF Untils, Starts
    <2>7. ctrl' # <<>> /\ Head(ctrl') = Op("begin") /\ Tail(ctrl') = e
      BY <2>1, <2>5, ConsOne DEF e
    <2>8. Op("begin").op = "begin"
      BY DEF Op
    <2>9. Begins(ctrl', f)
      BY <2>6, <2>7, <2>8, Zenon DEF Begins, Starts
    <2> QED BY <1>2, <2>9 DEF Bulleting
  <1>7. CASE ~Contains(InUse(f), b)
    <2>1. ctrl' # <<>> /\ Head(ctrl') = v /\ Tail(ctrl') = Rest
      BY <1>1, <1>3, <1>4, <1>7, ConsOne
    <2>2. Pushes(ctrl', f)
      BY <1>1, <1>5, <1>7, <2>1 DEF Pushes, Starts
    <2> QED BY <1>2, <2>2 DEF Bulleting
  <1> QED BY <1>6, <1>7

LEMMA BulletPops ==
  ASSUME BulletInv, Instruction, exn = "none", exn' = "none", Untils(ctrl, pr.state.focus),
         NEW X, ctrl \in Seq(X)
  PROVE  Bulleting(ctrl', pr'.state.focus)
  <1> DEFINE f == pr.state.focus
             l == InUse(f)
             b == Now.bullet
             u == UnfocusOp("bullet")
  <1>1. /\ Now.op = "popUntil" /\ Contains(l, b) /\ Rest \in Seq(X)
        /\ Starts(Rest, "push") /\ Head(Rest).bullet = b /\ OnlyCommits(Tail(Rest))
    BY HeadOfControl DEF Untils, Starts, Now, Rest
  <1>2. PopBullet /\ pr'.state.focus = f
    BY <1>1, Dispatch, FocusStays
  <1>3. f # <<>> /\ GetBullets(pr.state) = l
    BY <1>2, NestedInUse DEF PopBullet, BulletInv, NestedStates
  <1>4. ctrl' = (Transaction(<<u>>) \o (IF Head(l) = b THEN <<>> ELSE <<Now>>)) \o Rest
    BY <1>2, <1>3 DEF PopBullet, Expand, Continue
  <1>5. u.op = "unfocus" /\ u.kind = "bullet" /\ Op("begin").op = "begin" /\ Op("commit").op = "commit"
    BY DEF UnfocusOp, Op
  <1>6. /\ l # <<>> /\ InUse(Front(f)) = Tail(l)
        /\ Head(l) = b => ~Contains(Tail(l), b)
        /\ Head(l) # b => Contains(Tail(l), b)
    <2>1. Nested(f)
      BY DEF BulletInv, NestedStates
    <2>2. /\ \E B : l \in Seq(B)
          /\ IsInjective(l)
      BY <2>1, NestedInUse
    <2>3. l # <<>> /\ (Head(l) = b => ~Contains(Tail(l), b)) /\ (Head(l) # b => Contains(Tail(l), b))
      BY <1>1, <2>2, BulletBelow
    <2>4. Last(f).kind = "bullet"
      BY <2>1, <2>3, NestedInUse
    <2>5. InUse(Front(f)) = Tail(l)
      BY <1>3, <2>1, <2>4, NestedFront
    <2> QED BY <2>3, <2>5
  <1> HIDE DEF f, l, b, u
  <1>7. ASSUME NEW r, NEW R, r \in Seq(R), Pushes(r, Front(f)) \/ Untils(r, Front(f)),
               ctrl' = <<Op("begin")>> \o (<<u>> \o (<<Op("commit")>> \o r))
        PROVE  Begins(ctrl', f)
    <2> DEFINE d == <<Op("commit")>> \o r
               e == <<u>> \o d
    <2>1. d # <<>> /\ Head(d) = Op("commit") /\ Tail(d) = r /\ \E E : d \in Seq(E)
      BY <1>7, ConsOne
    <2> HIDE DEF d
    <2>2. e # <<>> /\ Head(e) = u /\ Tail(e) = d /\ \E E : e \in Seq(E)
      BY <2>1, ConsOne
    <2> HIDE DEF e
    <2>3. ctrl' # <<>> /\ Head(ctrl') = Op("begin") /\ Tail(ctrl') = e
      BY <1>7, <2>2, ConsOne DEF d, e
    <2>4. Closes(d, Front(f))
      BY <1>5, <1>7, <2>1 DEF Closes, Starts
    <2>5. Leaves(e, f)
      BY <1>5, <1>6, <2>2, <2>4 DEF Leaves, Starts, l
    <2> QED BY <1>5, <2>3, <2>5 DEF Begins, Starts
  <1>8. CASE Head(l) = b
    <2>1. ctrl' = <<Op("begin")>> \o (<<u>> \o (<<Op("commit")>> \o Rest))
      BY <1>1, <1>4, <1>8, TransactionOfOne
    <2>2. Pushes(Rest, Front(f))
      BY <1>1, <1>6, <1>8 DEF Pushes
    <2>3. Begins(ctrl', f)
      BY <1>1, <1>7, <2>1, <2>2
    <2> QED BY <1>2, <2>3 DEF Bulleting
  <1>9. CASE Head(l) # b
    <2> DEFINE r == <<Now>> \o Rest
    <2>1. ctrl' = <<Op("begin")>> \o (<<u>> \o (<<Op("commit")>> \o r))
      <3>1. (Transaction(<<u>>) \o <<Now>>) \o Rest
              = <<Op("begin")>> \o (<<u>> \o (<<Op("commit")>> \o (<<Now>> \o Rest)))
        <4>1. \A x, y : (Transaction(<<x>>) \o <<y>>) \o Rest
                = <<Op("begin")>> \o (<<x>> \o (<<Op("commit")>> \o (<<y>> \o Rest)))
          BY <1>1, TransactionBefore
        <4> QED BY <4>1, Zenon
      <3>2. ctrl' = (Transaction(<<u>>) \o <<Now>>) \o Rest
        BY <1>4, <1>9
      <3> QED BY <3>1, <3>2, Zenon
    <2>2. r # <<>> /\ Head(r) = Now /\ Tail(r) = Rest /\ \E E : r \in Seq(E)
      BY <1>1, ConsOne
    <2> HIDE DEF r
    <2>3. Untils(r, Front(f))
      BY <1>1, <1>6, <1>9, <2>2 DEF Untils, Starts, b
    <2>4. Begins(ctrl', f)
      BY <1>7, <2>1, <2>2, <2>3
    <2> QED BY <1>2, <2>4 DEF Bulleting
  <1> QED BY <1>8, <1>9

LEMMA BulletPushes ==
  ASSUME BulletInv, Instruction, exn = "none", exn' = "none", Pushes(ctrl, pr.state.focus),
         NEW X, ctrl \in Seq(X)
  PROVE  Bulleting(ctrl', pr'.state.focus)
  <1> DEFINE f == pr.state.focus
             l == <<Now.bullet>> \o InUse(f)
             u == Op("save")
             v == FocusOp("bullet", l, 1)
             d == <<v>> \o Rest
  <1>1. Now.op = "push" /\ ~Contains(InUse(f), Now.bullet) /\ Rest \in Seq(X) /\ OnlyCommits(Rest)
    BY HeadOfControl DEF Pushes, Starts, Now, Rest
  <1>2. PushBullet /\ pr'.state.focus = f
    BY <1>1, Dispatch, FocusStays
  <1>3. f # <<>> /\ GetBullets(pr.state) = InUse(f)
    BY <1>2, NestedInUse DEF PushBullet, BulletInv, NestedStates
  <1>4. ctrl' = <<u, v>> \o Rest
    BY <1>2, <1>3 DEF PushBullet, Expand, Continue
  <1>5. u.op = "save" /\ v.op = "focus" /\ v.kind = "bullet" /\ v.bullets = l
    BY DEF Op, FocusOp
  <1>6. Opening(f, "bullet", l)
    BY <1>1 DEF Opening
  <1> HIDE DEF f, l, u, v
  <1>7. ctrl' = <<u>> \o d
    BY <1>1, <1>4, ConsTwo
  <1>8. d # <<>> /\ Head(d) = v /\ Tail(d) = Rest /\ \E E : d \in Seq(E)
    BY <1>1, ConsOne
  <1> HIDE DEF d
  <1>9. ctrl' # <<>> /\ Head(ctrl') = u /\ Tail(ctrl') = d
    BY <1>7, <1>8, ConsOne
  <1>10. Saves(ctrl', f)
    BY <1>1, <1>5, <1>6, <1>8, <1>9 DEF Saves, Focuses, Starts
  <1> QED BY <1>2, <1>10 DEF Bulleting

\* These instructions leave the rest of the control, if they raise nothing.
LEMMA BulletRest ==
  ASSUME Instruction, exn = "none", exn' = "none", Now.op \in {"begin", "commit", "save", "focus"}
  PROVE  ctrl' = Rest
  <1>1. Begin \/ Commit \/ Save \/ FocusStep
    BY Dispatch
  <1>2. \A p : Do(p) => ctrl' = Rest
    BY DEF Do, Continue
  <1>3. ~Raise("Failure") /\ ~Raise("IndexOutOfRange")
    BY DEF Raise, RaiseIn
  <1> QED BY <1>1, <1>2, <1>3 DEF Begin, Commit, Save, FocusStep

LEMMA BulletGoesOn ==
  ASSUME BulletInv, Instruction, exn = "none", exn' = "none",
         NEW f, f = pr.state.focus,
         \/ Focuses(ctrl, f) \/ Saves(ctrl, f) \/ Closes(ctrl, f) \/ Begins(ctrl, f)
         \/ ctrl # <<>> /\ OnlyCommits(ctrl)
  PROVE  Bulleting(ctrl', pr'.state.focus)
  <1>1. CASE Focuses(ctrl, f)
    <2>1. Now.op = "focus" /\ OnlyCommits(Rest)
      BY <1>1 DEF Focuses, Starts, Now, Rest
    <2> QED BY <2>1, BulletRest DEF Bulleting
  <1>2. ASSUME Now.op \in {"begin", "commit", "save"}
        PROVE  ctrl' = Rest /\ pr'.state.focus = f
    BY <1>2, BulletRest, FocusStays
  <1>3. CASE Saves(ctrl, f)
    <2>1. Now.op = "save" /\ Focuses(Rest, f)
      BY <1>3 DEF Saves, Starts, Now, Rest
    <2> QED BY <1>2, <2>1 DEF Bulleting
  <1>4. CASE Closes(ctrl, f)
    <2>1. Now.op = "commit" /\ (Pushes(Rest, f) \/ Untils(Rest, f))
      BY <1>4 DEF Closes, Starts, Now, Rest
    <2> QED BY <1>2, <2>1 DEF Bulleting
  <1>5. CASE Begins(ctrl, f)
    <2>1. Now.op = "begin" /\ (Puts(Rest) \/ Untils(Rest, f) \/ Leaves(Rest, f))
      BY <1>5 DEF Begins, Starts, Now, Rest
    <2> QED BY <1>2, <2>1 DEF Bulleting
  <1>6. CASE ctrl # <<>> /\ OnlyCommits(ctrl)
    <2>1. Now.op = "commit" /\ OnlyCommits(Rest)
      BY <1>6, OnlyCommitsTail DEF Now, Rest
    <2> QED BY <1>2, <2>1 DEF Bulleting
  <1> QED BY <1>1, <1>3, <1>4, <1>5, <1>6

\* The focus that a bullet closes is a bullet's, and closes on no other terms.
LEMMA BulletLeaves ==
  ASSUME BulletInv, Instruction, exn = "none", exn' = "none", Leaves(ctrl, pr.state.focus)
  PROVE  Bulleting(ctrl', pr'.state.focus)
  <1> DEFINE s == pr.state
             f == s.focus
             answer == UnfocusCheck(s, Now.kind)
             p == Unfocused(s)
  <1>1. /\ Now.op = "unfocus" /\ Now.kind = "bullet" /\ InUse(f) # <<>>
        /\ Closes(Rest, Front(f))
    BY DEF Leaves, Starts, Now, Rest
  <1>2. f # <<>> /\ Last(f).kind = "bullet"
    BY <1>1, NestedInUse DEF BulletInv, NestedStates
  <1>3. answer \in {"Strict", "FullyUnfocused", "CannotUnfocusThisWay"}
    BY <1>1, <1>2 DEF UnfocusCheck, FocusCondition, Refusal
  <1>4. answer = "Strict" \/ ~MayUnfocus
    BY <1>3 DEF MayUnfocus
  <1>5. ~Raise("FullyUnfocused") /\ ~Raise("CannotUnfocusThisWay")
    BY DEF Raise, RaiseIn
  <1>6. UnfocusStep
    BY <1>1, Dispatch
  <1>7. pr' = Step(p) /\ ctrl' = Rest
    <2>1. ~Raise(answer) \/ answer = "Strict"
      BY <1>3, <1>5
    <2>2. answer = "Strict" => MayUnfocus
      BY DEF MayUnfocus
    <2> QED BY <1>3, <1>6, <2>1, <2>2 DEF UnfocusStep, Do, Continue
  <1>8. PICK G : Saved(pr, G)
    BY DEF BulletInv, NestedStates
  <1>9. IsState(p) /\ p.focus = Front(f)
    BY <1>8, SavedState, StackUnfocused
  <1>10. pr'.state.focus = Front(f)
    <2> HIDE DEF p
    <2> QED BY <1>7, <1>8, <1>9, SavedByPr
  <1> QED BY <1>1, <1>7, <1>10 DEF Bulleting

LEMMA BulletingGoesOn ==
  ASSUME BulletInv, Instruction, exn = "none", exn' = "none", Bulleting(ctrl, pr.state.focus),
         NEW X, ctrl \in Seq(X)
  PROVE  Bulleting(ctrl', pr'.state.focus)
  <1> DEFINE f == pr.state.focus
  <1>1. ctrl # <<>>
    BY HeadOfControl
  <1>2. \/ Focuses(ctrl, f) \/ Saves(ctrl, f) \/ Closes(ctrl, f) \/ Begins(ctrl, f)
        \/ ctrl # <<>> /\ OnlyCommits(ctrl)
        \/ Puts(ctrl) \/ Pushes(ctrl, f) \/ Untils(ctrl, f) \/ Leaves(ctrl, f)
    BY <1>1 DEF Bulleting
  <1> QED BY <1>2, BulletGoesOn, BulletPut, BulletPushes, BulletPops, BulletLeaves

\* An exception goes on to be raised unless the loop of maximal_unfocus ends on
\* it, and an interrupt raises one.
LEMMA ExceptionsGoOn ==
  /\ Interrupted => exn' # "none"
  /\ Instruction /\ exn # "none" /\ Now.op # "maximal" => exn' # "none"
  <1>1. \A c, e : RaiseIn(c, e) => exn' = e
    BY DEF RaiseIn
  <1>2. Interrupted => exn' = "Break"
    BY <1>1 DEF Interrupted, Interrupt, UnfocusInterrupted, FocusInterrupted, CommitInterrupted,
                RollbackInterrupted, BrokenAt, Raise
  <1>3. ASSUME Instruction, exn # "none", Now.op # "maximal" PROVE exn' # "none"
    <2>1. \A op : ~Running(op)
      BY <1>3 DEF Running
    <2>2. Rollback \/ Relabelled \/ MaximalEnds
      BY <1>3, <2>1 DEF Instruction, Begin, Commit, Save, SaveMode, SetMode, UndoMany, Pop, Tactic,
                        Instantiate, GrabEvars, ToGoals, FocusStep, UnfocusStep, Relabel, Maximal,
                        PutBullet, PopBullet, PushBullet, Return, Declare
    <2>3. CASE Rollback
      BY <1>1, <1>3, <2>3 DEF Rollback
    <2>4. CASE Relabelled
      <3>1. exn' = IF exn = "FullyUnfocused" THEN "CannotUnfocusThisWay" ELSE exn
        BY <1>1, <2>4 DEF Relabelled
      <3> QED BY <1>3, <3>1
    <2>5. ~MaximalEnds
      BY <1>3 DEF MaximalEnds, Unwinding, Now
    <2> QED BY <2>2, <2>3, <2>4, <2>5
  <1> QED BY <1>2, <1>3

LEMMA BulletControlStays ==
  ASSUME BulletInv, SaveInv, Instruction \/ Interrupted
  PROVE  BulletControl'
  <1>1. PICK X : /\ ctrl \in Seq(X)
                 /\ \/ \A x \in X : Harmless(x)
                    \/ /\ \A x \in X : x.op # "maximal"
                       /\ exn = "none" => Bulleting(ctrl, pr.state.focus)
    BY DEF BulletInv, BulletControl
  <1>2. Now \in X
    BY <1>1, HeadOfControl
  <1>3. PICK Y : ctrl' \in Seq(X \union Y) /\ \A y \in Y : Added(y)
    BY <1>1, ControlGrows DEF Grown
  <1> DEFINE Z == X \union Y
  <1>4. CASE \A x \in X : Harmless(x)
    <2>1. Now.op \notin {"put", "popUntil", "push"} /\ Harmless(Now)
      BY <1>2, <1>4 DEF Harmless
    <2>2. ASSUME NEW y \in Y PROVE Harmless(y)
      <3>1. Added(y)
        BY <1>3
      <3>2. \/ y = Now
            \/ y.op \in {"begin", "commit", "relabel", "pop", "save", "toGoals", "unfocus"}
        BY <2>1, <3>1 DEF Added
      <3> QED BY <2>1, <3>2 DEF Harmless
    <2>3. \A z \in Z : Harmless(z)
      BY <1>4, <2>2
    <2> QED BY <1>3, <2>3 DEF BulletControl
  <1>5. CASE /\ \A x \in X : x.op # "maximal"
             /\ exn = "none" => Bulleting(ctrl, pr.state.focus)
    <2>1. Now.op # "maximal"
      BY <1>2, <1>5
    <2>2. \A y \in Y : y.op # "maximal"
      BY <1>3, <2>1 DEF Added
    <2>3. \A z \in Z : z.op # "maximal"
      BY <1>5, <2>2
    <2>4. ASSUME exn' = "none" PROVE Bulleting(ctrl', pr'.state.focus)
      <3>1. Instruction /\ exn = "none"
        BY <2>1, <2>4, ExceptionsGoOn
      <3> QED BY <1>1, <1>5, <2>4, <3>1, BulletingGoesOn
    <2> QED BY <1>3, <2>3, <2>4 DEF BulletControl
  <1> QED BY <1>1, <1>4, <1>5

-----------------------------------------------------------------------------
(* The commands.                                                           *)

\* An instruction on the way to the next command, which leaves end_of_stack
Continues(x) ==
  /\ x.op \notin {"return", "declare"}
  /\ x.op \in {"unfocus", "focus"} => x.kind # "end"

Ordinary(b) == \E Y : b \in Seq(Y) /\ \A y \in Y : Harmless(y) /\ Continues(y)

BulletBody(b) == Transaction(<<BulletOp("put", b)>>)

LEMMA OrdinaryTuples ==
  ASSUME NEW x, Harmless(x), Continues(x), NEW y, Harmless(y), Continues(y)
  PROVE  Ordinary(<<x>>) /\ Ordinary(<<x, y>>)
  <1> DEFINE Y == {x, y}
  <1>1. <<x>> \in Seq(Y) /\ <<x, y>> \in Seq(Y)
    OBVIOUS
  <1>2. \A z \in Y : Harmless(z) /\ Continues(z)
    OBVIOUS
  <1> HIDE DEF Y
  <1> QED BY <1>1, <1>2 DEF Ordinary

LEMMA OrdinaryTransaction ==
  ASSUME NEW b, Ordinary(b)
  PROVE  Ordinary(Transaction(b))
  <1>1. PICK Y : b \in Seq(Y) /\ \A y \in Y : Harmless(y) /\ Continues(y)
    BY DEF Ordinary
  <1> DEFINE Z == Y \union {Op("begin"), Op("commit")}
  <1>2. \A z \in Z : Harmless(z) /\ Continues(z)
    <2>1. /\ Harmless(Op("begin")) /\ Continues(Op("begin"))
          /\ Harmless(Op("commit")) /\ Continues(Op("commit"))
      BY DEF Harmless, Continues, Op
    <2> QED BY <1>1, <2>1
  <1>3. Y \subseteq Z /\ Op("begin") \in Z /\ Op("commit") \in Z
    OBVIOUS
  <1> HIDE DEF Z
  <1>4. b \in Seq(Z)
    BY <1>1, <1>3, SeqMonotonic
  <1>5. Transaction(b) \in Seq(Z)
    BY <1>3, <1>4, TransactionList
  <1> QED BY <1>2, <1>5 DEF Ordinary

\* What each command runs
Called(b) ==
  \/ Ordinary(b)
  \/ \E u \in Bullets : b = BulletBody(u)
  \/ b = Transaction(<<Op("return"), Op("declare")>>)

LEMMA Bodies ==
  ASSUME Command
  PROVE  \E cmd, b : Call(cmd, b) /\ Called(b)
  <1> DEFINE Done == \E cmd, b : Call(cmd, b) /\ Called(b)
  <1>1. ASSUME NEW cmd, NEW b, Ordinary(b), Call(cmd, b) PROVE Done
    BY <1>1 DEF Called
  <1>2. /\ \A op : Op(op).op = op
        /\ \A kind : UnfocusOp(kind).op = "unfocus" /\ UnfocusOp(kind).kind = kind
        /\ \A kind, bullets, i : LET x == FocusOp(kind, bullets, i)
                                 IN  x.op = "focus" /\ x.kind = kind /\ x.bullets = bullets
        /\ \A n : [op |-> "tactic", goal |-> n].op = "tactic"
        /\ \A m : [op |-> "setMode", mode |-> m].op = "setMode"
        /\ \A n : [op |-> "undo", n |-> n].op = "undo"
    BY DEF Op, UnfocusOp, FocusOp
  <1>3. \A x : x.op \in {"save", "saveMode", "setMode", "maximal", "tactic", "instantiate", "grab",
                         "undo"}
          => Harmless(x) /\ Continues(x)
    BY DEF Harmless, Continues
  <1>4. \A x : x.op = "unfocus" /\ x.kind # "end" => Harmless(x) /\ Continues(x)
    BY DEF Harmless, Continues
  <1>5. \A x : x.op = "focus" /\ x.kind \in {"command", "subproof"} /\ x.bullets = <<>>
          => Harmless(x) /\ Continues(x)
    BY DEF Harmless, Continues
  <1>o. \A x : Harmless(x) /\ Continues(x) => Ordinary(<<x>>)
    BY OrdinaryTuples
  <1>6. ASSUME NEW n, Solve(n) PROVE Done
    <2> DEFINE x == [op |-> "tactic", goal |-> n]
    <2>0. Harmless(x) /\ Continues(x) /\ Harmless(Op("maximal")) /\ Continues(Op("maximal"))
      BY <1>2, <1>3
    <2>1. Ordinary(<<x, Op("maximal")>>)
      BY <2>0, OrdinaryTuples
    <2> QED BY <1>1, <1>6, <2>1, OrdinaryTransaction DEF Solve
  <1>7. ASSUME NEW n, FocusCommand(n) PROVE Done
    <2> DEFINE x == FocusOp("command", <<>>, n)
    <2>1. Harmless(x) /\ Continues(x) /\ Harmless(Op("save")) /\ Continues(Op("save"))
      BY <1>2, <1>3, <1>5
    <2>2. Ordinary(<<Op("save"), x>>)
      BY <2>1, OrdinaryTuples
    <2> QED BY <1>1, <1>7, <2>2 DEF FocusCommand
  <1>8. ASSUME Unfocus PROVE Done
    <2> DEFINE x == UnfocusOp("command")
    <2>0. Harmless(x) /\ Continues(x)
      BY <1>2, <1>4
    <2>1. Ordinary(<<x>>)
      BY <1>o, <2>0, Zenon
    <2> QED BY <1>1, <1>8, <2>1, OrdinaryTransaction DEF Unfocus
  <1>9. ASSUME Subproof PROVE Done
    <2> DEFINE x == FocusOp("subproof", <<>>, 1)
    <2>1. Harmless(x) /\ Continues(x) /\ Harmless(Op("save")) /\ Continues(Op("save"))
      BY <1>2, <1>3, <1>5
    <2>2. Ordinary(<<Op("save"), x>>)
      BY <2>1, OrdinaryTuples
    <2> QED BY <1>1, <1>9, <2>2 DEF Subproof
  <1>10. ASSUME EndSubproof PROVE Done
    <2> DEFINE x == UnfocusOp("subproof")
    <2>0. Harmless(x) /\ Continues(x)
      BY <1>2, <1>4
    <2>1. Ordinary(<<x>>)
      BY <1>o, <2>0, Zenon
    <2> QED BY <1>1, <1>10, <2>1, OrdinaryTransaction DEF EndSubproof
  <1>11. ASSUME NEW u \in Bullets, Bullet(u) PROVE Done
    BY <1>11 DEF Bullet, BulletBody, Called
  <1>12. ASSUME SaveProof PROVE Done
    BY <1>12 DEF SaveProof, Called
  <1>13. ASSUME NEW m, ProofMode(m) PROVE Done
    <2> DEFINE x == [op |-> "setMode", mode |-> m]
    <2>1. Harmless(x) /\ Continues(x) /\ Harmless(Op("saveMode")) /\ Continues(Op("saveMode"))
      BY <1>2, <1>3
    <2>2. Ordinary(<<Op("saveMode"), x>>)
      BY <2>1, OrdinaryTuples
    <2> QED BY <1>1, <1>13, <2>2 DEF ProofMode
  <1>14. ASSUME Existential PROVE Done
    <2> DEFINE x == Op("instantiate")
    <2>0. Harmless(x) /\ Continues(x)
      BY <1>2, <1>3
    <2>1. Ordinary(<<x>>)
      BY <1>o, <2>0, Zenon
    <2> QED BY <1>1, <1>14, <2>1 DEF Existential
  <1>15. ASSUME Grab PROVE Done
    <2> DEFINE x == Op("grab")
    <2>0. Harmless(x) /\ Continues(x)
      BY <1>2, <1>3
    <2>1. Ordinary(<<x>>)
      BY <1>o, <2>0, Zenon
    <2> QED BY <1>1, <1>15, <2>1 DEF Grab
  <1>16. ASSUME NEW n, Undo(n) PROVE Done
    <2> DEFINE x == [op |-> "undo", n |-> n]
    <2>0. Harmless(x) /\ Continues(x)
      BY <1>2, <1>3
    <2>1. Ordinary(<<x>>)
      BY <1>o, <2>0, Zenon
    <2> QED BY <1>1, <1>16, <2>1 DEF Undo
  <1> HIDE DEF Done
  <1>17. Done
    BY <1>6, <1>7, <1>8, <1>9, <1>10, <1>11, <1>12, <1>13, <1>14, <1>15, <1>16 DEF Command
  <1> QED BY <1>17 DEF Done

-----------------------------------------------------------------------------
(* The bullets in use are distinct.                                        *)

LEMMA BulletBegins ==
  ASSUME NEW u, NEW f
  PROVE  /\ Begins(BulletBody(u), f)
         /\ \E X : BulletBody(u) \in Seq(X) /\ \A x \in X : x.op \in {"begin", "put", "commit"}
  <1> DEFINE x == BulletOp("put", u)
             X == {Op("begin"), x, Op("commit")}
             a == <<x>>
             t == Transaction(a)
             e == <<Op("commit")>>
  <1>1. x.op = "put" /\ Op("begin").op = "begin" /\ Op("commit").op = "commit"
    BY DEF BulletOp, Op
  <1>2. /\ a \in Seq(X) /\ e \in Seq(X) /\ e \in Seq({Op("commit")})
        /\ Op("begin") \in X /\ Op("commit") \in X
    OBVIOUS
  <1>3. \A z \in X : z.op \in {"begin", "put", "commit"}
    BY <1>1
  <1> HIDE DEF x, X, e
  <1>4. t \in Seq(X)
    <2> HIDE DEF a
    <2> QED BY <1>2, TransactionList
  <1>5. /\ \A c \in Seq(X) : c \o <<>> = c
        /\ <<>> \in Seq(X)
    BY ConcatEmptySeq, EmptySeq
  <1>6. t = <<Op("begin")>> \o (<<x>> \o e)
    <2>1. Transaction(a) \o <<>> = <<Op("begin")>> \o (a \o (<<Op("commit")>> \o <<>>))
      <3> HIDE DEF a
      <3> QED BY <1>2, <1>5, ConsTransaction
    <2>2. t \o <<>> = t /\ e \o <<>> = e
      <3> HIDE DEF t
      <3> QED BY <1>2, <1>4, <1>5
    <2> QED BY <2>1, <2>2 DEF e
  <1> DEFINE d == <<x>> \o e
  <1>7. d # <<>> /\ Head(d) = x /\ Tail(d) = e /\ \E E : d \in Seq(E)
    BY <1>2, ConsOne
  <1> HIDE DEF d, t
  <1>8. t # <<>> /\ Head(t) = Op("begin") /\ Tail(t) = d
    <2>1. t = <<Op("begin")>> \o d
      BY <1>6 DEF d
    <2> QED BY <1>7, <2>1, ConsOne
  <1>9. OnlyCommits(e)
    <2>1. \A z \in {Op("commit")} : z.op = "commit"
      BY <1>1
    <2> QED BY <1>2, <2>1 DEF OnlyCommits
  <1>10. Begins(t, f)
    BY <1>1, <1>7, <1>8, <1>9 DEF Begins, Puts, Starts
  <1>11. t = BulletBody(u)
    BY DEF t, a, x, BulletBody
  <1> QED BY <1>3, <1>4, <1>10, <1>11

LEMMA BulletInvKept ==
  ASSUME BulletInv, SaveInv, [Next]_vars
  PROVE  BulletInv'
  <1>1. CASE Instruction \/ Interrupted
    BY <1>1, StatesStayNested, BulletControlStays DEF BulletInv
  <1>2. CASE Command
    <2>1. PICK cmd, b : Call(cmd, b) /\ Called(b)
      BY <1>2, Bodies
    <2>2. pr' = pr /\ ctrl' = b
      BY <2>1 DEF Call
    <2>3. NestedStates'
      BY <2>2 DEF BulletInv, NestedStates
    <2>4. CASE Ordinary(b)
      BY <2>2, <2>3, <2>4 DEF Ordinary, BulletInv, BulletControl
    <2>5. CASE \E u \in Bullets : b = BulletBody(u)
      <3>1. PICK u \in Bullets : b = BulletBody(u)
        BY <2>5
      <3>2. Begins(b, pr'.state.focus)
        BY <3>1, BulletBegins
      <3>3. PICK X : b \in Seq(X) /\ \A x \in X : x.op \in {"begin", "put", "commit"}
        BY <3>1, BulletBegins
      <3>4. \A x \in X : x.op # "maximal"
        BY <3>3
      <3> QED BY <2>2, <2>3, <3>2, <3>3, <3>4 DEF BulletInv, BulletControl, Bulleting
    <2>6. CASE b = Transaction(<<Op("return"), Op("declare")>>)
      <3> DEFINE Y == {Op("return"), Op("declare"), Op("begin"), Op("commit")}
                 a == <<Op("return"), Op("declare")>>
      <3>1. a \in Seq(Y) /\ Op("begin") \in Y /\ Op("commit") \in Y
        OBVIOUS
      <3>2. \A y \in Y : Harmless(y)
        BY DEF Harmless, Op
      <3> HIDE DEF Y, a
      <3>3. Transaction(a) \in Seq(Y)
        BY <3>1, TransactionList
      <3> QED BY <2>2, <2>3, <2>6, <3>2, <3>3 DEF BulletInv, BulletControl, a
    <2> QED BY <2>1, <2>4, <2>5, <2>6 DEF Called
  <1>3. CASE UNCHANGED vars
    BY <1>3 DEF vars, BulletInv, NestedStates, BulletControl
  <1> QED BY <1>1, <1>2, <1>3 DEF Next

\* "We keep a stack of (distinct!) bullets" (proof_global.ml), in every state
\* that commands, Undo, failures and interrupts can lead to.
THEOREM BulletsStayDistinct == Spec => []BulletsDistinct
  <1>1. Init => BulletInv
    <2> SUFFICES ASSUME Init PROVE BulletInv
      OBVIOUS
    <2>1. Saved(pr, {InitialState}) /\ pr.state = InitialState /\ ctrl = <<>>
      BY SavedNew DEF Init
    <2>2. NestedStates
      <3>1. \A s \in {InitialState} : Nested(s.focus)
        BY NestedNew
      <3> HIDE DEF InitialState
      <3> QED BY <2>1, <3>1, NestedNew DEF NestedStates
    <2>3. BulletControl
      <3>1. ctrl \in Seq({}) /\ \A x \in {} : Harmless(x)
        BY <2>1, EmptySeq
      <3> QED BY <3>1 DEF BulletControl
    <2> QED BY <2>2, <2>3 DEF BulletInv
  <1>2. BulletInv /\ SaveInv /\ [Next]_vars => BulletInv'
    BY BulletInvKept
  <1>3. BulletInv => BulletsDistinct
    BY DEF BulletInv, NestedStates, Nested, NestedAt, Below, BulletsDistinct
  <1> QED BY <1>1, <1>2, <1>3, SaveInvariant, PTL DEF Spec

-----------------------------------------------------------------------------
(* The bottom of the focus stack.                                          *)

\* end_of_stack is the bottom of the focus stack f, and nothing else is.
Bottom(f) ==
  /\ \E F : f \in Seq(F)
  /\ f # <<>>
  /\ \A i \in DOMAIN f : f[i].kind = "end" <=> i = 1

LEMMA BottomFront ==
  ASSUME NEW f, Bottom(f)
  PROVE  /\ Front(f) = <<>> \/ Bottom(Front(f))
         /\ Last(f).kind # "end" => Bottom(Front(f))
  <1> DEFINE n == Len(f)
             g == Front(f)
  <1>1. PICK F : f \in Seq(F)
    BY DEF Bottom
  <1>2. /\ n \in Nat \ {0} /\ DOMAIN f = 1..n /\ Last(f) = f[n]
        /\ g \in Seq(F) /\ DOMAIN g = 1..(n - 1)
        /\ \A i \in 1..(n - 1) : g[i] = f[i]
        /\ g = <<>> <=> n = 1
    BY <1>1, FrontParts DEF Bottom
  <1> HIDE DEF n, g
  <1>3. ASSUME NEW i \in DOMAIN g PROVE g[i].kind = "end" <=> i = 1
    <2>1. i \in DOMAIN f /\ g[i] = f[i]
      BY <1>2
    <2> QED BY <2>1 DEF Bottom
  <1>4. ASSUME g # <<>> PROVE Bottom(g)
    BY <1>2, <1>3, <1>4 DEF Bottom
  <1>5. ASSUME n = 1 PROVE Last(f).kind = "end"
    <2>1. 1 \in DOMAIN f /\ Last(f) = f[1]
      BY <1>2, <1>5
    <2> QED BY <2>1 DEF Bottom
  <1> QED BY <1>2, <1>4, <1>5 DEF g

LEMMA BottomPush ==
  ASSUME NEW f, Bottom(f), NEW kind, kind # "end", NEW bullets, NEW l, NEW r
  PROVE  Bottom(Append(f, Focus(kind, bullets, l, r)))
  <1> DEFINE n == Len(f)
             x == Focus(kind, bullets, l, r)
             g == Append(f, x)
  <1>1. PICK F : f \in Seq(F)
    BY DEF Bottom
  <1>2. n \in Nat \ {0} /\ DOMAIN f = 1..n
    BY <1>1, EmptySeq, LenProperties DEF Bottom
  <1>3. x.kind # "end"
    BY DEF Focus
  <1> DEFINE G == F \union {x}
  <1>4. f \in Seq(G) /\ x \in G
    BY <1>1, SeqMonotonic
  <1> HIDE DEF G, x
  <1>5. /\ g \in Seq(G) /\ Len(g) = n + 1
        /\ \A i \in 1..n : g[i] = f[i]
        /\ g[n + 1] = x
    BY <1>4, AppendProperties
  <1>6. DOMAIN g = 1..(n + 1)
    BY <1>5, LenProperties
  <1> HIDE DEF n, g
  <1>7. ASSUME NEW i \in DOMAIN g PROVE g[i].kind = "end" <=> i = 1
    <2>1. CASE i \in 1..n
      <3>1. i \in DOMAIN f /\ g[i] = f[i]
        BY <1>2, <1>5, <2>1
      <3> QED BY <3>1 DEF Bottom
    <2>2. CASE i = n + 1
      BY <1>2, <1>3, <1>5, <2>2
    <2> QED BY <1>2, <1>6, <2>1, <2>2
  <1>8. g # <<>>
    BY <1>2, <1>5, EmptySeq
  <1> QED BY <1>5, <1>7, <1>8 DEF Bottom, g, x

LEMMA BottomNew == Bottom(InitialState.focus)
  <1> DEFINE f == <<EndOfStack>>
  <1>1. InitialState.focus = f
    BY DEF InitialState
  <1>2. f \in Seq({EndOfStack}) /\ DOMAIN f = {1} /\ f[1] = EndOfStack /\ f # <<>>
    OBVIOUS
  <1>3. EndOfStack.kind = "end"
    BY DEF EndOfStack, Focus
  <1> HIDE DEF f
  <1> QED BY <1>1, <1>2, <1>3 DEF Bottom

LEMMA DeclaresTail ==
  ASSUME NEW C, NEW c \in Seq(C), c # <<>>, Declares(c), Head(c).op # "declare"
  PROVE  Declares(Tail(c))
  <1>1. PICK i \in DOMAIN c : c[i].op = "declare"
    BY DEF Declares
  <1>2. DOMAIN c = 1..Len(c) /\ Len(c) \in Nat /\ Head(c) = c[1]
    BY LenProperties
  <1>3. /\ Tail(c) \in Seq(C) /\ Len(Tail(c)) = Len(c) - 1
        /\ \A k \in 1..Len(Tail(c)) : Tail(c)[k] = c[k + 1]
    BY HeadTailProperties
  <1>4. DOMAIN Tail(c) = 1..Len(Tail(c))
    BY <1>3, LenProperties
  <1>5. i # 1
    BY <1>1, <1>2
  <1>6. i - 1 \in 1..Len(Tail(c)) /\ (i - 1) + 1 = i
    BY <1>1, <1>2, <1>3, <1>5
  <1>7. Tail(c)[i - 1].op = "declare"
    BY <1>1, <1>3, <1>6
  <1> QED BY <1>4, <1>6, <1>7 DEF Declares

LEMMA DeclaresAfter ==
  ASSUME NEW B, NEW b \in Seq(B), NEW C, NEW c \in Seq(C), Declares(c)
  PROVE  Declares(b \o c)
  <1> DEFINE D == B \union C
             d == b \o c
  <1>1. PICK i \in DOMAIN c : c[i].op = "declare"
    BY DEF Declares
  <1>2. b \in Seq(D) /\ c \in Seq(D) /\ Len(b) \in Nat /\ Len(c) \in Nat /\ DOMAIN c = 1..Len(c)
    BY SeqMonotonic, LenProperties
  <1> HIDE DEF D
  <1>3. /\ d \in Seq(D) /\ Len(d) = Len(b) + Len(c)
        /\ \A k \in 1 .. Len(b) + Len(c) : d[k] = IF k <= Len(b) THEN b[k] ELSE c[k - Len(b)]
    BY <1>2, ConcatProperties
  <1>4. DOMAIN d = 1..Len(d)
    BY <1>3, LenProperties
  <1> HIDE DEF d
  <1>5. i + Len(b) \in DOMAIN d /\ ~(i + Len(b) <= Len(b)) /\ (i + Len(b)) - Len(b) = i
    BY <1>1, <1>2, <1>3, <1>4
  <1>6. d[i + Len(b)].op = "declare"
    BY <1>1, <1>2, <1>3, <1>4, <1>5
  <1> QED BY <1>5, <1>6 DEF Declares, d

\* A proof whose states, the current one aside, have their bottom
BareStates ==
  /\ Bottom(call.pr.state.focus)
  /\ \E G : Saved(pr, G) /\ \A s \in G : Bottom(s.focus)

\* The control of a command that goes on, and that of Save, which may close
\* end_of_stack: unless it fails, it declares.
Continuing == \E X : ctrl \in Seq(X) /\ \A x \in X : Continues(x)

Finishing ==
  /\ \E X : ctrl \in Seq(X) /\ \A x \in X : x.op \in Ending \union {"declare"}
  /\ exn = "none" => Declares(ctrl)

BareInv ==
  /\ BareStates
  /\ \/ Bottom(pr.state.focus) /\ (Continuing \/ Finishing)
     \/ pr.state.focus = <<>> /\ Finishing

LEMMA CallStays ==
  ASSUME Instruction \/ Interrupted
  PROVE  call' = call
  BY DEF Instruction, Begin, Commit, Save, SaveMode, SetMode, UndoMany, Pop, Tactic, Instantiate,
         GrabEvars, ToGoals, FocusStep, UnfocusStep, Relabel, Maximal, PutBullet, NoFocus,
         PopBullet, PushBullet, Return, Declare, Rollback, Relabelled, MaximalEnds,
         Interrupted, Interrupt, UnfocusInterrupted, FocusInterrupted, CommitInterrupted,
         RollbackInterrupted, BrokenAt, Do, Expand, Continue, Raise

LEMMA ContinuingStays ==
  ASSUME SaveInv, Continuing, Instruction \/ Interrupted
  PROVE  Continuing'
  <1>1. PICK X : ctrl \in Seq(X) /\ \A x \in X : Continues(x)
    BY DEF Continuing
  <1>2. Now \in X /\ Continues(Now)
    BY <1>1, HeadOfControl
  <1>3. PICK Y : ctrl' \in Seq(X \union Y) /\ \A y \in Y : Added(y)
    BY <1>1, ControlGrows DEF Grown
  <1>4. ASSUME NEW y \in Y PROVE Continues(y)
    <2>1. Added(y)
      BY <1>3
    <2>2. \/ y = Now
          \/ y.op \in {"begin", "commit", "relabel", "pop", "save", "toGoals", "popUntil", "push"}
          \/ y.op \in {"unfocus", "focus"} /\ y.kind \in {"command", "bullet"}
      BY <1>2, <2>1 DEF Added, Continues
    <2> QED BY <1>2, <2>2 DEF Continues
  <1>5. \A z \in X \union Y : Continues(z)
    BY <1>1, <1>4
  <1> QED BY <1>3, <1>5 DEF Continuing

\* Save goes on to its declaration, unless an exception is raised.
LEMMA DeclarationComes ==
  ASSUME Instruction, exn = "none", exn' = "none", Now.op \in Ending, Declares(ctrl),
         NEW X, ctrl \in Seq(X)
  PROVE  Declares(ctrl')
  <1>1. ctrl # <<>> /\ Rest \in Seq(X)
    BY HeadOfControl
  <1>2. Declares(Rest)
    BY <1>1, DeclaresTail DEF Ending, Now, Rest
  <1>3. \A e : e # "none" => ~Raise(e)
    BY DEF Raise, RaiseIn
  <1>4. \A p : Do(p) => Declares(ctrl')
    BY <1>2 DEF Do, Continue
  <1>5. CASE Now.op \in {"begin", "commit", "relabel"}
    BY <1>4, <1>5, Dispatch DEF Begin, Commit, Relabel
  <1>6. CASE Now.op = "unfocus"
    <2> DEFINE answer == UnfocusCheck(pr.state, Now.kind)
               b == <<Now, Op("relabel")>>
    <2>1. UnfocusStep
      BY <1>6, Dispatch
    <2>2. answer # "none"
      BY DEF UnfocusCheck, FocusCondition, Refusal
    <2>3. \/ \E p : Do(p)
          \/ ctrl' = b \o Rest
      BY <1>3, <2>1, <2>2 DEF UnfocusStep, Continue
    <2>4. b \in Seq({Now, Op("relabel")})
      OBVIOUS
    <2> HIDE DEF b
    <2> QED BY <1>1, <1>2, <1>4, <2>3, <2>4, DeclaresAfter
  <1>7. CASE Now.op = "return"
    <2> DEFINE a == <<UnfocusOp("end")>>
               b == Transaction(a)
               A == {UnfocusOp("end"), Op("begin"), Op("commit")}
    <2>1. Return
      BY <1>7, Dispatch
    <2>2. ctrl' = b \o Rest
      BY <1>3, <2>1 DEF Return, Expand, Continue
    <2>3. a \in Seq(A) /\ Op("begin") \in A /\ Op("commit") \in A
      OBVIOUS
    <2> HIDE DEF a, A
    <2>4. b \in Seq(A)
      BY <2>3, TransactionList
    <2> HIDE DEF b
    <2> QED BY <1>1, <1>2, <2>2, <2>4, DeclaresAfter
  <1> QED BY <1>5, <1>6, <1>7 DEF Ending

LEMMA FinishingStays ==
  ASSUME SaveInv, Finishing, Instruction \/ Interrupted,
         ~(Running("declare") /\ pr' = NewProof /\ ctrl' = <<>>)
  PROVE  Finishing'
  <1>1. PICK X : ctrl \in Seq(X) /\ \A x \in X : x.op \in Ending \union {"declare"}
    BY DEF Finishing
  <1>2. ctrl # <<>> /\ Now \in X
    BY <1>1, HeadOfControl
  <1>3. Now.op \in Ending \union {"declare"}
    BY <1>1, <1>2
  <1>4. PICK Y : ctrl' \in Seq(X \union Y) /\ \A y \in Y : Added(y)
    BY <1>1, ControlGrows DEF Grown
  <1>5. ASSUME NEW y \in Y PROVE y.op \in Ending \union {"declare"}
    <2>1. Added(y)
      BY <1>4
    <2>2. y = Now \/ y.op \in {"begin", "commit", "relabel", "unfocus"}
      BY <1>3, <2>1 DEF Added, Ending
    <2> QED BY <1>3, <2>2 DEF Ending
  <1>6. \A z \in X \union Y : z.op \in Ending \union {"declare"}
    BY <1>1, <1>5
  <1>7. ASSUME exn' = "none" PROVE Declares(ctrl')
    <2>1. Now.op # "maximal"
      BY <1>3 DEF Ending
    <2>2. Instruction /\ exn = "none"
      BY <1>7, <2>1, ExceptionsGoOn
    <2>3. CASE Now.op \in Ending
      BY <1>1, <1>7, <2>2, <2>3, DeclarationComes DEF Finishing
    <2>4. CASE Now.op = "declare"
      <3>1. Running("declare")
        BY <1>2, <2>2, <2>4 DEF Running, Idle, Now
      <3>2. Declare
        BY <2>2, <2>4, Dispatch
      <3>3. ~Raise("Error")
        BY <1>7 DEF Raise, RaiseIn
      <3> QED BY <3>1, <3>2, <3>3 DEF Declare
    <2> QED BY <1>3, <2>3, <2>4
  <1> QED BY <1>4, <1>6, <1>7 DEF Finishing

LEMMA BareStatesStay ==
  ASSUME SaveInv, BareInv, Instruction \/ Interrupted
  PROVE  BareInv'
  <1> DEFINE f == pr.state.focus
  <1>1. call' = call
    BY CallStays
  <1>2. PICK G : Saved(pr, G) /\ \A s \in G : Bottom(s.focus)
    BY DEF BareInv, BareStates
  <1>3. Moved(G)
    BY <1>2, StatesMove
  <1>4. CASE Running("declare") /\ pr' = NewProof /\ ctrl' = <<>>
    <2>1. Saved(pr', {InitialState}) /\ pr'.state = InitialState
      BY <1>4, SavedNew
    <2>2. \A s \in {InitialState} : Bottom(s.focus)
      BY BottomNew
    <2> HIDE DEF InitialState
    <2>3. BareStates' /\ Bottom(pr'.state.focus)
      BY <1>1, <2>1, <2>2, BottomNew DEF BareInv, BareStates
    <2>4. Continuing'
      <3>1. ctrl' \in Seq({}) /\ \A x \in {} : Continues(x)
        BY <1>4, EmptySeq
      <3> QED BY <3>1 DEF Continuing
    <2> QED BY <2>3, <2>4 DEF BareInv
  <1>5. CASE /\ ~(Running("declare") /\ pr' = NewProof /\ ctrl' = <<>>)
             /\ Saved(pr', G) \/ (Recording /\ Saved(pr', G \union {pr.state}))
             /\ pr'.state \in G \/ FocusMoves(pr'.state)
    <2>1. (Continuing => Continuing') /\ (Finishing => Finishing')
      BY <1>5, ContinuingStays, FinishingStays
    <2>2. Continuing /\ (Running("focus") \/ Running("unfocus")) => Now.kind # "end"
      <3> SUFFICES ASSUME Continuing, Running("focus") \/ Running("unfocus")
                   PROVE  Now.kind # "end"
        OBVIOUS
      <3>1. PICK X : ctrl \in Seq(X) /\ \A x \in X : Continues(x)
        BY DEF Continuing
      <3>2. Continues(Now) /\ Now.op \in {"focus", "unfocus"}
        BY <3>1, HeadOfControl DEF Running, Now
      <3> QED BY <3>2 DEF Continues
    <2>3. Finishing => \A op \in {"focus", "save", "tactic", "instantiate"} : ~Running(op)
      <3> SUFFICES ASSUME Finishing, NEW op \in {"focus", "save", "tactic", "instantiate"}
                   PROVE  ~Running(op)
        OBVIOUS
      <3>1. PICK X : ctrl \in Seq(X) /\ \A x \in X : x.op \in Ending \union {"declare"}
        BY DEF Finishing
      <3>2. Now.op \in Ending \union {"declare"}
        BY <3>1, HeadOfControl
      <3> QED BY <3>2 DEF Running, Now, Ending
    <2>4. MayUnfocus => f # <<>>
      BY DEF MayUnfocus, UnfocusCheck
    <2>5. MayUnfocus /\ Now.kind # "end" => Last(f).kind # "end"
      BY DEF MayUnfocus, UnfocusCheck, FocusCondition, Refusal
    <2>6. CASE Bottom(f)
      <3>1. \E H : Saved(pr', H) /\ \A s \in H : Bottom(s.focus)
        <4>1. \A s \in G \union {pr.state} : Bottom(s.focus)
          BY <1>2, <2>6
        <4> QED BY <1>2, <1>5, <4>1
      <3>2. BareStates'
        BY <1>1, <3>1 DEF BareInv, BareStates
      <3>3. CASE pr'.state \in G \/ pr'.state.focus = f
        BY <1>2, <2>1, <2>6, <3>2, <3>3 DEF BareInv
      <3>4. CASE Running("unfocus") /\ MayUnfocus /\ pr'.state.focus = Front(f)
        <4>1. Front(f) = <<>> \/ Bottom(Front(f))
          BY <2>6, BottomFront
        <4>2. Continuing => Bottom(Front(f))
          BY <2>2, <2>5, <2>6, <3>4, BottomFront
        <4> QED BY <2>1, <3>2, <3>4, <4>1, <4>2 DEF BareInv
      <3>5. CASE /\ Running("focus")
                 /\ \E l, r : pr'.state.focus = Append(f, Focus(Now.kind, Now.bullets, l, r))
        <4>1. Continuing /\ Now.kind # "end"
          BY <2>2, <2>3, <3>5 DEF BareInv
        <4>2. Bottom(pr'.state.focus)
          BY <2>6, <3>5, <4>1, BottomPush
        <4> QED BY <2>1, <3>2, <4>1, <4>2 DEF BareInv
      <3> QED BY <1>5, <3>3, <3>4, <3>5 DEF FocusMoves
    <2>7. CASE f = <<>> /\ Finishing
      <3>1. ~MayUnfocus /\ ~Recording /\ ~Running("focus")
        BY <2>3, <2>4, <2>7 DEF Recording
      <3>2. BareStates'
        BY <1>1, <1>2, <1>5, <3>1 DEF BareInv, BareStates
      <3>3. Bottom(pr'.state.focus) \/ pr'.state.focus = <<>>
        BY <1>2, <1>5, <2>7, <3>1 DEF FocusMoves
      <3> QED BY <2>1, <2>7, <3>2, <3>3 DEF BareInv
    <2> QED BY <2>6, <2>7 DEF BareInv
  <1> QED BY <1>3, <1>4, <1>5 DEF Moved

\* A Save that has closed end_of_stack declares, or fails and has it back.
LEMMA BottomWhenIdle ==
  ASSUME BareInv, NoTrace, Idle
  PROVE  Bottom(pr.state.focus)
  <1>1. ASSUME Finishing, pr.state.focus = <<>> PROVE FALSE
    <2>1. exn # "none"
      <3>1. ~Declares(ctrl)
        BY EmptyBody DEF Idle
      <3> QED BY <1>1, <3>1 DEF Finishing
    <2>2. Shown(pr) = Shown(call.pr)
      BY <2>1 DEF NoTrace
    <2>3. pr.state = call.pr.state
      BY <2>2 DEF Shown
    <2> QED BY <1>1, <2>3 DEF BareInv, BareStates, Bottom
  <1> QED BY <1>1 DEF BareInv

LEMMA BareInvKept ==
  ASSUME SaveInv, NoTrace, BareInv, [Next]_vars
  PROVE  BareInv'
  <1>1. CASE Instruction \/ Interrupted
    BY <1>1, BareStatesStay
  <1>2. CASE Command
    <2>1. PICK cmd, b : Call(cmd, b) /\ Called(b)
      BY <1>2, Bodies
    <2>2. pr' = pr /\ ctrl' = b /\ Idle /\ exn' = "none" /\ call'.pr = pr
      BY <2>1 DEF Call
    <2>3. Bottom(pr.state.focus)
      BY <2>2, BottomWhenIdle
    <2>4. BareStates'
      BY <2>2, <2>3 DEF BareInv, BareStates
    <2>5. CASE Ordinary(b)
      BY <2>2, <2>3, <2>4, <2>5 DEF Ordinary, BareInv, Continuing
    <2>6. CASE \E u \in Bullets : b = BulletBody(u)
      <3>1. PICK X : b \in Seq(X) /\ \A x \in X : x.op \in {"begin", "put", "commit"}
        BY <2>6, BulletBegins
      <3>2. \A x \in X : Continues(x)
        BY <3>1 DEF Continues
      <3> QED BY <2>2, <2>3, <2>4, <3>1, <3>2 DEF BareInv, Continuing
    <2>7. CASE b = Transaction(<<Op("return"), Op("declare")>>)
      <3> DEFINE Y == {Op("return"), Op("declare"), Op("begin"), Op("commit")}
                 a == <<Op("return"), Op("declare")>>
                 t == Transaction(a)
      <3>1. a \in Seq(Y) /\ Op("begin") \in Y /\ Op("commit") \in Y /\ Len(a) = 2
            /\ a[2] = Op("declare")
        OBVIOUS
      <3>2. \A y \in Y : y.op \in Ending \union {"declare"}
        BY DEF Ending, Op
      <3> HIDE DEF Y, a
      <3>3. t \in Seq(Y) /\ Len(t) = 4 /\ t[3] = Op("declare")
        <4>1. /\ t \in Seq(Y) /\ Len(t) = Len(a) + 2
              /\ \A i \in 2 .. Len(a) + 1 : t[i] = a[i - 1]
          BY <3>1, TransactionList
        <4> HIDE DEF t
        <4>2. 3 \in 2 .. Len(a) + 1 /\ 3 - 1 = 2
          BY <3>1
        <4>3. t[3] = a[2]
          BY <4>1, <4>2
        <4> QED BY <3>1, <4>1, <4>3
      <3> HIDE DEF t
      <3>4. Declares(t)
        <4>1. 3 \in DOMAIN t
          BY <3>3, LenProperties
        <4> QED BY <3>3, <4>1 DEF Declares, Op
      <3>5. t = b
        BY <2>7 DEF t, a
      <3> QED BY <2>2, <2>3, <2>4, <3>2, <3>3, <3>4, <3>5 DEF BareInv, Finishing
    <2> QED BY <2>1, <2>5, <2>6, <2>7 DEF Called
  <1>3. CASE UNCHANGED vars
    BY <1>3 DEF vars, BareInv, BareStates, Continuing, Finishing
  <1> QED BY <1>1, <1>2, <1>3 DEF Next

\* Between two commands the bottom of the focus stack is end_of_stack and
\* nothing else is, even when a Qed that has closed it fails in its declaration
\* (Proof.return, Proof.transaction), or Undo has restored an earlier state.
THEOREM BottomOfFocuses == Async = FALSE => (Spec => []NeverBare)
  <1> SUFFICES ASSUME Async = FALSE PROVE Spec => []NeverBare
    OBVIOUS
  <1>1. Init => BareInv
    <2> SUFFICES ASSUME Init PROVE BareInv
      OBVIOUS
    <2>1. /\ Saved(pr, {InitialState}) /\ pr.state = InitialState /\ ctrl = <<>>
          /\ call.pr.state = InitialState
      BY SavedNew DEF Init
    <2>2. \A s \in {InitialState} : Bottom(s.focus)
      BY BottomNew
    <2> HIDE DEF InitialState
    <2>3. BareStates
      BY <2>1, <2>2, BottomNew DEF BareStates
    <2>4. Continuing
      <3>1. ctrl \in Seq({}) /\ \A x \in {} : Continues(x)
        BY <2>1, EmptySeq
      <3> QED BY <3>1 DEF Continuing
    <2> QED BY <2>1, <2>3, <2>4, BottomNew DEF BareInv
  <1>2. BareInv /\ SaveInv /\ NoTrace /\ [Next]_vars => BareInv'
    BY BareInvKept
  <1>3. BareInv /\ NoTrace => NeverBare
    BY BottomWhenIdle DEF Bottom, NeverBare
  <1> QED BY <1>1, <1>2, <1>3, SaveInvariant, FailuresLeaveNoTrace, PTL DEF Spec
=============================================================================
