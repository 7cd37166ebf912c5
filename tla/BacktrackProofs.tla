-------------------------- MODULE BacktrackProofs ---------------------------
(***************************************************************************)
(* Theorems about module Backtrack, for every value of its constants: its  *)
(* variables have their types (TypeOK), and backtracking by counting proofs*)
(* and popping undo stacks is right (Restorable), as long as no command of *)
(* IrregularNext is used.                                                  *)
(*                                                                         *)
(* Restorable alone is not inductive: after sync has gone back to an entry *)
(* t, the entries before t must be restorable from the proofs of t.  Agree *)
(* says so for every pair of reachable entries, and that an entry outside  *)
(* of any proof is never tagged, which is where mark_unreachable stops.    *)
(***************************************************************************)
EXTENDS Backtrack, SequenceTheorems, TLAPS

-----------------------------------------------------------------------------
(* The operators on proofs and on the history. *)

LEMMA TopProof ==
  ASSUME NEW ps, ProofsOK(ps), ps # <<>>
  PROVE  /\ Len(ps) \in Nat \ {0}
         /\ Top(ps) \in Proof
         /\ Top(ps) = ps[Len(ps)]
         /\ Len(Top(ps).states) \in Nat
         /\ Len(Top(ps).states) >= 2
         /\ Depth(Top(ps)) \in Nat \ {0}
  <1>1. Len(ps) \in Nat \ {0} /\ DOMAIN ps = 1..Len(ps)
    BY EmptySeq, LenProperties DEF ProofsOK
  <1>2. Top(ps) = ps[Len(ps)]
    BY DEF Top
  <1>3. Top(ps) \in Proof /\ Len(Top(ps).states) >= 2
    <2>1. Len(ps) \in 1..Len(ps) /\ Len(ps) \in DOMAIN ps
      BY <1>1
    <2>2. ps \in Seq(Proof) /\ \A i \in DOMAIN ps : Len(ps[i].states) >= 2
      BY DEF ProofsOK
    <2> QED BY <1>2, <2>1, <2>2, ElementOfSeq
  <1>4. Len(Top(ps).states) \in Nat
    BY <1>3, LenProperties DEF Proof
  <1>5. Depth(Top(ps)) \in Nat \ {0}
    <2>1. \A k \in Nat : k >= 2 => k - 1 \in Nat \ {0}
      OBVIOUS
    <2>2. Depth(Top(ps)) = Len(Top(ps).states) - 1
      BY DEF Depth
    <2> QED BY <1>3, <1>4, <2>1, <2>2
  <1> QED BY <1>1, <1>2, <1>3, <1>4, <1>5

LEMMA PrefixOK ==
  ASSUME NEW ps, ProofsOK(ps), NEW n \in 0..Len(ps)
  PROVE  ProofsOK(SubSeq(ps, 1, n))
  BY DEF ProofsOK

LEMMA KeptOK ==
  ASSUME NEW ps, ProofsOK(ps), NEW n \in Nat
  PROVE  /\ ProofsOK(Kept(ps, n))
         /\ Len(Kept(ps, n)) = IF n < Len(ps) THEN n ELSE Len(ps)
  BY PrefixOK DEF ProofsOK, Kept

LEMMA WithTopOK ==
  ASSUME NEW ps, ProofsOK(ps), ps # <<>>, NEW p \in Proof, Len(p.states) >= 2
  PROVE  ProofsOK(WithTop(ps, p)) /\ Len(WithTop(ps, p)) = Len(ps)
  BY DEF ProofsOK, WithTop

LEMMA UndoneOK ==
  ASSUME NEW p \in Proof, NEW n \in Nat, n < Depth(p), Len(p.states) \in Nat
  PROVE  /\ Undone(p, n) \in Proof
         /\ Undone(p, n).name = p.name
         /\ Undone(p, n).states = SubSeq(p.states, 1, Len(p.states) - n)
         /\ Len(Undone(p, n).states) = Len(p.states) - n
         /\ Len(Undone(p, n).states) >= 2
  <1> DEFINE ss == SubSeq(p.states, 1, Len(p.states) - n)
  <1>1. p.states \in Seq(ProofStates) /\ p.name \in Names
    BY DEF Proof
  <1>2. Len(p.states) - n \in Int /\ Len(p.states) - n >= 2
    BY DEF Depth
  <1>3. \A i \in 1..(Len(p.states) - n) : p.states[i] \in ProofStates
    BY <1>1, <1>2, ElementOfSeq
  <1>4. ss \in Seq(ProofStates) /\ Len(ss) = Len(p.states) - n
    BY <1>2, <1>3, SubSeqProperties
  <1> HIDE DEF ss
  <1>5. Undone(p, n) = [p EXCEPT !.states = ss]
    BY DEF Undone, ss
  <1>6. Undone(p, n).states = ss /\ Undone(p, n).name = p.name
    BY <1>5 DEF Proof
  <1>7. Undone(p, n) \in Proof
    BY <1>1, <1>4, <1>5 DEF Proof
  <1> QED BY <1>2, <1>4, <1>6, <1>7 DEF ss

LEMMA UndoneToOK ==
  ASSUME NEW ps, ProofsOK(ps), NEW d \in Nat, ps = <<>> \/ d # 0
  PROVE  ProofsOK(UndoneTo(ps, d))
  <1>1. CASE ps = <<>> \/ Depth(Top(ps)) <= d
    BY <1>1 DEF UndoneTo
  <1>2. CASE ~(ps = <<>> \/ Depth(Top(ps)) <= d)
    <2>1. Depth(Top(ps)) - d \in Nat /\ Depth(Top(ps)) - d < Depth(Top(ps))
      BY <1>2, TopProof
    <2>2. Undone(Top(ps), Depth(Top(ps)) - d) \in Proof
          /\ Len(Undone(Top(ps), Depth(Top(ps)) - d).states) >= 2
      BY <1>2, <2>1, TopProof, UndoneOK
    <2> QED BY <1>2, <2>2, WithTopOK DEF UndoneTo
  <1> QED BY <1>1, <1>2

LEMMA InfoOK ==
  ASSUME NEW l \in Nat \ {0}, NEW ps, ProofsOK(ps), NEW e \in SUBSET Names
  PROVE  /\ Info(l, ps, e) \in Entry
         /\ Info(l, ps, e).nproofs = 0 <=> Info(l, ps, e).prfdepth = 0
  <1>1. CASE ps = <<>>
    BY <1>1 DEF Info, Entry, Snapshot, ProofsOK
  <1>2. CASE ps # <<>>
    <2>1. Top(ps).name \in Names /\ Len(ps) \in Nat \ {0} /\ Depth(Top(ps)) \in Nat \ {0}
      BY <1>2, TopProof DEF Proof
    <2> QED BY <1>2, <2>1 DEF Info, Entry, Snapshot, ProofsOK
  <1> QED BY <1>1, <1>2

LEMMA AppendOK ==
  ASSUME NEW h, HistoryOK(h), NEW x \in Entry, x.nproofs = 0 <=> x.prfdepth = 0
  PROVE  HistoryOK(Append(h, x))
  BY DEF HistoryOK

LEMMA CutOK ==
  ASSUME NEW h, HistoryOK(h), NEW n \in 0..Len(h)
  PROVE  HistoryOK(SubSeq(h, 1, n))
  BY DEF HistoryOK

\* The mark changes nothing but the tag, and never sets it.
LEMMA MarkOK ==
  ASSUME NEW h, HistoryOK(h), NEW ids, NEW after
  PROVE  /\ HistoryOK(MarkUnreachable(h, ids, after))
         /\ Len(MarkUnreachable(h, ids, after)) = Len(h)
  <1> DEFINE hh == MarkUnreachable(h, ids, after)
  <1>1. DOMAIN hh = 1..Len(h)
    BY DEF MarkUnreachable, HistoryOK
  <1>2. ASSUME NEW i \in 1..Len(h)
        PROVE  hh[i] \in Entry /\ (hh[i].nproofs = 0 <=> hh[i].prfdepth = 0)
    <2>1. h[i] \in Entry /\ (h[i].nproofs = 0 <=> h[i].prfdepth = 0)
      BY DEF HistoryOK
    <2>2. hh[i] = h[i] \/ hh[i] = [h[i] EXCEPT !.reachable = FALSE]
      <3>1. i \in DOMAIN h
        BY DEF HistoryOK
      <3> QED BY <3>1 DEF MarkUnreachable
    <2>3. [h[i] EXCEPT !.reachable = FALSE] \in Entry
      BY <2>1 DEF Entry
    <2>4. /\ [h[i] EXCEPT !.reachable = FALSE].nproofs = h[i].nproofs
          /\ [h[i] EXCEPT !.reachable = FALSE].prfdepth = h[i].prfdepth
      BY <2>1 DEF Entry
    <2> QED BY <2>1, <2>2, <2>3, <2>4
  <1>3. Len(h) \in Nat
    BY DEF HistoryOK
  <1>4. hh \in Seq(Entry) /\ Len(hh) = Len(h)
    <2>1. hh = [i \in 1..Len(h) |-> hh[i]]
      BY <1>1 DEF MarkUnreachable, HistoryOK
    <2> QED BY <1>1, <1>2, <1>3, <2>1
  <1> HIDE DEF hh
  <1> QED BY <1>1, <1>2, <1>4 DEF HistoryOK, hh

-----------------------------------------------------------------------------
(* The end of a command keeps the types, whatever history and proofs it is *)
(* given.                                                                  *)

LibOK(l) == l \in Seq([label : Nat \ {0}, env : SUBSET Names])

LEMMA FrameOK ==
  ASSUME NEW l, LibOK(l), NEW n \in Nat \ {0}, NEW e \in SUBSET Names
  PROVE  LibOK(Append(l, Frame(n, e)))
  BY DEF LibOK, Frame

LEMMA MarkCommandType ==
  ASSUME TypeOK, NEW h, HistoryOK(h), NEW ps, ProofsOK(ps), NEW e \in SUBSET Names,
         MarkCommand(h, ps, e), proofs' = ps, env' = e, load' \in {"no", "atomic", "each"}
  PROVE  TypeOK'
  <1>1. label + 1 \in Nat \ {0} /\ label' = label + 1
    BY DEF TypeOK, MarkCommand
  <1>2. HistoryOK(hist')
    <2>1. hist' = Append(h, Info(label + 1, ps, e))
      BY DEF MarkCommand
    <2> QED BY <1>1, <2>1, InfoOK, AppendOK
  <1>3. LibOK(lib')
    <2>1. lib' = Append(lib, Frame(label + 1, e)) /\ LibOK(lib)
      BY DEF MarkCommand, TypeOK, LibOK
    <2> QED BY <1>1, <2>1, FrameOK
  <1>4. answer' \in Answers
    BY DEF MarkCommand, Answers
  <1> QED BY <1>1, <1>2, <1>3, <1>4 DEF TypeOK, LibOK

LEMMA RaiseType ==
  ASSUME TypeOK, NEW h, HistoryOK(h), NEW ps, ProofsOK(ps), NEW a \in Answers, Raise(h, ps, a)
  PROVE  TypeOK'
  BY DEF TypeOK, Raise

LEMMA SucceedType ==
  ASSUME TypeOK, NEW h, HistoryOK(h), NEW ps, ProofsOK(ps), NEW e \in SUBSET Names,
         Succeed(h, ps, e)
  PROVE  TypeOK'
  <1>1. proofs' = ps /\ env' = e /\ load' \in {"no", "atomic", "each"}
    BY DEF Succeed, TypeOK
  <1>2. CASE MarkCommand(h, ps, e)
    BY <1>1, <1>2, MarkCommandType
  <1>3. CASE hist' = h /\ answer' = "done" /\ UNCHANGED <<label, lib>>
    BY <1>1, <1>3 DEF TypeOK, Answers
  <1>4. CASE /\ hist' = h /\ answer' = "done"
             /\ label' = label + 1
             /\ lib' = Append(lib, Frame(label + 1, e))
    <2>1. label + 1 \in Nat \ {0} /\ LibOK(lib)
      BY DEF TypeOK, LibOK
    <2>2. LibOK(lib')
      BY <1>4, <2>1, FrameOK
    <2> QED BY <1>1, <1>4, <2>1, <2>2 DEF TypeOK, Answers, LibOK
  <1> QED BY <1>2, <1>3, <1>4 DEF Succeed, MarkInner

LEMMA RunType ==
  ASSUME TypeOK, NEW h, HistoryOK(h), NEW ps, ProofsOK(ps), NEW e \in SUBSET Names,
         Run(h, ps, e)
  PROVE  TypeOK'
  <1>1. CASE Succeed(h, ps, e)
    BY <1>1, SucceedType
  <1>2. CASE Preserve(h, ps, e)
    BY <1>2 DEF Preserve, TypeOK, Answers
  <1>3. CASE Raise(h, ps, "unfailed") \/ Raise(h, ps, "interrupted")
    BY <1>3, RaiseType DEF Answers
  <1>4. CASE MarkInterrupted(h, ps, e)
    <2>1. label' \in Nat \ {0} /\ LibOK(lib')
      <3>1. label + 1 \in Nat \ {0} /\ LibOK(lib)
        BY DEF TypeOK, LibOK
      <3>2. LibOK(Append(lib, Frame(label + 1, e)))
        BY <3>1, FrameOK
      <3> QED BY <1>4, <3>1, <3>2 DEF MarkInterrupted, TypeOK
    <2>2. answer' \in Answers
      BY <1>4 DEF MarkInterrupted, Answers
    <2> QED BY <1>4, <2>1, <2>2 DEF MarkInterrupted, TypeOK, LibOK
  <1> QED BY <1>1, <1>2, <1>3, <1>4 DEF Run

LEMMA FailWithType ==
  ASSUME TypeOK, NEW h, HistoryOK(h), NEW ps, ProofsOK(ps), FailWith(h, ps)
  PROVE  TypeOK'
  <1>1. env \in SUBSET Names
    BY DEF TypeOK
  <1>2. "failed" \in Answers
    BY DEF Answers
  <1> QED BY <1>1, <1>2, RaiseType, SucceedType DEF FailWith

-----------------------------------------------------------------------------
(* The actions. *)

LEMMA CurrentOK ==
  ASSUME TypeOK, proofs # <<>>
  PROVE  /\ Len(proofs) \in Nat \ {0}
         /\ Current \in Proof
         /\ Current = proofs[Len(proofs)]
         /\ Current.name \in Names
         /\ Current.states \in Seq(ProofStates)
         /\ Len(Current.states) \in Nat
         /\ Len(Current.states) >= 2
         /\ Depth(Current) \in Nat \ {0}
         /\ Depth(Current) = Len(Current.states) - 1
  <1>1. ProofsOK(proofs)
    BY DEF TypeOK
  <1>2. Current.name \in Names /\ Current.states \in Seq(ProofStates)
    BY <1>1, TopProof DEF Current, Proof
  <1> QED BY <1>1, <1>2, TopProof DEF Current, Depth

LEMMA PushedOK ==
  ASSUME TypeOK, proofs # <<>>, NEW ss \in Seq(ProofStates)
  PROVE  ProofsOK(Pushed(ss))
  <1> DEFINE cc == Current.states \o ss
  <1>1. cc \in Seq(ProofStates) /\ Len(cc) = Len(Current.states) + Len(ss) /\ Len(ss) \in Nat
    BY CurrentOK, ConcatProperties, LenProperties
  <1>2. Len(cc) >= 2
    BY <1>1, CurrentOK
  <1> HIDE DEF cc
  <1>3. /\ [Current EXCEPT !.states = cc] \in Proof
        /\ [Current EXCEPT !.states = cc].states = cc
    BY <1>1, CurrentOK DEF Proof
  <1>4. ProofsOK(WithTop(proofs, [Current EXCEPT !.states = cc]))
    BY <1>2, <1>3, WithTopOK DEF TypeOK
  <1>5. Pushed(ss) = WithTop(proofs, [Current EXCEPT !.states = cc])
    BY DEF Pushed, cc
  <1> QED BY <1>4, <1>5

LEMMA DiscardedOK ==
  ASSUME TypeOK, proofs # <<>>
  PROVE  ProofsOK(Discarded(proofs, 1))
  <1>1. ProofsOK(proofs) /\ Len(proofs) - 1 \in 0..Len(proofs)
    BY CurrentOK DEF TypeOK
  <1> QED BY <1>1, PrefixOK DEF Discarded

LEMMA UndoneCurrentOK ==
  ASSUME TypeOK, proofs # <<>>, NEW n \in Nat, n < Depth(Current)
  PROVE  ProofsOK(WithTop(proofs, Undone(Current, n)))
  <1>1. ProofsOK(proofs)
    BY DEF TypeOK
  <1>2. Undone(Current, n) \in Proof /\ Len(Undone(Current, n).states) >= 2
    BY CurrentOK, UndoneOK
  <1> QED BY <1>1, <1>2, WithTopOK

LEMMA UndoMarkedType ==
  ASSUME TypeOK, proofs # <<>>, NEW n \in Nat, n < Depth(Current), NEW after,
         UndoMarked(n, after)
  PROVE  TypeOK'
  <1> DEFINE h == MarkUnreachable(hist, {Current.name}, after)
             Less(m) == WithTop(proofs, Undone(Current, m))
  <1>1. HistoryOK(h) /\ env \in SUBSET Names
    BY MarkOK DEF TypeOK
  <1>2. ASSUME NEW m \in 0..n
        PROVE  ProofsOK(Less(m))
    <2>1. m \in Nat /\ m < Depth(Current)
      BY CurrentOK
    <2> QED BY <2>1, UndoneCurrentOK
  <1>3. CASE Run(h, Less(n), env)
    <2>1. ProofsOK(Less(n))
      BY <1>2
    <2> HIDE DEF h, Less
    <2> QED BY <1>1, <1>3, <2>1, RunType
  <1>4. ASSUME NEW m \in 0..(n - 1), Raise(h, Less(m), "interrupted")
        PROVE  TypeOK'
    <2>1. ProofsOK(Less(m)) /\ "interrupted" \in Answers
      BY <1>2 DEF Answers
    <2> HIDE DEF h, Less
    <2> QED BY <1>1, <1>4, <2>1, RaiseType
  <1> QED BY <1>3, <1>4 DEF UndoMarked

LEMMA ResetLabelType ==
  ASSUME TypeOK, NEW l, ResetLabel(l)
  PROVE  LibOK(lib') /\ env' \in SUBSET Names /\ label' \in Nat \ {0}
  <1>1. PICK i \in DOMAIN lib : /\ lib[i].label = l
                                /\ lib' = SubSeq(lib, 1, i)
                                /\ env' = lib[i].env
                                /\ label' = l
    BY DEF ResetLabel, LastFrame
  <1>2. LibOK(lib)
    BY DEF TypeOK, LibOK
  <1> DEFINE Frames == [label : Nat \ {0}, env : SUBSET Names]
  <1>3. lib \in Seq(Frames)
    BY <1>2 DEF LibOK
  <1> HIDE DEF Frames
  <1>4. i \in 1..Len(lib) /\ Len(lib) \in Nat
    BY <1>3, LenProperties
  <1>5. lib[i] \in Frames
    BY <1>3, <1>4, ElementOfSeq
  <1>6. \A j \in 1..i : lib[j] \in Frames
    BY <1>3, <1>4, ElementOfSeq
  <1>7. SubSeq(lib, 1, i) \in Seq(Frames)
    BY <1>4, <1>6, SubSeqProperties
  <1> QED BY <1>1, <1>5, <1>7 DEF LibOK, Frames

LEMMA GoToType ==
  ASSUME TypeOK, NEW l \in Nat \ {0}, GoTo(l)
  PROVE  /\ LibOK(lib') /\ env' \in SUBSET Names /\ label' \in Nat \ {0}
         /\ load' \in {"no", "atomic", "each"} /\ answer' \in Answers
  <1>1. ResetLabel(l) \/ (label' = l /\ UNCHANGED <<env, lib>>)
    BY DEF GoTo
  <1>2. LibOK(lib') /\ env' \in SUBSET Names /\ label' \in Nat \ {0}
    <2>1. CASE ResetLabel(l)
      BY <2>1, ResetLabelType
    <2>2. CASE label' = l /\ UNCHANGED <<env, lib>>
      BY <2>2 DEF TypeOK, LibOK
    <2> QED BY <1>1, <2>1, <2>2
  <1>3. load' \in {"no", "atomic", "each"} /\ answer' \in Answers
    BY DEF GoTo, TypeOK, Navigated, Answers
  <1> QED BY <1>2, <1>3

LEMMA RawBacktrackType ==
  ASSUME TypeOK, NEW h, HistoryOK(h), NEW l \in Nat \ {0}, NEW d \in Nat, NEW ps, ProofsOK(ps),
         RawBacktrack(h, l, d, ps)
  PROVE  TypeOK'
  <1>1. CanUndoTo(ps, d) => ProofsOK(UndoneTo(ps, d))
    BY UndoneToOK DEF CanUndoTo
  <1>2. CASE CanUndoTo(ps, d) /\ CanReset(l)
    <2>1. /\ hist' = h
          /\ proofs' = UndoneTo(ps, d)
          /\ GoTo(l)
      BY <1>2 DEF RawBacktrack
    <2> QED BY <1>1, <1>2, <2>1, GoToType DEF TypeOK, LibOK
  <1>3. CASE ~(CanUndoTo(ps, d) /\ CanReset(l))
    <2> DEFINE back == IF CanUndoTo(ps, d) THEN UndoneTo(ps, d) ELSE ps
    <2>1. ProofsOK(back) /\ "failed" \in Answers
      BY <1>1 DEF Answers
    <2>2. Raise(h, back, "failed")
      BY <1>3 DEF RawBacktrack
    <2> HIDE DEF back
    <2> QED BY <2>1, <2>2, RaiseType
  <1> QED BY <1>2, <1>3

LEMMA EntryType ==
  ASSUME TypeOK, NEW t \in 1..Len(hist)
  PROVE  /\ hist[t] \in Entry /\ hist[t].label \in Nat \ {0}
         /\ hist[t].nproofs \in Nat /\ hist[t].prfdepth \in Nat
         /\ hist[t].nproofs = 0 <=> hist[t].prfdepth = 0
         /\ HistoryOK(SubSeq(hist, 1, t))
         /\ ProofsOK(Kept(proofs, hist[t].nproofs))
  <1>1. hist[t] \in Entry /\ (hist[t].nproofs = 0 <=> hist[t].prfdepth = 0)
    BY DEF TypeOK, HistoryOK
  <1>2. hist[t].nproofs \in Nat /\ hist[t].prfdepth \in Nat /\ hist[t].label \in Nat \ {0}
    BY <1>1 DEF Entry
  <1>3. HistoryOK(SubSeq(hist, 1, t))
    BY CutOK DEF TypeOK, HistoryOK
  <1>4. ProofsOK(Kept(proofs, hist[t].nproofs))
    BY <1>2, KeptOK DEF TypeOK
  <1> QED BY <1>1, <1>2, <1>3, <1>4

LEMMA SyncType ==
  ASSUME TypeOK, NEW n \in 0..Len(hist), Sync(n)
  PROVE  TypeOK'
  <1>1. PICK t \in 1..n : RawBacktrack(SubSeq(hist, 1, t), hist[t].label, hist[t].prfdepth,
                                       Kept(proofs, hist[t].nproofs))
    BY DEF Sync
  <1>2. t \in 1..Len(hist)
    BY DEF TypeOK, HistoryOK
  <1> QED BY <1>1, <1>2, EntryType, RawBacktrackType

LEMMA SyncInterruptedType ==
  ASSUME TypeOK, NEW n \in 0..Len(hist), SyncInterrupted(n)
  PROVE  TypeOK'
  <1>1. PICK t \in 1..n :
          /\ answer' = "interrupted" /\ load' = "no" /\ UNCHANGED <<env, lib, label>>
          /\ \/ /\ \E i \in t..Len(hist) : hist' = SubSeq(hist, 1, i)
                /\ UNCHANGED proofs
             \/ /\ hist' = SubSeq(hist, 1, t)
                /\ \/ \E m \in hist[t].nproofs..Len(proofs) : proofs' = Kept(proofs, m)
                   \/ LET ps == Kept(proofs, hist[t].nproofs)
                      IN  /\ ps # <<>>
                          /\ \E d \in hist[t].prfdepth..Depth(Top(ps)) :
                               proofs' = UndoneTo(ps, d)
    BY DEF SyncInterrupted
  <1>2. t \in 1..Len(hist) /\ Len(hist) \in Nat
    BY DEF TypeOK, HistoryOK
  <1>3. ASSUME NEW i \in t..Len(hist)
        PROVE  HistoryOK(SubSeq(hist, 1, i))
    BY <1>2, CutOK DEF TypeOK
  <1>4. HistoryOK(hist')
    <2>1. \E i \in t..Len(hist) : hist' = SubSeq(hist, 1, i)
      <3>1. t \in t..Len(hist)
        BY <1>2
      <3> QED BY <1>1, <3>1
    <2> QED BY <1>3, <2>1
  <1>5. ProofsOK(proofs')
    <2>1. CASE UNCHANGED proofs
      BY <2>1 DEF TypeOK, ProofsOK
    <2>2. ASSUME NEW m \in hist[t].nproofs..Len(proofs), proofs' = Kept(proofs, m)
          PROVE  ProofsOK(proofs')
      <3>1. m \in Nat
        BY <1>2, EntryType
      <3> QED BY <2>2, <3>1, KeptOK DEF TypeOK
    <2>3. ASSUME NEW ps, ps = Kept(proofs, hist[t].nproofs), ps # <<>>,
                 NEW d \in hist[t].prfdepth..Depth(Top(ps)), proofs' = UndoneTo(ps, d)
          PROVE  ProofsOK(proofs')
      <3>1. ProofsOK(ps) /\ hist[t].nproofs \in Nat /\ hist[t].prfdepth \in Nat
        BY <1>2, <2>3, EntryType
      <3>2. hist[t].nproofs # 0
        <4>1. SUFFICES ASSUME hist[t].nproofs = 0 PROVE FALSE
          OBVIOUS
        <4>2. Len(ps) = 0
          BY <2>3, <3>1, <4>1, KeptOK, LenProperties DEF TypeOK, ProofsOK
        <4> QED BY <2>3, <3>1, <4>2, EmptySeq DEF ProofsOK
      <3>3. d \in Nat /\ d # 0
        BY <1>2, <3>1, <3>2, EntryType
      <3> QED BY <2>3, <3>1, <3>3, UndoneToOK
    <2> QED BY <1>1, <2>1, <2>2, <2>3
  <1> QED BY <1>1, <1>4, <1>5 DEF TypeOK, Answers

LEMMA BackToLabelType ==
  ASSUME TypeOK, NEW l, BackToLabel(l)
  PROVE  TypeOK'
  <1>1. CASE AlreadyThere
    BY <1>1 DEF AlreadyThere, TypeOK, Answers
  <1>2. ASSUME NEW i \in 1..Len(hist), Sync(i) \/ SyncInterrupted(i)
        PROVE  TypeOK'
    <2>1. i \in 0..Len(hist)
      BY DEF TypeOK, HistoryOK
    <2> QED BY <1>2, <2>1, SyncType, SyncInterruptedType
  <1> QED BY <1>1, <1>2 DEF BackToLabel

LEMMA InitialOK == InitialEntry \in Entry /\ HistoryOK(<<InitialEntry>>) /\ ProofsOK(<<>>)
  <1>1. ProofsOK(<<>>) /\ FirstLabel \in Nat \ {0} /\ {} \in SUBSET Names
    BY DEF ProofsOK, FirstLabel
  <1>2. /\ InitialEntry \in Entry
        /\ InitialEntry.nproofs = 0 <=> InitialEntry.prfdepth = 0
    BY <1>1, InfoOK DEF InitialEntry
  <1> HIDE DEF InitialEntry
  <1> QED BY <1>1, <1>2 DEF HistoryOK

\* One lemma for the commands that work or fail on the current proof.
LEMMA ProofCommandType ==
  ASSUME TypeOK,
         \/ EndProof \/ EndProofFails \/ Admit \/ AdmitFails
         \/ Abort \/ AbortAll \/ Restart \/ FocusFails
  PROVE  TypeOK'
  <1> DEFINE marked(ids) == MarkUnreachable(hist, ids, 0)
  <1>1. \A ids : HistoryOK(marked(ids))
    BY MarkOK DEF TypeOK
  <1>2. HistoryOK(hist) /\ ProofsOK(proofs) /\ env \in SUBSET Names /\ "interrupted" \in Answers
    BY DEF TypeOK, Answers
  <1> HIDE DEF marked
  <1>3. proofs # <<>> => env \cup {Current.name} \in SUBSET Names
    BY <1>2, CurrentOK
  <1>4. CASE EndProof
    BY <1>1, <1>3, <1>4, DiscardedOK, RunType DEF EndProof, marked
  <1>5. CASE EndProofFails
    <2>1. PICK s \in Solved : FailWith(hist, Pushed(<<s>>))
      BY <1>5 DEF EndProofFails
    <2>2. proofs # <<>> /\ <<s>> \in Seq(ProofStates)
      BY <1>5, BacktrackAssumption DEF EndProofFails, Room, BacktrackAssumption
    <2> QED BY <1>2, <2>1, <2>2, PushedOK, FailWithType
  <1>6. ASSUME NEW e \in SUBSET Names, proofs # <<>>, Leave(e)
        PROVE  TypeOK'
    BY <1>1, <1>2, <1>6, DiscardedOK, RunType, RaiseType DEF Leave, marked
  <1>7. CASE Admit
    BY <1>3, <1>6, <1>7 DEF Admit
  <1>8. CASE AdmitFails
    BY <1>1, <1>2, <1>8, FailWithType DEF AdmitFails, marked
  <1>9. CASE Abort
    BY <1>2, <1>6, <1>9 DEF Abort
  <1>10. CASE AbortAll
    BY <1>1, <1>2, <1>10, InitialOK, RunType, RaiseType DEF AbortAll, marked
  <1>11. CASE Restart
    <2>1. Depth(Current) - 1 \in Nat /\ Depth(Current) - 1 < Depth(Current)
      BY <1>11, CurrentOK DEF Restart
    <2> QED BY <1>11, <2>1, UndoMarkedType DEF Restart
  <1>12. CASE FocusFails
    <2>1. proofs # <<>> /\ FailWith(hist, Pushed(<<Top(Current.states)>>))
      BY <1>12 DEF FocusFails, Room
    <2>2. Top(Current.states) \in ProofStates
      <3>1. Len(Current.states) \in 1..Len(Current.states)
        BY <2>1, CurrentOK
      <3> QED BY <2>1, <3>1, CurrentOK, ElementOfSeq DEF Top
    <2>3. <<Top(Current.states)>> \in Seq(ProofStates)
      BY <2>2
    <2> QED BY <1>2, <2>1, <2>3, PushedOK, FailWithType
  <1> QED BY <1>4, <1>5, <1>7, <1>8, <1>9, <1>10, <1>11, <1>12

LEMMA RegularType ==
  ASSUME TypeOK, RegularNext
  PROVE  TypeOK'
  <1>1. HistoryOK(hist) /\ ProofsOK(proofs) /\ env \in SUBSET Names /\ "failed" \in Answers
    BY DEF TypeOK, Answers
  <1>2. CASE Neutral
    BY <1>1, <1>2, RunType, RaiseType DEF Neutral
  <1>3. ASSUME NEW id \in Names, Declare(id)
        PROVE  TypeOK'
    BY <1>1, <1>3, RunType DEF Declare
  <1>4. ASSUME NEW id \in Names, StartProof(id)
        PROVE  TypeOK'
    <2>1. NewProof(id) \in Proof /\ Len(NewProof(id).states) >= 2
      BY BacktrackAssumption DEF NewProof, Proof, BacktrackAssumption
    <2>2. ProofsOK(Append(proofs, NewProof(id)))
      BY <1>1, <2>1 DEF ProofsOK
    <2> QED BY <1>1, <1>4, <2>2, RunType DEF StartProof
  <1>5. ASSUME NEW id \in Names, ResetName(id)
        PROVE  TypeOK'
    BY <1>5, BackToLabelType DEF ResetName
  <1>6. ASSUME NEW kind \in LoadKinds, LoadStart(kind)
        PROVE  TypeOK'
    BY <1>6, BacktrackAssumption DEF LoadStart, TypeOK, Answers, BacktrackAssumption
  <1>7. CASE LoadEnd
    <2>1. proofs' = proofs /\ env' = env /\ load' \in {"no", "atomic", "each"}
      BY <1>7 DEF LoadEnd
    <2>2. MarkCommand(hist, proofs, env)
      BY <1>7 DEF LoadEnd
    <2> QED BY <1>1, <2>1, <2>2, MarkCommandType
  <1>8. ASSUME NEW s \in ProofStates, NEW k \in 0..1, Solve(s, k)
        PROVE  TypeOK'
    <2>1. proofs # <<>> /\ [i \in 1..(k + 1) |-> s] \in Seq(ProofStates)
      BY <1>8 DEF Solve, Room
    <2>2. ProofsOK(Pushed([i \in 1..(k + 1) |-> s]))
      BY <2>1, PushedOK
    <2> QED BY <1>1, <1>8, <2>2, RunType DEF Solve
  <1>9. CASE \/ EndProof \/ EndProofFails \/ Admit \/ AdmitFails
             \/ Abort \/ AbortAll \/ Restart \/ FocusFails
    BY <1>9, ProofCommandType
  <1>10. ASSUME NEW n \in 1..MaxSteps, Undo(n)
         PROVE  TypeOK'
    BY <1>10, UndoMarkedType DEF Undo
  <1>11. ASSUME NEW n \in 1..MaxSteps, UndoFails(n)
         PROVE  TypeOK'
    <2>1. HistoryOK(MarkUnreachable(hist, {Current.name}, 0))
      BY <1>1, MarkOK
    <2> QED BY <1>1, <1>11, <2>1, FailWithType DEF UndoFails
  <1>12. ASSUME NEW n \in 1..MaxLabel, Back(n)
         PROVE  TypeOK'
    <2>1. Len(hist) - n \in 0..Len(hist)
      BY <1>12 DEF Back, TypeOK, HistoryOK
    <2> QED BY <1>12, <2>1, SyncType, SyncInterruptedType DEF Back
  <1>13. ASSUME NEW l \in 1..MaxLabel, BackTo(l)
         PROVE  TypeOK'
    BY <1>13, BackToLabelType DEF BackTo
  <1>14. CASE ResetInitial
    <2>1. CASE AlreadyThere
      BY <2>1 DEF AlreadyThere, TypeOK, Answers
    <2>2. CASE ~AlreadyThere
      <3>1. hist' = <<InitialEntry>> /\ proofs' = <<>> /\ GoTo(FirstLabel)
        BY <1>14, <2>2 DEF ResetInitial
      <3>2. FirstLabel \in Nat \ {0}
        BY DEF FirstLabel
      <3> QED BY <3>1, <3>2, GoToType, InitialOK DEF TypeOK, LibOK
    <2> QED BY <2>1, <2>2
  <1> QED BY <1>2, <1>3, <1>4, <1>5, <1>6, <1>7, <1>8, <1>9, <1>10, <1>11, <1>12, <1>13, <1>14
          DEF RegularNext

LEMMA PGBacktrackType ==
  ASSUME TypeOK, NEW l \in Nat \ {0}, NEW d \in Nat, NEW n \in Nat, PGBacktrack(l, d, n)
  PROVE  TypeOK'
  <1>1. HistoryOK(hist) /\ ProofsOK(<<>>) /\ Len(hist) \in Nat /\ Len(proofs) \in Nat
        /\ "failed" \in Answers
    BY InitialOK DEF TypeOK, HistoryOK, ProofsOK, Answers
  <1>2. CASE n > Len(proofs)
    <2>1. Raise(hist, <<>>, "failed")
      BY <1>2 DEF PGBacktrack
    <2> QED BY <1>1, <2>1, RaiseType
  <1>3. CASE ~(n > Len(proofs))
    <2> DEFINE ps == Discarded(proofs, n)
               back == IF CanUndoTo(ps, d) THEN UndoneTo(ps, d) ELSE ps
    <2>1. ProofsOK(ps)
      <3>1. Len(proofs) - n \in 0..Len(proofs)
        BY <1>1, <1>3
      <3> QED BY <3>1, PrefixOK DEF Discarded, TypeOK
    <2>2. ProofsOK(back)
      <3>1. CanUndoTo(ps, d) => ps = <<>> \/ d # 0
        BY DEF CanUndoTo
      <3> HIDE DEF ps
      <3> QED BY <2>1, <3>1, UndoneToOK
    <2>3. \/ Raise(hist, back, "failed")
          \/ \E i \in DOMAIN hist : RawBacktrack(SubSeq(hist, 1, i), l, d, ps)
          \/ /\ proofs' = back /\ label' = l /\ answer' = "failed"
             /\ UNCHANGED <<hist, env, lib, load>>
      BY <1>3 DEF PGBacktrack
    <2> HIDE DEF ps, back
    <2>4. CASE Raise(hist, back, "failed")
      BY <1>1, <2>2, <2>4, RaiseType
    <2>5. ASSUME NEW i \in DOMAIN hist, RawBacktrack(SubSeq(hist, 1, i), l, d, ps)
          PROVE  TypeOK'
      <3>1. HistoryOK(SubSeq(hist, 1, i))
        BY <1>1, EntryType, LenProperties DEF HistoryOK
      <3> QED BY <2>1, <2>5, <3>1, RawBacktrackType
    <2>6. CASE /\ proofs' = back /\ label' = l /\ answer' = "failed"
               /\ UNCHANGED <<hist, env, lib, load>>
      BY <1>1, <2>2, <2>6 DEF TypeOK
    <2> QED BY <2>3, <2>4, <2>5, <2>6
  <1> QED BY <1>2, <1>3

LEMMA PGBacktrackInterruptedType ==
  ASSUME TypeOK, NEW l \in Nat \ {0}, NEW d \in Nat, NEW n \in Nat,
         PGBacktrackInterrupted(l, d, n)
  PROVE  TypeOK'
  <1> DEFINE ps == Discarded(proofs, n)
  <1>1. HistoryOK(hist) /\ Len(hist) \in Nat /\ Len(proofs) \in Nat /\ "interrupted" \in Answers
    BY DEF TypeOK, HistoryOK, ProofsOK, Answers
  <1>2. ProofsOK(ps)
    <2>1. Len(proofs) - n \in 0..Len(proofs)
      BY <1>1 DEF PGBacktrackInterrupted
    <2> QED BY <2>1, PrefixOK DEF Discarded, TypeOK
  <1>3. \/ Raise(hist, ps, "interrupted")
        \/ CanUndoTo(ps, d) /\ Raise(hist, UndoneTo(ps, d), "interrupted")
        \/ /\ CanUndoTo(ps, d)
           /\ \E j \in DOMAIN hist : hist' = SubSeq(hist, 1, j)
           /\ proofs' = UndoneTo(ps, d) /\ label' = l /\ answer' = "interrupted"
           /\ UNCHANGED <<env, lib, load>>
    BY DEF PGBacktrackInterrupted
  <1> HIDE DEF ps
  <1>4. CanUndoTo(ps, d) => ProofsOK(UndoneTo(ps, d))
    BY <1>2, UndoneToOK DEF CanUndoTo
  <1>5. \A j \in DOMAIN hist : HistoryOK(SubSeq(hist, 1, j))
    BY <1>1, EntryType, LenProperties DEF HistoryOK
  <1> QED BY <1>1, <1>2, <1>3, <1>4, <1>5, RaiseType DEF TypeOK

LEMMA IrregularType ==
  ASSUME TypeOK, IrregularNext
  PROVE  TypeOK'
  <1>1. HistoryOK(hist) /\ ProofsOK(proofs) /\ env \in SUBSET Names /\ Len(proofs) \in Nat
    BY DEF TypeOK, ProofsOK
  <1>2. ASSUME NEW k \in 1..Cardinality(Names), AbortOther(k)
        PROVE  TypeOK'
    <2> DEFINE below == SubSeq(proofs, 1, k - 1)
               above == SubSeq(proofs, k + 1, Len(proofs))
    <2>1. k \in Nat /\ k >= 1 /\ k < Len(proofs)
      BY <1>2 DEF AbortOther
    <2>2. ProofsOK(below)
      <3>1. k - 1 \in 0..Len(proofs)
        BY <1>1, <2>1
      <3> QED BY <1>1, <3>1, PrefixOK
    <2>3. ProofsOK(above)
      <3>1. \A i \in (k + 1)..Len(proofs) : proofs[i] \in Proof /\ Len(proofs[i].states) >= 2
        BY <1>1, <2>1 DEF ProofsOK
      <3>2. /\ above \in Seq(Proof)
            /\ Len(above) = Len(proofs) - k
            /\ \A i \in 1..(Len(proofs) - k) : above[i] = proofs[k + i]
        BY <1>1, <2>1, <3>1, SubSeqProperties
      <3> HIDE DEF above
      <3> QED BY <1>1, <2>1, <3>1, <3>2 DEF ProofsOK
    <2> HIDE DEF below, above
    <2>4. ProofsOK(below \o above)
      BY <2>2, <2>3 DEF ProofsOK
    <2>5. HistoryOK(MarkUnreachable(hist, {proofs[k].name}, 0))
      BY <1>1, MarkOK
    <2>6. Run(MarkUnreachable(hist, {proofs[k].name}, 0), below \o above, env)
      BY <1>2 DEF AbortOther, below, above
    <2> QED BY <1>1, <2>4, <2>5, <2>6, RunType
  <1>3. ASSUME NEW id \in Names, FailLoad(id)
        PROVE  TypeOK'
    <2>1. /\ label + 1 \in Nat \ {0} /\ label + 2 \in Nat \ {0}
          /\ env \cup {id} \in SUBSET Names
          /\ LibOK(lib)
      BY DEF TypeOK, LibOK
    <2> DEFINE h == Append(hist, Info(label + 1, proofs, env \cup {id}))
    <2>2. HistoryOK(h)
      BY <1>1, <2>1, InfoOK, AppendOK
    <2> HIDE DEF h
    <2>3. HistoryOK(Append(h, Info(label + 2, proofs, env)))
      BY <1>1, <2>1, <2>2, InfoOK, AppendOK
    <2>4. LibOK(Append(lib, Frame(label + 2, env)))
      BY <1>1, <2>1, FrameOK
    <2>5. /\ UNCHANGED <<proofs, env, load>>
          /\ answer' \in Answers /\ label' \in Nat \ {0}
          /\ hist' \in {h, Append(h, Info(label + 2, proofs, env))}
          /\ lib' \in {lib, Append(lib, Frame(label + 2, env))}
      BY <1>3, <2>1 DEF FailLoad, Answers, h
    <2> QED BY <1>1, <2>1, <2>2, <2>3, <2>4, <2>5 DEF TypeOK, LibOK
  <1>4. CASE HookFails
    BY <1>1, <1>4, DiscardedOK, FailWithType DEF HookFails
  <1>5. CASE ResetInitialInterrupted
    <2>1. FirstLabel \in Nat \ {0} /\ "interrupted" \in Answers
      BY DEF FirstLabel, Answers
    <2> QED BY <1>1, <1>5, <2>1, InitialOK DEF ResetInitialInterrupted, TypeOK
  <1>6. ASSUME NEW l \in 1..MaxLabel, NEW d \in 0..MaxSteps, NEW n \in 0..Cardinality(Names),
               PGBacktrack(l, d, n) \/ PGBacktrackInterrupted(l, d, n)
        PROVE  TypeOK'
    BY <1>6, PGBacktrackType, PGBacktrackInterruptedType
  <1> QED BY <1>2, <1>3, <1>4, <1>5, <1>6 DEF IrregularNext

\* Whatever the commands, the failures and the interrupts, the types and the
\* depths are right: no proof is undone past its statement (pfedit.ml, undo).
THEOREM TypeCorrect == Spec => []TypeOK
  <1>1. Init => TypeOK
    BY InitialOK DEF Init, TypeOK, Frame, FirstLabel, Answers
  <1>2. TypeOK /\ [RegularNext \/ IrregularNext]_vars => TypeOK'
    <2>1. CASE UNCHANGED vars
      BY <2>1 DEF vars, TypeOK
    <2> QED BY <2>1, RegularType, IrregularType
  <1> QED BY <1>1, <1>2, PTL DEF Spec

-----------------------------------------------------------------------------
(* What the proof of Restorable needs of every entry of the history.       *)

\* The fields of an entry sum up its snapshot.
Faithful(e) ==
  LET qs == e.snap.proofs
  IN  /\ ProofsOK(qs)
      /\ e.nproofs = Len(qs)
      /\ qs = <<>> => e.prfname = None /\ e.prfdepth = 0 /\ e.reachable
      /\ qs # <<>> => e.prfname = Top(qs).name /\ e.prfdepth = Depth(Top(qs))

Agree(h, ps) ==
  /\ \A i \in 1..Len(h) : Faithful(h[i])
  /\ \A i \in 1..Len(h) : h[i].reachable => Restores(ps, h[i])
  /\ \A i, j \in 1..Len(h) :
       i < j /\ h[i].reachable /\ h[j].reachable => Restores(h[j].snap.proofs, h[i])

IInv == TypeOK /\ Agree(hist, proofs)

-----------------------------------------------------------------------------
(* Restores: reflexive, transitive, kept by what does not touch the proofs *)
(* of the entry.                                                           *)

LEMMA LenOK ==
  ASSUME NEW ps, ProofsOK(ps)
  PROVE  /\ Len(ps) \in Nat
         /\ DOMAIN ps = 1..Len(ps)
         /\ \A i \in 1..Len(ps) : ps[i] \in Proof /\ Len(ps[i].states) \in Nat
         /\ ps = <<>> <=> Len(ps) = 0
  <1>1. ps \in Seq(Proof)
    BY DEF ProofsOK
  <1>2. Len(ps) \in Nat /\ DOMAIN ps = 1..Len(ps)
    BY <1>1, LenProperties
  <1>3. ASSUME NEW i \in 1..Len(ps)
        PROVE  ps[i] \in Proof /\ Len(ps[i].states) \in Nat
    <2>1. ps[i] \in Proof
      BY <1>1, ElementOfSeq
    <2> QED BY <2>1, LenProperties DEF Proof
  <1> QED BY <1>1, <1>2, <1>3, EmptySeq

LEMMA RestoresOwn ==
  ASSUME NEW e, Faithful(e)
  PROVE  Restores(e.snap.proofs, e)
  <1> DEFINE qs == e.snap.proofs
  <1>1. ProofsOK(qs)
    BY DEF Faithful
  <1>2. Len(qs) \in Nat /\ \A i \in 1..Len(qs) : Len(qs[i].states) \in Nat
    BY <1>1, LenOK
  <1> QED BY <1>2 DEF Restores

LEMMA RestoresNone ==
  ASSUME NEW ps, ProofsOK(ps), NEW e, e.snap.proofs = <<>>
  PROVE  Restores(ps, e)
  <1>1. Len(ps) \in Nat /\ Len(e.snap.proofs) = 0
    BY LenOK, EmptySeq
  <1> QED BY <1>1 DEF Restores

LEMMA RestoresTransitive ==
  ASSUME NEW d, NEW e, NEW ps, Faithful(d), Faithful(e), ProofsOK(ps),
         Restores(ps, d), Restores(d.snap.proofs, e)
  PROVE  Restores(ps, e)
  <1> DEFINE qs == e.snap.proofs
             rs == d.snap.proofs
             n == Len(qs)
  <1>1. /\ Len(ps) \in Nat /\ Len(rs) \in Nat /\ n \in Nat
        /\ \A i \in 1..Len(ps) : Len(ps[i].states) \in Nat
        /\ \A i \in 1..Len(rs) : Len(rs[i].states) \in Nat
        /\ \A i \in 1..n : Len(qs[i].states) \in Nat
    BY LenOK DEF Faithful
  <1>2. /\ Len(rs) <= Len(ps)
        /\ \A i \in 1..(Len(rs) - 1) : ps[i] = rs[i]
        /\ Len(rs) # 0 =>
             /\ ps[Len(rs)].name = rs[Len(rs)].name
             /\ Len(rs[Len(rs)].states) <= Len(ps[Len(rs)].states)
             /\ \A i \in 1..Len(rs[Len(rs)].states) :
                  ps[Len(rs)].states[i] = rs[Len(rs)].states[i]
    BY DEF Restores
  <1>3. /\ n <= Len(rs)
        /\ \A i \in 1..(n - 1) : rs[i] = qs[i]
        /\ n # 0 => /\ rs[n].name = qs[n].name
                    /\ Len(qs[n].states) <= Len(rs[n].states)
                    /\ \A i \in 1..Len(qs[n].states) : rs[n].states[i] = qs[n].states[i]
    BY DEF Restores
  <1> HIDE DEF qs, rs, n
  <1>4. n <= Len(ps) /\ \A i \in 1..(n - 1) : ps[i] = qs[i]
    BY <1>1, <1>2, <1>3
  <1>5. ASSUME n # 0
        PROVE  /\ ps[n].name = qs[n].name
               /\ Len(qs[n].states) <= Len(ps[n].states)
               /\ \A i \in 1..Len(qs[n].states) : ps[n].states[i] = qs[n].states[i]
    <2>1. n \in 1..Len(rs) /\ n \in 1..Len(ps) /\ n \in 1..n
      BY <1>1, <1>2, <1>3, <1>5
    <2>2. Len(qs[n].states) \in Nat /\ Len(rs[n].states) \in Nat /\ Len(ps[n].states) \in Nat
      BY <1>1, <2>1
    <2>3. CASE n < Len(rs)
      <3>1. ps[n] = rs[n]
        BY <1>1, <1>2, <2>1, <2>3
      <3> QED BY <1>3, <1>5, <3>1
    <2>4. CASE n = Len(rs)
      BY <1>2, <1>3, <1>5, <2>2, <2>4
    <2> QED BY <1>1, <2>1, <2>3, <2>4
  <1> QED BY <1>4, <1>5 DEF Restores, qs, n

\* The proofs that count: the first ones are the same, the last grown.
LEMMA RestoresGrown ==
  ASSUME NEW ps, NEW qs, NEW e, ProofsOK(ps), ProofsOK(qs), Faithful(e), Restores(ps, e),
         Len(e.snap.proofs) <= Len(qs),
         \A i \in 1..(Len(e.snap.proofs) - 1) : qs[i] = ps[i],
         LET n == Len(e.snap.proofs)
         IN  n # 0 => /\ qs[n].name = ps[n].name
                      /\ Len(e.snap.proofs[n].states) <= Len(qs[n].states)
                      /\ \A i \in 1..Len(e.snap.proofs[n].states) :
                           qs[n].states[i] = ps[n].states[i]
  PROVE  Restores(qs, e)
  <1>1. Len(e.snap.proofs) \in Nat
    BY LenOK DEF Faithful
  <1> QED BY <1>1 DEF Restores

-----------------------------------------------------------------------------
(* Agree: kept by what each command does to the history and the proofs.     *)

LEMMA AgreeAppend ==
  ASSUME NEW h, HistoryOK(h), NEW ps, ProofsOK(ps), Agree(h, ps), NEW l, NEW e
  PROVE  Agree(Append(h, Info(l, ps, e)), ps)
  <1> DEFINE x == Info(l, ps, e)
             hh == Append(h, x)
  <1>1. Faithful(x) /\ x.snap.proofs = ps
    BY DEF Faithful, Info, Snapshot
  <1>2. Restores(ps, x)
    BY <1>1, RestoresOwn
  <1>3. /\ Len(h) \in Nat /\ Len(hh) = Len(h) + 1
        /\ \A i \in 1..Len(h) : hh[i] = h[i]
        /\ hh[Len(h) + 1] = x
    BY DEF HistoryOK
  <1> HIDE DEF x, hh
  <1>4. \A i \in 1..Len(hh) : i \in 1..Len(h) \/ i = Len(h) + 1
    BY <1>3
  <1>5. \A i, j \in 1..Len(hh) : i < j => i \in 1..Len(h)
    BY <1>3
  <1>6. \A i \in 1..Len(hh) : Faithful(hh[i]) /\ (hh[i].reachable => Restores(ps, hh[i]))
    BY <1>1, <1>2, <1>3, <1>4 DEF Agree
  <1>7. ASSUME NEW i \in 1..Len(hh), NEW j \in 1..Len(hh), i < j,
               hh[i].reachable, hh[j].reachable
        PROVE  Restores(hh[j].snap.proofs, hh[i])
    <2>1. i \in 1..Len(h) /\ hh[i] = h[i] /\ h[i].reachable
      BY <1>3, <1>5, <1>7
    <2>2. CASE j = Len(h) + 1
      BY <1>1, <1>3, <2>1, <2>2 DEF Agree
    <2>3. CASE j \in 1..Len(h)
      BY <1>3, <1>7, <2>1, <2>3 DEF Agree
    <2> QED BY <1>4, <2>2, <2>3
  <1>8. Agree(hh, ps)
    BY <1>6, <1>7 DEF Agree
  <1> QED BY <1>8 DEF hh, x

LEMMA AgreePrefix ==
  ASSUME NEW h, HistoryOK(h), NEW ps, Agree(h, ps), NEW n \in 0..Len(h)
  PROVE  Agree(SubSeq(h, 1, n), ps)
  <1> DEFINE hh == SubSeq(h, 1, n)
  <1>1. /\ Len(hh) = n
        /\ \A i \in 1..n : hh[i] = h[i] /\ i \in 1..Len(h)
    BY DEF HistoryOK
  <1> HIDE DEF hh
  <1>2. Agree(hh, ps)
    BY <1>1 DEF Agree
  <1> QED BY <1>2 DEF hh

\* Other proofs that restore every reachable entry.
LEMMA AgreeWith ==
  ASSUME NEW h, NEW ps, Agree(h, ps), NEW qs,
         \A i \in 1..Len(h) : h[i].reachable => Restores(qs, h[i])
  PROVE  Agree(h, qs)
  BY DEF Agree

\* Going back to the reachable entry t, with proofs that restore it.
LEMMA AgreeCut ==
  ASSUME NEW h, HistoryOK(h), NEW ps, Agree(h, ps), NEW t \in 1..Len(h), h[t].reachable,
         NEW qs, ProofsOK(qs), Restores(qs, h[t])
  PROVE  Agree(SubSeq(h, 1, t), qs)
  <1> DEFINE hh == SubSeq(h, 1, t)
  <1>1. /\ Len(h) \in Nat /\ Len(hh) = t
        /\ \A i \in 1..t : hh[i] = h[i] /\ i \in 1..Len(h)
    BY DEF HistoryOK
  <1>2. t \in 0..Len(h)
    BY <1>1
  <1>3. Agree(hh, ps)
    BY <1>2, AgreePrefix
  <1> HIDE DEF hh
  <1>4. ASSUME NEW i \in 1..Len(hh), hh[i].reachable
        PROVE  Restores(qs, hh[i])
    <2>1. i \in 1..Len(h) /\ hh[i] = h[i]
      BY <1>1
    <2>2. CASE i = t
      BY <2>1, <2>2
    <2>3. CASE i # t
      <3>1. i < t
        BY <1>1, <2>3
      <3>2. Restores(h[t].snap.proofs, h[i]) /\ Faithful(h[t]) /\ Faithful(h[i])
        BY <1>4, <2>1, <3>1 DEF Agree
      <3> QED BY <2>1, <3>2, RestoresTransitive
    <2> QED BY <2>2, <2>3
  <1>5. Agree(hh, qs)
    BY <1>3, <1>4, AgreeWith
  <1> QED BY <1>5 DEF hh

\* No entry outside of any proof follows a reachable entry inside of one:
\* mark_unreachable does not stop too early.
LEMMA NoneAfter ==
  ASSUME NEW h, HistoryOK(h), NEW ps, Agree(h, ps), NEW i \in 1..Len(h),
         h[i].reachable, h[i].snap.proofs # <<>>
  PROVE  InProofSince(h, i)
  <1>1. SUFFICES ASSUME NEW j \in i..Len(h), h[j].prfname = None
                 PROVE  FALSE
    BY DEF InProofSince
  <1>2. Len(h) \in Nat /\ j \in 1..Len(h) /\ (j = i \/ i < j)
    BY DEF HistoryOK
  <1>3. Faithful(h[i]) /\ Faithful(h[j])
    BY <1>2 DEF Agree
  <1>4. \A k \in 1..Len(h) : Faithful(h[k]) /\ h[k].snap.proofs # <<>> => h[k].prfname # None
    <2>1. ASSUME NEW k \in 1..Len(h), Faithful(h[k]), h[k].snap.proofs # <<>>
          PROVE  h[k].prfname # None
      <3>1. Top(h[k].snap.proofs) \in Proof
        BY <2>1, TopProof DEF Faithful
      <3>2. Top(h[k].snap.proofs).name \in Names
        BY <3>1 DEF Proof
      <3> QED BY <2>1, <3>2, BacktrackAssumption DEF Faithful, BacktrackAssumption
    <2> QED BY <2>1
  <1>5. h[j].snap.proofs = <<>> /\ i < j
    BY <1>1, <1>2, <1>3, <1>4
  <1>6. h[j].reachable
    BY <1>3, <1>5 DEF Faithful
  <1>7. Restores(<<>>, h[i])
    BY <1>2, <1>5, <1>6 DEF Agree
  <1>8. Len(h[i].snap.proofs) \in Nat /\ Len(h[i].snap.proofs) # 0
    BY <1>3, LenOK DEF Faithful
  <1>9. Len(h[i].snap.proofs) <= Len(<<>>)
    BY <1>7 DEF Restores
  <1> QED BY <1>8, <1>9

\* The proofs become qs, and the entries that qs does not restore are marked.
LEMMA AgreeMark ==
  ASSUME NEW h, HistoryOK(h), NEW ps, Agree(h, ps), NEW ids, ids \subseteq Names, NEW after,
         NEW qs, ProofsOK(qs),
         \A i \in 1..Len(h) :
           h[i].reachable /\ h[i].snap.proofs # <<>>
             /\ ~(h[i].prfname \in ids /\ h[i].prfdepth > after) => Restores(qs, h[i])
  PROVE  Agree(MarkUnreachable(h, ids, after), qs)
  <1> DEFINE hh == MarkUnreachable(h, ids, after)
             marked(i) == InProofSince(h, i) /\ h[i].prfname \in ids /\ h[i].prfdepth > after
  <1>1. Len(hh) = Len(h) /\ DOMAIN h = 1..Len(h)
    BY MarkOK DEF HistoryOK
  <1>2. \A i \in 1..Len(h) : h[i] \in Entry
    BY DEF HistoryOK
  <1>3. \A i \in 1..Len(h) :
          hh[i] = IF marked(i) THEN [h[i] EXCEPT !.reachable = FALSE] ELSE h[i]
    BY <1>1 DEF MarkUnreachable
  <1> HIDE DEF hh
  <1>4. ASSUME NEW i \in 1..Len(h)
        PROVE  /\ hh[i].snap = h[i].snap /\ hh[i].nproofs = h[i].nproofs
               /\ hh[i].prfname = h[i].prfname /\ hh[i].prfdepth = h[i].prfdepth
               /\ hh[i].reachable => h[i].reachable /\ ~marked(i)
               /\ ~marked(i) => hh[i] = h[i]
    BY <1>2, <1>3 DEF Entry
  <1>5. ASSUME NEW i \in 1..Len(h)
        PROVE  Faithful(hh[i])
    <2>1. Faithful(h[i])
      BY DEF Agree
    <2>2. CASE ~marked(i)
      BY <1>4, <2>1, <2>2
    <2>3. CASE marked(i)
      <3>1. h[i].prfname # None
        BY <2>3, BacktrackAssumption DEF BacktrackAssumption
      <3>2. h[i].snap.proofs # <<>>
        BY <2>1, <3>1 DEF Faithful
      <3> HIDE DEF marked
      <3> QED BY <1>4, <2>1, <3>2 DEF Faithful
    <2> QED BY <2>2, <2>3
  <1>6. ASSUME NEW i \in 1..Len(h), hh[i].reachable
        PROVE  Restores(qs, hh[i])
    <2>1. h[i].reachable /\ ~marked(i) /\ hh[i] = h[i]
      BY <1>4, <1>6
    <2>2. CASE h[i].snap.proofs = <<>>
      BY <2>1, <2>2, RestoresNone
    <2>3. CASE h[i].snap.proofs # <<>>
      <3>1. InProofSince(h, i)
        BY <2>1, <2>3, NoneAfter
      <3> QED BY <2>1, <2>3, <3>1
    <2> QED BY <2>2, <2>3
  <1>7. ASSUME NEW i \in 1..Len(h), NEW j \in 1..Len(h), i < j, hh[i].reachable, hh[j].reachable
        PROVE  Restores(hh[j].snap.proofs, hh[i])
    <2>1. hh[i] = h[i] /\ hh[j] = h[j] /\ h[i].reachable /\ h[j].reachable
      BY <1>4, <1>7
    <2> QED BY <1>7, <2>1 DEF Agree
  <1>8. Agree(hh, qs)
    BY <1>1, <1>5, <1>6, <1>7 DEF Agree
  <1> QED BY <1>8 DEF hh

-----------------------------------------------------------------------------
(* The end of a command, whatever history and proofs it is given.          *)

LEMMA RaiseAgree ==
  ASSUME NEW h, NEW ps, Agree(h, ps), NEW a, Raise(h, ps, a)
  PROVE  Agree(hist', proofs')
  BY DEF Raise

LEMMA SucceedAgree ==
  ASSUME NEW h, HistoryOK(h), NEW ps, ProofsOK(ps), Agree(h, ps), NEW e, Succeed(h, ps, e)
  PROVE  Agree(hist', proofs')
  <1>1. proofs' = ps /\ (hist' = h \/ hist' = Append(h, Info(label + 1, ps, e)))
    BY DEF Succeed, MarkInner, MarkCommand
  <1> QED BY <1>1, AgreeAppend

LEMMA RunAgree ==
  ASSUME NEW h, HistoryOK(h), NEW ps, ProofsOK(ps), Agree(h, ps), NEW e, Run(h, ps, e)
  PROVE  Agree(hist', proofs')
  BY SucceedAgree, RaiseAgree DEF Run, Preserve, MarkInterrupted

LEMMA FailWithAgree ==
  ASSUME NEW h, HistoryOK(h), NEW ps, ProofsOK(ps), Agree(h, ps), FailWith(h, ps)
  PROVE  Agree(hist', proofs')
  BY SucceedAgree, RaiseAgree DEF FailWith

-----------------------------------------------------------------------------
(* The changes of the open proofs.                                         *)

\* More proofs, or a longer undo stack.
LEMMA RestoresMore ==
  ASSUME NEW ps, ProofsOK(ps), NEW p \in Proof, Len(p.states) >= 2, NEW e, Faithful(e),
         Restores(ps, e)
  PROVE  Restores(Append(ps, p), e)
  <1> DEFINE qs == Append(ps, p)
  <1>1. ps \in Seq(Proof) /\ Len(ps) \in Nat /\ Len(e.snap.proofs) \in Nat
    BY LenOK DEF ProofsOK, Faithful
  <1>2. Len(qs) = Len(ps) + 1 /\ \A i \in 1..Len(ps) : qs[i] = ps[i]
    BY <1>1
  <1>3. Len(e.snap.proofs) <= Len(ps)
    BY DEF Restores
  <1> HIDE DEF qs
  <1>4. Len(e.snap.proofs) # 0 => Len(e.snap.proofs) \in 1..Len(ps)
    BY <1>1, <1>3
  <1>5. \A i \in 1..(Len(e.snap.proofs) - 1) : i \in 1..Len(ps)
    BY <1>1, <1>3
  <1>6. Restores(qs, e)
    BY <1>1, <1>2, <1>3, <1>4, <1>5 DEF Restores
  <1> QED BY <1>6 DEF qs

\* The proof on top changes for p: the entries without it are restored as
\* before, those of it if p still has their states.
LEMMA RestoresTop ==
  ASSUME NEW ps, ProofsOK(ps), ps # <<>>, NEW p \in Proof, p.name = Top(ps).name,
         NEW e, Faithful(e), Restores(ps, e),
         e.nproofs = Len(ps) =>
           /\ e.prfdepth <= Depth(p)
           /\ \A i \in 1..(e.prfdepth + 1) : p.states[i] = Top(ps).states[i]
  PROVE  Restores(WithTop(ps, p), e)
  <1> DEFINE qs == WithTop(ps, p)
             n == Len(e.snap.proofs)
  <1>1. Len(ps) \in Nat /\ Len(ps) >= 1 /\ n \in Nat
    BY LenOK, TopProof DEF Faithful
  <1>2. /\ Len(qs) = Len(ps)
        /\ qs[Len(ps)] = p
        /\ \A i \in 1..Len(ps) : i # Len(ps) => qs[i] = ps[i]
    <2>1. ps \in Seq(Proof)
      BY DEF ProofsOK
    <2>2. Len(ps) \in 1..Len(ps)
      BY <1>1
    <2>3. qs = [ps EXCEPT ![Len(ps)] = p]
      BY DEF WithTop
    <2> HIDE DEF qs
    <2>4. /\ Len(qs) = Len(ps)
          /\ \A j \in 1..Len(ps) : qs[j] = IF j = Len(ps) THEN p ELSE ps[j]
      BY <2>1, <2>2, <2>3, ExceptSeq
    <2> QED BY <2>2, <2>4
  <1>3. /\ n <= Len(ps)
        /\ \A i \in 1..(n - 1) : ps[i] = e.snap.proofs[i]
        /\ n # 0 => /\ ps[n].name = e.snap.proofs[n].name
                    /\ Len(e.snap.proofs[n].states) <= Len(ps[n].states)
                    /\ \A i \in 1..Len(e.snap.proofs[n].states) :
                         ps[n].states[i] = e.snap.proofs[n].states[i]
    BY DEF Restores
  <1>4. n # 0 => Len(e.snap.proofs[n].states) \in Nat
    <2>1. ASSUME n # 0
          PROVE  Len(e.snap.proofs[n].states) \in Nat
      <3>1. n \in 1..n /\ ProofsOK(e.snap.proofs)
        BY <1>1, <2>1 DEF Faithful
      <3> QED BY <3>1, LenOK
    <2> QED BY <2>1
  <1>5. n # 0 => e.snap.proofs # <<>>
    BY EmptySeq
  <1>6. n # 0 => e.nproofs = n /\ e.prfdepth = Len(e.snap.proofs[n].states) - 1
    BY <1>5 DEF Faithful, Depth, Top
  <1>7. Len(p.states) \in Nat
    BY LenProperties DEF Proof
  <1>8. Top(ps) = ps[Len(ps)]
    BY DEF Top
  <1> HIDE DEF qs, n
  <1>9. \A i \in 1..(n - 1) : qs[i] = e.snap.proofs[i]
    BY <1>1, <1>2, <1>3
  <1>10. ASSUME n # 0
         PROVE  /\ qs[n].name = e.snap.proofs[n].name
                /\ Len(e.snap.proofs[n].states) <= Len(qs[n].states)
                /\ \A i \in 1..Len(e.snap.proofs[n].states) :
                     qs[n].states[i] = e.snap.proofs[n].states[i]
    <2>1. CASE n < Len(ps)
      <3>1. n \in 1..Len(ps) /\ n # Len(ps)
        BY <1>1, <1>10, <2>1
      <3>2. qs[n] = ps[n]
        BY <1>2, <3>1
      <3> QED BY <1>3, <1>10, <3>2
    <2>2. CASE n = Len(ps)
      <3>1. /\ e.prfdepth <= Len(p.states) - 1
            /\ \A i \in 1..(e.prfdepth + 1) : p.states[i] = ps[n].states[i]
        BY <1>6, <1>8, <1>10, <2>2 DEF Depth
      <3>2. e.prfdepth + 1 = Len(e.snap.proofs[n].states)
        BY <1>4, <1>6, <1>10
      <3>3. /\ Len(e.snap.proofs[n].states) <= Len(p.states)
            /\ \A i \in 1..Len(e.snap.proofs[n].states) : p.states[i] = ps[n].states[i]
        BY <1>4, <1>6, <1>7, <1>10, <3>1, <3>2
      <3> QED BY <1>2, <1>3, <1>8, <1>10, <2>2, <3>3
    <2> QED BY <1>1, <1>3, <2>1, <2>2
  <1>11. Restores(qs, e)
    BY <1>2, <1>3, <1>9, <1>10 DEF Restores, n
  <1> QED BY <1>11 DEF qs

\* The last proofs go: the entries that count no more than what is left.
LEMMA RestoresKept ==
  ASSUME NEW ps, ProofsOK(ps), NEW e, Faithful(e), Restores(ps, e),
         NEW m \in 0..Len(ps), e.nproofs <= m
  PROVE  Restores(SubSeq(ps, 1, m), e)
  <1> DEFINE qs == SubSeq(ps, 1, m)
             n == Len(e.snap.proofs)
  <1>1. ps \in Seq(Proof) /\ Len(ps) \in Nat /\ m \in Nat /\ n \in Nat /\ n <= m
    BY LenOK DEF ProofsOK, Faithful
  <1>2. Len(qs) = m /\ \A i \in 1..m : qs[i] = ps[i]
    BY <1>1
  <1> HIDE DEF qs, n
  <1>3. /\ n # 0 => n \in 1..m
        /\ \A i \in 1..(n - 1) : i \in 1..m
    BY <1>1
  <1>4. Restores(qs, e)
    BY <1>1, <1>2, <1>3 DEF Restores, n
  <1> QED BY <1>4 DEF qs
\* An entry of the proof on top.
LEMMA EntryOfTop ==
  ASSUME NEW ps, ProofsOK(ps), ps # <<>>, NEW e, Faithful(e), Restores(ps, e), e.nproofs = Len(ps)
  PROVE  /\ e.prfname = Top(ps).name
         /\ e.prfdepth \in Nat \ {0}
         /\ e.prfdepth <= Depth(Top(ps))
  <1> DEFINE qs == e.snap.proofs
             n == Len(qs)
  <1>1. ProofsOK(qs) /\ n = Len(ps) /\ Len(ps) \in Nat /\ Len(ps) >= 1
    BY TopProof DEF Faithful
  <1>2. qs # <<>>
    BY <1>1, EmptySeq
  <1>3. e.prfname = Top(qs).name /\ e.prfdepth = Depth(Top(qs))
    BY <1>2 DEF Faithful
  <1>4. Depth(Top(qs)) \in Nat \ {0} /\ Len(Top(qs).states) \in Nat /\ Len(Top(ps).states) \in Nat
    BY <1>1, <1>2, TopProof
  <1>5. Top(ps).name = Top(qs).name /\ Len(Top(qs).states) <= Len(Top(ps).states)
    <2>1. n # 0
      BY <1>1
    <2>2. ps[n].name = qs[n].name /\ Len(qs[n].states) <= Len(ps[n].states)
      BY <2>1 DEF Restores
    <2> QED BY <1>1, <2>2 DEF Top
  <1>6. Depth(Top(qs)) <= Depth(Top(ps))
    BY <1>4, <1>5 DEF Depth
  <1> QED BY <1>3, <1>4, <1>5, <1>6

\* n pops of the undo stack, and not past the entries of the proof on top.
LEMMA RestoresUndone ==
  ASSUME NEW ps, ProofsOK(ps), ps # <<>>, NEW n \in Nat, n < Depth(Top(ps)),
         NEW e, Faithful(e), Restores(ps, e),
         e.nproofs = Len(ps) => e.prfdepth <= Depth(Top(ps)) - n
  PROVE  Restores(WithTop(ps, Undone(Top(ps), n)), e)
  <1> DEFINE top == Top(ps)
             p == Undone(top, n)
  <1>1. top \in Proof /\ Len(top.states) \in Nat /\ top.states \in Seq(ProofStates)
    BY TopProof DEF Proof
  <1>2. /\ p \in Proof /\ p.name = top.name
        /\ p.states = SubSeq(top.states, 1, Len(top.states) - n)
        /\ Len(p.states) = Len(top.states) - n
    BY <1>1, UndoneOK
  <1>3. Depth(top) = Len(top.states) - 1 /\ Depth(p) = Len(top.states) - n - 1
    BY <1>2 DEF Depth
  <1> HIDE DEF p, top
  <1>4. ASSUME e.nproofs = Len(ps)
        PROVE  /\ e.prfdepth <= Depth(p)
               /\ \A i \in 1..(e.prfdepth + 1) : p.states[i] = top.states[i]
    <2>1. e.prfdepth \in Nat /\ e.prfdepth <= Depth(top) - n
      BY <1>4, EntryOfTop DEF top
    <2>2. e.prfdepth <= Depth(p) /\ e.prfdepth + 1 <= Len(top.states) - n
      BY <1>1, <1>3, <2>1
    <2>3. ASSUME NEW i \in 1..(e.prfdepth + 1)
          PROVE  p.states[i] = top.states[i]
      <3>1. i \in 1..(Len(top.states) - n) /\ Len(top.states) - n \in 0..Len(top.states)
        BY <1>1, <1>3, <2>1, <2>2
      <3> QED BY <1>1, <1>2, <3>1
    <2> QED BY <2>2, <2>3
  <1>5. Restores(WithTop(ps, p), e)
    BY <1>2, <1>4, RestoresTop DEF top
  <1> QED BY <1>5 DEF p, top

LEMMA RestoresUndoneTo ==
  ASSUME NEW ps, ProofsOK(ps), NEW e, Faithful(e), Restores(ps, e), e.nproofs = Len(ps),
         NEW d \in Nat, e.prfdepth <= d
  PROVE  Restores(UndoneTo(ps, d), e)
  <1>1. CASE ps = <<>> \/ Depth(Top(ps)) <= d
    BY <1>1 DEF UndoneTo
  <1>2. CASE ~(ps = <<>> \/ Depth(Top(ps)) <= d)
    <2> DEFINE n == Depth(Top(ps)) - d
    <2>1. ps # <<>> /\ Depth(Top(ps)) \in Nat /\ ~(Depth(Top(ps)) <= d)
      BY <1>2, TopProof
    <2>2. e.prfdepth \in Nat \ {0}
      BY <2>1, EntryOfTop
    <2>3. n \in Nat /\ n < Depth(Top(ps)) /\ e.prfdepth <= Depth(Top(ps)) - n
      BY <2>1, <2>2
    <2> HIDE DEF n
    <2>4. Restores(WithTop(ps, Undone(Top(ps), n)), e)
      BY <2>1, <2>3, RestoresUndone
    <2> QED BY <1>2, <2>4 DEF UndoneTo, n
  <1> QED BY <1>1, <1>2

LEMMA RestoresPushed ==
  ASSUME TypeOK, proofs # <<>>, NEW ss \in Seq(ProofStates), NEW e, Faithful(e),
         Restores(proofs, e)
  PROVE  Restores(Pushed(ss), e)
  <1> DEFINE cc == Current.states \o ss
             p == [Current EXCEPT !.states = cc]
  <1>1. /\ Current \in Proof /\ Current.states \in Seq(ProofStates) /\ Len(Current.states) \in Nat
        /\ Depth(Current) = Len(Current.states) - 1 /\ Current = Top(proofs)
    BY CurrentOK DEF Current
  <1>2. /\ cc \in Seq(ProofStates) /\ Len(cc) = Len(Current.states) + Len(ss) /\ Len(ss) \in Nat
        /\ \A i \in 1..Len(Current.states) : cc[i] = Current.states[i]
    BY <1>1, ConcatProperties, LenProperties
  <1> HIDE DEF cc
  <1>3. p \in Proof /\ p.states = cc /\ p.name = Current.name
    BY <1>1, <1>2 DEF Proof
  <1> HIDE DEF p
  <1>4. ASSUME e.nproofs = Len(proofs)
        PROVE  /\ e.prfdepth <= Depth(p)
               /\ \A i \in 1..(e.prfdepth + 1) : p.states[i] = Current.states[i]
    <2>1. e.prfdepth \in Nat /\ e.prfdepth <= Depth(Current)
      BY <1>1, <1>4, EntryOfTop DEF TypeOK
    <2>2. Depth(p) = Len(Current.states) + Len(ss) - 1
      BY <1>2, <1>3 DEF Depth
    <2>3. \A i \in 1..(e.prfdepth + 1) : i \in 1..Len(Current.states)
      BY <1>1, <2>1
    <2> QED BY <1>1, <1>2, <1>3, <2>1, <2>2, <2>3
  <1>5. Restores(WithTop(proofs, p), e)
    BY <1>1, <1>3, <1>4, RestoresTop DEF TypeOK
  <1> QED BY <1>5 DEF p, cc, Pushed
-----------------------------------------------------------------------------
(* The actions.                                                            *)

LEMMA IInvFacts ==
  ASSUME IInv
  PROVE  /\ TypeOK /\ HistoryOK(hist) /\ ProofsOK(proofs) /\ Agree(hist, proofs)
         /\ Len(hist) \in Nat
         /\ \A i \in 1..Len(hist) : Faithful(hist[i])
         /\ \A i \in 1..Len(hist) : hist[i].reachable => Restores(proofs, hist[i])
  BY DEF IInv, TypeOK, HistoryOK, Agree

LEMMA MarkedAgree ==
  ASSUME IInv, NEW ids, ids \subseteq Names, NEW after
  PROVE  /\ HistoryOK(MarkUnreachable(hist, ids, after))
         /\ Agree(MarkUnreachable(hist, ids, after), proofs)
  BY IInvFacts, AgreeMark, MarkOK

\* The steps of the proof on top are marked, and it goes.
LEMMA LeftAgree ==
  ASSUME IInv, proofs # <<>>
  PROVE  Agree(MarkUnreachable(hist, {Current.name}, 0), Discarded(proofs, 1))
  <1> DEFINE qs == Discarded(proofs, 1)
  <1>1. Len(proofs) \in Nat \ {0} /\ Len(proofs) - 1 \in 0..Len(proofs) /\ {Current.name} \subseteq Names
    BY IInvFacts, CurrentOK
  <1>2. ProofsOK(qs)
    BY IInvFacts, DiscardedOK
  <1>3. ASSUME NEW i \in 1..Len(hist), hist[i].reachable,
               ~(hist[i].prfname \in {Current.name} /\ hist[i].prfdepth > 0)
        PROVE  Restores(qs, hist[i])
    <2>1. Faithful(hist[i]) /\ Restores(proofs, hist[i])
      BY <1>3, IInvFacts
    <2>2. hist[i].nproofs \in Nat /\ hist[i].nproofs <= Len(proofs)
      BY <2>1, LenOK DEF Faithful, Restores
    <2>3. hist[i].nproofs # Len(proofs)
      BY <1>3, <2>1, IInvFacts, EntryOfTop DEF Current
    <2>4. hist[i].nproofs <= Len(proofs) - 1
      BY <1>1, <2>2, <2>3
    <2> QED BY <1>1, <2>1, <2>4, IInvFacts, RestoresKept DEF Discarded
  <1> HIDE DEF qs
  <1>4. Agree(MarkUnreachable(hist, {Current.name}, 0), qs)
    BY <1>1, <1>2, <1>3, IInvFacts, AgreeMark
  <1> QED BY <1>4 DEF qs

\* The steps of all the open proofs are marked, and they go.
LEMMA AllLeftAgree ==
  ASSUME IInv
  PROVE  /\ OpenNames(proofs) \subseteq Names
         /\ Agree(MarkUnreachable(hist, OpenNames(proofs), 0), <<>>)
  <1>1. ProofsOK(<<>>)
    BY InitialOK
  <1>2. OpenNames(proofs) \subseteq Names
    BY IInvFacts, LenOK DEF OpenNames, Proof
  <1>3. ASSUME NEW i \in 1..Len(hist), hist[i].reachable, hist[i].snap.proofs # <<>>
        PROVE  hist[i].prfname \in OpenNames(proofs) /\ hist[i].prfdepth > 0
    <2> DEFINE qs == hist[i].snap.proofs
    <2>1. ProofsOK(qs) /\ Restores(proofs, hist[i])
      BY IInvFacts, <1>3 DEF Faithful
    <2>2. Len(qs) \in Nat /\ Len(qs) >= 1 /\ Len(proofs) \in Nat /\ Top(qs) = qs[Len(qs)]
          /\ Depth(Top(qs)) \in Nat \ {0}
      BY <1>3, <2>1, IInvFacts, TopProof, LenOK
    <2>3. hist[i].prfname = Top(qs).name /\ hist[i].prfdepth = Depth(Top(qs))
      BY <1>3, IInvFacts DEF Faithful
    <2>4. Len(qs) <= Len(proofs) /\ proofs[Len(qs)].name = qs[Len(qs)].name
      BY <2>1, <2>2 DEF Restores
    <2> HIDE DEF qs
    <2>5. Len(qs) \in 1..Len(proofs)
      BY <2>2, <2>4
    <2> QED BY <2>2, <2>3, <2>4, <2>5 DEF OpenNames
  <1>4. Agree(MarkUnreachable(hist, OpenNames(proofs), 0), <<>>)
    BY <1>1, <1>2, <1>3, IInvFacts, AgreeMark
  <1> QED BY <1>2, <1>4

\* The steps to cancel are marked, and m of them at most are cancelled.
LEMMA UndoneAgree ==
  ASSUME IInv, proofs # <<>>, NEW after \in Nat, NEW m \in Nat, m + after <= Depth(Current), m < Depth(Current)
  PROVE  Agree(MarkUnreachable(hist, {Current.name}, after), WithTop(proofs, Undone(Current, m)))
  <1> DEFINE qs == WithTop(proofs, Undone(Current, m))
  <1>1. /\ ProofsOK(qs) /\ {Current.name} \subseteq Names /\ Depth(Current) \in Nat
        /\ Current = Top(proofs)
    BY IInvFacts, CurrentOK, UndoneCurrentOK DEF Current
  <1>2. ASSUME NEW i \in 1..Len(hist), hist[i].reachable,
               ~(hist[i].prfname \in {Current.name} /\ hist[i].prfdepth > after)
        PROVE  Restores(qs, hist[i])
    <2>1. Faithful(hist[i]) /\ Restores(proofs, hist[i])
      BY <1>2, IInvFacts
    <2>2. ASSUME hist[i].nproofs = Len(proofs)
          PROVE  hist[i].prfdepth <= Depth(Current) - m
      <3>1. hist[i].prfname = Current.name /\ hist[i].prfdepth \in Nat
        BY <1>1, <2>1, <2>2, IInvFacts, EntryOfTop
      <3>2. hist[i].prfdepth <= after
        BY <1>2, <3>1
      <3> QED BY <1>1, <3>1, <3>2
    <2> QED BY <1>1, <2>1, <2>2, IInvFacts, RestoresUndone
  <1> HIDE DEF qs
  <1>3. Agree(MarkUnreachable(hist, {Current.name}, after), qs)
    BY <1>1, <1>2, IInvFacts, AgreeMark
  <1> QED BY <1>3 DEF qs

LEMMA UndoMarkedAgree ==
  ASSUME IInv, proofs # <<>>, NEW n \in Nat, n < Depth(Current),
         NEW after \in Nat, n + after <= Depth(Current), UndoMarked(n, after)
  PROVE  Agree(hist', proofs')
  <1> DEFINE h == MarkUnreachable(hist, {Current.name}, after)
             Less(m) == WithTop(proofs, Undone(Current, m))
  <1>1. HistoryOK(h) /\ Depth(Current) \in Nat
    BY IInvFacts, MarkOK, CurrentOK
  <1>2. ASSUME NEW m \in 0..n
        PROVE  ProofsOK(Less(m)) /\ Agree(h, Less(m))
    <2>1. m \in Nat /\ m < Depth(Current) /\ m + after <= Depth(Current)
      BY <1>1
    <2> QED BY <2>1, IInvFacts, UndoneCurrentOK, UndoneAgree
  <1>3. Run(h, Less(n), env) \/ \E m \in 0..(n - 1) : Raise(h, Less(m), "interrupted")
    BY DEF UndoMarked
  <1>4. n \in 0..n /\ \A m \in 0..(n - 1) : m \in 0..n
    OBVIOUS
  <1> HIDE DEF h, Less
  <1> QED BY <1>1, <1>2, <1>3, <1>4, RunAgree, RaiseAgree

\* Counting as sync does, and its interrupts.
LEMMA KeptAgree ==
  ASSUME IInv, NEW t \in 1..Len(hist), hist[t].reachable, NEW m \in Nat, hist[t].nproofs <= m
  PROVE  ProofsOK(Kept(proofs, m)) /\ Restores(Kept(proofs, m), hist[t])
  <1>1. Len(proofs) \in Nat /\ Faithful(hist[t]) /\ Restores(proofs, hist[t])
    BY IInvFacts, LenOK
  <1>2. hist[t].nproofs \in Nat /\ hist[t].nproofs <= Len(proofs)
    BY <1>1, LenOK DEF Faithful, Restores
  <1> DEFINE k == IF m < Len(proofs) THEN m ELSE Len(proofs)
  <1>3. k \in 0..Len(proofs) /\ hist[t].nproofs <= k
    BY <1>1, <1>2
  <1> HIDE DEF k
  <1>4. Restores(SubSeq(proofs, 1, k), hist[t])
    BY <1>1, <1>3, IInvFacts, RestoresKept
  <1> QED BY <1>4, IInvFacts, KeptOK DEF Kept, k

LEMMA BackAgree ==
  ASSUME IInv, NEW t \in 1..Len(hist), hist[t].reachable, NEW d \in Nat, hist[t].prfdepth <= d
  PROVE  LET ps == Kept(proofs, hist[t].nproofs)
         IN  Agree(SubSeq(hist, 1, t), ps) /\ Agree(SubSeq(hist, 1, t), UndoneTo(ps, d))
  <1> DEFINE ps == Kept(proofs, hist[t].nproofs)
  <1>1. /\ Faithful(hist[t]) /\ hist[t].nproofs \in Nat /\ hist[t].prfdepth \in Nat
        /\ hist[t].nproofs = 0 <=> hist[t].prfdepth = 0
    BY IInvFacts, EntryType
  <1>2. ProofsOK(ps) /\ Restores(ps, hist[t])
    BY <1>1, KeptAgree
  <1>3. Len(ps) = hist[t].nproofs
    <2>1. hist[t].nproofs <= Len(proofs) /\ Len(proofs) \in Nat
      BY IInvFacts, LenOK DEF Faithful, Restores
    <2> QED BY <1>1, <2>1, IInvFacts, KeptOK
  <1>4. ps = <<>> \/ d # 0
    <2>1. hist[t].nproofs = 0 => ps = <<>>
      BY <1>2, <1>3, LenOK
    <2> QED BY <1>1, <2>1
  <1> HIDE DEF ps
  <1>5. ProofsOK(UndoneTo(ps, d)) /\ Restores(UndoneTo(ps, d), hist[t])
    BY <1>1, <1>2, <1>3, <1>4, UndoneToOK, RestoresUndoneTo
  <1>6. Agree(SubSeq(hist, 1, t), ps) /\ Agree(SubSeq(hist, 1, t), UndoneTo(ps, d))
    BY <1>2, <1>5, IInvFacts, AgreeCut
  <1> QED BY <1>6 DEF ps

LEMMA SyncAgree ==
  ASSUME IInv, NEW n \in 0..Len(hist), Sync(n)
  PROVE  Agree(hist', proofs')
  <1>1. PICK t \in 1..n :
          /\ LastReachable(n, t)
          /\ RawBacktrack(SubSeq(hist, 1, t), hist[t].label, hist[t].prfdepth,
                          Kept(proofs, hist[t].nproofs))
    BY DEF Sync
  <1>2. t \in 1..Len(hist) /\ hist[t].reachable
    BY <1>1, IInvFacts DEF LastReachable
  <1>3. hist[t].prfdepth \in Nat /\ hist[t].prfdepth <= hist[t].prfdepth
    BY <1>2, IInvFacts, EntryType
  <1> DEFINE ps == Kept(proofs, hist[t].nproofs)
  <1>4. Agree(SubSeq(hist, 1, t), ps) /\ Agree(SubSeq(hist, 1, t), UndoneTo(ps, hist[t].prfdepth))
    BY <1>2, <1>3, BackAgree
  <1> HIDE DEF ps
  <1>5. hist' = SubSeq(hist, 1, t) /\ proofs' \in {ps, UndoneTo(ps, hist[t].prfdepth)}
    BY <1>1 DEF RawBacktrack, Raise, ps
  <1> QED BY <1>4, <1>5

LEMMA SyncInterruptedAgree ==
  ASSUME IInv, NEW n \in 0..Len(hist), SyncInterrupted(n)
  PROVE  Agree(hist', proofs')
  <1>1. PICK t \in 1..n :
          /\ LastReachable(n, t)
          /\ \/ /\ \E i \in t..Len(hist) : hist' = SubSeq(hist, 1, i)
                /\ UNCHANGED proofs
             \/ /\ hist' = SubSeq(hist, 1, t)
                /\ \/ \E m \in hist[t].nproofs..Len(proofs) : proofs' = Kept(proofs, m)
                   \/ LET ps == Kept(proofs, hist[t].nproofs)
                      IN  /\ ps # <<>>
                          /\ \E d \in hist[t].prfdepth..Depth(Top(ps)) :
                               proofs' = UndoneTo(ps, d)
    BY DEF SyncInterrupted
  <1>2. t \in 1..Len(hist) /\ hist[t].reachable
    BY <1>1, IInvFacts DEF LastReachable
  <1>3. hist[t].prfdepth \in Nat /\ hist[t].nproofs \in Nat
    BY <1>2, IInvFacts, EntryType
  <1>4. ASSUME NEW i \in t..Len(hist), hist' = SubSeq(hist, 1, i), UNCHANGED proofs
        PROVE  Agree(hist', proofs')
    <2>1. i \in 0..Len(hist)
      BY <1>2, IInvFacts
    <2> QED BY <1>4, <2>1, IInvFacts, AgreePrefix
  <1>5. ASSUME NEW m \in hist[t].nproofs..Len(proofs), hist' = SubSeq(hist, 1, t),
               proofs' = Kept(proofs, m)
        PROVE  Agree(hist', proofs')
    <2>1. m \in Nat /\ hist[t].nproofs <= m
      BY <1>3
    <2> QED BY <1>2, <1>5, <2>1, IInvFacts, KeptAgree, AgreeCut
  <1>6. ASSUME NEW ps, ps = Kept(proofs, hist[t].nproofs), ps # <<>>,
               NEW d \in hist[t].prfdepth..Depth(Top(ps)), proofs' = UndoneTo(ps, d),
               hist' = SubSeq(hist, 1, t)
        PROVE  Agree(hist', proofs')
    <2>1. d \in Nat /\ hist[t].prfdepth <= d
      BY <1>3
    <2> QED BY <1>2, <1>6, <2>1, BackAgree
  <1> QED BY <1>1, <1>4, <1>5, <1>6

LEMMA BackToLabelAgree ==
  ASSUME IInv, NEW l, BackToLabel(l)
  PROVE  Agree(hist', proofs')
  <1>1. CASE AlreadyThere
    BY <1>1, IInvFacts DEF AlreadyThere
  <1>2. ASSUME NEW i \in 1..Len(hist), Sync(i) \/ SyncInterrupted(i)
        PROVE  Agree(hist', proofs')
    <2>1. i \in 0..Len(hist)
      BY IInvFacts
    <2> QED BY <1>2, <2>1, SyncAgree, SyncInterruptedAgree
  <1> QED BY <1>1, <1>2 DEF BackToLabel

LEMMA InitialAgree == Agree(<<InitialEntry>>, <<>>)
  <1>1. Faithful(InitialEntry) /\ InitialEntry.snap.proofs = <<>>
    BY InitialOK DEF InitialEntry, Info, Snapshot, Faithful
  <1>2. Restores(<<>>, InitialEntry)
    BY <1>1, InitialOK, RestoresNone
  <1> HIDE DEF InitialEntry
  <1>3. Len(<<InitialEntry>>) = 1 /\ <<InitialEntry>>[1] = InitialEntry
    OBVIOUS
  <1>4. \A i, j \in 1..1 : ~(i < j)
    OBVIOUS
  <1> QED BY <1>1, <1>2, <1>3, <1>4 DEF Agree

LEMMA PushedAgree ==
  ASSUME IInv, proofs # <<>>, NEW ss \in Seq(ProofStates)
  PROVE  ProofsOK(Pushed(ss)) /\ Agree(hist, Pushed(ss))
  <1>1. \A i \in 1..Len(hist) : hist[i].reachable => Restores(Pushed(ss), hist[i])
    BY IInvFacts, RestoresPushed
  <1> QED BY <1>1, IInvFacts, AgreeWith, PushedOK

\* The commands on the current proof, one step each.
LEMMA ProofCommandAgree ==
  ASSUME IInv,
         \/ EndProof \/ EndProofFails \/ Admit \/ AdmitFails
         \/ Abort \/ AbortAll \/ Restart \/ FocusFails
  PROVE  Agree(hist', proofs')
  <1> DEFINE marked == MarkUnreachable(hist, {Current.name}, 0)
             left == Discarded(proofs, 1)
  <1>1. ASSUME proofs # <<>>
        PROVE  /\ {Current.name} \subseteq Names
               /\ HistoryOK(marked) /\ Agree(marked, proofs)
               /\ ProofsOK(left) /\ Agree(marked, left)
    <2>1. {Current.name} \subseteq Names
      BY <1>1, IInvFacts, CurrentOK
    <2> QED BY <1>1, <2>1, IInvFacts, MarkedAgree, LeftAgree, DiscardedOK
  <1> HIDE DEF marked, left
  <1>2. ASSUME NEW e, proofs # <<>>, Leave(e)
        PROVE  Agree(hist', proofs')
    <2>1. Run(marked, left, e) \/ Raise(marked, proofs, "interrupted")
      BY <1>2 DEF Leave, marked, left
    <2> QED BY <1>1, <1>2, <2>1, RunAgree, RaiseAgree
  <1>3. CASE EndProof
    <2>1. proofs # <<>> /\ Run(marked, left, env \cup {Current.name})
      BY <1>3 DEF EndProof, marked, left
    <2> QED BY <1>1, <2>1, RunAgree
  <1>4. CASE EndProofFails
    <2>1. PICK s \in Solved : FailWith(hist, Pushed(<<s>>))
      BY <1>4 DEF EndProofFails
    <2>2. proofs # <<>> /\ <<s>> \in Seq(ProofStates)
      BY <1>4, BacktrackAssumption DEF EndProofFails, Room, BacktrackAssumption
    <2> QED BY <2>1, <2>2, IInvFacts, PushedAgree, FailWithAgree
  <1>5. CASE Admit
    BY <1>2, <1>5 DEF Admit
  <1>6. CASE AdmitFails
    <2>1. proofs # <<>> /\ FailWith(marked, proofs)
      BY <1>6 DEF AdmitFails, marked
    <2> QED BY <1>1, <2>1, IInvFacts, FailWithAgree
  <1>7. CASE Abort
    BY <1>2, <1>7 DEF Abort
  <1>8. CASE AbortAll
    <2> DEFINE h == MarkUnreachable(hist, OpenNames(proofs), 0)
    <2>1. HistoryOK(h) /\ Agree(h, proofs) /\ Agree(h, <<>>) /\ ProofsOK(<<>>)
      BY AllLeftAgree, MarkedAgree, InitialOK
    <2>2. Run(h, <<>>, env) \/ Raise(h, proofs, "interrupted")
      BY <1>8 DEF AbortAll
    <2> HIDE DEF h
    <2> QED BY <2>1, <2>2, RunAgree, RaiseAgree
  <1>9. CASE Restart
    <2>1. proofs # <<>> /\ UndoMarked(Depth(Current) - 1, 0) /\ Depth(Current) \in Nat \ {0}
      BY <1>9, IInvFacts, CurrentOK DEF Restart
    <2>2. /\ Depth(Current) - 1 \in Nat /\ Depth(Current) - 1 < Depth(Current)
          /\ (Depth(Current) - 1) + 0 <= Depth(Current) /\ 0 \in Nat
      BY <2>1
    <2> QED BY <2>1, <2>2, UndoMarkedAgree
  <1>10. CASE FocusFails
    <2>1. proofs # <<>> /\ FailWith(hist, Pushed(<<Top(Current.states)>>))
      BY <1>10 DEF FocusFails, Room
    <2>2. Top(Current.states) \in ProofStates
      <3>1. Len(Current.states) \in 1..Len(Current.states) /\ Current.states \in Seq(ProofStates)
        BY <2>1, IInvFacts, CurrentOK
      <3> QED BY <3>1, ElementOfSeq DEF Top
    <2>3. <<Top(Current.states)>> \in Seq(ProofStates)
      BY <2>2
    <2> QED BY <2>1, <2>3, IInvFacts, PushedAgree, FailWithAgree
  <1> QED BY <1>3, <1>4, <1>5, <1>6, <1>7, <1>8, <1>9, <1>10

LEMMA RegularAgree ==
  ASSUME IInv, RegularNext
  PROVE  Agree(hist', proofs')
  <1>1. CASE Neutral
    BY <1>1, IInvFacts, RunAgree, RaiseAgree DEF Neutral
  <1>2. ASSUME NEW id \in Names, Declare(id)
        PROVE  Agree(hist', proofs')
    BY <1>2, IInvFacts, RunAgree DEF Declare
  <1>3. ASSUME NEW id \in Names, StartProof(id)
        PROVE  Agree(hist', proofs')
    <2> DEFINE qs == Append(proofs, NewProof(id))
    <2>1. NewProof(id) \in Proof /\ Len(NewProof(id).states) >= 2
      BY BacktrackAssumption DEF NewProof, Proof, BacktrackAssumption
    <2>2. ProofsOK(qs)
      BY <2>1, IInvFacts DEF ProofsOK
    <2>3. \A i \in 1..Len(hist) : hist[i].reachable => Restores(qs, hist[i])
      BY <2>1, IInvFacts, RestoresMore
    <2>4. Run(hist, qs, env)
      BY <1>3 DEF StartProof
    <2> HIDE DEF qs
    <2> QED BY <2>2, <2>3, <2>4, IInvFacts, AgreeWith, RunAgree
  <1>4. ASSUME NEW id \in Names, ResetName(id)
        PROVE  Agree(hist', proofs')
    BY <1>4, BackToLabelAgree DEF ResetName
  <1>5. ASSUME NEW kind \in LoadKinds, LoadStart(kind)
        PROVE  Agree(hist', proofs')
    BY <1>5, IInvFacts DEF LoadStart
  <1>6. CASE LoadEnd
    <2>1. hist' = Append(hist, Info(label + 1, proofs, env)) /\ proofs' = proofs
      BY <1>6 DEF LoadEnd, MarkCommand
    <2> QED BY <2>1, IInvFacts, AgreeAppend
  <1>7. ASSUME NEW s \in ProofStates, NEW k \in 0..1, Solve(s, k)
        PROVE  Agree(hist', proofs')
    <2> DEFINE ss == [i \in 1..(k + 1) |-> s]
    <2>1. proofs # <<>> /\ ss \in Seq(ProofStates) /\ Run(hist, Pushed(ss), env)
      BY <1>7 DEF Solve, Room
    <2> HIDE DEF ss
    <2> QED BY <2>1, IInvFacts, PushedAgree, RunAgree
  <1>8. CASE \/ EndProof \/ EndProofFails \/ Admit \/ AdmitFails
             \/ Abort \/ AbortAll \/ Restart \/ FocusFails
    BY <1>8, ProofCommandAgree
  <1>9. ASSUME NEW n \in 1..MaxSteps, Undo(n)
        PROVE  Agree(hist', proofs')
    <2>1. proofs # <<>> /\ n < Depth(Current) /\ UndoMarked(n, Depth(Current) - n)
          /\ Depth(Current) \in Nat
      BY <1>9, IInvFacts, CurrentOK DEF Undo
    <2>2. n \in Nat /\ Depth(Current) - n \in Nat /\ n + (Depth(Current) - n) <= Depth(Current)
      BY <2>1, BacktrackAssumption DEF BacktrackAssumption
    <2> QED BY <2>1, <2>2, UndoMarkedAgree
  <1>10. ASSUME NEW n \in 1..MaxSteps, UndoFails(n)
         PROVE  Agree(hist', proofs')
    <2>1. proofs # <<>> /\ FailWith(MarkUnreachable(hist, {Current.name}, 0), proofs)
      BY <1>10 DEF UndoFails
    <2>2. {Current.name} \subseteq Names
      BY <2>1, IInvFacts, CurrentOK
    <2> QED BY <2>1, <2>2, IInvFacts, MarkedAgree, FailWithAgree
  <1>11. ASSUME NEW n \in 1..MaxLabel, Back(n)
         PROVE  Agree(hist', proofs')
    <2>1. Len(hist) - n \in 0..Len(hist)
      BY <1>11, IInvFacts DEF Back
    <2> QED BY <1>11, <2>1, SyncAgree, SyncInterruptedAgree DEF Back
  <1>12. ASSUME NEW l \in 1..MaxLabel, BackTo(l)
         PROVE  Agree(hist', proofs')
    BY <1>12, BackToLabelAgree DEF BackTo
  <1>13. CASE ResetInitial
    <2>1. CASE AlreadyThere
      BY <2>1, IInvFacts DEF AlreadyThere
    <2>2. CASE ~AlreadyThere
      <3>1. hist' = <<InitialEntry>> /\ proofs' = <<>>
        BY <1>13, <2>2 DEF ResetInitial
      <3> QED BY <3>1, InitialAgree
    <2> QED BY <2>1, <2>2
  <1> QED BY <1>1, <1>2, <1>3, <1>4, <1>5, <1>6, <1>7, <1>8, <1>9, <1>10, <1>11, <1>12, <1>13
          DEF RegularNext

\* Backtracking by counting is right: whatever regular commands are run, fail
\* or are interrupted, the proofs of every entry tagged reachable can be had
\* back by aborting the extra ones and popping one undo stack (sync).
THEOREM RestorableAlways == RegularSpec => []Restorable
  <1>1. Init => IInv
    <2>1. SUFFICES ASSUME Init PROVE IInv
      OBVIOUS
    <2>2. TypeOK
      BY <2>1, InitialOK DEF Init, TypeOK, Frame, FirstLabel, Answers
    <2> QED BY <2>1, <2>2, InitialAgree DEF Init, IInv
  <1>2. IInv /\ [RegularNext]_vars => IInv'
    <2>1. SUFFICES ASSUME IInv, [RegularNext]_vars PROVE IInv'
      OBVIOUS
    <2>2. CASE RegularNext
      BY <2>1, <2>2, RegularType, RegularAgree DEF IInv
    <2>3. CASE UNCHANGED vars
      BY <2>1, <2>3 DEF vars, IInv, TypeOK
    <2> QED BY <2>1, <2>2, <2>3
  <1>3. IInv => Restorable
    <2>1. SUFFICES ASSUME IInv PROVE Restorable
      OBVIOUS
    <2>2. DOMAIN hist = 1..Len(hist)
      BY <2>1 DEF IInv, TypeOK, HistoryOK
    <2> QED BY <2>1, <2>2, IInvFacts DEF Restorable
  <1> QED BY <1>1, <1>2, <1>3, PTL DEF RegularSpec
=============================================================================
