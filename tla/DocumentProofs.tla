-------------------------- MODULE DocumentProofs ---------------------------
(***************************************************************************)
(* The history, the proofs and the library together: going back to a       *)
(* recorded command finds its place in all three stacks, and the session   *)
(* of module Backtrack implements the document of module Document, for     *)
(* every value of the constants.                                           *)
(*                                                                         *)
(* Most commands do one of three things to the history and the library:    *)
(* nothing but cut or tag (Quiet), one entry and one label more            *)
(* (Recorded), the return to a reachable entry (Returned), or its start,   *)
(* without the library (Stranded).  The proofs below first sort the steps  *)
(* of RegularNext into these four, then show each invariant kept by each.  *)
(***************************************************************************)
EXTENDS BacktrackProofs

\* The history g is what is left of h: its first entries, those of a proof
\* possibly tagged unreachable.
Lowers(h, g) ==
  /\ Len(g) \in 1..Len(h)
  /\ \A i \in 1..Len(g) :
       \/ g[i] = h[i]
       \/ h[i].prfname # None /\ g[i] = [h[i] EXCEPT !.reachable = FALSE]

\* A step that records nothing: a label may be taken, or put in the library.
Quiet ==
  /\ Lowers(hist, hist')
  /\ answer' \in Answers \ {"ok"}
  /\ label' \in {label, label + 1}
  /\ \/ lib' = lib
     \/ label' = label + 1 /\ \E e \in SUBSET Names : lib' = Append(lib, Frame(label + 1, e))

\* A step that records the state it leads to.
Recorded ==
  /\ \E h : /\ Lowers(hist, h) /\ Len(h) = Len(hist) /\ HistoryOK(h)
            /\ hist' = Append(h, Info(label + 1, proofs', env'))
  /\ lib' = Append(lib, Frame(label + 1, env'))
  /\ label' = label + 1
  /\ answer' = "ok"

\* A step back to the entry t.
Returned(t) ==
  /\ hist[t].reachable
  /\ hist' = SubSeq(hist, 1, t)
  /\ proofs' = UndoneTo(Kept(proofs, hist[t].nproofs), hist[t].prfdepth)
  /\ ResetLabel(hist[t].label)
  /\ answer' \in {"ok", "done", "interrupted"}

\* A step back to the entry t, but for the library, which an interrupt has
\* restored: the label is there and the declarations are not.
Stranded(t) ==
  /\ hist' = SubSeq(hist, 1, t)
  /\ label' = hist[t].label
  /\ UNCHANGED lib
  /\ answer' = "interrupted"

\* The entries and the labels at the bottom, with what keeps them apart from
\* the others: no other entry and no other frame has the first label.
BottomOnly ==
  /\ BottomEntry
  /\ \A i \in 1..Len(hist) : i # 1 => hist[i].label # FirstLabel

-----------------------------------------------------------------------------
(* What is left of a history. *)

LEMMA LowersFacts ==
  ASSUME NEW h, HistoryOK(h), NEW g, Lowers(h, g), NEW i \in 1..Len(g)
  PROVE  /\ i \in 1..Len(h) /\ h[i] \in Entry
         /\ g[i].label = h[i].label
         /\ g[i].snap = h[i].snap
         /\ g[i].reachable => h[i].reachable
         /\ h[i].prfname = None => g[i] = h[i]
  <1>1. Len(h) \in Nat /\ i \in 1..Len(h) /\ i \in DOMAIN h
    BY DEF Lowers, HistoryOK
  <1>2. h[i] \in Entry
    BY <1>1 DEF HistoryOK
  <1>3. CASE g[i] = h[i]
    BY <1>1, <1>2, <1>3
  <1>4. CASE h[i].prfname # None /\ g[i] = [h[i] EXCEPT !.reachable = FALSE]
    BY <1>1, <1>2, <1>4 DEF Entry
  <1> QED BY <1>3, <1>4 DEF Lowers

LEMMA LowersSame ==
  ASSUME NEW h, HistoryOK(h), h # <<>>
  PROVE  Lowers(h, h)
  <1>1. Len(h) \in Nat /\ Len(h) # 0
    BY EmptySeq DEF HistoryOK
  <1> QED BY <1>1 DEF Lowers

LEMMA LowersPrefix ==
  ASSUME NEW h, HistoryOK(h), NEW n \in 1..Len(h)
  PROVE  Lowers(h, SubSeq(h, 1, n))
  <1> DEFINE g == SubSeq(h, 1, n)
  <1>1. Len(g) = n /\ \A i \in 1..n : g[i] = h[i]
    BY DEF HistoryOK
  <1> HIDE DEF g
  <1>2. Lowers(h, g)
    BY <1>1 DEF Lowers
  <1> QED BY <1>2 DEF g

LEMMA LowersMark ==
  ASSUME NEW h, HistoryOK(h), h # <<>>, NEW ids, NEW after
  PROVE  Lowers(h, MarkUnreachable(h, ids, after))
  <1> DEFINE g == MarkUnreachable(h, ids, after)
  <1>1. Len(h) \in Nat /\ Len(h) # 0 /\ DOMAIN h = 1..Len(h)
    BY EmptySeq DEF HistoryOK
  <1>2. Len(g) = Len(h)
    BY MarkOK
  <1>3. ASSUME NEW i \in 1..Len(h)
        PROVE  \/ g[i] = h[i]
               \/ h[i].prfname # None /\ g[i] = [h[i] EXCEPT !.reachable = FALSE]
    <2>1. \/ g[i] = h[i]
          \/ InProofSince(h, i) /\ g[i] = [h[i] EXCEPT !.reachable = FALSE]
      BY <1>1 DEF MarkUnreachable
    <2>2. InProofSince(h, i) => h[i].prfname # None
      <3>1. i \in i..Len(h)
        BY <1>1
      <3> QED BY <3>1 DEF InProofSince
    <2> QED BY <2>1, <2>2
  <1> HIDE DEF g
  <1>4. Lowers(h, g)
    BY <1>1, <1>2, <1>3 DEF Lowers
  <1> QED BY <1>4 DEF g

-----------------------------------------------------------------------------
(* The end of a command is quiet, or records. *)

LEMMA RaiseShape ==
  ASSUME NEW h, Lowers(hist, h), NEW ps, NEW a \in Answers \ {"ok"}, Raise(h, ps, a)
  PROVE  Quiet
  BY DEF Raise, Quiet

LEMMA SucceedShape ==
  ASSUME NEW h, HistoryOK(h), Lowers(hist, h), Len(h) = Len(hist), NEW ps,
         NEW e \in SUBSET Names, Succeed(h, ps, e)
  PROVE  Quiet \/ Recorded
  <1>1. CASE MarkCommand(h, ps, e)
    BY <1>1 DEF Succeed, MarkCommand, Recorded
  <1>2. CASE hist' = h /\ answer' = "done" /\ UNCHANGED <<label, lib>>
    BY <1>2 DEF Quiet, Answers
  <1>3. CASE /\ hist' = h /\ answer' = "done" /\ label' = label + 1
             /\ lib' = Append(lib, Frame(label + 1, e))
    BY <1>3 DEF Quiet, Answers
  <1> QED BY <1>1, <1>2, <1>3 DEF Succeed, MarkInner

LEMMA RunShape ==
  ASSUME NEW h, HistoryOK(h), Lowers(hist, h), Len(h) = Len(hist), NEW ps,
         NEW e \in SUBSET Names, Run(h, ps, e)
  PROVE  Quiet \/ Recorded
  <1>1. {"done", "unfailed", "interrupted"} \subseteq Answers \ {"ok"}
    BY DEF Answers
  <1>2. CASE Preserve(h, ps, e)
    BY <1>1, <1>2 DEF Preserve, Quiet
  <1>3. CASE MarkInterrupted(h, ps, e)
    BY <1>1, <1>3 DEF MarkInterrupted, Quiet
  <1> QED BY <1>1, <1>2, <1>3, SucceedShape, RaiseShape DEF Run

LEMMA FailWithShape ==
  ASSUME TypeOK, NEW h, HistoryOK(h), Lowers(hist, h), Len(h) = Len(hist), NEW ps,
         FailWith(h, ps)
  PROVE  Quiet \/ Recorded
  <1>1. "failed" \in Answers \ {"ok"} /\ env \in SUBSET Names
    BY DEF Answers, TypeOK
  <1> QED BY <1>1, SucceedShape, RaiseShape DEF FailWith

-----------------------------------------------------------------------------
(* The regular actions are quiet, record, or return. *)

Sorted == Quiet \/ Recorded \/ \E t \in 1..Len(hist) : Returned(t) \/ Stranded(t)

LEMMA BottomFacts ==
  ASSUME TypeOK, BottomOnly
  PROVE  /\ Len(hist) \in Nat /\ 1 \in 1..Len(hist) /\ hist # <<>> /\ HistoryOK(hist)
         /\ hist[1] = InitialEntry
         /\ Len(lib) \in Nat /\ DOMAIN lib = 1..Len(lib) /\ 1 \in 1..Len(lib)
         /\ lib[1] = Frame(FirstLabel, {})
         /\ Lowers(hist, hist)
         /\ env \in SUBSET Names
  <1>1. Len(hist) \in Nat /\ HistoryOK(hist) /\ hist # <<>> /\ Len(lib) \in Nat /\ lib # <<>>
    BY DEF TypeOK, HistoryOK, BottomOnly, BottomEntry
  <1>2. Len(hist) # 0 /\ Len(lib) # 0
    BY <1>1, EmptySeq DEF TypeOK, HistoryOK
  <1> QED BY <1>1, <1>2, LowersSame DEF BottomOnly, BottomEntry, TypeOK

LEMMA MarkedShape ==
  ASSUME TypeOK, BottomOnly, NEW ids, NEW after
  PROVE  /\ HistoryOK(MarkUnreachable(hist, ids, after))
         /\ Lowers(hist, MarkUnreachable(hist, ids, after))
         /\ Len(MarkUnreachable(hist, ids, after)) = Len(hist)
  BY BottomFacts, MarkOK, LowersMark

LEMMA UndoMarkedShape ==
  ASSUME TypeOK, BottomOnly, NEW n, NEW after, UndoMarked(n, after)
  PROVE  Quiet \/ Recorded
  <1> DEFINE h == MarkUnreachable(hist, {Current.name}, after)
             Less(m) == WithTop(proofs, Undone(Current, m))
  <1>1. HistoryOK(h) /\ Lowers(hist, h) /\ Len(h) = Len(hist) /\ env \in SUBSET Names
    BY MarkedShape, BottomFacts
  <1>2. Run(h, Less(n), env) \/ \E m \in 0..(n - 1) : Raise(h, Less(m), "interrupted")
    BY DEF UndoMarked
  <1>3. "interrupted" \in Answers \ {"ok"}
    BY DEF Answers
  <1> HIDE DEF h, Less
  <1> QED BY <1>1, <1>2, <1>3, RunShape, RaiseShape

LEMMA AlreadyThereShape ==
  ASSUME TypeOK, BottomOnly, AlreadyThere
  PROVE  Quiet
  BY BottomFacts DEF AlreadyThere, Quiet, Answers

LEMMA SyncShape ==
  ASSUME TypeOK, BottomOnly, NEW n \in 0..Len(hist), Sync(n)
  PROVE  Sorted
  <1>1. PICK t \in 1..n :
          /\ LastReachable(n, t)
          /\ RawBacktrack(SubSeq(hist, 1, t), hist[t].label, hist[t].prfdepth,
                          Kept(proofs, hist[t].nproofs))
    BY DEF Sync
  <1>2. t \in 1..Len(hist) /\ hist[t].reachable
    BY <1>1, BottomFacts DEF LastReachable
  <1> DEFINE ps == Kept(proofs, hist[t].nproofs)
             d == hist[t].prfdepth
             l == hist[t].label
  <1>3. CASE CanUndoTo(ps, d) /\ CanReset(l)
    <2>1. hist' = SubSeq(hist, 1, t) /\ proofs' = UndoneTo(ps, d) /\ GoTo(l)
      BY <1>1, <1>3 DEF RawBacktrack
    <2>2. CASE ResetLabel(l)
      <3>1. answer' \in {"ok", "done", "interrupted"}
        BY <2>1 DEF GoTo, Navigated
      <3> QED BY <1>2, <2>1, <2>2, <3>1 DEF Returned, Sorted
    <2>3. CASE ~ResetLabel(l)
      BY <1>2, <2>1, <2>3 DEF GoTo, Stranded, Sorted
    <2> QED BY <2>2, <2>3
  <1>4. CASE ~(CanUndoTo(ps, d) /\ CanReset(l))
    <2> DEFINE qs == IF CanUndoTo(ps, d) THEN UndoneTo(ps, d) ELSE ps
    <2>1. Raise(SubSeq(hist, 1, t), qs, "failed")
      BY <1>1, <1>4 DEF RawBacktrack
    <2>2. Lowers(hist, SubSeq(hist, 1, t)) /\ "failed" \in Answers \ {"ok"}
      BY <1>2, BottomFacts, LowersPrefix DEF Answers
    <2> HIDE DEF qs
    <2> QED BY <2>1, <2>2, RaiseShape DEF Sorted
  <1> QED BY <1>3, <1>4

LEMMA SyncInterruptedShape ==
  ASSUME TypeOK, BottomOnly, NEW n \in 0..Len(hist), SyncInterrupted(n)
  PROVE  Quiet
  <1>1. PICK t \in 1..n :
          /\ answer' = "interrupted"
          /\ UNCHANGED <<env, lib, label>>
          /\ (\E i \in t..Len(hist) : hist' = SubSeq(hist, 1, i)) \/ hist' = SubSeq(hist, 1, t)
    BY DEF SyncInterrupted
  <1>2. PICK i \in 1..Len(hist) : hist' = SubSeq(hist, 1, i)
    <2>1. t \in 1..Len(hist) /\ \A i \in t..Len(hist) : i \in 1..Len(hist)
      BY BottomFacts
    <2> QED BY <1>1, <2>1
  <1>3. Lowers(hist, hist')
    BY <1>2, BottomFacts, LowersPrefix
  <1> QED BY <1>1, <1>3 DEF Quiet, Answers

LEMMA BackToLabelShape ==
  ASSUME TypeOK, BottomOnly, NEW l, BackToLabel(l)
  PROVE  Sorted
  <1>1. CASE AlreadyThere
    BY <1>1, AlreadyThereShape DEF Sorted
  <1>2. ASSUME NEW i \in 1..Len(hist), Sync(i) \/ SyncInterrupted(i)
        PROVE  Sorted
    <2>1. i \in 0..Len(hist)
      BY BottomFacts
    <2> QED BY <1>2, <2>1, SyncShape, SyncInterruptedShape DEF Sorted
  <1> QED BY <1>1, <1>2 DEF BackToLabel

InitialFields ==
  /\ InitialEntry.label = FirstLabel /\ InitialEntry.reachable /\ InitialEntry.prfname = None
  /\ InitialEntry.nproofs = 0 /\ InitialEntry.prfdepth = 0
  /\ InitialEntry.snap = Snapshot(<<>>, {})

LEMMA InitialOfNothing == InitialFields
  <1>1. InitialEntry = [ label |-> FirstLabel, nproofs |-> Len(<<>>), prfname |-> None,
                         prfdepth |-> 0, reachable |-> TRUE, snap |-> Snapshot(<<>>, {}) ]
    BY DEF InitialEntry, Info
  <1>2. Len(<<>>) = 0
    OBVIOUS
  <1> HIDE DEF InitialEntry
  <1> QED BY <1>1, <1>2 DEF InitialFields

\* Reset Initial goes back to the first entry, and no further.
LEMMA ResetInitialShape ==
  ASSUME TypeOK, BottomOnly, ResetInitial
  PROVE  Quiet \/ Returned(1) \/ Stranded(1)
  <1>1. CASE AlreadyThere
    BY <1>1, AlreadyThereShape
  <1>2. CASE ~AlreadyThere
    <2> HIDE DEF InitialEntry
    <2>1. proofs' = <<>> /\ GoTo(FirstLabel) /\ hist' = <<InitialEntry>>
      BY <1>2 DEF ResetInitial
    <2>2. hist[1] = InitialEntry /\ InitialFields
      BY BottomFacts, InitialOfNothing
    <2>3. SubSeq(hist, 1, 1) = <<InitialEntry>>
      <3>1. hist \in Seq(Entry)
        BY BottomFacts DEF HistoryOK
      <3>2. /\ SubSeq(hist, 1, 1) \in Seq(Entry)
            /\ Len(SubSeq(hist, 1, 1)) = 1 /\ SubSeq(hist, 1, 1)[1] = InitialEntry
        BY <3>1, BottomFacts
      <3>3. <<InitialEntry>> \in Seq(Entry) /\ Len(<<InitialEntry>>) = 1
        BY InitialOK
      <3>4. \A i \in 1..1 : SubSeq(hist, 1, 1)[i] = <<InitialEntry>>[i]
        BY <3>2
      <3> QED BY <3>2, <3>3, <3>4, SeqEqual
    <2>4. Kept(proofs, 0) = <<>> /\ UndoneTo(<<>>, 0) = <<>>
      <3>1. ProofsOK(Kept(proofs, 0)) /\ Len(Kept(proofs, 0)) = 0
        BY KeptOK, LenOK DEF TypeOK
      <3> QED BY <3>1, LenOK DEF UndoneTo
    <2> HIDE DEF InitialEntry
    <2>5. CASE ResetLabel(FirstLabel)
      <3>1. answer' \in {"ok", "done", "interrupted"}
        BY <2>1 DEF GoTo, Navigated
      <3> QED BY <2>1, <2>2, <2>3, <2>4, <2>5, <3>1 DEF Returned, InitialFields
    <2>6. CASE ~ResetLabel(FirstLabel)
      BY <2>1, <2>2, <2>3, <2>6 DEF GoTo, Stranded, InitialFields
    <2> QED BY <2>5, <2>6
  <1> QED BY <1>1, <1>2

LEMMA ProofCommandShape ==
  ASSUME TypeOK, BottomOnly,
         \/ EndProof \/ EndProofFails \/ Admit \/ AdmitFails
         \/ Abort \/ AbortAll \/ Restart \/ FocusFails
  PROVE  Quiet \/ Recorded
  <1> DEFINE marked(ids) == MarkUnreachable(hist, ids, 0)
  <1>1. \A ids : /\ HistoryOK(marked(ids)) /\ Lowers(hist, marked(ids))
                 /\ Len(marked(ids)) = Len(hist)
    BY MarkedShape
  <1>2. /\ HistoryOK(hist) /\ Lowers(hist, hist) /\ env \in SUBSET Names
        /\ "interrupted" \in Answers \ {"ok"}
    BY BottomFacts DEF Answers
  <1>3. proofs # <<>> => env \cup {Current.name} \in SUBSET Names
    BY <1>2, CurrentOK
  <1> HIDE DEF marked
  <1>4. ASSUME NEW e \in SUBSET Names, Leave(e)
        PROVE  Quiet \/ Recorded
    <2>1. \/ Run(marked({Current.name}), Discarded(proofs, 1), e)
          \/ Raise(marked({Current.name}), proofs, "interrupted")
      BY <1>4 DEF Leave, marked
    <2> QED BY <1>1, <1>2, <2>1, RunShape, RaiseShape
  <1>5. CASE EndProof
    BY <1>1, <1>3, <1>5, RunShape DEF EndProof, marked
  <1>6. CASE EndProofFails
    BY <1>2, <1>6, FailWithShape DEF EndProofFails
  <1>7. CASE Admit
    BY <1>3, <1>4, <1>7 DEF Admit
  <1>8. CASE AdmitFails
    BY <1>1, <1>8, FailWithShape DEF AdmitFails, marked
  <1>9. CASE Abort
    BY <1>2, <1>4, <1>9 DEF Abort
  <1>10. CASE AbortAll
    <2>1. \/ Run(marked(OpenNames(proofs)), <<>>, env)
          \/ Raise(marked(OpenNames(proofs)), proofs, "interrupted")
      BY <1>10 DEF AbortAll, marked
    <2> QED BY <1>1, <1>2, <2>1, RunShape, RaiseShape
  <1>11. CASE Restart
    BY <1>11, UndoMarkedShape DEF Restart
  <1>12. CASE FocusFails
    BY <1>2, <1>12, FailWithShape DEF FocusFails
  <1> QED BY <1>4, <1>5, <1>6, <1>7, <1>8, <1>9, <1>10, <1>11, <1>12

LEMMA RegularShape ==
  ASSUME TypeOK, BottomOnly, RegularNext
  PROVE  Sorted
  <1>1. /\ HistoryOK(hist) /\ Lowers(hist, hist) /\ env \in SUBSET Names
        /\ "failed" \in Answers \ {"ok"} /\ "done" \in Answers \ {"ok"}
    BY BottomFacts DEF Answers
  <1>2. CASE Neutral
    BY <1>1, <1>2, RunShape, RaiseShape DEF Neutral, Sorted
  <1>3. ASSUME NEW id \in Names, Declare(id)
        PROVE  Sorted
    <2>1. env \cup {id} \in SUBSET Names
      BY <1>1
    <2> QED BY <1>1, <1>3, <2>1, RunShape DEF Declare, Sorted
  <1>4. ASSUME NEW id \in Names, StartProof(id)
        PROVE  Sorted
    BY <1>1, <1>4, RunShape DEF StartProof, Sorted
  <1>5. ASSUME NEW id \in Names, ResetName(id)
        PROVE  Sorted
    BY <1>5, BackToLabelShape DEF ResetName
  <1>6. ASSUME NEW kind \in LoadKinds, LoadStart(kind)
        PROVE  Sorted
    BY <1>1, <1>6 DEF LoadStart, Quiet, Sorted
  <1>7. CASE LoadEnd
    BY <1>1, <1>7 DEF LoadEnd, MarkCommand, Recorded, Sorted
  <1>8. ASSUME NEW s \in ProofStates, NEW k \in 0..1, Solve(s, k)
        PROVE  Sorted
    BY <1>1, <1>8, RunShape DEF Solve, Sorted
  <1>9. CASE \/ EndProof \/ EndProofFails \/ Admit \/ AdmitFails
             \/ Abort \/ AbortAll \/ Restart \/ FocusFails
    BY <1>9, ProofCommandShape DEF Sorted
  <1>10. ASSUME NEW n \in 1..MaxSteps, Undo(n)
         PROVE  Sorted
    BY <1>10, UndoMarkedShape DEF Undo, Sorted
  <1>11. ASSUME NEW n \in 1..MaxSteps, UndoFails(n)
         PROVE  Sorted
    BY <1>11, MarkedShape, FailWithShape DEF UndoFails, Sorted
  <1>12. ASSUME NEW n \in 1..MaxLabel, Back(n)
         PROVE  Sorted
    <2>1. Len(hist) - n \in 0..Len(hist)
      BY <1>12, BottomFacts, BacktrackAssumption DEF Back, BacktrackAssumption
    <2> QED BY <1>12, <2>1, SyncShape, SyncInterruptedShape DEF Back, Sorted
  <1>13. ASSUME NEW l \in 1..MaxLabel, BackTo(l)
         PROVE  Sorted
    BY <1>13, BackToLabelShape DEF BackTo
  <1>14. CASE ResetInitial
    BY <1>14, ResetInitialShape, BottomFacts DEF Sorted
  <1> QED BY <1>2, <1>3, <1>4, <1>5, <1>6, <1>7, <1>8, <1>9, <1>10, <1>11, <1>12, <1>13, <1>14
          DEF RegularNext

-----------------------------------------------------------------------------
(* The bottom of the history and of the library. *)

HistoryBottom(h) ==
  /\ Len(h) >= 1 /\ h[1] = InitialEntry
  /\ \A i \in 1..Len(h) : i # 1 => h[i].label # FirstLabel

LibraryBottom(l) ==
  /\ Len(l) >= 1 /\ l[1] = Frame(FirstLabel, {})
  /\ \A k \in 1..Len(l) : k # 1 => l[k].label # FirstLabel

LEMMA BottomParts ==
  ASSUME TypeOK
  PROVE  BottomOnly <=> HistoryBottom(hist) /\ LibraryBottom(lib)
  <1>1. /\ Len(hist) \in Nat /\ Len(lib) \in Nat /\ DOMAIN lib = 1..Len(lib)
        /\ hist = <<>> <=> Len(hist) = 0
        /\ lib = <<>> <=> Len(lib) = 0
    BY EmptySeq DEF TypeOK, HistoryOK
  <1> QED BY <1>1 DEF BottomOnly, BottomEntry, HistoryBottom, LibraryBottom

LEMMA HistoryBottomLowers ==
  ASSUME NEW h, HistoryOK(h), HistoryBottom(h), NEW g, Lowers(h, g)
  PROVE  HistoryBottom(g)
  <1>1. Len(h) \in Nat /\ Len(g) \in 1..Len(h) /\ 1 \in 1..Len(g)
    BY DEF HistoryOK, Lowers
  <1>2. h[1].prfname = None
    BY InitialOfNothing DEF HistoryBottom, InitialFields
  <1>3. g[1] = h[1]
    BY <1>1, <1>2, LowersFacts
  <1>4. \A i \in 1..Len(g) : i \in 1..Len(h) /\ g[i].label = h[i].label
    BY LowersFacts
  <1> QED BY <1>1, <1>3, <1>4 DEF HistoryBottom

LEMMA HistoryBottomAppend ==
  ASSUME NEW h, HistoryOK(h), HistoryBottom(h), NEW x, x.label # FirstLabel
  PROVE  HistoryBottom(Append(h, x))
  <1> DEFINE g == Append(h, x)
  <1>1. /\ Len(h) \in Nat /\ Len(g) = Len(h) + 1 /\ g[Len(h) + 1] = x
        /\ \A i \in 1..Len(h) : g[i] = h[i]
    BY DEF HistoryOK
  <1> HIDE DEF g
  <1>2. 1 \in 1..Len(h) /\ \A i \in 1..Len(g) : i \in 1..Len(h) \/ i = Len(h) + 1
    BY <1>1 DEF HistoryBottom
  <1>3. HistoryBottom(g)
    BY <1>1, <1>2 DEF HistoryBottom
  <1> QED BY <1>3 DEF g

LEMMA LibraryBottomAppend ==
  ASSUME NEW l, LibOK(l), LibraryBottom(l), NEW n, n # FirstLabel, NEW e
  PROVE  LibraryBottom(Append(l, Frame(n, e)))
  <1> DEFINE g == Append(l, Frame(n, e))
  <1>1. /\ Len(l) \in Nat /\ Len(g) = Len(l) + 1 /\ g[Len(l) + 1] = Frame(n, e)
        /\ \A i \in 1..Len(l) : g[i] = l[i]
    BY DEF LibOK
  <1>2. Frame(n, e).label = n
    BY DEF Frame
  <1> HIDE DEF g
  <1>3. 1 \in 1..Len(l) /\ \A i \in 1..Len(g) : i \in 1..Len(l) \/ i = Len(l) + 1
    BY <1>1 DEF LibraryBottom
  <1>4. LibraryBottom(g)
    BY <1>1, <1>2, <1>3 DEF LibraryBottom
  <1> QED BY <1>4 DEF g

LEMMA LibraryBottomCut ==
  ASSUME NEW l, LibOK(l), LibraryBottom(l), NEW n \in 1..Len(l)
  PROVE  LibraryBottom(SubSeq(l, 1, n))
  <1> DEFINE g == SubSeq(l, 1, n)
  <1>1. Len(l) \in Nat /\ Len(g) = n /\ \A i \in 1..n : g[i] = l[i] /\ i \in 1..Len(l)
    BY DEF LibOK
  <1> HIDE DEF g
  <1>2. LibraryBottom(g)
    BY <1>1 DEF LibraryBottom
  <1> QED BY <1>2 DEF g

LEMMA BottomPrimed ==
  ASSUME TypeOK', HistoryBottom(hist'), LibraryBottom(lib')
  PROVE  BottomOnly'
  <1>1. Len(hist') \in Nat /\ Len(lib') \in Nat /\ DOMAIN lib' = 1..Len(lib')
    BY DEF TypeOK, HistoryOK
  <1>2. hist' # <<>> /\ lib' # <<>>
    BY <1>1, EmptySeq DEF HistoryBottom, LibraryBottom
  <1> QED BY <1>1, <1>2 DEF BottomOnly, BottomEntry, HistoryBottom, LibraryBottom

\* Every step that is sorted leaves the bottom as it is.
LEMMA SortedBottom ==
  ASSUME TypeOK, TypeOK', BottomOnly, Sorted
  PROVE  BottomOnly'
  <1>1. /\ HistoryOK(hist) /\ LibOK(lib) /\ HistoryBottom(hist) /\ LibraryBottom(lib)
        /\ label + 1 # FirstLabel /\ Len(lib) \in Nat /\ DOMAIN lib = 1..Len(lib)
    BY BottomParts, BottomFacts DEF TypeOK, LibOK, FirstLabel
  <1>2. ASSUME Quiet
        PROVE  HistoryBottom(hist') /\ LibraryBottom(lib')
    BY <1>1, <1>2, HistoryBottomLowers, LibraryBottomAppend DEF Quiet
  <1>3. ASSUME Recorded
        PROVE  HistoryBottom(hist') /\ LibraryBottom(lib')
    <2>1. PICK h : /\ Lowers(hist, h) /\ HistoryOK(h)
                   /\ hist' = Append(h, Info(label + 1, proofs', env'))
      BY <1>3 DEF Recorded
    <2>2. Info(label + 1, proofs', env').label = label + 1
      BY DEF Info
    <2>3. HistoryBottom(hist')
      BY <1>1, <2>1, <2>2, HistoryBottomLowers, HistoryBottomAppend
    <2>4. LibraryBottom(lib')
      BY <1>1, <1>3, LibraryBottomAppend DEF Recorded
    <2> QED BY <2>3, <2>4
  <1>4. ASSUME NEW t \in 1..Len(hist), Returned(t)
        PROVE  HistoryBottom(hist') /\ LibraryBottom(lib')
    <2>1. HistoryBottom(hist')
      BY <1>1, <1>4, LowersPrefix, HistoryBottomLowers DEF Returned
    <2>2. PICK i \in DOMAIN lib : lib' = SubSeq(lib, 1, i)
      BY <1>4 DEF Returned, ResetLabel
    <2> QED BY <1>1, <2>1, <2>2, LibraryBottomCut
  <1>5. ASSUME NEW t \in 1..Len(hist), Stranded(t)
        PROVE  HistoryBottom(hist') /\ LibraryBottom(lib')
    BY <1>1, <1>5, LowersPrefix, HistoryBottomLowers DEF Stranded
  <1>6. HistoryBottom(hist') /\ LibraryBottom(lib')
    BY <1>2, <1>3, <1>4, <1>5 DEF Sorted
  <1> QED BY <1>6, BottomPrimed

\* So does every irregular step.
LEMMA FailLoadBottom ==
  ASSUME TypeOK, BottomOnly, NEW id \in Names, FailLoad(id)
  PROVE  HistoryBottom(hist') /\ LibraryBottom(lib')
  <1>1. /\ HistoryOK(hist) /\ LibOK(lib) /\ HistoryBottom(hist) /\ LibraryBottom(lib)
        /\ label + 1 \in Nat \ {0} /\ label + 1 # FirstLabel /\ label + 2 # FirstLabel
        /\ ProofsOK(proofs) /\ env \cup {id} \in SUBSET Names
    BY BottomParts, BottomFacts DEF TypeOK, LibOK, FirstLabel
  <1> DEFINE x == Info(label + 1, proofs, env \cup {id})
             y == Info(label + 2, proofs, env)
             h == Append(hist, x)
  <1>2. x.label = label + 1 /\ y.label = label + 2 /\ HistoryOK(h)
    BY <1>1, InfoOK, AppendOK DEF Info
  <1>3. /\ hist' \in {h, Append(h, y)}
        /\ lib' \in {lib, Append(lib, Frame(label + 2, env))}
    BY DEF FailLoad
  <1> HIDE DEF x, y
  <1>4. HistoryBottom(h)
    BY <1>1, <1>2, HistoryBottomAppend
  <1> HIDE DEF h
  <1>5. HistoryBottom(Append(h, y))
    BY <1>1, <1>2, <1>4, HistoryBottomAppend
  <1>6. LibraryBottom(Append(lib, Frame(label + 2, env)))
    BY <1>1, LibraryBottomAppend
  <1> QED BY <1>1, <1>3, <1>4, <1>5, <1>6

LEMMA PGBacktrackBottom ==
  ASSUME TypeOK, BottomOnly, NEW l, NEW d, NEW n, PGBacktrack(l, d, n)
  PROVE  HistoryBottom(hist') /\ LibraryBottom(lib')
  <1>1. /\ HistoryOK(hist) /\ LibOK(lib) /\ HistoryBottom(hist) /\ LibraryBottom(lib)
        /\ DOMAIN hist = 1..Len(hist) /\ DOMAIN lib = 1..Len(lib)
    BY BottomParts, BottomFacts DEF TypeOK, LibOK, HistoryOK
  <1>2. \/ hist' = hist /\ lib' = lib
        \/ \E i \in DOMAIN hist : \E ps : RawBacktrack(SubSeq(hist, 1, i), l, d, ps)
    BY DEF PGBacktrack, Raise
  <1>3. ASSUME NEW i \in DOMAIN hist, NEW ps, RawBacktrack(SubSeq(hist, 1, i), l, d, ps)
        PROVE  HistoryBottom(hist') /\ LibraryBottom(lib')
    <2>1. hist' = SubSeq(hist, 1, i) /\ (lib' = lib \/ ResetLabel(l))
      BY <1>3 DEF RawBacktrack, GoTo, Raise
    <2>2. HistoryBottom(hist')
      BY <1>1, <2>1, LowersPrefix, HistoryBottomLowers
    <2>3. lib' = lib \/ \E k \in DOMAIN lib : lib' = SubSeq(lib, 1, k)
      BY <2>1 DEF ResetLabel
    <2> QED BY <1>1, <2>2, <2>3, LibraryBottomCut
  <1> QED BY <1>1, <1>2, <1>3

LEMMA PGBacktrackInterruptedBottom ==
  ASSUME TypeOK, BottomOnly, NEW l, NEW d, NEW n, PGBacktrackInterrupted(l, d, n)
  PROVE  HistoryBottom(hist') /\ LibraryBottom(lib')
  <1>1. /\ HistoryOK(hist) /\ HistoryBottom(hist) /\ LibraryBottom(lib)
        /\ DOMAIN hist = 1..Len(hist)
    BY BottomParts, BottomFacts DEF TypeOK, HistoryOK
  <1>2. lib' = lib /\ (hist' = hist \/ \E j \in DOMAIN hist : hist' = SubSeq(hist, 1, j))
    BY DEF PGBacktrackInterrupted, Raise
  <1> QED BY <1>1, <1>2, LowersPrefix, HistoryBottomLowers

LEMMA IrregularBottom ==
  ASSUME TypeOK, TypeOK', BottomOnly, IrregularNext
  PROVE  BottomOnly'
  <1>1. /\ HistoryOK(hist) /\ Lowers(hist, hist) /\ env \in SUBSET Names
        /\ "interrupted" \in Answers \ {"ok"}
    BY BottomFacts DEF Answers
  <1>2. ASSUME NEW k \in 1..Cardinality(Names), AbortOther(k)
        PROVE  BottomOnly'
    <2>1. Quiet \/ Recorded
      BY <1>1, <1>2, MarkedShape, RunShape DEF AbortOther
    <2> QED BY <2>1, SortedBottom DEF Sorted
  <1>3. ASSUME NEW id \in Names, FailLoad(id)
        PROVE  BottomOnly'
    BY <1>3, FailLoadBottom, BottomPrimed
  <1>4. CASE HookFails
    <2>1. Quiet \/ Recorded
      BY <1>1, <1>4, FailWithShape DEF HookFails
    <2> QED BY <2>1, SortedBottom DEF Sorted
  <1>5. CASE ResetInitialInterrupted
    BY <1>5, BottomParts, BottomPrimed DEF ResetInitialInterrupted
  <1>6. ASSUME NEW l \in 1..MaxLabel, NEW d \in 0..MaxSteps, NEW n \in 0..Cardinality(Names),
               PGBacktrack(l, d, n) \/ PGBacktrackInterrupted(l, d, n)
        PROVE  BottomOnly'
    BY <1>6, PGBacktrackBottom, PGBacktrackInterruptedBottom, BottomPrimed
  <1> QED BY <1>2, <1>3, <1>4, <1>5, <1>6 DEF IrregularNext

LEMMA InitBottom == Init => TypeOK /\ BottomOnly
  <1>1. SUFFICES ASSUME Init PROVE TypeOK /\ BottomOnly
    OBVIOUS
  <1>2. TypeOK
    BY <1>1, InitialOK DEF Init, TypeOK, Frame, FirstLabel, Answers
  <1>3. /\ Len(hist) = 1 /\ hist[1] = InitialEntry
        /\ Len(lib) = 1 /\ lib[1] = Frame(FirstLabel, {})
    BY <1>1 DEF Init
  <1>4. \A i \in 1..1 : i = 1
    OBVIOUS
  <1> QED BY <1>2, <1>3, <1>4, BottomParts DEF HistoryBottom, LibraryBottom

LEMMA NextBottom ==
  TypeOK /\ BottomOnly /\ [RegularNext \/ IrregularNext]_vars => TypeOK' /\ BottomOnly'
  <1>1. SUFFICES ASSUME TypeOK, BottomOnly, [RegularNext \/ IrregularNext]_vars
                 PROVE  TypeOK' /\ BottomOnly'
    OBVIOUS
  <1>2. CASE RegularNext
    <2>1. TypeOK' /\ Sorted
      BY <1>1, <1>2, RegularType, RegularShape
    <2> QED BY <1>1, <2>1, SortedBottom
  <1>3. CASE IrregularNext
    <2>1. TypeOK'
      BY <1>1, <1>3, IrregularType
    <2> QED BY <1>1, <1>3, <2>1, IrregularBottom
  <1>4. CASE UNCHANGED vars
    BY <1>1, <1>4 DEF vars, TypeOK, BottomOnly, BottomEntry
  <1> QED BY <1>1, <1>2, <1>3, <1>4

\* sync always finds a stop, whatever the commands, those of IrregularNext
\* included: the first entry of the history and the first label of the library
\* stay as they were put (backtrack.ml, the NB in sync).  An interrupt between
\* Stack.clear and Stack.push in reset_initial is not in Spec: they are one step.
THEOREM BottomStays == Spec => []BottomEntry
  <1>1. BottomOnly => BottomEntry
    BY DEF BottomOnly
  <1> QED BY <1>1, InitBottom, NextBottom, PTL DEF Spec

LEMMA ResetInitialBack ==
  ASSUME TypeOK, BottomOnly, ResetInitial
  PROVE  BackToLabel(FirstLabel)
  <1>1. CASE label = FirstLabel
    BY <1>1 DEF ResetInitial, BackToLabel
  <1>2. CASE label # FirstLabel
    <2> HIDE DEF InitialEntry
    <2>1. proofs' = <<>> /\ GoTo(FirstLabel) /\ hist' = <<InitialEntry>>
      BY <1>2 DEF ResetInitial
    <2>2. hist[1] = InitialEntry /\ InitialFields
      BY BottomFacts, InitialOfNothing
    <2>3. LastReachable(1, 1) /\ LastWithLabel(1, FirstLabel)
      <3>1. \A i \in 2..Len(hist) : i \in 1..Len(hist) /\ i # 1
        BY BottomFacts
      <3> QED BY <2>2, <3>1 DEF LastReachable, LastWithLabel, InitialFields, BottomOnly
    <2>4. SubSeq(hist, 1, 1) = <<InitialEntry>>
      <3>1. hist \in Seq(Entry) /\ <<InitialEntry>> \in Seq(Entry) /\ Len(<<InitialEntry>>) = 1
        BY BottomFacts, InitialOK DEF HistoryOK
      <3>2. /\ SubSeq(hist, 1, 1) \in Seq(Entry)
            /\ Len(SubSeq(hist, 1, 1)) = 1 /\ SubSeq(hist, 1, 1)[1] = InitialEntry
        BY <3>1, BottomFacts
      <3>3. \A i \in 1..1 : SubSeq(hist, 1, 1)[i] = <<InitialEntry>>[i]
        BY <3>2
      <3> QED BY <3>1, <3>2, <3>3, SeqEqual
    <2>5. Kept(proofs, 0) = <<>> /\ UndoneTo(<<>>, 0) = <<>> /\ CanUndoTo(<<>>, 0)
      <3>1. ProofsOK(Kept(proofs, 0)) /\ Len(Kept(proofs, 0)) = 0
        BY KeptOK, LenOK DEF TypeOK
      <3> QED BY <3>1, LenOK DEF UndoneTo, CanUndoTo
    <2>6. CanReset(FirstLabel)
      <3>1. FirstLabel < label
        BY <1>2 DEF FirstLabel, TypeOK
      <3>2. lib[1].label = FirstLabel /\ 1 \in DOMAIN lib
        BY BottomFacts DEF Frame
      <3> QED BY <3>1, <3>2 DEF CanReset
    <2>7. RawBacktrack(SubSeq(hist, 1, 1), FirstLabel, 0, Kept(proofs, 0))
      BY <2>1, <2>4, <2>5, <2>6 DEF RawBacktrack
    <2>8. Sync(1)
      <3>1. 1 \in 1..1
        OBVIOUS
      <3> QED BY <2>2, <2>3, <2>7, <3>1 DEF Sync, InitialFields
    <2> QED BY <1>2, <2>3, <2>8, BottomFacts DEF BackToLabel
  <1> QED BY <1>1, <1>2

\* Reset Initial does what going back to the first label does, open proofs,
\* library and history alike (backtrack.ml, the comment of reset_initial).
THEOREM ResetInitialGoesBack == Spec => ResetInitialIsBackTo
  <1>1. TypeOK /\ BottomOnly /\ [RegularNext \/ IrregularNext]_vars
          => [ResetInitial => BackToLabel(FirstLabel)]_vars
    BY ResetInitialBack
  <1> QED BY <1>1, InitBottom, NextBottom, PTL DEF Spec, ResetInitialIsBackTo

-----------------------------------------------------------------------------
(* The library keeps the places of the history. *)

\* In the library l, the last frame with label x is the k-th.
Place(l, k, x) == l[k].label = x /\ \A j \in (k + 1)..Len(l) : l[j].label # x

\* The places p of the entries of h in the library l are their own, with the
\* declarations of the entry, in the same order; n is at or past their labels.
KeepsAt(p, h, l, n) ==
  /\ \A i \in 1..Len(h) : /\ p[i] \in 1..Len(l)
                          /\ Place(l, p[i], h[i].label)
                          /\ h[i].reachable => l[p[i]].env = h[i].snap.env
                          /\ h[i].label <= n
  /\ \A i, j \in 1..Len(h) : i < j => p[i] < p[j] /\ h[i].label < h[j].label

Keeps(h, l, n) == \E p : KeepsAt(p, h, l, n)

LEMMA FrameType ==
  ASSUME NEW l, LibOK(l)
  PROVE  /\ Len(l) \in Nat /\ DOMAIN l = 1..Len(l)
         /\ \A k \in 1..Len(l) : l[k].label \in Nat
  <1>1. \A k \in 1..Len(l) : l[k] \in [label : Nat \ {0}, env : SUBSET Names]
    BY ElementOfSeq DEF LibOK
  <1> QED BY <1>1 DEF LibOK

LEMMA KeepsIs ==
  ASSUME Len(hist) \in Nat, DOMAIN hist = 1..Len(hist), Len(hist) >= 1,
         Len(lib) \in Nat, DOMAIN lib = 1..Len(lib), Keeps(hist, lib, label)
  PROVE  LibraryRestorable
  <1>1. PICK p : KeepsAt(p, hist, lib, label)
    BY DEF Keeps
  <1>2. ASSUME NEW i \in 1..Len(hist)
        PROVE  /\ p[i] \in 1..Len(lib)
               /\ LastFrame(p[i], hist[i].label)
               /\ hist[i].reachable => lib[p[i]].env = hist[i].snap.env
    BY <1>1 DEF KeepsAt, Place, LastFrame
  <1>3. ASSUME NEW i \in 1..Len(hist), NEW j \in (i + 1)..Len(hist)
        PROVE  p[j] \in (p[i] + 1)..Len(lib)
    <2>1. j \in 1..Len(hist) /\ i < j
      OBVIOUS
    <2> QED BY <1>1, <1>2, <2>1 DEF KeepsAt
  <1>4. ASSUME NEW i \in 1..Len(hist)
        PROVE  \A j \in (i + 1)..Len(hist) :
                 \E m \in (p[i] + 1)..Len(lib) : LastFrame(m, hist[j].label)
    <2>1. \A j \in (i + 1)..Len(hist) : j \in 1..Len(hist)
      OBVIOUS
    <2> QED BY <1>2, <1>3, <2>1
  <1>5. \A i, j \in DOMAIN hist : i < j => hist[i].label < hist[j].label
    BY <1>1 DEF KeepsAt
  <1>6. Top(hist).label <= label
    <2>1. Len(hist) \in 1..Len(hist)
      OBVIOUS
    <2> QED BY <1>1, <2>1 DEF KeepsAt, Top
  <1> QED BY <1>2, <1>4, <1>5, <1>6 DEF LibraryRestorable

LEMMA KeepsLowers ==
  ASSUME NEW h, HistoryOK(h), NEW l, NEW n, Keeps(h, l, n), NEW g, Lowers(h, g)
  PROVE  Keeps(g, l, n)
  <1>1. \A i \in 1..Len(g) : /\ i \in 1..Len(h)
                             /\ g[i].label = h[i].label /\ g[i].snap = h[i].snap
                             /\ g[i].reachable => h[i].reachable
    BY LowersFacts
  <1>2. PICK p : KeepsAt(p, h, l, n)
    BY DEF Keeps
  <1>3. KeepsAt(p, g, l, n)
    BY <1>1, <1>2 DEF KeepsAt
  <1> QED BY <1>3 DEF Keeps

\* The labels of a history are numbers.
LEMMA LabelNat ==
  ASSUME NEW h, HistoryOK(h), NEW i \in 1..Len(h)
  PROVE  h[i].label \in Nat
  <1>1. h[i] \in Entry
    BY ElementOfSeq DEF HistoryOK
  <1> QED BY <1>1 DEF Entry

\* A frame more, with a label past those of the history.
LEMMA KeepsFrame ==
  ASSUME NEW h, HistoryOK(h), NEW l, LibOK(l), NEW n \in Nat, NEW p, KeepsAt(p, h, l, n), NEW e
  PROVE  /\ KeepsAt(p, h, l, n + 1)
         /\ KeepsAt(p, h, Append(l, Frame(n + 1, e)), n + 1)
  <1> DEFINE f == Frame(n + 1, e)
             m == Append(l, f)
  <1>1. /\ Len(l) \in Nat /\ Len(m) = Len(l) + 1 /\ m[Len(l) + 1] = f
        /\ \A k \in 1..Len(l) : m[k] = l[k]
        /\ f.label = n + 1
    BY DEF LibOK, Frame
  <1>2. \A i \in 1..Len(h) : h[i].label \in Nat /\ h[i].label <= n
    BY LabelNat DEF KeepsAt
  <1> HIDE DEF f, m
  <1>3. KeepsAt(p, h, l, n + 1)
    BY <1>2 DEF KeepsAt
  <1>4. ASSUME NEW i \in 1..Len(h)
        PROVE  /\ p[i] \in 1..Len(m)
               /\ Place(m, p[i], h[i].label)
               /\ m[p[i]] = l[p[i]]
    <2>1. p[i] \in 1..Len(l) /\ Place(l, p[i], h[i].label)
      BY DEF KeepsAt
    <2>2. ASSUME NEW j \in (p[i] + 1)..Len(m)
          PROVE  m[j].label # h[i].label
      <3>1. CASE j = Len(l) + 1
        BY <1>1, <1>2, <3>1
      <3>2. CASE j # Len(l) + 1
        <4>1. j \in (p[i] + 1)..Len(l) /\ j \in 1..Len(l)
          BY <1>1, <2>1, <3>2
        <4> QED BY <1>1, <2>1, <4>1 DEF Place
      <3> QED BY <3>1, <3>2
    <2> QED BY <1>1, <2>1, <2>2 DEF Place
  <1>5. KeepsAt(p, h, m, n + 1)
    BY <1>3, <1>4 DEF KeepsAt
  <1> QED BY <1>3, <1>5 DEF f, m

\* An entry more in the history, and its label in the library.
LEMMA KeepsRecorded ==
  ASSUME NEW h, HistoryOK(h), NEW l, LibOK(l), NEW n \in Nat, Keeps(h, l, n), NEW ps, NEW e
  PROVE  Keeps(Append(h, Info(n + 1, ps, e)), Append(l, Frame(n + 1, e)), n + 1)
  <1> DEFINE x == Info(n + 1, ps, e)
             f == Frame(n + 1, e)
             g == Append(h, x)
             m == Append(l, f)
  <1>1. /\ Len(h) \in Nat /\ Len(g) = Len(h) + 1 /\ g[Len(h) + 1] = x
        /\ \A i \in 1..Len(h) : g[i] = h[i]
    BY DEF HistoryOK
  <1>2. Len(l) \in Nat /\ Len(m) = Len(l) + 1 /\ m[Len(l) + 1] = f
    BY DEF LibOK
  <1>3. f.label = n + 1 /\ f.env = e /\ x.label = n + 1 /\ x.snap.env = e
    BY DEF Frame, Info, Snapshot
  <1>4. PICK p : KeepsAt(p, h, l, n)
    BY DEF Keeps
  <1>5. KeepsAt(p, h, m, n + 1)
    BY <1>4, KeepsFrame
  <1>6. \A i \in 1..Len(h) : h[i].label \in Nat /\ h[i].label <= n /\ p[i] \in 1..Len(l)
    BY <1>4, LabelNat DEF KeepsAt
  <1> DEFINE q == [i \in 1..(Len(h) + 1) |-> IF i = Len(h) + 1 THEN Len(l) + 1 ELSE p[i]]
  <1>7. q[Len(h) + 1] = Len(l) + 1 /\ \A i \in 1..Len(h) : q[i] = p[i]
    BY <1>1
  <1> HIDE DEF x, f, g, m, q
  <1>8. \A i \in 1..Len(g) : i \in 1..Len(h) \/ i = Len(h) + 1
    BY <1>1
  <1>9. ASSUME NEW i \in 1..Len(g)
        PROVE  /\ q[i] \in 1..Len(m)
               /\ Place(m, q[i], g[i].label)
               /\ g[i].reachable => m[q[i]].env = g[i].snap.env
               /\ g[i].label <= n + 1
    <2>1. CASE i = Len(h) + 1
      <3>1. q[i] = Len(m) /\ q[i] \in 1..Len(m) /\ m[q[i]] = f /\ g[i] = x
        BY <1>1, <1>2, <1>7, <2>1
      <3>2. Place(m, q[i], n + 1)
        BY <1>2, <1>3, <3>1 DEF Place
      <3> QED BY <1>3, <3>1, <3>2
    <2>2. CASE i \in 1..Len(h)
      <3>1. g[i] = h[i] /\ q[i] = p[i]
        BY <1>1, <1>7, <2>2
      <3> QED BY <1>5, <2>2, <3>1 DEF KeepsAt
    <2> QED BY <1>8, <2>1, <2>2
  <1>10. ASSUME NEW i \in 1..Len(g), NEW j \in 1..Len(g), i < j
         PROVE  q[i] < q[j] /\ g[i].label < g[j].label
    <2>1. i \in 1..Len(h)
      BY <1>1, <1>10
    <2>2. CASE j = Len(h) + 1
      BY <1>1, <1>2, <1>3, <1>6, <1>7, <2>1, <2>2
    <2>3. CASE j \in 1..Len(h)
      BY <1>1, <1>5, <1>7, <1>10, <2>1, <2>3 DEF KeepsAt
    <2> QED BY <1>8, <2>2, <2>3
  <1>11. KeepsAt(q, g, m, n + 1)
    BY <1>9, <1>10 DEF KeepsAt
  <1>12. Keeps(g, m, n + 1)
    BY <1>11 DEF Keeps
  <1> QED BY <1>12 DEF g, m, x, f

\* The history is cut at an entry t, and the counter is set back to its label.
LEMMA KeepsCut ==
  ASSUME NEW h, HistoryOK(h), NEW l, NEW n, NEW p, KeepsAt(p, h, l, n), NEW t \in 1..Len(h)
  PROVE  KeepsAt(p, SubSeq(h, 1, t), l, h[t].label)
  <1> DEFINE g == SubSeq(h, 1, t)
  <1>1. Len(h) \in Nat /\ Len(g) = t /\ \A i \in 1..t : g[i] = h[i] /\ i \in 1..Len(h)
    BY DEF HistoryOK
  <1> HIDE DEF g
  <1>2. ASSUME NEW i \in 1..t
        PROVE  h[i].label <= h[t].label
    <2>1. i \in 1..Len(h) /\ (i = t \/ i < t)
      BY <1>1
    <2>2. h[i].label \in Nat /\ h[t].label \in Nat
      BY <2>1, LabelNat
    <2> QED BY <2>1, <2>2 DEF KeepsAt
  <1>3. KeepsAt(p, g, l, h[t].label)
    BY <1>1, <1>2 DEF KeepsAt
  <1> QED BY <1>3 DEF g

\* The library is cut too, at the place of t.
LEMMA KeepsReturned ==
  ASSUME NEW h, HistoryOK(h), NEW l, LibOK(l), NEW n, NEW p, KeepsAt(p, h, l, n),
         NEW t \in 1..Len(h), NEW k \in 1..Len(l), Place(l, k, h[t].label)
  PROVE  /\ KeepsAt(p, SubSeq(h, 1, t), SubSeq(l, 1, k), h[t].label)
         /\ h[t].reachable => l[k].env = h[t].snap.env
  <1> DEFINE g == SubSeq(h, 1, t)
             m == SubSeq(l, 1, k)
  <1>1. Len(h) \in Nat /\ Len(g) = t /\ \A i \in 1..t : g[i] = h[i] /\ i \in 1..Len(h)
    BY DEF HistoryOK
  <1>2. Len(l) \in Nat /\ Len(m) = k /\ \A i \in 1..k : m[i] = l[i] /\ i \in 1..Len(l)
    BY DEF LibOK
  <1>3. KeepsAt(p, g, l, h[t].label)
    BY KeepsCut
  <1> HIDE DEF g, m
  <1>4. p[t] = k
    <2>1. p[t] \in 1..Len(l) /\ Place(l, p[t], h[t].label)
      BY DEF KeepsAt
    <2>2. ~(p[t] < k)
      <3>1. p[t] < k => k \in (p[t] + 1)..Len(l)
        BY <1>2, <2>1
      <3> QED BY <2>1, <3>1 DEF Place
    <2>3. ~(k < p[t])
      <3>1. k < p[t] => p[t] \in (k + 1)..Len(l)
        BY <1>2, <2>1
      <3> QED BY <2>1, <3>1 DEF Place
    <2> QED BY <1>2, <2>1, <2>2, <2>3
  <1>5. ASSUME NEW i \in 1..t
        PROVE  /\ p[i] \in 1..Len(m)
               /\ Place(m, p[i], g[i].label)
               /\ m[p[i]] = l[p[i]]
    <2>1. p[i] \in 1..Len(l) /\ Place(l, p[i], g[i].label)
      BY <1>1, <1>3 DEF KeepsAt
    <2>2. p[i] \in 1..k
      <3>1. i = t \/ i < t
        BY <1>1
      <3>2. i < t => p[i] < p[t]
        BY <1>1 DEF KeepsAt
      <3> QED BY <1>2, <1>4, <2>1, <3>1, <3>2
    <2>3. \A j \in (p[i] + 1)..Len(m) : j \in (p[i] + 1)..Len(l) /\ m[j] = l[j]
      BY <1>2, <2>2
    <2> QED BY <1>2, <2>1, <2>2, <2>3 DEF Place
  <1>6. KeepsAt(p, g, m, h[t].label)
    BY <1>1, <1>3, <1>5 DEF KeepsAt
  <1>7. h[t].reachable => l[k].env = h[t].snap.env
    BY <1>4 DEF KeepsAt
  <1> QED BY <1>6, <1>7 DEF g, m

-----------------------------------------------------------------------------
(* Everything together, for the regular commands. *)

DInv == IInv /\ BottomOnly /\ Keeps(hist, lib, label)

LEMMA DInvFacts ==
  ASSUME DInv
  PROVE  /\ IInv /\ TypeOK /\ BottomOnly /\ HistoryOK(hist) /\ LibOK(lib)
         /\ Keeps(hist, lib, label)
         /\ label \in Nat
  BY IInvFacts DEF DInv, TypeOK, LibOK

LEMMA SortedKeeps ==
  ASSUME DInv, HistoryOK(hist'), Sorted
  PROVE  Keeps(hist', lib', label')
  <1>1. /\ HistoryOK(hist) /\ LibOK(lib) /\ label \in Nat /\ Keeps(hist, lib, label)
        /\ DOMAIN lib = 1..Len(lib)
    BY DInvFacts, FrameType
  <1>2. ASSUME Quiet
        PROVE  Keeps(hist', lib', label')
    <2>1. PICK p : KeepsAt(p, hist', lib, label)
      <3>1. Keeps(hist', lib, label)
        BY <1>1, <1>2, KeepsLowers DEF Quiet
      <3> QED BY <3>1 DEF Keeps
    <2>2. \A e : /\ KeepsAt(p, hist', lib, label + 1)
                 /\ KeepsAt(p, hist', Append(lib, Frame(label + 1, e)), label + 1)
      BY <1>1, <1>2, <2>1, KeepsFrame
    <2>3. KeepsAt(p, hist', lib', label')
      BY <1>2, <2>1, <2>2 DEF Quiet
    <2> QED BY <2>3 DEF Keeps
  <1>3. ASSUME Recorded
        PROVE  Keeps(hist', lib', label')
    <2>1. PICK h : /\ Lowers(hist, h) /\ HistoryOK(h)
                   /\ hist' = Append(h, Info(label + 1, proofs', env'))
      BY <1>3 DEF Recorded
    <2>2. Keeps(h, lib, label)
      BY <1>1, <2>1, KeepsLowers
    <2>3. Keeps(Append(h, Info(label + 1, proofs', env')), Append(lib, Frame(label + 1, env')), label + 1)
      BY <1>1, <2>1, <2>2, KeepsRecorded
    <2> QED BY <1>3, <2>1, <2>3 DEF Recorded
  <1>4. PICK p : KeepsAt(p, hist, lib, label)
    BY <1>1 DEF Keeps
  <1>5. ASSUME NEW t \in 1..Len(hist), Returned(t)
        PROVE  Keeps(hist', lib', label')
    <2>1. PICK k \in 1..Len(lib) : /\ Place(lib, k, hist[t].label)
                                   /\ lib' = SubSeq(lib, 1, k)
                                   /\ label' = hist[t].label
      BY <1>1, <1>5 DEF Returned, ResetLabel, LastFrame, Place
    <2>2. KeepsAt(p, SubSeq(hist, 1, t), SubSeq(lib, 1, k), hist[t].label)
      BY <1>1, <1>4, <2>1, KeepsReturned
    <2> QED BY <1>5, <2>1, <2>2 DEF Returned, Keeps
  <1>6. ASSUME NEW t \in 1..Len(hist), Stranded(t)
        PROVE  Keeps(hist', lib', label')
    <2>1. KeepsAt(p, SubSeq(hist, 1, t), lib, hist[t].label)
      BY <1>1, <1>4, KeepsCut
    <2> QED BY <1>6, <2>1 DEF Stranded, Keeps
  <1> QED BY <1>2, <1>3, <1>5, <1>6 DEF Sorted

LEMMA InitDocument == Init => DInv
  <1>1. SUFFICES ASSUME Init PROVE DInv
    OBVIOUS
  <1>2. TypeOK /\ BottomOnly /\ IInv
    BY <1>1, InitBottom, InitialAgree DEF Init, IInv
  <1>3. /\ Len(hist) = 1 /\ hist[1] = InitialEntry
        /\ Len(lib) = 1 /\ lib[1] = Frame(FirstLabel, {}) /\ label = FirstLabel
    BY <1>1 DEF Init
  <1>4. /\ InitialEntry.label = FirstLabel /\ InitialEntry.snap.env = {}
        /\ Frame(FirstLabel, {}).label = FirstLabel /\ Frame(FirstLabel, {}).env = {}
    BY InitialOfNothing DEF InitialFields, Frame, Snapshot
  <1>5. Keeps(hist, lib, label)
    <2> DEFINE p == [i \in 1..1 |-> 1]
    <2>1. \A i, j \in 1..1 : i = 1 /\ ~(i < j) /\ p[i] = 1 /\ 1 \in 1..1
      OBVIOUS
    <2>2. FirstLabel <= FirstLabel
      BY DEF FirstLabel
    <2>3. Place(lib, 1, FirstLabel)
      BY <1>3, <1>4 DEF Place
    <2> HIDE DEF InitialEntry, p
    <2>4. KeepsAt(p, hist, lib, label)
      BY <1>3, <1>4, <2>1, <2>2, <2>3 DEF KeepsAt
    <2> QED BY <2>4 DEF Keeps
  <1> QED BY <1>2, <1>5 DEF DInv

LEMMA NextDocument == DInv /\ [RegularNext]_vars => DInv'
  <1>1. SUFFICES ASSUME DInv, [RegularNext]_vars PROVE DInv'
    OBVIOUS
  <1>2. CASE RegularNext
    <2>1. IInv' /\ TypeOK'
      BY <1>1, <1>2, RegularType, RegularAgree DEF DInv, IInv
    <2>2. Sorted
      BY <1>1, <1>2, RegularShape DEF DInv, IInv
    <2>3. BottomOnly'
      BY <1>1, <2>1, <2>2, SortedBottom DEF DInv, IInv
    <2>4. Keeps(hist', lib', label')
      BY <1>1, <2>1, <2>2, SortedKeeps DEF TypeOK
    <2> QED BY <2>1, <2>3, <2>4 DEF DInv
  <1>3. CASE UNCHANGED vars
    BY <1>1, <1>3 DEF vars, DInv, IInv, TypeOK, BottomOnly, BottomEntry
  <1> QED BY <1>1, <1>2, <1>3

\* The library has the same places to go back to as the history, in the same
\* order and over the declarations that each reachable command left
\* (Lib.reset_label), whatever regular commands fail, are interrupted, even
\* with the label set back and the library not, or are read from a file.
THEOREM LibraryAlwaysRestorable == RegularSpec => []LibraryRestorable
  <1>1. DInv => LibraryRestorable
    <2>1. SUFFICES ASSUME DInv PROVE LibraryRestorable
      OBVIOUS
    <2>2. /\ Len(hist) \in Nat /\ DOMAIN hist = 1..Len(hist) /\ Len(hist) >= 1
          /\ Len(lib) \in Nat /\ DOMAIN lib = 1..Len(lib)
      BY <2>1, DInvFacts, BottomFacts DEF HistoryOK
    <2> QED BY <2>1, <2>2, DInvFacts, KeepsIs
  <1> QED BY <1>1, InitDocument, NextDocument, PTL DEF RegularSpec

LEMMA KeptLen ==
  ASSUME IInv, NEW t \in 1..Len(hist), hist[t].reachable
  PROVE  LET ps == Kept(proofs, hist[t].nproofs)
         IN  /\ ProofsOK(ps) /\ Restores(ps, hist[t]) /\ Faithful(hist[t])
             /\ Len(ps) = hist[t].nproofs
             /\ ps = <<>> <=> hist[t].prfdepth = 0
             /\ hist[t].prfdepth \in Nat
  <1> DEFINE ps == Kept(proofs, hist[t].nproofs)
  <1>1. /\ Faithful(hist[t]) /\ hist[t].nproofs \in Nat /\ hist[t].prfdepth \in Nat
        /\ hist[t].nproofs = 0 <=> hist[t].prfdepth = 0
    BY IInvFacts, EntryType
  <1>2. ProofsOK(ps) /\ Restores(ps, hist[t])
    BY <1>1, KeptAgree
  <1>3. Len(ps) = hist[t].nproofs
    <2>1. hist[t].nproofs <= Len(proofs) /\ Len(proofs) \in Nat
      BY IInvFacts, LenOK DEF Faithful, Restores
    <2> QED BY <1>1, <2>1, IInvFacts, KeptOK
  <1> HIDE DEF ps
  <1>4. ps = <<>> <=> Len(ps) = 0
    BY <1>2, LenOK
  <1>5. ps = <<>> <=> hist[t].prfdepth = 0
    BY <1>1, <1>3, <1>4
  <1> QED BY <1>1, <1>2, <1>3, <1>5 DEF ps

LEMMA BackIsGranted ==
  ASSUME DInv, NEW n \in 1..MaxLabel, Back(n)
  PROVE  answer' \in {"ok", "interrupted"}
  <1>1. load = "no" /\ n < Len(hist) /\ n \in Nat \ {0} /\ Len(hist) \in Nat
    BY DInvFacts, BottomFacts, BacktrackAssumption DEF Back, BacktrackAssumption
  <1>2. CASE SyncInterrupted(Len(hist) - n)
    BY <1>2 DEF SyncInterrupted
  <1>3. CASE Sync(Len(hist) - n)
    <2>1. PICK t \in 1..(Len(hist) - n) :
            /\ LastReachable(Len(hist) - n, t)
            /\ RawBacktrack(SubSeq(hist, 1, t), hist[t].label, hist[t].prfdepth,
                            Kept(proofs, hist[t].nproofs))
      BY <1>3 DEF Sync
    <2>2. t \in 1..Len(hist) /\ t < Len(hist) /\ hist[t].reachable
      BY <1>1, <2>1 DEF LastReachable
    <2>3. CanUndoTo(Kept(proofs, hist[t].nproofs), hist[t].prfdepth)
      BY <2>2, DInvFacts, KeptLen DEF CanUndoTo
    <2>4. CanReset(hist[t].label)
      <3>1. Len(hist) \in 1..Len(hist)
        BY <1>1, <2>2
      <3>2. PICK p : KeepsAt(p, hist, lib, label)
        BY DInvFacts DEF Keeps
      <3>3. hist[t].label < hist[Len(hist)].label /\ hist[Len(hist)].label <= label
        BY <2>2, <3>1, <3>2 DEF KeepsAt
      <3>4. hist[t].label \in Nat /\ hist[Len(hist)].label \in Nat
        BY <2>2, <3>1, DInvFacts, LabelNat
      <3>5. \E k \in DOMAIN lib : lib[k].label = hist[t].label
        BY <2>2, <3>2, DInvFacts, FrameType DEF KeepsAt, Place
      <3> QED BY <3>3, <3>4, <3>5, DInvFacts DEF CanReset
    <2>5. GoTo(hist[t].label)
      BY <2>1, <2>3, <2>4 DEF RawBacktrack
    <2> QED BY <1>1, <2>5 DEF GoTo, Navigated
  <1> QED BY <1>2, <1>3 DEF Back

\* Back to a place in the history never fails: the counts and depths of the
\* entry can be reached, and its label is in the library (raw_backtrack).
THEOREM BackAlwaysWorks == RegularSpec => BackWorks
  <1>1. DInv /\ [RegularNext]_vars
          => [(\E n \in 1..MaxLabel : Back(n)) => answer' \in {"ok", "interrupted"}]_vars
    BY BackIsGranted
  <1> QED BY <1>1, InitDocument, NextDocument, PTL DEF RegularSpec, BackWorks

-----------------------------------------------------------------------------
(* The refinement of Document.                                             *)

LEMMA SameProof ==
  ASSUME NEW p \in Proof, NEW q \in Proof, p.name = q.name,
         Len(p.states) = Len(q.states), \A i \in 1..Len(q.states) : p.states[i] = q.states[i]
  PROVE  p = q
  <1>1. p.states \in Seq(ProofStates) /\ q.states \in Seq(ProofStates)
    BY DEF Proof
  <1>2. p.states = q.states
    BY <1>1, SeqEqual
  <1> QED BY <1>2 DEF Proof

\* Popping down to the depth of q leads from p to q, if p has its states.
LEMMA UndoneIs ==
  ASSUME NEW p \in Proof, NEW q \in Proof, p.name = q.name, Len(q.states) >= 2,
         \A i \in 1..Len(q.states) : p.states[i] = q.states[i],
         NEW k \in Nat, k < Depth(p), Len(p.states) - k = Len(q.states)
  PROVE  Undone(p, k) = q
  <1> DEFINE r == Undone(p, k)
  <1>1. p.states \in Seq(ProofStates) /\ Len(p.states) \in Nat /\ Len(q.states) \in Nat
    BY DEF Proof
  <1>2. /\ r \in Proof /\ r.name = p.name
        /\ r.states = SubSeq(p.states, 1, Len(q.states))
        /\ Len(r.states) = Len(q.states)
    BY <1>1, UndoneOK
  <1> HIDE DEF r
  <1>3. Len(q.states) <= Len(p.states)
    BY <1>1
  <1>4. \A i \in 1..Len(q.states) : r.states[i] = q.states[i]
    BY <1>1, <1>2, <1>3
  <1>5. r = q
    BY <1>2, <1>4, SameProof
  <1> QED BY <1>5 DEF r

\* Aborting and undoing as the entry says leads to its very proofs.
LEMMA RestoredProofs ==
  ASSUME NEW ps, ProofsOK(ps), NEW e, Faithful(e), Restores(ps, e), e.nproofs = Len(ps)
  PROVE  UndoneTo(ps, e.prfdepth) = e.snap.proofs
  <1> DEFINE qs == e.snap.proofs
             n == Len(qs)
             d == e.prfdepth
  <1>1. /\ ProofsOK(qs) /\ n = Len(ps) /\ n = Len(qs) /\ n \in Nat
        /\ ps \in Seq(Proof) /\ qs \in Seq(Proof)
        /\ n = 0 <=> qs = <<>>
        /\ n = 0 <=> ps = <<>>
    BY LenOK DEF Faithful, ProofsOK
  <1>4. \A i \in 1..n : i = n \/ i \in 1..(n - 1)
    BY <1>1
  <1>2. CASE n = 0
    BY <1>1, <1>2 DEF UndoneTo
  <1>3. CASE n # 0
    <2> DEFINE p == Top(ps)
               q == Top(qs)
    <2>1. /\ p \in Proof /\ p = ps[n] /\ Len(p.states) \in Nat
          /\ q \in Proof /\ q = qs[n] /\ Len(q.states) \in Nat /\ Len(q.states) >= 2
          /\ ps # <<>>
      BY <1>1, <1>3, TopProof
    <2>2. d = Len(q.states) - 1 /\ Depth(p) = Len(p.states) - 1
      BY <1>1, <1>3 DEF Faithful, Depth
    <2>3. /\ \A i \in 1..(n - 1) : ps[i] = qs[i]
          /\ p.name = q.name /\ Len(q.states) <= Len(p.states)
          /\ \A i \in 1..Len(q.states) : p.states[i] = q.states[i]
      BY <1>3, <2>1 DEF Restores
    <2> HIDE DEF p, q, qs, n, d
    <2>4. CASE Depth(p) <= d
      <3>1. Len(p.states) = Len(q.states)
        BY <2>1, <2>2, <2>3, <2>4
      <3>2. p = q
        BY <2>1, <2>3, <3>1, SameProof
      <3>3. \A i \in 1..n : ps[i] = qs[i]
        BY <1>4, <2>1, <2>3, <3>2
      <3>4. ps = qs
        BY <1>1, <3>3, SeqEqual
      <3> QED BY <2>4, <3>4 DEF UndoneTo, p, qs, d
    <2>5. CASE ~(Depth(p) <= d)
      <3>1. \A x, y \in Nat : y >= 2 /\ ~(x - 1 <= y - 1) =>
              /\ (x - 1) - (y - 1) \in Nat
              /\ (x - 1) - (y - 1) < x - 1
              /\ x - ((x - 1) - (y - 1)) = y
        OBVIOUS
      <3>2. PICK k : /\ k = Depth(p) - d
                     /\ k \in Nat /\ k < Depth(p) /\ Len(p.states) - k = Len(q.states)
        <4>1. ~(Len(p.states) - 1 <= Len(q.states) - 1)
          BY <2>2, <2>5
        <4>2. Depth(p) - d = (Len(p.states) - 1) - (Len(q.states) - 1)
          BY <2>2
        <4> QED BY <2>1, <2>2, <3>1, <4>1, <4>2
      <3>3. Undone(p, k) = q
        BY <2>1, <2>3, <3>2, UndoneIs
      <3> DEFINE rs == WithTop(ps, q)
      <3>5. n \in 1..Len(ps) /\ rs = [ps EXCEPT ![n] = q]
        BY <1>1, <1>3 DEF WithTop
      <3> HIDE DEF rs
      <3>6. /\ rs \in Seq(Proof) /\ Len(rs) = n
            /\ \A i \in 1..n : rs[i] = IF i = n THEN q ELSE ps[i]
        <4>1. q \in Proof /\ ps \in Seq(Proof) /\ n \in 1..Len(ps) /\ Len(ps) = n
          BY <1>1, <2>1, <3>5
        <4> QED BY <3>5, <4>1, ExceptSeq
      <3>7. \A i \in 1..n : rs[i] = qs[i]
        BY <1>4, <2>1, <2>3, <3>6
      <3>8. rs = qs
        BY <1>1, <3>6, <3>7, SeqEqual
      <3> QED BY <2>1, <2>5, <3>2, <3>3, <3>8 DEF UndoneTo, p, rs, qs, d
    <2> QED BY <2>4, <2>5
  <1> QED BY <1>2, <1>3

\* The document of a history.
States(h) == [i \in DOMAIN h |-> h[i].snap]
SnapType == [proofs : Seq(Proof), env : SUBSET Names]

LEMMA StatesSeq ==
  ASSUME NEW h, HistoryOK(h)
  PROVE  /\ States(h) \in Seq(SnapType) /\ Len(States(h)) = Len(h) /\ Len(h) \in Nat
         /\ \A i \in 1..Len(h) : States(h)[i] = h[i].snap
  <1>1. DOMAIN h = 1..Len(h) /\ Len(h) \in Nat
    BY DEF HistoryOK
  <1>2. ASSUME NEW i \in 1..Len(h)
        PROVE  h[i].snap \in SnapType
    <2>1. h[i] \in Entry
      BY <1>1, ElementOfSeq DEF HistoryOK
    <2> QED BY <2>1 DEF Entry, SnapType
  <1>3. States(h) = [i \in 1..Len(h) |-> h[i].snap]
    BY <1>1 DEF States
  <1> HIDE DEF SnapType
  <1> QED BY <1>1, <1>2, <1>3

LEMMA StatesLowers ==
  ASSUME NEW h, HistoryOK(h), NEW g, HistoryOK(g), Lowers(h, g)
  PROVE  States(g) = SubSeq(States(h), 1, Len(g))
  <1>1. /\ States(h) \in Seq(SnapType) /\ Len(States(h)) = Len(h) /\ Len(h) \in Nat
        /\ \A i \in 1..Len(h) : States(h)[i] = h[i].snap
    BY StatesSeq
  <1>2. /\ States(g) \in Seq(SnapType) /\ Len(States(g)) = Len(g) /\ Len(g) \in Nat
        /\ \A i \in 1..Len(g) : States(g)[i] = g[i].snap
    BY StatesSeq
  <1>3. \A i \in 1..Len(g) : i \in 1..Len(h) /\ g[i].snap = h[i].snap
    BY LowersFacts
  <1> DEFINE dd == SubSeq(States(h), 1, Len(g))
  <1>4. /\ dd \in Seq(SnapType) /\ Len(dd) = Len(g)
        /\ \A i \in 1..Len(g) : dd[i] = States(h)[i]
    BY <1>1, <1>2 DEF Lowers
  <1>5. \A i \in 1..Len(g) : States(g)[i] = dd[i]
    BY <1>1, <1>2, <1>3, <1>4
  <1> HIDE DEF dd
  <1>6. States(g) = dd
    BY <1>2, <1>4, <1>5, SeqEqual
  <1> QED BY <1>6 DEF dd

LEMMA StatesAppend ==
  ASSUME NEW h, HistoryOK(h), NEW x \in Entry, HistoryOK(Append(h, x))
  PROVE  States(Append(h, x)) = Append(States(h), x.snap)
  <1> DEFINE g == Append(h, x)
             dd == Append(States(h), x.snap)
  <1>1. /\ States(h) \in Seq(SnapType) /\ Len(States(h)) = Len(h) /\ Len(h) \in Nat
        /\ \A i \in 1..Len(h) : States(h)[i] = h[i].snap
    BY StatesSeq
  <1>2. /\ States(g) \in Seq(SnapType) /\ Len(States(g)) = Len(g)
        /\ \A i \in 1..Len(g) : States(g)[i] = g[i].snap
    BY StatesSeq
  <1>3. /\ Len(g) = Len(h) + 1 /\ g[Len(h) + 1] = x
        /\ \A i \in 1..Len(h) : g[i] = h[i]
    BY DEF HistoryOK
  <1>4. x.snap \in SnapType
    BY DEF Entry, SnapType
  <1> HIDE DEF g, SnapType
  <1>5. /\ dd \in Seq(SnapType) /\ Len(dd) = Len(h) + 1 /\ dd[Len(h) + 1] = x.snap
        /\ \A i \in 1..Len(h) : dd[i] = States(h)[i]
    BY <1>1, <1>4
  <1> HIDE DEF dd
  <1>6. \A i \in 1..Len(g) : States(g)[i] = dd[i]
    <2>1. \A i \in 1..Len(g) : i \in 1..Len(h) \/ i = Len(h) + 1
      BY <1>1, <1>3
    <2> QED BY <1>1, <1>2, <1>3, <1>5, <2>1
  <1>7. States(g) = dd
    BY <1>1, <1>2, <1>3, <1>5, <1>6, SeqEqual
  <1> QED BY <1>7 DEF g, dd

\* Returning to an entry is the document's return to that state.
LEMMA ReturnedImplements ==
  ASSUME DInv, TypeOK', NEW t \in 1..Len(hist), Returned(t)
  PROVE  /\ States(hist') = SubSeq(States(hist), 1, t)
         /\ Snapshot(proofs', env') = States(hist)[t]
         /\ t \in 1..Len(States(hist))
  <1>1. HistoryOK(hist) /\ HistoryOK(hist') /\ Len(hist) \in Nat /\ hist[t] \in Entry
    BY DInvFacts, BottomFacts, EntryType DEF TypeOK
  <1>2. hist[t].reachable /\ hist' = SubSeq(hist, 1, t) /\ Len(hist') = t
    BY <1>1 DEF Returned, HistoryOK
  <1>3. States(hist') = SubSeq(States(hist), 1, t)
    BY <1>1, <1>2, LowersPrefix, StatesLowers
  <1>4. proofs' = hist[t].snap.proofs
    <2>1. proofs' = UndoneTo(Kept(proofs, hist[t].nproofs), hist[t].prfdepth)
      BY DEF Returned
    <2>2. /\ ProofsOK(Kept(proofs, hist[t].nproofs))
          /\ Restores(Kept(proofs, hist[t].nproofs), hist[t])
          /\ Faithful(hist[t])
          /\ hist[t].nproofs = Len(Kept(proofs, hist[t].nproofs))
      BY <1>2, DInvFacts, KeptLen
    <2> QED BY <2>1, <2>2, RestoredProofs
  <1>5. env' = hist[t].snap.env
    <2>1. PICK k \in DOMAIN lib : Place(lib, k, hist[t].label) /\ env' = lib[k].env
      BY DEF Returned, ResetLabel, LastFrame, Place
    <2>2. k \in 1..Len(lib)
      BY DInvFacts, FrameType
    <2>3. PICK p : KeepsAt(p, hist, lib, label)
      BY DInvFacts DEF Keeps
    <2> QED BY <1>2, <2>1, <2>2, <2>3, DInvFacts, KeepsReturned
  <1>6. hist[t].snap \in SnapType
    BY <1>1 DEF Entry, SnapType
  <1>7. Snapshot(proofs', env') = hist[t].snap
    BY <1>4, <1>5, <1>6 DEF Snapshot, SnapType
  <1> QED BY <1>1, <1>3, <1>7, StatesSeq

LEMMA SortedImplements ==
  ASSUME DInv, TypeOK', Sorted
  PROVE  Doc!Next
  <1>1. HistoryOK(hist) /\ HistoryOK(hist') /\ Len(hist) \in Nat /\ label \in Nat
    BY DInvFacts, BottomFacts DEF TypeOK
  <1>2. ASSUME Quiet
        PROVE  Doc!Next
    <2>1. States(hist') = SubSeq(States(hist), 1, Len(hist'))
      BY <1>1, <1>2, StatesLowers DEF Quiet
    <2>2. Len(hist') \in 1..Len(States(hist))
      BY <1>1, <1>2, StatesSeq DEF Quiet, Lowers
    <2>3. answer' \in Answers \ {"ok"}
      BY <1>2 DEF Quiet
    <2>4. Doc!Drift
      BY <2>1, <2>2, <2>3 DEF Doc!Drift, Doc!Forget, States
    <2> QED BY <2>4 DEF Doc!Next
  <1>3. ASSUME Recorded
        PROVE  Doc!Next
    <2>1. PICK h : /\ Lowers(hist, h) /\ Len(h) = Len(hist) /\ HistoryOK(h)
                   /\ hist' = Append(h, Info(label + 1, proofs', env'))
      BY <1>3 DEF Recorded
    <2> DEFINE x == Info(label + 1, proofs', env')
    <2>2. x \in Entry /\ x.snap = Snapshot(proofs', env')
      <3>1. label + 1 \in Nat \ {0} /\ ProofsOK(proofs') /\ env' \in SUBSET Names
        BY <1>1 DEF TypeOK
      <3>2. x \in Entry
        BY <3>1, InfoOK
      <3> QED BY <3>2 DEF Info
    <2> HIDE DEF x
    <2>3. States(h) = States(hist)
      <3>1. States(h) = SubSeq(States(hist), 1, Len(hist))
        BY <1>1, <2>1, StatesLowers
      <3>2. States(hist) = SubSeq(States(hist), 1, Len(hist))
        <4>1. hist # <<>>
          BY DInvFacts, BottomFacts
        <4> QED BY <1>1, <4>1, LowersSame, StatesLowers
      <3> QED BY <3>1, <3>2
    <2>4. States(hist') = Append(States(hist), Snapshot(proofs', env'))
      <3>1. hist' = Append(h, x)
        BY <2>1 DEF x
      <3> QED BY <1>1, <2>1, <2>2, <2>3, <3>1, StatesAppend
    <2>5. answer' = "ok"
      BY <1>3 DEF Recorded
    <2>6. Doc!Record
      BY <2>4, <2>5 DEF Doc!Record, States, Snapshot
    <2> QED BY <2>6 DEF Doc!Next
  <1>4. ASSUME NEW t \in 1..Len(hist), Returned(t)
        PROVE  Doc!Next
    <2>1. /\ States(hist') = SubSeq(States(hist), 1, t)
          /\ Snapshot(proofs', env') = States(hist)[t]
          /\ t \in 1..Len(States(hist))
      BY <1>4, ReturnedImplements
    <2>2. CASE answer' = "ok"
      <3>1. Doc!GoBack
        BY <2>1, <2>2 DEF Doc!GoBack, Doc!Forget, States, Snapshot
      <3> QED BY <3>1 DEF Doc!Next
    <2>3. CASE answer' \in {"done", "interrupted"}
      <3>1. Doc!Drift
        BY <2>1, <2>3 DEF Doc!Drift, Doc!Forget, States, Answers
      <3> QED BY <3>1 DEF Doc!Next
    <2> QED BY <1>4, <2>2, <2>3 DEF Returned
  <1>5. ASSUME NEW t \in 1..Len(hist), Stranded(t)
        PROVE  Doc!Next
    <2>1. hist' = SubSeq(hist, 1, t) /\ Len(hist') = t /\ answer' = "interrupted"
      BY <1>1, <1>5 DEF Stranded, HistoryOK
    <2>2. States(hist') = SubSeq(States(hist), 1, t)
      BY <1>1, <2>1, LowersPrefix, StatesLowers
    <2>3. Doc!Drift
      BY <1>1, <2>1, <2>2, StatesSeq DEF Doc!Drift, Doc!Forget, States, Answers
    <2> QED BY <2>3 DEF Doc!Next
  <1> QED BY <1>2, <1>3, <1>4, <1>5 DEF Sorted

LEMMA InitImplements == Init => Doc!Init
  <1>1. SUFFICES ASSUME Init PROVE Doc!Init
    OBVIOUS
  <1>2. hist = <<InitialEntry>> /\ proofs = <<>> /\ env = {} /\ answer = "ok"
    BY <1>1 DEF Init
  <1>3. InitialEntry.snap = Snapshot(<<>>, {})
    BY InitialOfNothing DEF InitialFields
  <1>4. States(hist) = <<Snapshot(<<>>, {})>>
    <2>1. HistoryOK(hist) /\ Len(hist) = 1 /\ hist[1] = InitialEntry
      BY <1>2, InitialOK
    <2>2. /\ States(hist) \in Seq(SnapType) /\ Len(States(hist)) = 1
          /\ States(hist)[1] = Snapshot(<<>>, {})
      BY <1>3, <2>1, StatesSeq
    <2>3. Snapshot(<<>>, {}) \in SnapType
      BY DEF Snapshot, SnapType
    <2> DEFINE one == <<Snapshot(<<>>, {})>>
    <2>4. one \in Seq(SnapType) /\ Len(one) = 1 /\ one[1] = Snapshot(<<>>, {})
      BY <2>3
    <2> HIDE DEF one
    <2>5. \A i \in 1..1 : States(hist)[i] = one[i]
      BY <2>2, <2>4
    <2>6. States(hist) = one
      BY <2>2, <2>4, <2>5, SeqEqual
    <2> QED BY <2>6 DEF one
  <1> QED BY <1>2, <1>4 DEF Doc!Init, States, Snapshot

\* The session implements the document: under the regular commands an answer
\* "ok" is a new state recorded or a recorded state restored, proofs and
\* library together, and no other answer adds to the document.
THEOREM SessionImplementsDocument == RegularSpec => ImplementsDocument
  <1>1. DInv /\ DInv' /\ [RegularNext]_vars => [Doc!Next]_(Doc!docVars)
    <2>1. SUFFICES ASSUME DInv, DInv', [RegularNext]_vars
                   PROVE  [Doc!Next]_(Doc!docVars)
      OBVIOUS
    <2>2. CASE RegularNext
      <3>1. TypeOK' /\ Sorted
        BY <2>1, <2>2, RegularType, RegularShape DEF DInv, IInv
      <3> QED BY <2>1, <3>1, SortedImplements
    <2>3. CASE UNCHANGED vars
      BY <2>3 DEF vars, Doc!docVars
    <2> QED BY <2>1, <2>2, <2>3
  <1> QED BY <1>1, InitDocument, InitImplements, NextDocument, PTL
          DEF RegularSpec, ImplementsDocument, Doc!Spec
=============================================================================
