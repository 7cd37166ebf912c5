--------------------------- MODULE VmMemoryProofs ---------------------------
(* How far the stack of the machine may be overrun, for all sizes and all    *)
(* programs: not at all when the threshold covers twice what a run uses       *)
(* between two checks.  The margin is used twice, by the run that a timeout   *)
(* stops, whose words stay, and by the next one, and not more than twice.     *)
(*                                                                           *)
(* A slot of the table of constants holds its value for ever, with linkings   *)
(* nested in linkings.                                                        *)
EXTENDS VmMemory, TLAPS

Safe == size - Stack_threshold         \* the height a check lets through

TypeOK == /\ mode \in {"ml", "vm", "gc", "grow", "poll"}
          /\ size \in Nat /\ depth \in Nat /\ published \in Nat
          /\ base \in Nat /\ room \in Nat

(* A run begins at most one excess above what a check lets through, and never *)
(* pops what it found.                                                        *)
Based == /\ Stack_threshold <= size
         /\ base <= Safe + Excess
         /\ base <= depth
         /\ published <= base + Excess \/ published <= Safe + Excess

Roomy == room <= base + MaxPush + Frame \/ room <= Safe + Frame

(* How high the stack is, by mode. *)
Height == /\ mode = "ml" => published = depth /\ depth <= base + MaxPush
          /\ mode = "vm" => depth <= room /\ Roomy
          /\ mode = "gc" => /\ published = depth
                            /\ base + 2 <= depth
                            /\ depth <= room + 2
                            /\ Roomy
          /\ mode = "grow" => published = depth /\ depth <= room /\ Roomy
          /\ mode = "poll" => depth <= Safe

IInv == TypeOK /\ Based /\ Height

-----------------------------------------------------------------------------
(* The sizes, as the provers need them. *)
LEMMA Sizes ==
  /\ Stack_size \in Nat /\ Stack_threshold \in Nat /\ Required \in Nat
  /\ Frame \in Nat /\ MaxPush \in Nat /\ Excess \in Nat
  /\ Excess = Frame + MaxPush + 2
  /\ Stack_threshold <= Stack_size /\ Stack_threshold <= Required
  BY SizesAssumption DEF Excess

(* Addition of naturals. *)
LEMMA Above == ASSUME NEW a \in Nat, NEW b \in Nat PROVE a <= a /\ a <= a + b
  OBVIOUS

LEMMA InitIInv == Init => IInv
  BY Sizes DEF Init, IInv, TypeOK, Based, Height, Safe

LEMMA PushIInv == ASSUME NEW n \in 1..MaxPush, IInv, Push(n) PROVE IInv'
  <1>1. TypeOK'
    BY Sizes DEF IInv, TypeOK, Push
  <1>2. Based' /\ Height'
    BY Sizes DEF IInv, TypeOK, Based, Height, Safe, Push
  <1> QED
    BY <1>1, <1>2 DEF IInv

LEMMA EnterIInv == IInv /\ Enter => IInv'
  <1> SUFFICES ASSUME IInv, Enter PROVE IInv'
    OBVIOUS
  <1>1. TypeOK'
    BY Sizes DEF IInv, TypeOK, Enter
  <1>2. Based' /\ Height'
    BY Sizes DEF IInv, TypeOK, Based, Height, Roomy, Safe, Enter
  <1> QED
    BY <1>1, <1>2 DEF IInv

LEMMA ExecuteIInv == ASSUME NEW d \in base..room, IInv, Execute(d) PROVE IInv'
  <1>1. TypeOK'
    BY Sizes DEF IInv, TypeOK, Execute
  <1>2. Based' /\ Height'
    BY Sizes DEF IInv, TypeOK, Based, Height, Roomy, Safe, Execute
  <1> QED
    BY <1>1, <1>2 DEF IInv

(* The two registers saved for the collector are within the excess. *)
LEMMA SetupIInv == IInv /\ Setup_for_gc => IInv'
  <1> SUFFICES ASSUME IInv, Setup_for_gc PROVE IInv'
    OBVIOUS
  <1>1. TypeOK'
    BY Sizes DEF IInv, TypeOK, Setup_for_gc
  <1>2. Based' /\ Height'
    BY Sizes DEF IInv, TypeOK, Based, Height, Roomy, Safe, Setup_for_gc
  <1> QED
    BY <1>1, <1>2 DEF IInv

LEMMA CollectIInv == IInv /\ Collect => IInv'
  <1> SUFFICES ASSUME IInv, Collect PROVE IInv'
    OBVIOUS
  <1>1. CASE mode = "gc"
    <2>1. TypeOK'
      BY Sizes, <1>1 DEF IInv, TypeOK, Based, Height, Collect
    <2>2. Based' /\ Height'
      BY Sizes, <1>1 DEF IInv, TypeOK, Based, Height, Roomy, Safe, Collect
    <2> QED
      BY <2>1, <2>2 DEF IInv
  <1>2. CASE mode # "gc"
    BY <1>2 DEF IInv, TypeOK, Based, Height, Roomy, Safe, Collect
  <1> QED
    BY <1>1, <1>2

LEMMA CheckIInv == IInv /\ Check => IInv'
  <1> SUFFICES ASSUME IInv, Check PROVE IInv'
    OBVIOUS
  <1>1. TypeOK'
    BY Sizes DEF IInv, TypeOK, Check
  <1>2. CASE size - depth < Stack_threshold
    BY Sizes, <1>1, <1>2 DEF IInv, TypeOK, Based, Height, Roomy, Safe, Check
  <1>3. CASE ~(size - depth < Stack_threshold)
    BY Sizes, <1>1, <1>3 DEF IInv, TypeOK, Based, Height, Roomy, Safe, Check
  <1> QED
    BY <1>2, <1>3

LEMMA GrowIInv == IInv /\ Grow => IInv'
  <1> SUFFICES ASSUME IInv, Grow PROVE IInv'
    OBVIOUS
  <1>1. TypeOK' /\ size <= size'
    BY Sizes DEF IInv, TypeOK, Grow
  <1>2. Based'
    BY Sizes, <1>1 DEF IInv, TypeOK, Based, Safe, Grow
  <1>3. CASE size' < published + Required
    BY Sizes, <1>1, <1>2, <1>3 DEF IInv, TypeOK, Height, Roomy, Safe, Grow
  <1>4. CASE ~(size' < published + Required)
    BY Sizes, <1>1, <1>2, <1>4 DEF IInv, TypeOK, Height, Roomy, Safe, Grow
  <1> QED
    BY <1>3, <1>4

LEMMA ContinueIInv == IInv /\ Continue => IInv'
  <1> SUFFICES ASSUME IInv, Continue PROVE IInv'
    OBVIOUS
  <1>1. TypeOK'
    BY Sizes DEF IInv, TypeOK, Continue
  <1> QED
    BY Sizes, <1>1 DEF IInv, TypeOK, Based, Height, Roomy, Safe, Continue

(* What a run leaves when it is stopped is at most one excess above what the  *)
(* check that stopped it lets through, because the run began below.           *)
LEMMA RaiseIInv == ASSUME NEW h \in {0, published}, IInv, Raise(h) PROVE IInv'
  <1>1. published <= Safe + Excess
    BY Sizes DEF IInv, TypeOK, Based, Height, Safe, Raise
  <1>2. TypeOK'
    BY Sizes DEF IInv, TypeOK, Raise
  <1>3. /\ mode' = "ml" /\ size' = size /\ base' = published' /\ depth' = published'
        /\ (published' = 0 \/ published' = published)
        /\ published \in Nat /\ base \in Nat /\ published' \in Nat
    BY <1>2 DEF IInv, TypeOK, Raise
  <1>4. Safe' = Safe /\ Safe \in Int /\ 0 <= Safe
    BY Sizes, <1>3 DEF IInv, TypeOK, Based, Safe
  <1>5. Based'
    <2>1. base' <= Safe' + Excess /\ Stack_threshold <= size'
      BY Sizes, <1>1, <1>3, <1>4 DEF IInv, TypeOK, Based
    <2>2. base' <= depth' /\ published' <= base' + Excess
      BY Sizes, <1>3, Above
    <2> QED
      BY <2>1, <2>2 DEF Based
  <1>6. Height'
    <2>1. published' = depth' /\ depth' <= base' + MaxPush
      BY Sizes, <1>3, Above
    <2> QED
      BY <1>3, <2>1 DEF Height
  <1> QED
    BY <1>2, <1>5, <1>6 DEF IInv

LEMMA StopIInv == IInv /\ Stop => IInv'
  <1> SUFFICES ASSUME IInv, Stop PROVE IInv'
    OBVIOUS
  <1>1. TypeOK'
    BY Sizes DEF IInv, TypeOK, Stop
  <1> QED
    BY Sizes, <1>1 DEF IInv, TypeOK, Based, Height, Safe, Stop

LEMMA StackUnchangedIInv == IInv /\ UNCHANGED stack => IInv'
  BY DEF IInv, TypeOK, Based, Height, Roomy, Safe, stack

LEMMA LibraryUnchanged == Library => UNCHANGED stack
  BY DEF Library, Link, Patch, Patched, Store, Count, Record, Break

LEMMA NextIInv == IInv /\ [Next]_vars => IInv'
  <1> SUFFICES ASSUME IInv, [Next]_vars PROVE IInv'
    OBVIOUS
  <1>1. CASE UNCHANGED vars
    BY <1>1, StackUnchangedIInv DEF vars
  <1>2. CASE Library
    BY <1>2, LibraryUnchanged, StackUnchangedIInv
  <1>3. CASE \E n \in 1..MaxPush : Push(n)
    BY <1>3, PushIInv
  <1>4. CASE Run
    BY <1>4, SetupIInv, CheckIInv, StopIInv, ExecuteIInv DEF Run
  <1>5. CASE Interrupt \/ Timeout
    BY <1>5, RaiseIInv DEF Interrupt, Timeout
  <1> QED
    BY <1>1, <1>2, <1>3, <1>4, <1>5, EnterIInv, CollectIInv, GrowIInv, ContinueIInv DEF Next

(* For every size of the stack and of the threshold and every program,        *)
(* however much it pushes between two checks, the stack is overrun by at most *)
(* what the threshold lacks to cover that twice, whatever is stopped by a     *)
(* timeout or interrupted.                                                    *)
THEOREM OverrunIsBounded == Spec => []InBounds
  <1>1. Overrun \in Nat /\ 2 * Excess <= Stack_threshold + Overrun
    BY Sizes DEF Overrun
  <1>2. IInv => depth <= size + Overrun
    BY Sizes, <1>1 DEF IInv, TypeOK, Based, Height, Roomy, Safe
  <1>3. IInv => published <= size + Overrun
    BY Sizes, <1>1 DEF IInv, TypeOK, Based, Height, Safe
  <1>4. IInv => InBounds
    BY <1>2, <1>3 DEF InBounds
  <1> QED
    BY <1>4, InitIInv, NextIInv, PTL DEF Spec

(* A threshold that covers what a run uses between two checks twice is        *)
(* enough: the stack never overflows.                                         *)
COROLLARY StackNeverOverflows ==
  ASSUME 2 * Excess <= Stack_threshold
  PROVE  Spec => [](depth <= size /\ published <= size)
  <1>1. IInv => depth <= size /\ published <= size
    BY Sizes DEF IInv, TypeOK, Based, Height, Roomy, Safe
  <1> QED
    BY <1>1, InitIInv, NextIInv, PTL DEF Spec

-----------------------------------------------------------------------------
(* The collector: it knows all the words below both stack pointers.         *)
Known == IInv /\ valid \in Nat /\ depth <= valid /\ published <= valid

LEMMA InitKnown == Init => Known
  BY InitIInv DEF Init, Known

(* Words written above those it knows are known when these are contiguous.   *)
LEMMA WrittenKnown ==
  ASSUME NEW d \in Nat, Known
  PROVE  Written(d) \in Nat /\ d <= Written(d) /\ valid <= Written(d)
  BY DEF Known, IInv, TypeOK, Written

LEMMA RunKnown == Known /\ (Setup_for_gc \/ Check \/ Stop) /\ IInv' => Known'
  <1> SUFFICES ASSUME Known, IInv', Setup_for_gc \/ Check \/ Stop PROVE Known'
    OBVIOUS
  <1>1. CASE Setup_for_gc
    <2>1. depth + 2 \in Nat
      BY DEF Known, IInv, TypeOK
    <2> QED
      BY <1>1, <2>1, WrittenKnown DEF Setup_for_gc, Known
  <1>2. CASE Check \/ Stop
    BY <1>2 DEF Check, Stop, Known
  <1> QED
    BY <1>1, <1>2

LEMMA ExecuteKnown == ASSUME NEW d \in base..room, Known, IInv', Execute(d) PROVE Known'
  <1>1. d \in Nat
    BY DEF Known, IInv, TypeOK
  <1>2. valid' \in Nat /\ d <= valid' /\ valid <= valid'
    BY <1>1, WrittenKnown DEF Execute
  <1> QED
    BY <1>1, <1>2 DEF Execute, Known, IInv, TypeOK

LEMMA PushKnown == ASSUME NEW n \in 1..MaxPush, Known, IInv', Push(n) PROVE Known'
  <1>1. published + n \in Nat
    BY Sizes DEF Known, IInv, TypeOK
  <1> QED
    BY <1>1, WrittenKnown DEF Push, Known

(* A collection and a growth forget what is above the published pointer: that *)
(* is the one in use in OCaml, at an allocation and when the stack grows.     *)
LEMMA MovedKnown == Known /\ (Collect \/ Grow) /\ IInv' => Known'
  <1> SUFFICES ASSUME Known, IInv', Collect \/ Grow PROVE Known'
    OBVIOUS
  <1>1. CASE Collect
    <2>1. published = depth /\ published \in Nat /\ valid' = published
          /\ published' = published
      BY <1>1 DEF Collect, scanned, Known, IInv, TypeOK, Height
    <2>2. depth' <= depth
      BY <1>1 DEF Collect, Known, IInv, TypeOK
    <2> QED
      BY <2>1, <2>2 DEF Known
  <1>2. CASE Grow
    <2>1. published = depth /\ published \in Nat
      BY <1>2 DEF Grow, Known, IInv, TypeOK, Height
    <2>2. valid' \in {valid, published}
      BY <1>2 DEF Grow
    <2> QED
      BY <1>2, <2>1, <2>2 DEF Grow, Known
  <1> QED
    BY <1>1, <1>2

LEMMA PolledKnown ==
  Known /\ (Enter \/ Continue \/ Interrupt \/ Timeout) /\ IInv' => Known'
  BY DEF Enter, Continue, Interrupt, Timeout, Raise, Known, IInv, TypeOK

LEMMA NextKnown == Known /\ [Next]_vars => Known'
  <1> SUFFICES ASSUME Known, [Next]_vars PROVE Known'
    OBVIOUS
  <1>1. IInv'
    BY NextIInv DEF Known
  <1>2. CASE UNCHANGED vars \/ Library
    BY <1>1, <1>2, LibraryUnchanged DEF vars, stack, Known
  <1>3. CASE \E n \in 1..MaxPush : Push(n)
    BY <1>1, <1>3, PushKnown
  <1>4. CASE Run
    BY <1>1, <1>4, RunKnown, ExecuteKnown DEF Run
  <1>5. CASE Collect \/ Grow
    BY <1>1, <1>5, MovedKnown
  <1>6. CASE Enter \/ Continue \/ Interrupt \/ Timeout
    BY <1>1, <1>6, PolledKnown
  <1> QED
    BY <1>2, <1>3, <1>4, <1>5, <1>6 DEF Next

(* Every word in use is known to the collector, and copied when the stack     *)
(* grows: coq_sp is published before each of them.                            *)
THEOREM NoWordIsStale == Spec => []NoStaleWord
  <1>1. Known => NoStaleWord
    BY DEF Known, NoStaleWord
  <1> QED
    BY <1>1, InitKnown, NextKnown, PTL DEF Spec

-----------------------------------------------------------------------------
(* The table of constants: a slot holds its value for ever, for all          *)
(* constants, whatever they mention, and all sizes: linking is interrupted   *)
(* anywhere, and starts other linkings in the middle of itself.              *)

Steps == {"patch", "eval", "store", "count", "record"}
Task == [c : Constants, todo : SUBSET Constants, at : Steps, n : Nat \cup {NoKey}]

TableTypeOK == /\ tasks \in Seq(Task)
               /\ num_global \in Nat
               /\ key \in [Constants -> Nat \cup {NoKey}]
               /\ globals = [i \in DOMAIN globals |-> globals[i]]

(* A constant that waits for those it mentions has no slot yet.              *)
Waiting == \A i \in 2..Len(tasks) : tasks[i].at = "patch"

(* What is written and not counted yet is in the next slot; what is counted  *)
(* is in a slot that no later write reaches.                                 *)
Holds(n) == n \in DOMAIN globals /\ globals[n] = tasks[1].c
Between == tasks # <<>> =>
             /\ tasks[1].at = "count" => tasks[1].n = num_global /\ Holds(num_global)
             /\ tasks[1].at = "record" => /\ tasks[1].n \in Nat
                                          /\ tasks[1].n < num_global
                                          /\ Holds(tasks[1].n)

TableInv == TableTypeOK /\ Waiting /\ Between /\ SlotsHold

-----------------------------------------------------------------------------
(* What the steps of linking do to the list of tasks.                        *)
LEMMA HeadIsTask ==
  ASSUME TableInv, tasks # <<>>
  PROVE  /\ tasks[1] \in Task /\ Len(tasks) \in Nat /\ 1 \in 1..Len(tasks)
         /\ DOMAIN tasks = 1..Len(tasks)
  BY DEF TableInv, TableTypeOK

LEMMA TailOfTasks ==
  ASSUME TableInv, tasks # <<>>
  PROVE  /\ Tail(tasks) \in Seq(Task)
         /\ \A i \in 1..Len(Tail(tasks)) : Tail(tasks)[i].at = "patch"
         /\ Tail(tasks) # <<>> => 1 \in 1..Len(Tail(tasks))
  <1>1. Tail(tasks) \in Seq(Task) /\ Len(Tail(tasks)) = Len(tasks) - 1
        /\ Len(tasks) \in Nat
    BY DEF TableInv, TableTypeOK
  <1>2. ASSUME NEW i \in 1..Len(Tail(tasks))
        PROVE  Tail(tasks)[i] = tasks[i + 1] /\ i + 1 \in 2..Len(tasks)
    BY <1>1 DEF TableInv, TableTypeOK
  <1>3. Tail(tasks) # <<>> => 1 \in 1..Len(Tail(tasks))
    BY <1>1
  <1> QED
    BY <1>1, <1>2, <1>3 DEF TableInv, Waiting

LEMMA OtherHead ==
  ASSUME TableInv, tasks # <<>>, NEW t \in Task, tasks' = [tasks EXCEPT ![1] = t]
  PROVE  /\ tasks' \in Seq(Task) /\ tasks' # <<>> /\ tasks'[1] = t
         /\ Len(tasks') = Len(tasks)
         /\ \A i \in 2..Len(tasks') : tasks'[i] = tasks[i]
  BY HeadIsTask DEF TableInv, TableTypeOK

LEMMA InitTable == Init => TableInv
  <1> SUFFICES ASSUME Init PROVE TableInv
    OBVIOUS
  <1>1. TableTypeOK
    BY DEF Init, TableTypeOK
  <1>2. Waiting /\ Between
    BY DEF Init, Waiting, Between
  <1>3. SlotsHold
    BY DEF Init, SlotsHold
  <1> QED
    BY <1>1, <1>2, <1>3 DEF TableInv

(* A step that leaves the tables alone, and gives or takes no task.          *)
LEMMA Stepped ==
  ASSUME TableInv, tasks # <<>>, UNCHANGED tables,
         NEW step \in {"patch", "eval", "store"},
         NEW S \in SUBSET Constants,
         tasks' = [tasks EXCEPT ![1] = [tasks[1] EXCEPT !.at = step, !.todo = S]]
  PROVE  TableInv'
  <1> DEFINE t == [tasks[1] EXCEPT !.at = step, !.todo = S]
  <1>1. t \in Task /\ t.at = step
    BY HeadIsTask DEF Task, Steps
  <1> HIDE DEF t
  <1>2. tasks' = [tasks EXCEPT ![1] = t]
    BY DEF t
  <1>3. /\ tasks' \in Seq(Task) /\ tasks' # <<>> /\ tasks'[1] = t /\ Len(tasks') = Len(tasks)
        /\ \A i \in 2..Len(tasks') : tasks'[i] = tasks[i]
    BY <1>1, <1>2, OtherHead
  <1>4. TableTypeOK'
    BY <1>3 DEF TableInv, TableTypeOK, tables
  <1>5. Waiting' /\ Between'
    BY <1>1, <1>3 DEF TableInv, Waiting, Between
  <1>6. SlotsHold'
    BY DEF TableInv, SlotsHold, tables
  <1> QED
    BY <1>4, <1>5, <1>6 DEF TableInv

LEMMA ToTable ==
  ASSUME TableInv, Linking, NEW step \in {"patch", "eval", "store"}, To(step), UNCHANGED tables
  PROVE  TableInv'
  <1>1. tasks[1] \in Task
    BY HeadIsTask DEF Linking
  <1>2. tasks[1].todo \in SUBSET Constants
    BY <1>1 DEF Task
  <1>3. [tasks[1] EXCEPT !.at = step] = [tasks[1] EXCEPT !.at = step, !.todo = tasks[1].todo]
    BY <1>1 DEF Task
  <1>4. tasks' = [tasks EXCEPT ![1] = [tasks[1] EXCEPT !.at = step]]
    BY DEF To
  <1> QED
    BY <1>2, <1>3, <1>4, Stepped DEF Linking

LEMMA DroppedTable == ASSUME TableInv, tasks' = <<>>, UNCHANGED tables PROVE TableInv'
  BY DEF TableInv, TableTypeOK, Waiting, Between, SlotsHold, tables

LEMMA UnchangedTable == ASSUME TableInv, UNCHANGED <<tasks, tables>> PROVE TableInv'
  BY DEF TableInv, TableTypeOK, Waiting, Between, Holds, SlotsHold, tables

(* A constant that is mentioned is linked before the one that mentions it.   *)
LEMMA LinkTable == ASSUME NEW c \in Constants, TableInv, Link(c) PROVE TableInv'
  <1> DEFINE t == [c |-> c, todo |-> Uses(c), at |-> "patch", n |-> NoKey]
  <1>1. t \in Task /\ t.at = "patch"
    BY TableAssumption DEF Task, Steps
  <1> HIDE DEF t
  <1>2. tasks' = <<t>> \o tasks /\ UNCHANGED tables
    BY DEF Link, t
  <1>3. /\ tasks' \in Seq(Task) /\ tasks'[1] = t /\ Len(tasks') = Len(tasks) + 1
        /\ Len(tasks) \in Nat
        /\ \A i \in 2..Len(tasks') : tasks'[i] = tasks[i - 1] /\ i - 1 \in 1..Len(tasks)
    BY <1>1, <1>2 DEF TableInv, TableTypeOK
  <1>4. \A i \in 1..Len(tasks) : tasks[i].at = "patch"
    <2>1. ASSUME NEW i \in 1..Len(tasks) PROVE i = 1 \/ i \in 2..Len(tasks)
      BY <1>3
    <2>2. tasks # <<>> => tasks[1].at = "patch"
      BY DEF Link, Linking, At
    <2>3. 1 \in 1..Len(tasks) => tasks # <<>>
      BY <1>3
    <2> QED
      BY <2>1, <2>2, <2>3 DEF TableInv, Waiting
  <1>5. TableTypeOK'
    BY <1>2, <1>3 DEF TableInv, TableTypeOK, tables
  <1>6. Waiting' /\ Between'
    BY <1>1, <1>3, <1>4 DEF Waiting, Between
  <1>7. SlotsHold'
    BY <1>2 DEF TableInv, SlotsHold, tables
  <1> QED
    BY <1>5, <1>6, <1>7 DEF TableInv

LEMMA PatchTable == ASSUME NEW c \in Constants, TableInv, Patch(c) PROVE TableInv'
  <1>1. tasks # <<>> /\ tasks[1].at = "patch" /\ UNCHANGED tables
    BY DEF Patch, At, Linking
  <1>2. tasks[1] \in Task
    BY <1>1, HeadIsTask
  <1> DEFINE S == tasks[1].todo \ {c}
  <1>3. S \in SUBSET Constants
    BY <1>2 DEF Task
  <1>4. [tasks[1] EXCEPT !.todo = S] = [tasks[1] EXCEPT !.at = "patch", !.todo = S]
    BY <1>1, <1>2 DEF Task
  <1>5. tasks' = [tasks EXCEPT ![1] = [tasks[1] EXCEPT !.todo = S]]
    BY DEF Patch
  <1> QED
    BY <1>1, <1>3, <1>4, <1>5, Stepped

-----------------------------------------------------------------------------
(* The table.                                                                *)

(* A table that is reallocated for the slot n has it.                        *)
LEMMA RoundedUp == ASSUME NEW n \in Nat PROVE n < ((n + Chunk) \div Chunk) * Chunk
  <1>1. Chunk \in Nat /\ Chunk > 0
    BY TableAssumption
  <1> DEFINE q == (n + Chunk) \div Chunk
             r == (n + Chunk) % Chunk
  <1>2. q \in Int /\ r \in 0..(Chunk - 1) /\ n + Chunk = Chunk * q + r
    BY <1>1
  <1>3. Chunk * q \in Int /\ Chunk * q = q * Chunk
    BY <1>1, <1>2
  <1> HIDE DEF q, r
  <1>4. n < q * Chunk
    BY <1>1, <1>2, <1>3
  <1> QED
    BY <1>4 DEF q

LEMMA Copied ==
  ASSUME TableInv, num_global \notin DOMAIN globals
  PROVE  LET g == Reallocated(num_global)
         IN /\ num_global \in DOMAIN g
            /\ g = [i \in DOMAIN g |-> g[i]]
            /\ \A k \in DOMAIN globals \cap 0..num_global : k \in DOMAIN g /\ g[k] = globals[k]
  <1> DEFINE wosize == ((num_global + Chunk) \div Chunk) * Chunk
  <1>1. num_global \in Nat /\ wosize \in Int /\ num_global < wosize
    <2>1. num_global \in Nat
      BY DEF TableInv, TableTypeOK
    <2>2. (num_global + Chunk) \div Chunk \in Int /\ Chunk \in Int
      BY <2>1, TableAssumption
    <2>3. wosize \in Int
      BY <2>2
    <2> QED
      BY <2>1, <2>3, RoundedUp
  <1>2. Reallocated(num_global)
          = [i \in 0..(wosize - 1) |-> IF i \in DOMAIN globals THEN globals[i] ELSE NoKey]
    BY DEF Reallocated
  <1> HIDE DEF wosize
  <1>3. num_global \in 0..(wosize - 1) /\ 0..num_global \subseteq 0..(wosize - 1)
    BY <1>1
  <1> QED
    BY <1>2, <1>3

(* A write in the next slot, that no constant has.                           *)
LEMMA StoreTable == ASSUME TableInv, Store PROVE TableInv'
  <1> DEFINE g == IF num_global \in DOMAIN globals THEN globals ELSE Reallocated(num_global)
             t == [tasks[1] EXCEPT !.at = "count", !.n = num_global]
  <1>1. tasks # <<>> /\ num_global \in Nat
    BY DEF Store, At, Linking, TableInv, TableTypeOK
  <1>2. t \in Task /\ t.at = "count" /\ t.n = num_global /\ t.c = tasks[1].c
    BY <1>1, HeadIsTask DEF Task, Steps
  <1>3. /\ num_global \in DOMAIN g
        /\ g = [i \in DOMAIN g |-> g[i]]
        /\ \A k \in DOMAIN globals \cap 0..num_global : k \in DOMAIN g /\ g[k] = globals[k]
    <2>1. CASE num_global \in DOMAIN globals
      BY <2>1 DEF TableInv, TableTypeOK
    <2>2. CASE num_global \notin DOMAIN globals
      BY <2>2, Copied
    <2> QED
      BY <2>1, <2>2
  <1>4. /\ globals' = [g EXCEPT ![num_global] = tasks[1].c]
        /\ tasks' = [tasks EXCEPT ![1] = t]
        /\ num_global' = num_global /\ key' = key
    BY DEF Store
  <1> HIDE DEF g, t
  <1>5. /\ DOMAIN globals' = DOMAIN g
        /\ globals'[num_global] = tasks[1].c
        /\ \A k \in DOMAIN g : k # num_global => globals'[k] = g[k]
        /\ globals' = [i \in DOMAIN globals' |-> globals'[i]]
    BY <1>3, <1>4
  <1>6. /\ tasks' \in Seq(Task) /\ tasks' # <<>> /\ tasks'[1] = t /\ Len(tasks') = Len(tasks)
        /\ \A i \in 2..Len(tasks') : tasks'[i] = tasks[i]
    BY <1>1, <1>2, <1>4, OtherHead
  <1>7. TableTypeOK'
    BY <1>4, <1>5, <1>6 DEF TableInv, TableTypeOK
  <1>8. Waiting' /\ Between'
    BY <1>2, <1>3, <1>4, <1>5, <1>6 DEF TableInv, Waiting, Between, Holds
  <1>9. SlotsHold'
    <2> SUFFICES ASSUME NEW c \in Constants, key[c] # NoKey
                 PROVE  /\ key[c] \in DOMAIN globals' /\ globals'[key[c]] = c
                        /\ key[c] < num_global
      BY <1>4 DEF SlotsHold
    <2>1. key[c] \in Nat /\ key[c] \in DOMAIN globals /\ globals[key[c]] = c
          /\ key[c] < num_global
      BY DEF TableInv, TableTypeOK, SlotsHold
    <2>2. key[c] \in 0..num_global /\ key[c] # num_global
      BY <1>1, <2>1
    <2> QED
      BY <1>3, <1>5, <2>1, <2>2
  <1> QED
    BY <1>7, <1>8, <1>9 DEF TableInv

LEMMA CountTable == ASSUME TableInv, Count PROVE TableInv'
  <1> DEFINE t == [tasks[1] EXCEPT !.at = "record"]
  <1>1. tasks # <<>> /\ num_global \in Nat /\ tasks[1].at = "count"
    BY DEF Count, At, Linking, TableInv, TableTypeOK
  <1>2. t \in Task /\ t.at = "record" /\ t.n = tasks[1].n /\ t.c = tasks[1].c
    BY <1>1, HeadIsTask DEF Task, Steps
  <1>3. /\ tasks' = [tasks EXCEPT ![1] = t] /\ num_global' = num_global + 1
        /\ globals' = globals /\ key' = key
    BY DEF Count, To
  <1> HIDE DEF t
  <1>4. /\ tasks' \in Seq(Task) /\ tasks' # <<>> /\ tasks'[1] = t /\ Len(tasks') = Len(tasks)
        /\ \A i \in 2..Len(tasks') : tasks'[i] = tasks[i]
    BY <1>1, <1>2, <1>3, OtherHead
  <1>5. TableTypeOK'
    BY <1>1, <1>3, <1>4 DEF TableInv, TableTypeOK
  <1>6. tasks[1].n = num_global /\ Holds(num_global)
    BY <1>1 DEF TableInv, Between
  <1>7. Waiting' /\ Between'
    BY <1>1, <1>2, <1>3, <1>4, <1>6 DEF TableInv, Waiting, Between, Holds
  <1>8. SlotsHold'
    BY <1>1, <1>3 DEF TableInv, TableTypeOK, SlotsHold
  <1> QED
    BY <1>5, <1>7, <1>8 DEF TableInv

LEMMA RecordTable == ASSUME TableInv, Record PROVE TableInv'
  <1>1. tasks # <<>> /\ num_global \in Nat /\ tasks[1].at = "record"
    BY DEF Record, At, Linking, TableInv, TableTypeOK
  <1>2. /\ tasks[1] \in Task /\ tasks[1].c \in Constants /\ tasks[1].n \in Nat
        /\ tasks[1].n < num_global /\ Holds(tasks[1].n)
    BY <1>1, HeadIsTask DEF TableInv, Between, Task
  <1>3. /\ tasks' = Tail(tasks) /\ key' = [key EXCEPT ![tasks[1].c] = tasks[1].n]
        /\ globals' = globals /\ num_global' = num_global
    BY DEF Record
  <1>4. TableTypeOK'
    BY <1>1, <1>2, <1>3, TailOfTasks DEF TableInv, TableTypeOK
  <1>5. \A i \in 1..Len(tasks') : tasks'[i].at = "patch"
    BY <1>1, <1>3, TailOfTasks
  <1>6. Waiting' /\ Between'
    <2>1. tasks' # <<>> => 1 \in 1..Len(tasks')
      BY <1>1, <1>3, TailOfTasks
    <2>2. tasks' # <<>> => tasks'[1].at = "patch"
      BY <1>5, <2>1
    <2>3. \A i \in 2..Len(tasks') : i \in 1..Len(tasks')
      BY <1>1, <1>3, TailOfTasks
    <2> QED
      BY <1>5, <2>2, <2>3 DEF Waiting, Between
  <1>7. SlotsHold'
    BY <1>2, <1>3 DEF TableInv, TableTypeOK, SlotsHold, Holds
  <1> QED
    BY <1>4, <1>6, <1>7 DEF TableInv

-----------------------------------------------------------------------------
LEMMA MachineTable ==
  ASSUME TableInv,
         \/ \E n \in 1..MaxPush : Push(n)
         \/ Enter \/ Run \/ Collect \/ Grow \/ Continue \/ Interrupt \/ Timeout
  PROVE  TableInv'
  <1>1. CASE Stop
    <2>1. UNCHANGED tables /\ ((To("store") /\ Linking) \/ UNCHANGED tasks)
      BY <1>1 DEF Stop
    <2> QED
      BY <2>1, ToTable, UnchangedTable
  <1>2. CASE Interrupt \/ Timeout
    BY <1>2, DroppedTable DEF Interrupt, Timeout, Raise
  <1>3. CASE \/ \E n \in 1..MaxPush : Push(n)
             \/ \E d \in base..room : Execute(d)
             \/ Enter \/ Setup_for_gc \/ Check \/ Collect \/ Grow \/ Continue
    <2>1. UNCHANGED <<tasks, tables>>
      BY <1>3 DEF Push, Execute, Enter, Setup_for_gc, Check, Collect, Grow, Continue
    <2> QED
      BY <2>1, UnchangedTable
  <1> QED
    BY <1>1, <1>2, <1>3 DEF Run

LEMMA LibraryTable == ASSUME TableInv, Library PROVE TableInv'
  <1>1. CASE Patched
    <2>1. Linking /\ To("eval") /\ UNCHANGED tables
      BY <1>1 DEF Patched, At
    <2> QED
      BY <2>1, ToTable
  <1>2. CASE Break
    BY <1>2, DroppedTable DEF Break
  <1> QED
    BY <1>1, <1>2, LinkTable, PatchTable, StoreTable, CountTable, RecordTable DEF Library

LEMMA NextTable == TableInv /\ [Next]_vars => TableInv'
  <1> SUFFICES ASSUME TableInv, [Next]_vars PROVE TableInv'
    OBVIOUS
  <1>1. CASE UNCHANGED vars
    BY <1>1, UnchangedTable DEF vars
  <1>2. CASE Next
    BY <1>2, MachineTable, LibraryTable DEF Next
  <1> QED
    BY <1>1, <1>2

(* Once csymtable.ml has recorded the slot of a constant, the table has the   *)
(* value of this constant there for ever, whatever is linked, interrupted or  *)
(* reallocated since.                                                         *)
THEOREM SlotsAlwaysHold == Spec => []SlotsHold
  <1>1. TableInv => SlotsHold
    BY DEF TableInv
  <1> QED
    BY <1>1, InitTable, NextTable, PTL DEF Spec
=============================================================================
