------------------------------ MODULE VmMemory ------------------------------
(* What the machine keeps between programs: its stack, and the table of the *)
(* values of constants (kernel/byterun/coq_memory.c, the checks of          *)
(* coq_interp.c, kernel/csymtable.ml).                                      *)
(*                                                                          *)
(* A program pushes on the stack with no test: each call checks that some   *)
(* room is left, and polls the signals.  The collector scans what is below  *)
(* the stack pointer that the interpreter published last, a global that is  *)
(* not the register it works with.  Heights count words from the base.      *)
EXTENDS Integers, Sequences

CONSTANTS Stack_size, Stack_threshold,
          Required,      \* what is asked for when the stack grows
          Frame,         \* the words a program pushes between two checks
          MaxPush,       \* the words OCaml pushes before a run
          Constants, Uses(_), \* the constants that the body of one mentions
          Global_data_size, Chunk,
          MaxDepth, MaxSlots  \* bounds of the instance

\* The compiler puts no limit on Frame, so nothing is assumed of it here.
ASSUME SizesAssumption ==
  /\ Stack_size \in Nat /\ Stack_threshold \in Nat /\ Required \in Nat
  /\ Frame \in Nat /\ MaxPush \in Nat
  /\ Stack_threshold <= Stack_size /\ Stack_threshold <= Required
ASSUME TableAssumption ==
  /\ Chunk \in Nat \ {0}
  /\ \A c \in Constants : Uses(c) \subseteq Constants

VARIABLES mode,        \* "ml" in OCaml, "vm", "gc", "grow" or "poll" in C
          size, depth, \* of the stack: allocated, and in use by the register sp
          published,   \* coq_sp
          valid,       \* the words the collector knows, or pushed since
          base, room,  \* where a run began, and what it may reach unchecked
          tasks,       \* the constants being linked, innermost first
          globals, num_global, key    \* the table, its use, the slots given

stack == <<mode, size, depth, published, valid, base, room>>
tables == <<globals, num_global, key>>
vars == <<stack, tasks, tables>>

NoKey == -1
Written(d) == IF depth <= valid /\ valid < d THEN d ELSE valid

-----------------------------------------------------------------------------
(* The interpreter.                                                         *)
Linking == tasks # <<>>
At(step) == Linking /\ tasks[1].at = step
To(step) == tasks' = [tasks EXCEPT ![1].at = step]

\* coq_push_ra, coq_push_val, coq_push_arguments, coq_push_vstack.
Push(n) ==
  /\ mode = "ml" /\ ~Linking
  /\ published + n <= base + MaxPush
  /\ published' = published + n
  /\ depth' = published'
  /\ valid' = Written(published')
  /\ UNCHANGED <<mode, size, base, room, tasks, tables>>

\* interprete, or eval_tcode when a constant is linked.
Enter ==
  /\ mode = "ml"
  /\ Linking => At("eval")
  /\ mode' = "vm"
  /\ room' = depth + Frame
  /\ UNCHANGED <<size, depth, published, valid, base, tasks, tables>>

\* Instructions but calls, up to the height d.
Execute(d) ==
  /\ mode = "vm"
  /\ d \in base..room
  /\ depth' = d
  /\ valid' = Written(d)
  /\ UNCHANGED <<mode, size, published, base, room, tasks, tables>>

\* Mutant: the pointer is not published.
Setup_for_gc_unpublished ==
  /\ mode = "vm"
  /\ mode' = "gc"
  /\ depth' = depth + 2
  /\ valid' = Written(depth + 2)
  /\ UNCHANGED <<size, published, base, room, tasks, tables>>

\* Setup_for_gc saves two registers, and Restore_after_gc takes them back.
Setup_for_gc ==
  /\ mode = "vm"
  /\ mode' = "gc"
  /\ depth' = depth + 2
  /\ published' = depth + 2
  /\ valid' = Written(depth + 2)
  /\ UNCHANGED <<size, base, room, tasks, tables>>

scanned == published
Collect ==
  /\ mode \in {"ml", "gc"}
  /\ valid' = scanned
  /\ IF mode = "gc" THEN mode' = "vm" /\ depth' = depth - 2
                    ELSE UNCHANGED <<mode, depth>>
  /\ UNCHANGED <<size, published, base, room, tasks, tables>>

\* Mutant: room is left for the program, and none for what OCaml pushes.
CheckLate ==
  /\ mode = "vm"
  /\ depth <= MaxDepth
  /\ IF size - depth < Frame THEN mode' = "grow" /\ published' = depth
                             ELSE mode' = "poll" /\ UNCHANGED published
  /\ UNCHANGED <<size, depth, valid, base, room, tasks, tables>>

\* A call: check_stacks.
Check ==
  /\ mode = "vm"
  /\ depth <= MaxDepth
  /\ IF size - depth < Stack_threshold THEN mode' = "grow" /\ published' = depth
                                       ELSE mode' = "poll" /\ UNCHANGED published
  /\ UNCHANGED <<size, depth, valid, base, room, tasks, tables>>

\* Mutant: the size that does not do is not doubled.
GrowNot ==
  /\ mode = "grow"
  /\ size' = IF 2 * size < published + Required THEN size ELSE 2 * size
  /\ IF 2 * size < published + Required THEN UNCHANGED <<mode, valid>>
                                        ELSE mode' = "poll" /\ valid' = published
  /\ UNCHANGED <<depth, published, base, room, tasks, tables>>

\* One turn of the loop of realloc_coq_stack; after the last one what coq_sp
\* delimits is copied.
Grow ==
  /\ mode = "grow"
  /\ size' = 2 * size
  /\ IF size' < published + Required THEN UNCHANGED <<mode, valid>>
                                     ELSE mode' = "poll" /\ valid' = published
  /\ UNCHANGED <<depth, published, base, room, tasks, tables>>

\* No signal, or one whose handler returns, as that of ide_slave.ml:27 does:
\* coq_sp has been reset for a SIGINT all the same, and the run goes on.
Continue ==
  /\ mode = "poll"
  /\ mode' = "vm"
  /\ published' \in {published, 0}
  /\ room' = depth + Frame
  /\ UNCHANGED <<size, depth, valid, base, tasks, tables>>

\* A signal whose handler raises: SIGINT resets the machine, SIGALRM does not.
Raise(sp) ==
  /\ mode = "poll"
  /\ mode' = "ml"
  /\ published' = sp /\ depth' = sp /\ base' = sp
  /\ tasks' = <<>>
  /\ UNCHANGED <<size, valid, room, tables>>
Interrupt == Raise(0)
Timeout   == Raise(published)

\* The stack is then what it was before OCaml pushed.
Stop ==
  /\ mode = "vm"
  /\ depth = base
  /\ mode' = "ml"
  /\ published' = depth
  /\ IF Linking THEN To("store") ELSE UNCHANGED tasks
  /\ UNCHANGED <<size, depth, valid, base, room, tables>>

-----------------------------------------------------------------------------
(* Linking: slot_for_getglobal and eval_to_patch.  The constants of a body  *)
(* are given slots one by one, each by a run of its own, before the body is *)
(* run itself.                                                              *)
Idle == mode = "ml" /\ published = base

Link(c) ==
  /\ Idle
  /\ key[c] = NoKey
  /\ Linking => At("patch") /\ c \in tasks[1].todo
  /\ tasks' = <<[c |-> c, todo |-> Uses(c), at |-> "patch", n |-> NoKey]>> \o tasks
  /\ UNCHANGED <<stack, tables>>

Patch(c) ==
  /\ Idle /\ At("patch")
  /\ c \in tasks[1].todo
  /\ key[c] # NoKey
  /\ tasks' = [tasks EXCEPT ![1].todo = @ \ {c}]
  /\ UNCHANGED <<stack, tables>>

Patched ==
  /\ Idle /\ At("patch")
  /\ tasks[1].todo = {}
  /\ To("eval")
  /\ UNCHANGED <<stack, tables>>

\* Mutant: one slot fewer is copied.
ReallocatedShort(n) ==
  LET wosize == ((n + Chunk) \div Chunk) * Chunk
  IN [i \in 0..(wosize - 1) |-> IF i \in DOMAIN globals /\ i < n - 1 THEN globals[i] ELSE NoKey]

\* set_global: check_global_data and the write, ...
Reallocated(n) ==
  LET wosize == ((n + Chunk) \div Chunk) * Chunk
  IN [i \in 0..(wosize - 1) |-> IF i \in DOMAIN globals THEN globals[i] ELSE NoKey]
Store ==
  /\ Idle /\ At("store")
  /\ num_global < MaxSlots
  /\ LET g == IF num_global \in DOMAIN globals THEN globals ELSE Reallocated(num_global)
     IN globals' = [g EXCEPT ![num_global] = tasks[1].c]
  /\ tasks' = [tasks EXCEPT ![1].at = "count", ![1].n = num_global]
  /\ UNCHANGED <<stack, num_global, key>>

\* ... and the count; then the slot is recorded.
Count ==
  /\ Idle /\ At("count")
  /\ num_global' = num_global + 1
  /\ To("record")
  /\ UNCHANGED <<stack, globals, key>>

Record ==
  /\ Idle /\ At("record")
  /\ key' = [key EXCEPT ![tasks[1].c] = tasks[1].n]
  /\ tasks' = Tail(tasks)
  /\ UNCHANGED <<stack, globals, num_global>>

\* A signal in OCaml.
Break == Idle /\ Linking /\ tasks' = <<>> /\ UNCHANGED <<stack, tables>>

-----------------------------------------------------------------------------
Init ==
  /\ mode = "ml"
  /\ size = Stack_size
  /\ depth = 0 /\ published = 0 /\ valid = 0 /\ base = 0 /\ room = 0
  /\ tasks = <<>>
  /\ globals = [i \in 0..(Global_data_size - 1) |-> NoKey]
  /\ num_global = 0
  /\ key = [c \in Constants |-> NoKey]

Run == Setup_for_gc \/ Check \/ Stop \/ \E d \in base..room : Execute(d)
Library == \/ \E c \in Constants : Link(c) \/ Patch(c)
           \/ Patched \/ Store \/ Count \/ Record \/ Break
Next ==
  \/ \E n \in 1..MaxPush : Push(n)
  \/ Enter \/ Run \/ Collect \/ Grow
  \/ Continue \/ Interrupt \/ Timeout
  \/ Library

Spec == Init /\ [][Next]_vars /\ WF_vars(Grow)

-----------------------------------------------------------------------------
(* What a run may use between two checks, with the words pushed before it by *)
(* OCaml and those pushed for a collection, and how much of twice that is    *)
(* not covered by the threshold.                                             *)
Excess == Frame + MaxPush + 2
Overrun == IF 2 * Excess <= Stack_threshold THEN 0 ELSE 2 * Excess - Stack_threshold

(* The stack is checked by calls only, neither when OCaml pushes nor when a  *)
(* run begins nor for the collector, and a timeout leaves words of the run   *)
(* it stopped, possibly above the threshold.  It never overflows even so if  *)
(* the threshold covers twice the excess of a run; otherwise it is overrun   *)
(* by at most what is missing, however many runs are stopped one after the   *)
(* other.                                                                    *)
InBounds == depth <= size + Overrun /\ published <= size + Overrun

(* No word in use was missed by a collection or left behind by a growth of   *)
(* the stack: the pointer is published in time.                              *)
NoStaleWord == depth <= valid

(* A slot given to a constant holds its value for ever: runs and slots given *)
(* in the meantime to the constants of its body, growths of the table and    *)
(* interruptions do not change it.                                           *)
SlotsHold ==
  \A c \in Constants :
    key[c] # NoKey => /\ key[c] \in DOMAIN globals
                      /\ globals[key[c]] = c
                      /\ key[c] < num_global

(* The loop that looks for a new size ends.                                  *)
GrowthEnds == mode = "grow" ~> mode = "poll"
=============================================================================
