# A verification development of Coq's session and virtual machine

TLA+ models of the stateful core of Coq (the 2013 development tree in `src/`):
the interactive session, the proof engine, and the virtual machine that computes
terms for the kernel. They are
checked on small instances with TLC and, for the properties that matter most,
proved for every instance with TLAPS.

Coq's trusted kernel is a set of pure functions on terms; its correctness is a
matter of metatheory and is out of reach of a model checker. What surrounds it
is not: an interactive session edits several mutable stacks at once (history,
open proofs, library, summaries, labels), rolls them back by different
mechanisms, can be interrupted at any allocation, and talks to a user interface
by messages. And the kernel hands conversion over to a bytecode machine in C,
with a stack, a table of constants and native integers of its own, between two
garbage collected worlds. Those two are what this project is about.

## 1. Inventory

| component | sources | state | operations | what makes it correct |
|---|---|---|---|---|
| History and backtracking | `toplevel/backtrack.ml`, `vernac.ml`, `vernacentries.ml`, `lemmas.ml` | `history`, a stack of entries (label, count of open proofs, current proof and its depth, reachable) | `mark_command`, `mark_unreachable`, `back`, `backto`, `reset_initial`, `reset_name`, `backtrack`; `vernac_com`, `Fail`, `Load` | going back to a recorded command restores library *and* proofs; it always finds an entry to stop at; errors and interrupts leave the stacks fit for a later `Back` |
| Stack of open proofs | `proofs/proof_global.ml`, `pfedit.ml` | `current_proof`, proof modes | start, discard, undo, return | names distinct, mode of the current proof in force |
| Proof engine | `proofs/proof.ml` | proofview, focus stack, undo stack, open transaction | `focus`, `unfocus`, `run_tactic`, `undo`, `transaction`, `return` | undo is the exact inverse of a step; a failing transaction leaves no trace; no goal lost by focusing |
| Labels, sections, modules | `library/lib.ml`, `declaremods.ml`, `summary.ml`, `states.ml` | `lib_stk`, `path_prefix`, summaries | `add_leaf`, `open_section`, `close_section`, `start_module`, `end_module`, `freeze`, `reset_label`, `with_heavy_rollback` | brackets nested; closing restores the prefix and discharges; a label restores the summaries it was taken with |
| Compiled libraries | `library/library.ml`, `checker/check.ml` | loaded, imported and exported lists, load path | `require`, `import`, `save_library_to`, `intern` | dependencies are before dependents; one library per name; digests agree; registration is all or nothing |
| Safe environment | `kernel/safe_typing.ml` | environment, module being built, revised structure, imports | `add_constant`, `start_module`, `end_module`, `export`, `import` | names fresh; a closed module leaves what was before; constraints are added before use |
| Universes | `kernel/univ.ml` | graph of canonical levels and aliases | `enforce_constraint`, `check_leq`, `merge_constraints` | the graph accepts a constraint iff the set stays satisfiable; no `Lt` cycle |
| Reduction | `kernel/closure.ml`, `esubst.ml`, `reduction.ml` | closures updated in place | machine steps | explicit substitutions and lifts denote what they stand for |
| Virtual machine: instructions | `kernel/byterun/coq_interp.c`, `coq_fix_code.c`, `coq_values.c`, `coq_instruct.h`, `kernel/vm.ml` | registers, stack, heap; the zippers of a value that is read back | the instructions; `interprete`, `apply_vstack`, `reduce_fun`, `reduce_fix`, `branch_of_switch`... | a program computes what the calculus says, with too few or too many arguments and on stuck terms; nothing dangles after a collection; code pointers that are computed fall on instructions |
| Virtual machine: compiler | `kernel/cbytegen.ml`, `cemitcodes.ml`, `cbytecodes.ml` | free variables, codes of functions | `compile`, `emit`, `patch` | as above |
| Virtual machine: memory | `kernel/byterun/coq_memory.c`, `coq_gc.h`, `kernel/csymtable.ml` | the stack and `coq_sp`, `coq_global_data`, the keys of constants | growth, scan, polls; `slot_for_getglobal`, `set_global` | no overflow though only calls check, as far as the margin goes; no word the collector misses; a slot keeps its value |
| Native integers | `coq_interp.c`, `int64_emul.h`, `int64_native.h` | two operands and an accumulator | 31-bit arithmetic; 64-bit arithmetic on pairs of words | each computes the function of `Int31.v` it stands for, or that of its name |
| Native compiler | `kernel/nativecode.ml`... | none | a term to OCaml, compiled and loaded | left out |
| Obligations | `toplevel/obligations.ml` | table of programs and their pending obligations | add, solve one or all, admit | a program is declared exactly once, after its last obligation |
| IDE protocol | `toplevel/ide_slave.ml`, `ide/coq.ml`, `ide/coqOps.ml` | the interrupt flag; the sentence stack, the queue of handles of the client | `interp`, `rewind`, `goals`, `break`; process reset | client's stack and server's history name the same document; an interrupt never kills the server; each call is answered once |
| Data structures | `lib/hashset.ml`, `unionfind.ml`, `heap.ml`, `segmenttree.ml`, `deque.ml`, `bigint.ml` | imperative tables | add, find, union... | agree with the mathematical object they implement |
| Terms: typing, conversion, unification, tactics, syntax, plugins | `kernel/typeops.ml`..., `pretyping/`, `tactics/`, `interp/`, `parsing/`, `plugins/` | mostly none | functions on terms | unbounded data, left out |

How they interact. The toplevel loop (`toplevel.ml` or `ide_slave.ml`) reads one
vernacular command and calls `Vernac.eval_expr`. It runs the command under
`States.with_heavy_rollback`, which freezes library and summaries and puts them
back on an exception. Commands change the library (`Lib.add_leaf`, through the
kernel's safe environment), the summaries, or the proofs (`Proof_global`,
`Pfedit`). Then, *outside* the rollback, `Backtrack.mark_command` adds a label
to the library, with the frozen summaries, and an entry to the history. `Back`,
`BackTo` and `Reset` pop the history, abort proofs by count, pop one undo stack
by depth and reset the library to a label.

The hard behaviours are those where these mechanisms do not cover the same
state: an error restores the library and not the proofs; an interrupt can fall
between the command and its mark or in the middle of a backtrack; `Fail` undoes
part of what a command did; a file is recorded command by command or as a
whole; `Abort` of a proof that is not on top changes what the counts mean.
`PROJECT.json` lists each hazard at its line.

How the machine is reached. `Vm_compute` and the kernel's `VMcast` conversion
compile a term (`Cbytegen.compile`), link it (`Csymtable`: the constants it
mentions are given slots in a table, each by a run of its own), and run it
(`coq_eval_tcode`). The result is a value that OCaml reads (`whd_val`), and whose
parts it computes by further runs on the same stack: the body of a function on
variables, the branches of a match that is stuck. The machine allocates in
OCaml's heap, so that any allocation may collect and move what it holds, and polls
the signals at calls: Ctrl-C and timeouts raise from the middle of a run.

## 2. Plan

Order, with what each module is checked and proved for:

1. `Backtrack` *(done)*, refining `Document`: history, proofs and labels.
   TLC: three passing runs, one about what a comment says and the code does not.
   TLAPS (`BacktrackProofs`, `DocumentProofs`): type correctness, the safety
   properties and the refinement.
2. `ProofEngine` *(done)*, refining `ProofHistory`: focus stack, focus
   conditions, bullets, undo stack, nested transactions, exceptions, proof modes.
   TLC: goals accounted for, a failing command leaves no trace, undo restores,
   Qed is sound under interrupts. TLAPS (`ProofEngineProofs`, `HistoryProofs`,
   `FocusProofs`, `GoalsProofs`): `TypeOK`, `SoundSave` and `BulletsDistinct`, and
   without interrupts `NoTrace`, `NeverBare`, `GoalsAccounted`, `BracesMatch` and
   the refinement.
3. `Int31Arith`, `Int31`, `Int64`, `Division` *(done)*: native integers and the
   emulated ones. TLC: against `Int31.v` and arithmetic. TLAPS (`IntegerProofs`):
   for words of any size, the arithmetic instructions, and the division, addition,
   subtraction, comparison and halving of pairs.
4. `Vm`, `VmEval`, `Cbytegen` *(done)*: the machine with its compiler and OCaml's
   side. TLC: against the rules of the calculus (`WeakReduction`).
5. `VmMemory` *(done)*: the stack, the collector, signals and linking. TLC and
   TLAPS: how far the stack is overrun, no stale word, no slot lost.

Left, in the order they would be taken: the comparison of two values
(`vconv.ml`), run over `VmEval`; sections and modules over `lib_stk`; the
protocol of the user interface over `Document`; the universe graph.

## 3. What is modelled: `Backtrack`, `Document`

`Backtrack.tla` is one sequential process, the session, with one action per
vernacular command that changes a stack. Variables:

* `hist`, the history (`Backtrack.history`). An entry has the code's five
  fields and `snap`, a ghost: the open proofs and declarations recorded, which
  no action reads and the properties compare with.
* `proofs`, the open proofs (`Proof_global.current_proof`). A proof is the
  sequence of the states its undo stack can restore and its current one, so that
  `Depth` is the length of the undo stack. Starting a proof pushes the initial
  state and runs a tactic, hence a depth of 1 at least.
* `env`, `lib`, `label`: the declared names, which stand for the library and the
  summaries; the labels in `lib_stk`, each with the frozen summaries; the
  counter behind `Lib.current_command_label`.
* `load` and `answer`: the file being read, and what the last command answered.

`Run(h, ps, e)` is what happens after a command has done its work, leaving the
history `h`, the proofs `ps` and the declarations `e`: it is recorded
(`Succeed`), or not because it is a query (`Preserve`), or it was under `Fail`
or interrupted before the end (`Raise`: `vernac_com` restores `env` and `lib`
only), or interrupted while it is being recorded (`MarkInterrupted`).
`FailWith(h, ps)` is a command that fails after it has changed `h` and `ps`.
Every command uses one of the two, so that every command is run in every way.

`Sync` transcribes `sync`: the unreachable entries are popped, then
`raw_backtrack` aborts proofs by count, undoes to a depth and resets the label,
and each part can fail. `SyncInterrupted` gives the intermediate states before
`reset_label`, and `GoTo` what an interrupt does after it: `Back`, `BackTo` and
`Reset` still print, under `with_heavy_rollback`, and Ctrl-C there restores the
library and the summaries and not the counter. History and proofs are then at the
target, the library is not, and its labels above the counter are given again by the
next commands: a label may be in `lib` twice, and `reset_label` stops at the last.
Between the reset of the library and the end of `reset_label` the interrupt
leaves one of these two.

`RegularNext` has the commands a user of the documented interface gives.
`IrregularNext` has what breaks the agreement of the stacks, found while
modelling: `Abort` of a proof below the current one, a `Qed` whose hook raises,
`Fail Load` read command by command, `Backtrack` with the arguments of a foreign
interface, and an interrupt of it or of `Reset Initial`.

`Document.tla` is what a user relies on: a sequence of recorded states and a
current one. A command records a new state, going back restores a recorded one,
and anything else may only make the current state drift until then. `Backtrack`
is shown to implement it with `doc` the snapshots of the history.

Abstractions and assumptions. The marking loop and the start of a proof are single
steps: an interrupt inside is not modelled (the second is a hazard). So are the
`Stack.clear` and the `Stack.push` of `reset_initial` (`backtrack.ml:190`): an
interrupt between them would leave an empty history, against `BottomEntry`, and
is set aside. Nested `Load`s and state files (`Write State`, `Restore
State`) are left out. The content of a library is a set of names, goals are a
small set `ProofStates` with those `Solved`. `Suspend`/`Resume` do not exist in
this version of the code.

There is no liveness property in `Backtrack`: the session does nothing by itself, its loops
are bounded by the length of a stack (`BottomEntry` is why they stop), and no
fairness of a user's commands is justified.

## 4. Runs of `Backtrack`

`MCBacktrack` gives the constants model values. `View` leaves out `answer`, and
the fields of an entry tagged unreachable that no action reads (`mark_unreachable`
only looks whether its `prfname` is none; `sync` and `back` only pop it; its
label is looked up); names are symmetric. `View` is used with safety properties
only, none of which depends on what it hides: `answer` in an action property is
the one of the step.

| run | question | bounds |
|---|---|---|
| `Nested` | can every reachable entry be had back by counting (`Restorable`), and does the session implement the document (`ImplementsDocument`)? | 2 names so that proofs nest, 4 labels, undo stacks of 2: enough for a proof inside a proof, a step in each, and a way back across both |
| `Files` | do the labels of history and library agree (`LibraryRestorable`), and does `Back` never fail (`BackWorks`)? | 1 name, both kinds of `Load`, 4 labels, undo stacks of 3: enough for an interrupted return after which a label is given again, a return to it, and a file of two commands (58377 states; the 413298 of 5 labels with undo stacks of 2 pass as well, in more time) |
| `Irregular` | with everything that breaks the agreement, does the start of the session stay reachable (`BottomEntry`, `ResetInitialIsBackTo`), and no proof lose its statement (`TypeOK`)? | 2 names, 3 labels |
| `QedHook` | is it true that backtracking only meets proofs that are a subset of those of the target, as a comment of `sync` says, when the hook of a `Qed` raises? no | the regular commands and `HookFails` |

Deadlock is not checked: the bounds on labels and undo stacks stop the session,
and the program waits for its user.

More disagreements show in the model and have no run of their own: `Fail` undoes
the library and the summaries of its command and not its proofs, `Fail Load`
leaves the entries of the file in the history, an `Undo` that goes too far fails
halfway; `Abort`
of a proof that is not on top (`AbortOther`) makes `sync` abort the wrong proofs,
and `BackTo` the current label does nothing even when a command that failed has
changed the proofs since. For the same reason, when Ctrl-C stops `BackTo l` while it
prints, `BackTo l` again does nothing (the counter is `l` already) although the
library is that of before; `Reset Initial` likewise. Going to an earlier label
works: this is what `LibraryRestorable` and `BackWorks` say of that state.

## 5. What is modelled: `ProofEngine`, `ProofHistory`

`Backtrack` takes a proof for a stack of states. `ProofEngine.tla` is the inside
of one: how a command edits the mutable record `Proof.proof` in several steps,
any of which may raise, and how the transactions around them put it back.
Variables:

* `pr`, the proof: its state (`comb`, the goals in view; `focus`, the focus
  stack with the goals each focus hides on its left and right; the evar map as
  `made`, the number of evars, `goals` and `holes`, the undefined ones that
  have and have not been in a view); the `undo` stack; the open `trans`actions,
  innermost last; the proof `mode`, kept in the record of `proof_global.ml`.
* `ctrl`, the instructions left of the command, the next first. An instruction
  is a call of the code that changes `pr` (`begin`, `commit`, `save`, `focus`,
  `unfocus`, `tactic`, `pop`, `return`, `declare`...) or expands to others
  (`put` for a bullet, `maximal` for the loop of `maximal_unfocus`, `undo`,
  `grab`). Three of them also are handlers: `commit` stands for the whole `try`
  of `Proof.transaction`, `relabel` for the one of `unfocus` that renames an
  exception, `maximal` for the one around `maximal_unfocus`.
* `exn`, the exception being raised or the last answer.
* `call`, a ghost: the command that runs and `pr` when it was called.

A step executes the head of `ctrl`; when an exception is raised (`RaiseIn`),
`ctrl` becomes what is left from the next handler on, and the step of the
handler rolls back, renames or resumes. Commands (`Solve`, `FocusCommand`,
`Unfocus`, the braces, `Bullet`, `SaveProof`, `ProofMode`, `Existential`,
`Grab`, `Undo`) put their body in an empty `ctrl`. When `Async`, `Break` may
come between any two instructions, and inside those that assign `pr` more than
once: `_unfocus`, `_focus`, `commit`, `rollback`. A `Break` just before a transaction
begins meets the handler of that transaction in the model and none in the code
(`init_transaction` is outside of the `try`, `proof.ml:321`): one behaviour
more than the code has, under which the properties of run `Interrupts` hold too.

`ProofHistory.tla` is what `Undo` promises: a list of states that commands
extend, that going back cuts, and that is never rewritten. `ProofEngine`
implements it with `past` computed, between two commands, by executing the undo
stack (`PastOf`).

Abstractions. An evar is a number without type or body. A tactic solves the goal
it is given, makes at most two new goals and one hole, and may solve one more
evar by unification; or does nothing, or raises. Tactics terminate. Clearing,
which renames goals, the `end tactic`, the focuses of the declarative mode, the
bullet behavior "None", printing and section variables are left out; `Focus 0`
raises before it changes anything and is left out. A proof that is saved is
replaced by a new one, and what is left of the command works on the discarded
record in the code, and on nothing in the model.

| run | question | bounds |
|---|---|---|
| `Structure` | do focusing, automatic unfocusing, bullets and braces lose or duplicate a goal (`GoalsAccounted`), leave the stack without its bottom (`NeverBare`), repeat a bullet (`BulletsDistinct`), or close a brace that the user has not (`BracesMatch`)? | 4 evars, goal numbers to 2, 2 bullets, 3 nested focuses: two bullets inside a brace or a focus inside both |
| `Undoing` | does a command that fails leave the proof as it was (`NoTrace`), and is `Undo` the inverse of commands (`ImplementsHistory`)? | 3 evars, 4 undo actions, 2 modes: the transaction inside a transaction of a bullet, and undo across a mode change |
| `Interrupts` | with an interrupt anywhere, does Qed stay sound (`SoundSave`), every command answer (`CommandEnds`), the state keep its type (`TypeOK`)? | 3 evars, 3 undo actions, 1 focus |

`Structure` uses `ForwardSpec`, without `Undo`, and a view without the undo stack:
without `Undo` no action reads it, except for a rollback outside of a
transaction, which needs an interrupt; the four invariants do not look at it
either. This is what lets it go three focuses deep. Its `MaxUndo`, 100, is
out of reach: TLC keeps a state with the undo stack of the path it was first
found by, the longest of which has about 50 steps, that push one undo action
each at most. Deadlock is checked in these
runs: a command always has a next step, and none but a saved proof or the bound
on evars ends the commands.

Fairness: weak fairness of `Instruction`, for the whole of it. A command is an
OCaml function that runs alone in its process, so it goes on. Neither commands
nor interrupts are fair: nobody has to type one.

Also seen, and kept without a run: `IndexOutOfRange` is not handled where its
comment says; an interrupt inside `_unfocus` leaves a state without the goals
that were hidden, which only the rollback of a transaction around it mends; under an interrupt inside `commit`, the
handler of the same transaction rolls back a second time, in the worst case
outside of any transaction, which empties the undo stack and ends in an
assertion; a tactic under a `Focus` that it completes records two undo actions,
hence takes two `Undo`; `Qed` under a completed brace is refused although no
goal is left.

## 6. What is modelled: `Int31`, `Int64`, `Division`

`Int31Arith.tla` has the instructions of `coq_interp.c` that are arithmetic, and
`Int31.tla` those that work on bits, digits and shifts. An integer below `N` is a
tagged word; `Execute(op, accu, words)` is the effect of an
instruction on the accumulator and the words on the stack: what it puts in the
accumulator, alone or in a block with a tag, and how many words it pops. The
number of machine words, `Values`, is apart from that of `uint32`, `2 * N`: on a
64-bit machine a word is wider than the `uint32` that an instruction computes
with, and some instructions do not truncate where the others do.
`Int31Machine.tla` runs any sequence of them. The definitions of
`Int31.v` on integers are the reference (`Meaning` and `Function`): the
retroknowledge replaces each of these functions by its instruction.

`Int64.tla` and `Int64Machine.tla` are `int64_emul.h`, 64-bit integers as pairs of
words of `B` values, for compilers that have none. `Int64` has what a proof can
reach (addition, subtraction, comparison, the two shifts by one of the
division), `Int64Machine` what works on bits (the module `Bitwise`) and
`I64_udivmod`, one action per turn of its loops. `Division.tla` is that division on
integers: `Int64Machine` is shown to implement it (`I == INSTANCE Division
WITH num <- Val(num), ...`), so that what is proved of `Division` is about the code.

| run | question | bounds |
|---|---|---|
| `Int31` | after any instructions, does each compute the function of `Int31.v`, with its carry, and pop its operands (`ComputesFunction`), and are digits those of the integer both ways (`DigitsRoundTrip`)? | integers of 3 bits in words of 4, values of 8, all integers loaded: every carry, the zero divisor, and every shift below twice the width, in 71888 states |
| `ShiftsPop` | is that so for every shift, as `cbytecodes.ml` and `Int31.v` say? no: for a shift of 62 or more `ADDMULDIVINT31` leaves both operands on the stack (`coq_interp.c:1235`) | the same, values of 4 bits |
| `Int64` | do operations on pairs agree with arithmetic (`OperationsAgree`), is the division right (`Euclidean`), does it do what it does on integers (`ImplementsDivision`) and end (`Terminates`)? | words of 4 bits, all pairs, hence all 65280 divisions by a divisor that is not zero |

Small words are enough for the questions about carries: nothing in the code
depends on the width but its constants (31, 62, masks), which the model writes
from `W` and `N`. The theorems about `Int31Arith`, `Int64` and `Division` hold for
all widths.

Fairness: weak fairness of the division's only process. It is a C loop that
nothing interrupts.

Also seen, and without a run: where words are wider than `uint32`, the
low part of a `MULCINT31` and one branch of `ADDMULDIVINT31` may be words whose
upper bits are not those of an integer (`coq_interp.c:1170`, `1229`), against the
comment at 1058 that values are kept canonical. The instructions that follow
mask them, and `ComputesFunction` compares integers.

## 7. What is modelled: `Vm`, `VmEval`, `Cbytegen`, `WeakReduction`

`Vm.tla` is the interpreter: an action per group of instructions that the code
treats alike (ACC0 to ACC7, PUSHACC0... are one instruction with an operand).
The state `vm` has the registers (`pc`, `accu`, `env`, `extra`), the stack, the
heap of blocks with tags, and what OCaml holds (`ml`). `image` is the program with
its linked tables and static blocks. Code is a sequence of words, so that an
operand can be mistaken for an instruction. A collection takes place at *every*
allocation, moves every young block and forgets those that are not reachable:
`Alloc` gives the fields of the new block from the machine that the collection
leaves, so that a value read before it is a dangling pointer, as in the code.

`VmEval.tla` is OCaml's side (`vm.ml`): it reads a value (`whd_val`, `whd_accu`,
`closure_arity`), and asks for its parts: a function on variables, components of
a block, the type and branches of a stuck match, types and bodies of fixpoints
and cofixpoints, a function expanded on variables (`eta_whd`), for which the
zippers of a stuck term are put back one by one. Each part is another run, and
`path` records which part of the term is computed.

`Cbytegen.tla` is the compiler with its environments and continuations, the emitter
with its peephole rules, the translation of opcodes that `coq_fix_code.c` does by
walking over the code (`Size`), and the linker that copies constants into the
table. `WeakReduction.tla` is the reference: weak reduction by the rules of the
calculus, arguments one at a time, without code, closures or stack.

| run | question | bounds |
|---|---|---|
| `VmPrograms` | does each program, and each part of its result, compute what the calculus says (`Agrees`), leave the stack as it was (`Balanced`), keep no pointer to a block that was moved (`NoDangling`), and execute instructions only (`OnInstruction`)? | 70 programs in `MCVm`, parts of parts to depth 3, 2785 states |

The programs are chosen so that, together, every instruction runs and every action is
taken: calls of all arities with too few, enough and too many arguments, tail
and not; fixpoints of one and three functions, partially applied, on stuck
arguments, recursive on a later argument; cofixpoints forced once and shared;
matches stuck in tail position or under a frame; integers built, matched and
computed with, on variables too. Deadlock is checked: the only state without an
instruction is one where OCaml has an answer (`Done`), and an instruction that
cannot be executed is an error. The behaviours of one program are deterministic
but for the choice of the part that is computed.

There is no liveness here: a program may loop, which is why the machine polls
signals.

## 8. What is modelled: `VmMemory`

Here programs are abstract: what they push, when they call, allocate and stop. The
heights of the stack count words. `mode` is where the processor is: in OCaml
(`ml`), in a program (`vm`), in the collector (`gc`), in `realloc_coq_stack`
(`grow`), or polling signals after a call (`poll`). `depth` is the register `sp`
and `published` the global `coq_sp`; `valid` is a ghost, the height below which
every word has been pushed since the last collection or growth, or was seen by it.
`tasks` are the constants being linked: linking the body of a constant
links those it mentions, by runs of their own, before it is run and stored
itself; storing a value, counting it and recording its slot are three steps,
between which a signal may raise.

| run | question | bounds |
|---|---|---|
| `VmMemory` | does the stack overflow (`InBounds`), does the collector miss a word in use (`NoStaleWord`), does a slot lose its value (`SlotsHold`), does the search for a size end (`GrowthEnds`)? | stack of 16, threshold 12, 2 words between calls and 2 pushed by OCaml, growth to at least 40 more (two doublings); 2 constants of which one mentions the other, 3 slots, a table that grows by 2; 828288 states |

`Frame`, the words that a program pushes between two calls, is any number: the
compiler has no limit for it, and a body of some hundreds of arguments or
variables passes the end of the stack unchecked. `InBounds` says by how much:
`Overrun`, what the threshold lacks to cover twice the `Excess` of a run, its
`Frame` with what OCaml and the collector push. At 12 the threshold is the
smallest for which `Overrun` is zero, so that the run shows that the stack does
not overflow. The bound is the least one: with a threshold of 10 `InBounds` still
holds, and TLC reaches a stack overrun by exactly `Overrun` words, in `depth` and
in `published`, after a timeout that leaves words of the run it stopped, the
start of the next run, and a collection. In the code the threshold is
256 words, so a run that needs more than 126 with OCaml's words may write out of
the stack after a timeout. What the program does once it has is undefined; the
bound is about the words it writes up to then.

`Continue` is a call that finds no signal, or one whose handler returns: that of
`ide_slave.ml:27` only sets a flag unless a command runs. `coq_sp` has then been reset
(`coq_interp.c:418`) while the run goes on with its own register: no collection
comes before the next `Setup_for_gc`, and handlers that allocate much, hence
collect, do not exist in the repository and are left out.

Fairness: weak fairness of `Grow`, a C loop that no signal interrupts. Neither
programs nor OCaml are fair: a program may loop, nobody has to start one.
Deadlock is not checked: the bounds on depth and slots stop the machine.

## 9. What the modules of the virtual machine leave to each other

`Vm` calls without checking the stack and without signals, `VmMemory` has no
values: the properties of one are about values and code, those of the other
about heights. The two meet in the points where the stack pointer is published:
`Vm` collects at each allocation with the whole stack as roots, which is right
because of `NoStaleWord`, and `VmMemory` lets a collection come anywhere in a
program, after the `Setup_for_gc` that `coq_interp.c` and `coq_gc.h` put before each.
`Csymtable` appears in `Cbytegen` as a linked image, which is right because of
`SlotsHold`.

## 10. What is proved

`BacktrackProofs.tla`: `TypeCorrect == Spec => []TypeOK`, for all values of the
constants that satisfy `BacktrackAssumption`. `TypeOK` says more than types: the
undo stack never goes below the statement, and the depth of an entry is zero
exactly when its count of proofs is, which is why `undo_todepth` does not raise.
It is inductive as it stands; there is a lemma per operator, then per way a
command ends, then per action.

In the same module: `RestorableAlways == RegularSpec => []Restorable`.
`Restorable` is not inductive: after `sync` has gone back to the entry `t`, the
entries before `t` have to be restorable from the proofs of `t`. `Agree`
strengthens it with (1) the fields of an entry sum up its snapshot, (2) each
reachable entry is restorable from the open proofs, (3) and from the snapshot
of each later reachable entry. `RestoresTransitive` then gives the step of
`sync`, and `NoneAfter` shows that `mark_unreachable`, which stops at the first
entry outside of any proof, never stops before an entry it should mark: from
such an entry, nothing inside a proof could be restored. The bounds `MaxLabel`
and `MaxSteps` are constants of which only `Nat \ {0}` is assumed.

`DocumentProofs.tla`, on the same invariant: `BottomStays == ... BottomEntry`,
`ResetInitialGoesBack == ... ResetInitialIsBackTo`, `LibraryAlwaysRestorable ==
... LibraryRestorable`, `BackAlwaysWorks == ... BackWorks` and
`SessionImplementsDocument == ... ImplementsDocument`. The steps of `RegularNext`
are first sorted into four: those that cut or tag the history and record nothing
(`Quiet`), those that record one entry and its label (`Recorded`), the return
to a reachable entry (`Returned`), and the return that an interrupt has stopped
after the label was set back, the library restored (`Stranded`). Each invariant is
then kept by each sort, and not by each of the commands:

* no other entry and no other frame of the library has the label of the first
  (`BottomOnly`): a return stops there at the latest, and never beyond;
* every entry has a place in the library, the last frame with its label, with
  the declarations of its snapshot as long as it is reachable; these places rise
  with the entries, and so do the labels of the history, up to the counter
  (`Keeps`). Nothing is said of the other frames, whose labels may repeat, be
  out of order or be above the counter: a new label is above those of the history,
  so that its frame, put last, takes no place from another entry;
* the snapshots of the history are the states of the document (`States`), so
  that the four sorts are a stutter or a cut, an extension, a return, and a cut
  of `Document`.

`ProofEngineProofs.tla`: `SaveIsSound == Spec => SoundSave`. The check of
`Proof.return` and the declaration of the theorem are several steps apart:
between them the command unfocuses, commits twice, and exceptions are raised and
handled. `SoundSave` is not inductive; `SaveInv` is:

* `Sane`: the proof, its state and all the states it can restore are records
  (whatever their fields hold, for some set of undo actions);
* `Control`: before a `declare` in `ctrl` come only instructions that leave the
  evar map alone (`Ending`), and after it only `commit`s; so no handler that
  resumes stands before it, and an exception can but skip it;
* `Covered`: as long as nothing is raised and `declare` is to come, `return` is
  to come as well or the evar map has no undefined evar.

The lemmas say what taking suffixes, tails and concatenations of the control does
to these, then that each constructor of states and proofs gives records, then one
lemma per group of actions. Nothing is assumed but `ProofEngineAssumption`:
the theorem holds with and without interrupts, and for all bounds. It does not
rest on the types of the variables.

`HistoryProofs.tla`, about one command from its call to its answer, where no
interrupt arrives (`Async = FALSE`): `FailuresLeaveNoTrace == ... []NoTrace`
and `UndoIsHistory == ... ImplementsHistory`. The hypothesis is needed: an
interrupt in the middle of `commit` or of the handler leaves a transaction open
or a part of it undone, and with `Async = TRUE` TLC finds `NoTrace`,
`NeverBare` and `ImplementsHistory` violated; the runs that check them have no
interrupts either. Both follow from `HistoryInvariant`, whose invariant says of a command that runs:

* inside a transaction, the commits left in the control are as many as the
  transactions to close, and the last of them comes last (`Framed`); so an
  exception meets a handler for each open transaction, and the command ends with
  none;
* the oldest undo action recorded since the call, over all open transactions,
  restores the state the command was called in, and if there is none the state
  is that one (`Held`); so the rollbacks, which execute the newest actions first,
  end there, and the commits, which move them, keep it;
* outside (`Focus`, the brace, `Proof Mode`, `Existential`, `Grab`, `Undo`), the
  proof is the one called, or has one undo action more that recalls it, or is on
  the way back (`Outside`).

That the rewinding of a list of undo actions shows what the oldest of each sort
holds (`OldestIs`) is proved with the least index of a non-empty set of naturals,
which the library gives without an operator parameter.

`FocusProofs.tla`: `BulletsStayDistinct == Spec => []BulletsDistinct`, with
interrupts as well, and `BottomOfFocuses == Async = FALSE => (Spec =>
[]NeverBare)`. Both are about the focus stack of one state, and the state comes
from a step or from an undo action: the invariants hold for every state that the
proof may restore (`Saved`), and `StatesMove` says once what each instruction does
to the stack and to these. What remains is the control:

* a bullet is closed and opened by instructions that were put there a few steps
  before, for another focus stack; `Bulleting` describes the control of a bullet
  as a grammar over the current stack ("close bullets until this one, which is in
  use, then open it again"), and each instruction leads from one form to the next
  with the stack it leaves. An interrupt or an exception ends the grammar, as
  nothing in the control of a bullet resumes after one;
* the last focus is closed only by an `unfocus` that `return` has put there, in a
  control that ends with a declaration or with an exception (`Finishing`): the
  stack may be empty only there, and after an exception `NoTrace` gives it back.

`GoalsProofs.tla`, the last on the proof engine: `TypesHold == Spec =>
[]TypeOK`, with interrupts as well, and where none arrives `NoGoalIsLost == ...
[]GoalsAccounted` and `BracesAreMatched == ... []BracesMatch`. (With interrupts
TLC finds `GoalsAccounted` violated: a focus that is pushed before the comb is
narrowed shows goals twice.) These three rest on two things:

* What `List.filter` keeps of a list and `unroll_focus` makes of a stack are
  recursive functions (`Filter`, `Unrolled`), and the library's induction theorems
  take an operator. Induction over a set does instead: the set of the numbers, or
  of the lists, for which the claim holds contains the first and the next of each
  of its elements, and a least counterexample would contradict that
  (`NatClosed`, `ListsClosed`). `FilterAppend` and `UnrolledIs` are what the rest
  uses of the two functions.
* A state comes from a step, from an undo action of the stack or from one of an
  open transaction, and the three need not satisfy the same: `ProofOver(S, A)` are
  the proofs whose state and transactions restore states of `S` only, and whose
  undo stack restores states of `A`. `StepsOver` says once that a step stays there
  if the states that the current instruction makes (`Made`) are in `S`, unless it
  undoes something outside of any transaction. The theorems choose the sets:
  `ProofState` twice for the types; for the goals, the states that are `Good`,
  again twice, since Undo may restore any of them.

`Good` strengthens `GoalsAccounted`, which is not inductive: the goals that a
focus keeps have to be known evars and no holes, so that a new goal is nowhere
yet and one that `Grab Existential Variables` makes of a hole is not there twice.
`GoodSolved` is the step of a tactic, which solves a goal and maybe another one
somewhere in the stack, and puts new ones in its place; `Counted` counts a goal in
a list with a part replaced. `Grabbing` adds that goals are grabbed only when no
goal is left: `GrabEvars` checks it, two instructions earlier.

For the braces, `BracesInv` has a clause for each sort of command. A command that
is about no brace (`KeepsAll`) may only restore states with the braces there were
when it was called, except in a rollback outside of any transaction, which
empties the undo stack; but the anomaly that this raises is not among the
exceptions that the loop of `maximal_unfocus` catches (`Caught`), so that the
command cannot answer as if nothing had been. A closing brace (`ClosesOne`) closes
bullets on its way (`ToClose`) until it has closed one brace (`ClosedOne`): only
then no `unfocus` is left in the control, and the first focus it closed shows that
no goal was in view when it was called.

`IntegerProofs.tla`: `DivisionIsEuclidean == Spec => []Euclidean` and
`DivisionStaysInRange`, for any even number of values. The invariant relates the
divisor to the mask: the mask is a power of two and the divisor is `den * mask`
until both vanish, so that halving them loses nothing; what is divided already and
what is left make the numerator; and in the second loop what is left is less than
twice the divisor, so that one subtraction is enough. That setting a bit of the
quotient (`or` in the code) is the addition proved about is for TLC
(`ImplementsDivision`).

In the same module: the comparison, addition, subtraction, doubling and halving
of pairs compute on `Val` what they should, for every even size of a word: each is
split on the carry or the borrow, and the arithmetic of a product of unknowns is
isolated in a few lemmas, as the prover's arithmetic is linear.

And `ArithmeticComputes`: on any tagged words, each of the eleven arithmetic
instructions computes the function of `Int31.v` it stands for, with the carry, pops
its operands and leaves tagged words again, so that it holds along any sequence of
them. `N` is any number of integers from 4 up, and values are as wide as `uint32` or
twice as wide; the words need not be canonical, because `MULCINT31` leaves some
that are not. The proof writes a tagged word as `2z + 1` for an integer `z` that may
be out of range or negative: cutting such a number to a `uint32` cuts `z` to an
integer (`Cut`), so that the additions and subtractions need only the two ways an
operand is off by one `N` (`Wrapped`), which is also where `<` and `<=` differ in the
tests of the carries. The two words of a product are apart (`HighPart`, `LowPart`):
its low one may be sign-extended. The shifts, the digits and the counts of zeros
work on bits and stay with TLC.

`VmMemoryProofs.tla`: `OverrunIsBounded == Spec => []InBounds` and
`NoWordIsStale == Spec => []NoStaleWord`, for all sizes and all programs:
`SizesAssumption` only says that the threshold is at most the size of the stack
and what is asked for when it grows (both are so in `coq_memory.h` and
`coq_interp.c:414`), and puts no limit on `Frame` and `MaxPush`. The corollary
`StackNeverOverflows` is the case of a threshold that covers twice the excess.
The invariant gives each mode its own margin, because the check
of a call protects what follows it and not itself: after a check the whole
threshold is free, and a run pushes `Frame` before the next one; but what a
timeout leaves was reached under a check made by *another* run, so the words that
OCaml pushes and the next frame come on top of that. This is where twice `Excess`
comes from; and not more than twice, because the next timeout too is polled under
a check.

In the same module: `SlotsAlwaysHold == Spec => []SlotsHold`, for any set of
constants. `SlotsHold` is not inductive: between the write of a slot and its
record nothing says that the value is still there. `Between` says that what the
innermost task has written is in the slot it is about to record, and `Waiting`
that all other tasks are before their evaluation, so that only one task writes at
a time, although their runs nest.

Only model-checked: `CommandEnds`, a liveness property; and everything about the
violations. Of the virtual machine: `Agrees`, `Balanced`, `NoDangling`,
`OnInstruction`, `ComputesFunction` (but for the instructions of `ArithmeticComputes`),
`DigitsRoundTrip` and the operations of
`Int64Machine`, which are on recursive operators or on bits; `Euclidean` and
`ImplementsDivision` of `Int64Machine`, because it uses `Bitwise` (its division
and its arithmetic steps are the theorems of `IntegerProofs`, and the run checks
that it implements `Division`); `Terminates` and `GrowthEnds`, which are liveness.

## 11. Not modelled

In the virtual machine: sorts and section variables (leaves of the compiler); the
comparison of two values (`vconv.ml`) and the sealing of a value as a term
(`vnorm.ml`), which read values with the functions of `VmEval`; `whd_stack` and
`force_whd` (`vm.ml:533`), which `vconv.ml` calls on the atoms `Aiddef` only, that
no code builds; the branch of the
compiler for an `int31` match that is stuck through `lbl_sw`, which no program
reaches; the conversions to `double` and the signed division of `int64_emul.h`,
which no instruction uses; the flags `transp` and `drawinstr`;
`Coq_max_stack_size`, which the code sets and never reads. An interrupt in OCaml
between two pushes for the same run is not modelled: they are one step.

The other parts, marked `not_modelled` in `PROJECT.json`: functions on terms
(typing, lazy reduction, unification, tactics, printing) have unbounded data and
are right by the metatheory of the calculus, not by their steps; camlp4 grammars,
the native compiler (OCaml's own execution), the Windows stubs of CoqIDE,
theories, plugins and command-line tools have no state of interest here. Sections
and modules, compiled libraries, universes, obligations and the two sides of the
user interface could be modelled; the reasons they are not are with each
component, and what would be taken first is in the plan.
