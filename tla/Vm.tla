--------------------------------- MODULE Vm ---------------------------------
(* The abstract machine that Coq's conversion runs                          *)
(* (kernel/byterun/coq_interp.c): one action per group of instructions that *)
(* the code treats alike.                                                   *)
(*                                                                          *)
(* The code of a program is a sequence of words.  An instruction is the     *)
(* word <<name>>, or <<name, n>> when its first operand is in its name      *)
(* (ACC3, APPTERM2); an operand is a word <<"#", n>>.  Every allocation     *)
(* runs the garbage collector, that moves all that the machine or OCaml     *)
(* still holds and forgets the rest: a value that was not saved dangles.    *)
EXTENDS Int31, TLC

\* The linked programs: their code, the global data, the static blocks (of
\* constants, atoms and annotations of matches) and the atoms of variables.
CONSTANT Images

VARIABLES image,  \* the program that runs
          phase,  \* "run" in the interpreter, other values in OCaml
          vm      \* the registers, the stack (its top first) and the heap

code == image.code

Accu_tag == 0                 \* also Default_tag
ATOM_FIX_TAG == 3
ATOM_SWITCH_TAG == 4
ATOM_COFIX_TAG == 5
ATOM_COFIXEVALUATED_TAG == 6
Closure_tag == 247
Infix_tag == 249

Val_int(n) == <<"int", n>>
Code(a)    == <<"code", a>>
Ptr(a, o)  == <<"ptr", a, o>>    \* the field o of the block a
Is_block(v) == v[1] = "ptr"
Val_true == Val_int(1)
Atom0 == Ptr(0, 0)               \* the block of size zero

accumulate == 1                  \* the address of the instruction ACCUMULATE
stop == 2                        \* the address of an instruction STOP

-----------------------------------------------------------------------------
(* The heap: young blocks in the machine's state, static ones in the image. *)
block(m, v) == IF v[2] \in DOMAIN image.static THEN image.static[v[2]]
                                               ELSE m.heap[v[2]]
Tag_val(m, v)    == IF v[3] = 0 THEN block(m, v).tag ELSE Infix_tag
Field(m, v, i)   == block(m, v).f[v[3] + i + 1]
Wosize_val(m, v) == Len(block(m, v).f)
Fields(m, v, i)  == SubSeq(block(m, v).f, i + 1, Wosize_val(m, v))  \* from i on
Is_accu(m, v)    == Is_block(v) /\ Tag_val(m, v) = Accu_tag

Pointed(m, s) == {s[i][2] : i \in {j \in DOMAIN s : Is_block(s[j])}}
                   \ DOMAIN image.static
Roots(m) == Pointed(m, m.stk) \cup Pointed(m, <<m.accu, m.env>>) \cup Pointed(m, m.ml)

RECURSIVE Reachable(_, _)
Reachable(m, A) ==
  LET B == A \cup UNION {Pointed(m, m.heap[a].f) : a \in A}
  IN IF B = A THEN A ELSE Reachable(m, B)

\* A collection moves the blocks that live to the other half of the memory.
Half == 100000
Flip(a) == IF a < Half THEN a + Half ELSE a - Half
Collected(m) ==
  LET Moved(s) == [i \in DOMAIN s |->
                     IF Is_block(s[i]) /\ s[i][2] \notin DOMAIN image.static
                     THEN Ptr(Flip(s[i][2]), s[i][3]) ELSE s[i]]
      live == Reachable(m, Roots(m))
  IN [m EXCEPT !.stk = Moved(@), !.accu = Moved(<<@>>)[1], !.env = Moved(<<@>>)[1],
               !.ml = Moved(@), !.next = Flip(@),
               !.heap = [a \in {Flip(x) : x \in live} |->
                           [@[Flip(a)] EXCEPT !.f = Moved(@)]]]

\* A new block; its fields are those of the machine that the collection leaves.
Alloc_small(g, tag, f) ==
  [g EXCEPT !.heap = @ @@ (g.next :> [tag |-> tag, f |-> f]),
            !.accu = Ptr(g.next, 0), !.next = @ + 1]
Alloc(m, tag, Init(_)) == LET g == Collected(m) IN Alloc_small(g, tag, Init(g))

\* caml_modify(&Field(v, i), w)
Modified(m, v, i, w) == [m EXCEPT !.heap[v[2]].f[v[3] + i + 1] = w]

-----------------------------------------------------------------------------
(* The stack and the code.                                                  *)
Push(m, s)  == [m EXCEPT !.stk = s \o @]
Drop(m, n)  == [m EXCEPT !.stk = SubSeq(@, n + 1, Len(@))]
Top(m, n)   == SubSeq(m.stk, 1, n)
\* sp += n; sp[0] = accu
Replace(m, n) == Push(Drop(m, n + 1), <<m.accu>>)

op    == code[vm.pc][1]
Short == Len(code[vm.pc]) = 2
Place(k)  == IF Short THEN vm.pc + k - 1 ELSE vm.pc + k   \* of the k-th operand
Arg(k)    == code[Place(k)][2]
Label(k)  == Place(k) + Arg(k)
After(k)  == Place(k + 1)                 \* the instruction after k operands
Entry(t, i) == t + code[t + i][2]         \* of a table of labels at t

\* What check_stacks does besides, growing the stack and polling signals, is in
\* module VmMemory.
Call(m, extra) ==
  [m EXCEPT !.pc = Field(m, m.accu, 0)[2], !.env = m.accu, !.extra = extra]
Frame(m, ra) == <<Code(ra), m.env, Val_int(m.extra)>>
Leave(m) ==
  [Drop(m, 3) EXCEPT !.pc = m.stk[1][2], !.env = m.stk[2], !.extra = m.stk[3][2]]

Ops(S) == phase = "run" /\ op \in S
Continue(m) == vm' = m /\ UNCHANGED <<image, phase>>

-----------------------------------------------------------------------------
(* Accesses.  An instruction PUSHxxx pushes the accumulator first.          *)
Pushing == {"PUSHACC", "PUSHENVACC", "PUSHOFFSETCLOSURE", "PUSHGETGLOBAL",
            "PUSHCONSTINT"}
pushed == IF op \in Pushing THEN Push(vm, <<vm.accu>>) ELSE vm
Load(v) == Continue([pushed EXCEPT !.accu = v, !.pc = After(1)])

Acc == Ops({"ACC", "PUSHACC"}) /\ Load(pushed.stk[Arg(1) + 1])
EnvAcc == Ops({"ENVACC", "PUSHENVACC"}) /\ Load(Field(vm, vm.env, Arg(1)))
OffsetClosure == /\ Ops({"OFFSETCLOSURE", "PUSHOFFSETCLOSURE"})
                 /\ Load(Ptr(vm.env[2], vm.env[3] + Arg(1)))
GetGlobal == /\ Ops({"GETGLOBAL", "PUSHGETGLOBAL"})
             /\ Load(image.global_data[Arg(1) + 1])
ConstInt == Ops({"CONSTINT", "PUSHCONSTINT"}) /\ Load(Val_int(Arg(1)))
PushAccu == /\ Ops({"PUSH"})
            /\ Continue([Push(vm, <<vm.accu>>) EXCEPT !.pc = After(0)])
Pop == Ops({"POP"}) /\ Continue([Drop(vm, Arg(1)) EXCEPT !.pc = After(1)])

-----------------------------------------------------------------------------
(* Calls.  extra is the number of arguments on the stack, but one.          *)
PushRetaddr ==
  /\ Ops({"PUSH_RETADDR"})
  /\ Continue([Push(vm, Frame(vm, Label(1))) EXCEPT !.extra = 0, !.pc = After(1)])

\* APPLY finds its frame under the arguments, APPLY1 to 3 put it there.
Apply == Ops({"APPLY"}) /\ Continue(Call(vm, Arg(1) - 1))
ApplyN ==
  /\ Ops({"APPLYN"})
  /\ LET n == Arg(1) IN
     Continue(Call(Push(Drop(vm, n), Top(vm, n) \o Frame(vm, After(1))), n - 1))

\* The frame of the caller is discarded, and its pending arguments are passed on.
Appterm ==
  /\ Ops({"APPTERM"})
  /\ LET n == Arg(1) IN
     Continue(Call(Push(Drop(vm, Arg(2)), Top(vm, n)), vm.extra + n - 1))

Return ==
  /\ Ops({"RETURN"})
  /\ LET m == Drop(vm, Arg(1)) IN
     Continue(IF m.extra > 0 THEN Call(m, m.extra - 1) ELSE Leave(m))

Restart ==
  /\ Ops({"RESTART"})
  /\ LET args == Fields(vm, vm.env, 2) IN
     Continue([Push(vm, args) EXCEPT !.env = Field(vm, vm.env, 1),
                 !.extra = @ + Len(args), !.pc = After(0)])

\* Too few arguments: a closure keeps them, whose code is the RESTART before.
Partial(m) ==
  Leave(Drop(Alloc(m, Closure_tag, LAMBDA g :
                     <<Code(After(1) - 3), g.env>> \o Top(g, 1 + g.extra)),
             1 + m.extra))

Grab ==
  /\ Ops({"GRAB"})
  /\ Continue(IF vm.extra >= Arg(1)
              THEN [vm EXCEPT !.extra = @ - Arg(1), !.pc = After(1)]
              ELSE Partial(vm))

\* The recursive argument is an accumulator: the fixpoint and its arguments
\* before, in a closure, an atom, and an accumulator with the arguments after.
Blocked(m, rec_pos) ==
  LET n == m.extra - rec_pos
      pf == Drop(Alloc(m, Closure_tag, LAMBDA g :
                         <<Code(After(1)), g.env>> \o Top(g, rec_pos)), rec_pos)
      atom == Alloc(Push(pf, <<pf.accu>>), ATOM_FIX_TAG, LAMBDA g :
                      <<g.stk[2], g.stk[1]>>)
      accu == Alloc(Replace(atom, 1), Accu_tag, LAMBDA g :
                      <<Code(accumulate), g.stk[1]>> \o SubSeq(g.stk, 2, n + 1))
  IN Leave(Drop(accu, n + 1))

GrabRec ==
  /\ Ops({"GRABREC"})
  /\ LET rec_pos == Arg(1) IN
     Continue(CASE vm.extra < rec_pos -> Partial(vm)
                [] vm.extra >= rec_pos /\ Is_accu(vm, vm.stk[rec_pos + 1]) ->
                     Blocked(vm, rec_pos)
                [] OTHER -> [vm EXCEPT !.pc = After(1) + 1])

-----------------------------------------------------------------------------
(* Closures.                                                                *)
saved(nvars) == IF nvars > 0 THEN Push(vm, <<vm.accu>>) ELSE vm

Closure ==
  /\ Ops({"CLOSURE"})
  /\ LET nvars == Arg(1)
         m == Alloc(saved(nvars), Closure_tag,
                    LAMBDA g : <<Code(Label(2))>> \o Top(g, nvars))
     IN Continue([Drop(m, nvars) EXCEPT !.pc = After(2)])

\* The functions of a fixpoint share a block, each seen from its own code.
\* Its last field is the vector of the codes of their types.
types(nfuncs)  == [i \in 1..nfuncs |-> Code(Entry(After(3), i - 1))]
bodies(nfuncs) == [i \in 1..nfuncs |-> Code(Entry(After(3) + nfuncs, i - 1))]

Infixes(cs) == [j \in 1..(2 * Len(cs) - 1) |->
                  IF j % 2 = 1 THEN cs[(j + 1) \div 2] ELSE <<"header", j>>]

ClosureRec ==
  /\ Ops({"CLOSUREREC"})
  /\ LET nfuncs == Arg(1)
         nvars == Arg(2)
         ts == Alloc(saved(nvars), 0, LAMBDA g : types(nfuncs))
         m == Alloc(Push(ts, <<ts.accu>>), Closure_tag, LAMBDA g :
                Infixes(bodies(nfuncs)) \o SubSeq(g.stk, 2, nvars + 1) \o Top(g, 1))
     IN Continue([Drop(m, nvars + 1) EXCEPT !.accu = Ptr(@[2], 2 * Arg(3)),
                    !.pc = After(3) + 2 * nfuncs])

\* A cofixpoint is an accumulator on a closure that refers to it: first the
\* accumulators, with a dummy atom, and then the atom of each.
RECURSIVE Accumulators(_, _), Tied(_, _, _, _)
Accumulators(m, n) ==
  IF n = 0 THEN m
  ELSE LET a == Alloc(m, Accu_tag, LAMBDA g : <<Code(accumulate), Val_int(1)>>)
       IN Accumulators(Push(a, <<a.accu>>), n - 1)
Tied(m, i, nfuncs, nvars) ==
  IF i > nfuncs THEN m
  ELSE LET c == Alloc(m, Closure_tag, LAMBDA g :
                  <<bodies(nfuncs)[i]>> \o Top(g, nfuncs)
                    \o SubSeq(g.stk, nfuncs + 2, nfuncs + nvars + 1)
                    \o <<g.stk[nfuncs + 1]>>)
           a == Drop(Alloc(Push(c, <<c.accu>>), ATOM_COFIX_TAG,
                           LAMBDA g : Top(g, 1)), 1)
       IN Tied(Modified(a, a.stk[i], 1, a.accu), i + 1, nfuncs, nvars)

ClosureCofix ==
  /\ Ops({"CLOSURECOFIX"})
  /\ LET nfuncs == Arg(1)
         nvars == Arg(2)
         ts == Alloc(saved(nvars), 0, LAMBDA g : types(nfuncs))
         m == Tied(Accumulators(Push(ts, <<ts.accu>>), nfuncs), 1, nfuncs, nvars)
     IN Continue([Drop(m, nfuncs + nvars + 1) EXCEPT !.accu = m.stk[Arg(3) + 1],
                    !.pc = After(3) + 2 * nfuncs])

-----------------------------------------------------------------------------
(* Blocks and constants.                                                    *)
\* Mutant: the fields are read before the allocation.
MakeBlockEarly ==
  /\ Ops({"MAKEBLOCK"})
  /\ LET n == Arg(1)
         m == Alloc(vm, Arg(2), LAMBDA g : <<vm.accu>> \o Top(vm, n - 1))
     IN Continue([Drop(m, n - 1) EXCEPT !.pc = After(2)])

MakeBlock ==
  /\ Ops({"MAKEBLOCK"})
  /\ LET n == Arg(1)
         m == Alloc(vm, Arg(2), LAMBDA g : <<g.accu>> \o Top(g, n - 1))
     IN Continue([Drop(m, n - 1) EXCEPT !.pc = After(2)])

\* The low half of the operand is the number of the constant constructors.
Switch ==
  /\ Ops({"SWITCH"})
  /\ LET index == IF Is_block(vm.accu)
                  THEN (Arg(1) % 65536) + Tag_val(vm, vm.accu) ELSE vm.accu[2]
     IN Continue([vm EXCEPT !.pc = Entry(After(1), index)])

PushFields ==
  /\ Ops({"PUSHFIELDS"})
  /\ Continue([Push(vm, SubSeq(block(vm, vm.accu).f, 1, Arg(1))) EXCEPT !.pc = After(1)])

GetField ==
  /\ Ops({"GETFIELD"})
  /\ Continue([vm EXCEPT !.accu = Field(vm, @, Arg(1)), !.pc = After(1)])

SetField ==
  /\ Ops({"SETFIELD"})
  /\ Continue([Drop(Modified(vm, vm.accu, Arg(1), vm.stk[1]), 1) EXCEPT !.pc = After(1)])

MakeProd ==
  /\ Ops({"MAKEPROD"})
  /\ LET m == Alloc(Push(vm, <<vm.accu>>), 0, LAMBDA g : Top(g, 2))
     IN Continue([Drop(m, 2) EXCEPT !.pc = After(0)])

-----------------------------------------------------------------------------
(* Open terms: what cannot be computed accumulates.                         *)

\* The code of an accumulator: a new one has the arguments besides.
Accumulate ==
  /\ Ops({"ACCUMULATE"})
  /\ LET m == Alloc(vm, Accu_tag, LAMBDA g :
                      Fields(g, g.env, 0) \o Top(g, g.extra + 1))
     IN Continue(Leave(Drop(m, m.extra + 1)))

\* The code of a variable that replaces a function of a fixpoint.
MakeAccu ==
  /\ Ops({"MAKEACCU"})
  /\ LET m == Alloc(vm, Accu_tag, LAMBDA g :
                      <<Code(accumulate), image.atom_tbl[Arg(1) + 1]>>
                        \o Top(g, g.extra + 1))
     IN Continue(Leave(Drop(m, m.extra + 1)))

\* A match on an accumulator, by what the accumulator stands on.
matched == Field(vm, vm.accu, 1)

\* A cofixpoint: its body is run on its arguments, and returns to the match.
ForceCofix ==
  /\ Ops({"MAKESWITCHBLOCK"})
  /\ Tag_val(vm, matched) = ATOM_COFIX_TAG
  /\ LET fcofix == Field(vm, matched, 0)
         args == Fields(vm, vm.accu, 2)
     IN Continue([Push(vm, <<vm.accu>> \o args \o Frame(vm, Label(2))) EXCEPT
                    !.env = fcofix, !.extra = Len(args),
                    !.pc = Field(vm, fcofix, 0)[2]])

\* One that was run already: its value is matched.
EvaluatedCofix ==
  /\ Ops({"MAKESWITCHBLOCK"})
  /\ Tag_val(vm, matched) = ATOM_COFIXEVALUATED_TAG
  /\ Continue([vm EXCEPT !.accu = Field(vm, matched, 1), !.pc = Label(2)])

\* Anything else: the match is kept, with the stack and the environment that its
\* branches need; the stack is below a frame unless this is a tail call.
BlockedSwitch ==
  /\ Ops({"MAKESWITCHBLOCK"})
  /\ Tag_val(vm, matched) < ATOM_COFIX_TAG
  /\ LET sz == Arg(4)
         m == [Push(vm, <<image.global_data[Arg(3) + 1], vm.accu>>)
                 EXCEPT !.accu = matched]
         off == IF Field(m, m.stk[1], 2) = Val_true THEN 2 ELSE 5
         stk == IF sz = 0 THEN [m EXCEPT !.accu = Atom0]
                ELSE Alloc(m, 0, LAMBDA g : SubSeq(g.stk, off + 1, off + sz))
         zip == Alloc(Push(stk, <<stk.accu>>), 0, LAMBDA g :
                  <<Code(Label(1)), Code(Label(2)), g.stk[2], g.stk[1], g.env>>)
         atom == Alloc(Replace(zip, 1), ATOM_SWITCH_TAG,
                       LAMBDA g : <<g.stk[2], g.stk[1]>>)
         accu == Alloc(Replace(atom, 1), Accu_tag,
                       LAMBDA g : <<Code(accumulate), g.stk[1]>>)
     IN Continue([Drop(accu, 1) EXCEPT !.pc = After(4)])

-----------------------------------------------------------------------------
(* Branches, and native integers.                                           *)
Branch == Ops({"BRANCH"}) /\ Continue([vm EXCEPT !.pc = Label(1)])

IsConst ==
  /\ Ops({"ISCONST"})
  /\ Continue([vm EXCEPT !.pc = IF Is_block(vm.accu) THEN Label(1) ELSE After(1)])

AreConst ==
  /\ Ops({"ARECONST"})
  /\ Continue([vm EXCEPT !.pc = IF \E i \in 1..Arg(1) : Is_block(vm.stk[i])
                                THEN Label(2) ELSE After(2)])

Int31Word(v) == value_of_uint32(v[2])
Int31Value(w) == Val_int(uint32_of_value(w))

NativeInteger ==
  /\ Ops(DOMAIN Arith)
  /\ LET s == [i \in 1..(Arith[op] - 1) |-> Int31Word(vm.stk[i])]
         r == Execute(op, Int31Word(vm.accu), s)
         ws == [i \in DOMAIN r.words |-> Int31Value(r.words[i])]
         m == IF r.block THEN Alloc(vm, r.tag, LAMBDA g : ws)
                         ELSE [vm EXCEPT !.accu = ws[1]]
     IN Continue([Drop(m, r.pop) EXCEPT !.pc = After(0)])

\* The result is given back to OCaml.
Stop == Ops({"STOP"}) /\ phase' = "ocaml" /\ UNCHANGED <<image, vm>>

Instruction ==
  \/ Acc \/ EnvAcc \/ OffsetClosure \/ GetGlobal \/ ConstInt \/ PushAccu \/ Pop
  \/ PushRetaddr \/ Apply \/ ApplyN \/ Appterm \/ Return \/ Restart
  \/ Grab \/ GrabRec \/ Closure \/ ClosureRec \/ ClosureCofix
  \/ MakeBlock \/ Switch \/ PushFields \/ GetField \/ SetField \/ MakeProd
  \/ Accumulate \/ MakeAccu \/ ForceCofix \/ EvaluatedCofix \/ BlockedSwitch
  \/ Branch \/ IsConst \/ AreConst \/ NativeInteger \/ Stop
=============================================================================
