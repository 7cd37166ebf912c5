------------------------------- MODULE VmEval -------------------------------
(* What OCaml does with the machine (kernel/vm.ml).  A term is computed; to *)
(* compare the result with another one, or to write it as a term, it is     *)
(* read, and its parts are computed in turn: the body of a function on      *)
(* variables, the return type and the branches of a match that is stuck...  *)
EXTENDS Vm

CONSTANT Depth        \* of the parts of parts that are computed

VARIABLES path,       \* the part that is computed, from the whole term
          k,          \* the number of variables that it may have
          zippers     \* the context that a result is put back in: kinds of
                      \* zippers, whose blocks vm.ml has

vars == <<image, phase, vm, path, k, zippers>>

Val_unit == Val_int(0)
push_ra(ra) == <<Code(ra), Val_unit, Val_int(0)>>
val_of_rel(i) == image.rels[i + 1]
\* Mutant: the variables are in the order of the arguments.
mkrel_vstack_up(i, arity) == [j \in 1..arity |-> val_of_rel(i + j - 1)]
mkrel_vstack(i, arity) == [j \in 1..arity |-> val_of_rel(i + arity - j)]
args(v) == Fields(vm, v, 2)
fun_code(v) == Field(vm, v, 0)[2]

\* interprete, on a stack that starts with s.
Interprete(m, s, pc, accu, env, extra) ==
  /\ vm' = [Push(m, s) EXCEPT !.pc = pc, !.accu = accu, !.env = env, !.extra = extra]
  /\ phase' = "run"
  /\ UNCHANGED image

-----------------------------------------------------------------------------
(* Reading values.                                                          *)

\* The atom that an accumulator stands on, and what is around it.
RECURSIVE whd_accu(_, _, _)
whd_accu(m, a, z) ==
  LET stk == IF Wosize_val(m, a) = 2 THEN z ELSE <<<<"app", a>>>> \o z
      at == Field(m, a, 1)
  IN CASE Tag_val(m, at) = ATOM_FIX_TAG ->
            whd_accu(m, Field(m, at, 0), <<<<"fix", Field(m, at, 1)>>>> \o stk)
       [] Tag_val(m, at) = ATOM_SWITCH_TAG ->
            whd_accu(m, Field(m, at, 0), <<<<"switch", Field(m, at, 1)>>>> \o stk)
       [] OTHER -> [atom |-> at, stk |-> stk]

OpAt(c) == code[c][1]
kind_of_closure(m, v) ==
  LET c == Field(m, v, 0)[2]
      is_app == OpAt(c) = "RESTART"
  IN CASE OpAt(c) = "MAKEACCU" -> "rel"
       [] OpAt(IF is_app THEN c + 1 ELSE c) = "GRABREC" -> IF is_app THEN "pfix" ELSE "fix"
       [] OTHER -> "fun"

closure_arity(m, v) ==
  LET c == Field(m, v, 0)[2] IN
  CASE OpAt(c) = "RESTART" /\ OpAt(c + 1) = "GRAB" -> 3 + code[c + 2][2] - Wosize_val(m, v)
    [] OpAt(c) = "GRAB" -> 1 + code[c + 1][2]
    [] OTHER -> 1

whd_kind(m, v) ==
  CASE ~Is_block(v) -> "int"
    [] Is_accu(m, v) /\ Field(m, v, 0) # Code(accumulate) -> "prod"
    [] Is_accu(m, v) /\ Field(m, v, 0) = Code(accumulate) ->
         IF Tag_val(m, whd_accu(m, v, <<>>).atom) < ATOM_COFIX_TAG THEN "accu" ELSE "cofix"
    [] Tag_val(m, v) \in {Closure_tag, Infix_tag} -> kind_of_closure(m, v)
    [] OTHER -> "blk"

RECURSIVE SeenVm(_, _)
SeenVm(m, v) ==
  LET All(vs) == [i \in DOMAIN vs |-> SeenVm(m, vs[i])]
      w == whd_accu(m, v, <<>>)
      RECURSIVE Spine(_)
      Spine(z) ==
        IF z = <<>> THEN <<>>
        ELSE (CASE z[1][1] = "app" ->
                     LET xs == Fields(m, z[1][2], 2)
                     IN [i \in DOMAIN xs |-> <<"arg", SeenVm(m, xs[i])>>]
                [] z[1][1] = "fix" -> <<<<"fix", All(Fields(m, z[1][2], 2))>>>>
                [] z[1][1] = "switch" -> <<<<"case", Field(m, Field(m, z[1][2], 2), 1)[2]>>>>)
             \o Spine(Tail(z))
  IN CASE whd_kind(m, v) = "int" -> v
       [] whd_kind(m, v) = "blk" -> <<"blk", Tag_val(m, v), All(Fields(m, v, 0))>>
       [] whd_kind(m, v) = "fun" -> <<"fun", closure_arity(m, v)>>
       [] whd_kind(m, v) = "fix" -> <<"fix", <<>>>>
       [] whd_kind(m, v) = "pfix" -> <<"fix", All(Fields(m, v, 2))>>
       [] whd_kind(m, v) = "rel" -> <<"neu", <<"rel", code[Field(m, v, 0)[2] + 1][2]>>, <<>>>>
       [] whd_kind(m, v) = "prod" -> <<"prod", SeenVm(m, Field(m, v, 0))>>
       [] whd_kind(m, v) = "cofix" -> <<"cofix", All(Fields(m, v, 2))>>
       [] OTHER -> <<"neu", Field(m, w.atom, 0)[2], Spine(w.stk)>>

-----------------------------------------------------------------------------
(* eta_stack: a stuck term is applied to a variable.  Its atom is put back  *)
(* in each of its zippers by a new run, and the last run has the variable.  *)
Replay(z) == phase = "ocaml" /\ zippers # <<>> /\ zippers[1] = z
Zipper(n) == /\ zippers' = SubSeq(zippers, n + 1, Len(zippers))
             /\ UNCHANGED <<path, k>>
Without(m, n) == [m EXCEPT !.ml = SubSeq(@, n + 1, Len(@))]

ApplyArguments ==
  /\ Replay("app")
  /\ LET xs == args(vm.ml[1]) IN
     Interprete(Without(vm, 1), xs \o push_ra(stop), fun_code(vm.accu), vm.accu, vm.accu,
                Len(xs) - 1)
  /\ Zipper(1)

\* The arguments before the recursive one, and those after it if there are.
ApplyFix ==
  /\ Replay("fix")
  /\ LET f == Field(vm, vm.ml[1], 1)
         before == args(vm.ml[1])
         n == IF zippers[2] = "app" THEN 2 ELSE 1
         after == IF n = 2 THEN args(vm.ml[2]) ELSE <<>>
     IN /\ Interprete(Without(vm, n), before \o <<vm.accu>> \o after \o push_ra(stop),
                      fun_code(f), f, f, Len(before) + Len(after))
        /\ Zipper(n)

\* Mutant: the code that pops the stack of a match is that of the size below.
popstop_code_short(n) == IF n <= 1 THEN stop ELSE image.popstop[n - 1]

\* The stack a match was in is put back, above or under a return address.
popstop_code(n) == IF n = 0 THEN stop ELSE image.popstop[n]
sw_stk(m, sw) == Fields(m, Field(m, sw, 3), 0)
apply_switch(m, sw, v) ==
  LET s == sw_stk(m, sw) IN
  Interprete(m, IF Field(m, Field(m, sw, 2), 2) = Val_true THEN s \o push_ra(stop)
                ELSE push_ra(popstop_code(Len(s))) \o s,
             Field(m, sw, 1)[2], v, Field(m, sw, 4), 0)

ApplySwitch ==
  /\ Replay("switch")
  /\ apply_switch(Without(vm, 1), vm.ml[1], vm.accu)
  /\ Zipper(1)

apply_vstack(m, f, vs) ==
  Interprete(m, vs \o push_ra(stop), Field(m, f, 0)[2], f, f, Len(vs) - 1)

ApplyVariable ==
  /\ Replay("variable")
  /\ apply_vstack(vm, vm.accu, <<val_of_rel(k - 1)>>)
  /\ Zipper(1)

-----------------------------------------------------------------------------
(* The parts of a result.                                                   *)
Ready == phase = "ocaml" /\ zippers = <<>>
Part(name, i, j, n) ==      \* under n more variables
  /\ path' = Append(path, <<name, i, j>>)
  /\ k' = k + n
  /\ zippers' = <<>>
Is(kinds) == Ready /\ Len(path) < Depth /\ whd_kind(vm, vm.accu) \in kinds
Found(m) == vm' = m /\ UNCHANGED <<image, phase>>

\* What is computed already: a field of a block or an argument.
Components ==
  IF Is({"blk"}) THEN Fields(vm, vm.accu, 0)
  ELSE IF Is({"pfix", "cofix", "accu"}) THEN Fields(vm, vm.accu, 2) ELSE <<>>
Component(i) == Found([vm EXCEPT !.accu = Components[i]]) /\ Part("component", i, 0, 0)

\* decompose_vfun2, that has the least of two arities, and body_of_vfun.
Arities == IF Is({"fun"}) THEN 1..closure_arity(vm, vm.accu) ELSE {}
BodyOfFun(n) ==
  apply_vstack(vm, vm.accu, mkrel_vstack(k, n)) /\ Part("apply", n, 0, n)

\* The domain and the codomain of a product.
Domain == /\ Is({"prod"})
          /\ Found([vm EXCEPT !.accu = Field(vm, @, 0)])
          /\ Part("domain", 0, 0, 0)
Codomain == /\ Is({"prod"})
            /\ apply_vstack(vm, Field(vm, vm.accu, 1), mkrel_vstack(k, 1))
            /\ Part("codomain", 0, 0, 1)

\* eta_whd, on what is no function of OCaml's type vfun.
EtaFix ==
  /\ Is({"fix", "pfix"})
  /\ LET partial == whd_kind(vm, vm.accu) = "pfix"
         before == IF partial THEN args(vm.accu) ELSE <<>>
         f == IF partial THEN Field(vm, vm.accu, 1) ELSE vm.accu
     IN Interprete(vm, before \o <<val_of_rel(k)>> \o push_ra(stop), fun_code(f), f, f,
                   Len(before))
  /\ Part("apply", 1, 0, 1)

\* In the code a function is compared with this term, that is one then.
Functional == path = <<>> /\ image.functional
EtaCofix ==
  /\ Is({"cofix"}) /\ Functional
  /\ apply_vstack(vm, vm.accu, <<val_of_rel(k)>>)
  /\ Part("apply", 1, 0, 1)

Around == whd_accu(vm, vm.accu, <<>>)
EtaNeutral ==
  /\ Is({"accu"}) /\ Functional
  /\ LET m == [vm EXCEPT !.ml = [j \in DOMAIN Around.stk |-> Around.stk[j][2]],
                         !.accu = Around.atom]
     IN Found(Alloc(m, Accu_tag, LAMBDA g : <<Code(accumulate), g.accu>>))
  /\ path' = Append(path, <<"apply", 1, 0>>)
  /\ k' = k + 1
  /\ zippers' = Append([j \in DOMAIN Around.stk |-> Around.stk[j][1]], "variable")

\* A match that is stuck: its return type, ...
Switches == IF Is({"accu"})
            THEN {j \in DOMAIN Around.stk : Around.stk[j][1] = "switch"} ELSE {}
Rank(j) == LET IsSwitch(z) == z[1] = "switch"
           IN Len(SelectSeq(SubSeq(Around.stk, 1, j), IsSwitch))
annot_rtbl(j) == Field(vm, Field(vm, Around.stk[j][2], 2), 1)[2]

TypeOfSwitch(j) ==
  /\ LET sw == Around.stk[j][2] IN
     Interprete(vm, sw_stk(vm, sw), Field(vm, sw, 0)[2], Val_unit, Field(vm, sw, 4), 0)
  /\ Part("type", Rank(j), 0, 0)

\* ... and one of its branches, on a constructor of variables.
BranchOfSwitch(j, i) ==
  LET m == [vm EXCEPT !.ml = <<Around.stk[j][2]>>]
      tag == annot_rtbl(j)[i][1]
      arity == annot_rtbl(j)[i][2]
      b == Alloc(m, tag, LAMBDA g : [n \in 1..arity |-> val_of_rel(k + n - 1)])
  IN /\ IF arity = 0 THEN apply_switch(Without(m, 1), m.ml[1], Val_int(tag))
        ELSE apply_switch(Without(b, 1), b.ml[1], b.accu)
     /\ Part("branch", Rank(j), i, arity)

\* reduce_fix: the type of a function, ...
vfix == IF whd_kind(vm, vm.accu) = "pfix" THEN Field(vm, vm.accu, 1) ELSE vm.accu
first == Ptr(vfix[2], 0)
last(m, v) == Fields(m, Fields(m, v, Wosize_val(m, v) - 1)[1], 0)
Functions == IF Is({"fix", "pfix"}) THEN DOMAIN last(vm, first) ELSE {}
TypeOfFix(i) ==
  /\ Interprete(vm, <<>>, last(vm, first)[i][2], Val_unit,
                Ptr(first[2], 2 * (Len(last(vm, first)) - 1)), 0)
  /\ Part("fixtype", i, 0, 0)

\* ... and its body after GRABREC, where the functions are variables.
relaccu_code(i) == image.relaccu[i + 1]
BodyOfFix(i) ==
  LET ndef == Len(last(vm, first))
      e == Alloc([vm EXCEPT !.accu = first], Closure_tag, LAMBDA g :
             [j \in DOMAIN Fields(g, g.accu, 0) |->
                IF j % 2 = 1 /\ j < 2 * ndef THEN Code(relaccu_code(k + (j - 1) \div 2))
                ELSE Fields(g, g.accu, 0)[j]])
      jump_grabrec == Field(vm, first, 2 * (i - 1))[2] + 2
  IN /\ Found(Alloc(e, Closure_tag, LAMBDA g :
                    <<Code(jump_grabrec), Ptr(g.accu[2], 2 * (i - 1))>>))
     /\ Part("fixbody", i, 0, ndef)

\* reduce_cofix: the same for a cofixpoint, on itself and variables.
vcofix == Field(vm, Around.atom, 0)
get_fcofix(i) == Field(vm, Field(vm, Field(vm, vcofix, i), 1), 0)
Cofunctions == IF Is({"cofix"}) THEN DOMAIN last(vm, vcofix) ELSE {}
TypeOfCofix(i) ==
  /\ Interprete(vm, <<>>, last(vm, vcofix)[i][2], Val_unit, vcofix, 0)
  /\ Part("cofixtype", i, 0, 0)
BodyOfCofix(i) ==
  LET ndef == Len(last(vm, vcofix))
      c == Field(vm, get_fcofix(i), 0)
      e == Alloc([vm EXCEPT !.accu = vcofix], Closure_tag, LAMBDA g :
             <<c>> \o [j \in 1..ndef |-> val_of_rel(k + j - 1)]
                 \o Fields(g, g.accu, ndef + 1))
      atom == Alloc([e EXCEPT !.ml = <<e.accu>>], ATOM_COFIX_TAG, LAMBDA g : <<Val_unit>>)
      self == Alloc(atom, Accu_tag, LAMBDA g : <<Code(accumulate), g.accu>>)
  IN /\ apply_vstack(Without(self, 1), self.ml[1], <<self.accu>>)
     /\ Part("cofixbody", i, 0, ndef)

Done == Ready /\ UNCHANGED vars

-----------------------------------------------------------------------------
Init ==
  /\ image \in Images
  /\ phase = "run"
  \* coq_eval_tcode
  /\ vm = [pc |-> image.start, stk |-> <<>>, accu |-> Val_unit, env |-> Atom0,
           extra |-> 0, heap |-> <<>>, next |-> 1000, ml |-> <<>>]
  /\ path = <<>> /\ k = 0 /\ zippers = <<>>

Interpreter == Instruction /\ UNCHANGED <<path, k, zippers>>
Replays == ApplyArguments \/ ApplyFix \/ ApplySwitch \/ ApplyVariable

Next ==
  \/ Interpreter
  \/ Replays
  \/ EtaFix \/ EtaCofix \/ EtaNeutral \/ Domain \/ Codomain
  \/ \E i \in DOMAIN Components : Component(i)
  \/ \E n \in Arities : BodyOfFun(n)
  \/ \E j \in Switches : TypeOfSwitch(j) \/ \E i \in DOMAIN annot_rtbl(j) : BranchOfSwitch(j, i)
  \/ \E i \in Functions : TypeOfFix(i) \/ BodyOfFix(i)
  \/ \E i \in Cofunctions : TypeOfCofix(i) \/ BodyOfCofix(i)
  \/ Done

Spec == Init /\ [][Next]_vars
=============================================================================
