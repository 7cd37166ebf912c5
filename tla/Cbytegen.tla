------------------------------ MODULE Cbytegen ------------------------------
(* From terms to the code that the machine runs: the compiler               *)
(* (kernel/cbytegen.ml), the emitter and its peephole optimisations         *)
(* (kernel/cemitcodes.ml), the translation of opcodes                       *)
(* (kernel/byterun/coq_fix_code.c) and the linker (kernel/csymtable.ml).    *)
(*                                                                          *)
(* A term is a record with a kind k.  Left out: casts, sorts, section       *)
(* variables, primitive projections of a type to its match.                 *)
EXTENDS Int31, FiniteSets, TLC

Rel(i)        == [k |-> "rel", i |-> i]
Const(name)   == [k |-> "const", name |-> name]  \* also a function of Int31.v
Ind(id)       == [k |-> "ind", id |-> id]
Con(tag, np, ar) == [k |-> "con", tag |-> tag, np |-> np, ar |-> ar]
I31           == [k |-> "i31"]                   \* the constructor of integers
\* Functions of n arguments: all of them, so that b is no function (decompose_lam).
Lam(n, b)     == [k |-> "lam", n |-> n, b |-> b]
App(f, args)  == [k |-> "app", f |-> f, args |-> args]
Let(a, b)     == [k |-> "let", a |-> a, b |-> b]
Prod(a, b)    == [k |-> "prod", a |-> a, b |-> b]
\* A definition of n arguments, that is recursive on that of position rec.
Def(rec, n, ty, b) == [rec |-> rec, n |-> n, ty |-> ty, b |-> b]
Fix(init, defs)   == [k |-> "fix", init |-> init, defs |-> defs]
CoFix(init, defs) == [k |-> "cofix", init |-> init, defs |-> defs]
\* tbl gives the tag and the number of arguments of each constructor.
Case(ty, a, tbl, brs) == [k |-> "case", ty |-> ty, a |-> a, tbl |-> tbl, brs |-> brs]

int31_tbl == <<<<1, W - 1>>>>          \* the table of the type of integers
Last(s)  == s[Len(s)]
Front(s) == SubSeq(s, 1, Len(s) - 1)

-----------------------------------------------------------------------------
(* The environment of a compilation.  s is the state: the free variables of *)
(* the closure that is compiled, the codes of functions, the next label.    *)
add_param(n, sz, l) == [i \in 1..n |-> i + sz] \o l
comp_env(n, pos_rec, offset) ==
  [nb_stack |-> n, in_stack |-> add_param(n, 0, <<>>),
   nb_rec |-> Len(pos_rec), pos_rec |-> pos_rec, offset |-> offset]
comp_env_fun(arity) == comp_env(arity, <<>>, 1)
comp_env_fix(ndef, curr, arity) ==
  comp_env(arity, [i \in 1..ndef |-> <<"offsetclosure", 2 * (ndef - curr - i)>>],
           2 * (ndef - curr - 1) + 1)
comp_env_cofix(ndef, arity) ==
  comp_env(arity, [i \in 1..ndef |-> <<"envacc", ndef + 1 - i>>], ndef + 1)
push_param(n, sz, r) == [r EXCEPT !.nb_stack = @ + n, !.in_stack = add_param(n, sz, @)]

Result(c, s) == [c |-> c, s |-> s]

\* A variable of the context is given a place in the closure the first time.
pos_rel(i, r, sz, s) ==
  LET j == i - r.nb_stack
      k == j - r.nb_rec
  IN IF i <= r.nb_stack THEN Result(<<"acc", sz - r.in_stack[i]>>, s)
     ELSE IF j <= r.nb_rec THEN Result(r.pos_rec[j], s)
     ELSE IF \E p \in DOMAIN s.fv : s.fv[p] = k
          THEN Result(<<"envacc", r.offset - 1 + (CHOOSE p \in DOMAIN s.fv : s.fv[p] = k)>>, s)
          ELSE Result(<<"envacc", r.offset + Len(s.fv)>>, [s EXCEPT !.fv = Append(@, k)])

-----------------------------------------------------------------------------
(* The continuation.                                                        *)
Fresh(s) == [s EXCEPT !.lbl = @ + 1]
AddFun(s, code) == [s EXCEPT !.funs = <<code>> \o @]

label_code(cont, s) ==
  IF cont # <<>> /\ cont[1][1] \in {"label", "branch"}
  THEN [l |-> cont[1][2], c |-> cont, s |-> s]
  ELSE [l |-> s.lbl, c |-> <<<<"label", s.lbl>>>> \o cont, s |-> Fresh(s)]

RECURSIVE make_branch_2(_, _, _, _), is_tailcall(_)
make_branch_2(n, rest, cont, s) ==
  CASE rest # <<>> /\ rest[1][1] = "return" ->
         [b |-> <<"return", n + rest[1][2]>>, c |-> cont, s |-> s]
    [] rest # <<>> /\ rest[1][1] = "label" -> make_branch_2(n, Tail(rest), cont, s)
    [] rest # <<>> /\ rest[1][1] = "pop" ->
         make_branch_2(n + rest[1][2], Tail(rest), cont, s)
    [] OTHER -> LET t == label_code(cont, s)
                IN [b |-> <<"branch", t.l>>, c |-> t.c, s |-> t.s]
make_branch(cont, s) ==
  IF cont[1][1] = "branch" THEN [b |-> cont[1], c |-> cont, s |-> s]
  ELSE make_branch_2(0, cont, cont, s)

\* The number of words of the frame, or -1.
is_tailcall(cont) ==
  CASE cont[1][1] = "return" -> cont[1][2]
    [] cont[1][1] = "label" -> is_tailcall(Tail(cont))
    [] OTHER -> -1

RECURSIVE add_pop(_, _)
add_pop(n, cont) ==
  CASE cont[1][1] = "pop"    -> add_pop(n + cont[1][2], Tail(cont))
    [] cont[1][1] = "return" -> <<<<"return", n + cont[1][2]>>>> \o Tail(cont)
    [] OTHER -> IF n = 0 THEN cont ELSE <<<<"pop", n>>>> \o cont

add_grab(arity, lbl, cont) ==
  IF arity = 1 THEN <<<<"label", lbl>>>> \o cont
  ELSE <<<<"restart">>, <<"label", lbl>>, <<"grab", arity - 1>>>> \o cont
add_grabrec(rec, arity, lbl, cont) ==
  IF arity = 1
  THEN <<<<"label", lbl>>, <<"grabrec", 0>>, <<"restart">>>> \o cont
  ELSE <<<<"restart">>, <<"label", lbl>>, <<"grabrec", rec>>,
         <<"restart">>, <<"grab", arity - 1>>>> \o cont

\* The result of the body of a cofixpoint is written in its accumulator.
cont_cofix(arity) ==
  <<<<"push">>, <<"push">>, <<"acc", 2>>, <<"field", 1>>, <<"field", 0>>,
    <<"makeblock", 2, 6>>, <<"push">>, <<"acc", 2>>, <<"setfield", 1>>,
    <<"acc", 0>>, <<"return", arity + 2>>>>

\* A function of the code f, made where it is used.
Function(arity, f, cont, s) ==
  Result(<<<<"closure", s.lbl, 0>>>> \o cont,
         AddFun(Fresh(s), add_grab(arity, s.lbl, f)))

code_construct(t, cont, s) ==
  Function(t.np + t.ar,
           add_pop(t.np, IF t.ar = 0 THEN <<<<"constint", t.tag>>, <<"return", 0>>>>
                         ELSE <<<<"acc", 0>>, <<"pop", 1>>, <<"makeblock", t.ar, t.tag>>,
                                <<"return", 0>>>>),
           cont, s)

-----------------------------------------------------------------------------
(* Constructors: constants, blocks, functions, and the special case of      *)
(* native integers.  What str_const leaves is one more kind of term.        *)
RECURSIVE Binary(_), str_const(_)
Binary(ds) == IF ds = <<>> THEN 0 ELSE 2 * Binary(Front(ds)) + Last(ds).tag

str_const(t) ==
  LET head == IF t.k = "app" THEN t.f ELSE t
      args == IF t.k = "app" THEN t.args ELSE <<>>
      bs == [i \in DOMAIN args |-> str_const(args[i])]
      sub == SubSeq(bs, head.np + 1, Len(bs))
  IN CASE t.k = "ind" -> [k |-> "sc", sc |-> <<"ind", t.id>>]
       [] head.k = "i31" /\ Len(args) = W - 1 /\ (\A i \in DOMAIN args : args[i].k = "con") ->
            [k |-> "sc", sc |-> <<"b0", Binary(args)>>]
       [] head.k = "i31" /\ ~(Len(args) = W - 1 /\ (\A i \in DOMAIN args : args[i].k = "con")) ->
            [k |-> "special", args |-> bs]
       [] head.k = "con" /\ Len(args) = head.np + head.ar ->
            IF head.ar = 0 THEN [k |-> "sc", sc |-> <<"b0", head.tag>>]
            ELSE IF \A i \in DOMAIN sub : sub[i].k = "sc"
            THEN [k |-> "sc", sc |-> <<"bn", head.tag, [i \in DOMAIN sub |-> sub[i].sc]>>]
            ELSE [k |-> "makeblock", tag |-> head.tag, args |-> sub]
       [] head.k = "con" /\ Len(args) # head.np + head.ar ->
            [k |-> "construct_app", con |-> head, args |-> bs]
       [] OTHER -> t

-----------------------------------------------------------------------------
RECURSIVE compile_constr(_, _, _, _, _), comp_args(_, _, _, _, _, _), comp_app(_, _, _, _, _, _),
          compile_fv(_, _, _, _, _), Types(_, _, _, _, _), FixBodies(_, _, _, _),
          CoFixBodies(_, _, _, _), Branches(_, _, _, _, _, _, _, _)

\* The last argument is computed first; each is pushed but args[1].
comp_args(r, args, sz, cont, s, i) ==
  LET c == compile_constr(r, args[i], sz + Len(args) - i, cont, s)
  IN IF i = Len(args) THEN c
     ELSE comp_args(r, args, sz, <<<<"push">>>> \o c.c, c.s, i + 1)

comp_app(r, f, args, sz, cont, s) ==
  LET nargs == Len(args)
      k == is_tailcall(cont)
      t == label_code(cont, s)
      Call(extra, last, s0) ==
        LET c == compile_constr(r, f, sz + extra + nargs, last, s0)
        IN comp_args(r, args, sz + extra, <<<<"push">>>> \o c.c, c.s, 1)
  IN IF k >= 0 THEN Call(0, <<<<"appterm", nargs, k + nargs>>>> \o cont, s)
     ELSE IF nargs < 4 THEN Call(0, <<<<"apply", nargs>>>> \o cont, s)
     ELSE LET c == Call(3, <<<<"apply", nargs>>>> \o t.c, t.s)
          IN Result(<<<<"push_retaddr", t.l>>>> \o c.c, c.s)

compile_fv(r, l, sz, cont, s) ==
  IF l = <<>> THEN Result(cont, s)
  ELSE LET rest == compile_fv(r, Front(l), sz + 1, cont, s)
           p == pos_rel(Last(l), r, sz, rest.s)
       IN Result(<<p.c>> \o (IF Len(l) = 1 THEN cont ELSE <<<<"push">>>> \o rest.c), p.s)

\* The labels ls of the codes of the types of a fixpoint, from i on.
Types(r, defs, i, s, ls) ==
  IF i > Len(defs) THEN [ls |-> ls, s |-> s]
  ELSE LET c == compile_constr(r, defs[i].ty, 0, <<<<"stop">>>>, s)
           t == label_code(c.c, c.s)
       IN Types(r, defs, i + 1, AddFun(t.s, t.c), Append(ls, t.l))

FixBodies(defs, i, s, ls) ==
  IF i > Len(defs) THEN [ls |-> ls, s |-> s]
  ELSE LET n == defs[i].n
           c == compile_constr(comp_env_fix(Len(defs), i - 1, n), defs[i].b, n, <<<<"return", n>>>>, s)
       IN FixBodies(defs, i + 1,
                    AddFun(Fresh(c.s), add_grabrec(defs[i].rec, n, c.s.lbl, c.c)),
                    Append(ls, c.s.lbl))

CoFixBodies(defs, i, s, ls) ==
  IF i > Len(defs) THEN [ls |-> ls, s |-> s]
  ELSE LET n == defs[i].n
           c == compile_constr(comp_env_cofix(Len(defs), n), defs[i].b, n + 1, cont_cofix(n), Fresh(s))
       IN CoFixBodies(defs, i + 1, AddFun(c.s, add_grab(n + 1, s.lbl, c.c)),
                      Append(ls, s.lbl))

\* The branches of a match, each before the code c of those compiled before it.
Branches(r, t, i, sz_b, branch, c, s, ls) ==
  IF i > Len(t.tbl) THEN [c |-> c, s |-> s, ls |-> ls]
  ELSE LET arity == t.tbl[i][2]
           br == t.brs[i]
           fields == <<<<"pushfields", arity>>>>
           cont == <<branch>> \o c
           sz_appterm == IF branch[1] = "return" THEN sz_b + arity ELSE arity
           code == CASE arity = 0 -> compile_constr(r, br, sz_b, cont, s)
                     [] arity > 0 /\ br.k = "lam" /\ br.n = arity ->
                          LET b == compile_constr(push_param(arity, sz_b, r), br.b, sz_b + arity,
                                        add_pop(arity, cont), s)
                          IN Result(fields \o b.c, b.s)
                     [] OTHER ->
                          LET b == compile_constr(r, br, sz_b + arity,
                                        <<<<"appterm", arity, sz_appterm>>>> \o c, s)
                          IN Result(fields \o b.c, b.s)
           l == label_code(code.c, code.s)
       IN Branches(r, t, i + 1, sz_b, branch, l.c, l.s, Append(ls, l.l))

\* A match: the code of its type, what an accumulator does, its branches, and
\* before them the instruction that chooses.
is_tail(mb) == mb.b[1] = "return"
jump(mb) == IF is_tail(mb) THEN mb.b ELSE <<"jump">>
case_type(r, t, sz, mb) ==
  LET c == compile_constr(r, t.ty, sz, <<<<"pop", sz>>, <<"stop">>>>, mb.s)
  IN label_code(c.c, c.s)
case_accu(t, sz, mb, lt) ==
  label_code(<<<<"makeswitchblock", lt.l, lt.s.lbl, <<"annot", t.tbl, is_tail(mb)>>, sz>>,
               jump(mb)>> \o mb.c,
             Fresh(AddFun(lt.s, lt.c)))
case_switch(t, sw, accu, brs) ==
  LET Of(block) == {i \in DOMAIN t.tbl : (t.tbl[i][2] > 0) = block}
      Labels(ix, low) ==
        [n \in 1..Cardinality(ix) |-> brs.ls[CHOOSE i \in ix : t.tbl[i][1] = n - 1 + low]]
  IN <<<<"label", sw>>,
       <<"switch", Labels(Of(FALSE), 0), <<accu.l>> \o Labels(Of(TRUE), 1)>>>> \o brs.c

int31_escape_before_match(r, t, sz, esc) ==
  compile_constr(r, t.a, sz, <<<<"isconst", esc.l>>, <<"arith", "DECOMPINT31">>>> \o esc.c, esc.s)
compile_case(r, t, sz, cont, s) ==
  LET Scrutinee(code, s1) ==
        IF t.tbl = int31_tbl THEN int31_escape_before_match(r, t, sz, label_code(code, s1))
                             ELSE compile_constr(r, t.a, sz, code, s1)
      Chosen(mb, sw, accu, brs) ==
        Scrutinee((IF is_tail(mb) THEN <<>> ELSE <<<<"push_retaddr", mb.b[2]>>>>)
                    \o case_switch(t, sw, accu, brs), brs.s)
      Branching(mb, sw, accu) ==
        Chosen(mb, sw, accu, Branches(r, t, 1, IF is_tail(mb) THEN sz ELSE sz + 3, jump(mb),
                                      accu.c, accu.s, <<>>))
      Typed(mb, lt) == Branching(mb, lt.s.lbl, case_accu(t, sz, mb, lt))
      Jumping(mb) == Typed(mb, case_type(r, t, sz, mb))
  IN Jumping(make_branch(cont, s))

\* A function of native integers: computed when all its arguments are
\* constants, and otherwise applied as any other constant.
op_code(op, n, cont, s) ==
  Function(n, <<<<"areconst", n, s.lbl>>, <<"acc", 0>>, <<"pop", 1>>, <<"arith", op>>,
                <<"return", 0>>, <<"label", s.lbl>>, <<"getglobal", <<"const", op>>>>,
                <<"appterm", n, n>>>>,
           cont, Fresh(s))
op_compilation(r, op, args, sz, cont, s) ==
  LET n == Arith[op]
      mb == make_branch(cont, s)
      else == mb.s.lbl
  IN IF Len(args) = n
     THEN comp_args(r, args, sz,
            <<<<"isconst", else>>>>
              \o (IF n > 1 THEN <<<<"areconst", n - 1, else>>>> ELSE <<>>)
              \o <<<<"arith", op>>, mb.b, <<"label", else>>, <<"push">>,
                   <<"getglobal", <<"const", op>>>>, <<"apply", n>>>> \o mb.c,
            Fresh(mb.s), 1)
     ELSE IF args = <<>> THEN op_code(op, n, cont, s)
     ELSE comp_app(r, [k |-> "op", op |-> op], args, sz, cont, s)

\* The constructor of integers: the same on its digits.
int31_tail(else, escape) ==
  <<<<"isconst", else>>, <<"areconst", W - 2, else>>, <<"arith", "COMPINT31">>, escape,
    <<"label", else>>, <<"makeblock", W - 1, 1>>>>
int31_code(cont, s) ==
  Function(W - 1, <<<<"acc", 0>>, <<"pop", 1>>>> \o int31_tail(s.lbl, <<"return", 0>>)
                    \o <<<<"return", 0>>>>, cont, Fresh(s))
dynamic_int31_compilation(r, args, sz, cont, s) ==
  LET mb == make_branch(cont, s) IN
  IF Len(args) = W - 1
  THEN comp_args(r, args, sz, int31_tail(mb.s.lbl, mb.b) \o mb.c, Fresh(mb.s), 1)
  ELSE IF args = <<>> THEN int31_code(cont, s)
  ELSE comp_app(r, I31, args, sz, cont, s)

compile_constr(r, t, sz, cont, s) ==
  CASE t.k = "rel" -> LET p == pos_rel(t.i, r, sz, s) IN Result(<<p.c>> \o cont, p.s)
    [] t.k = "const" ->
         IF t.name \in DOMAIN Arith THEN op_compilation(r, t.name, <<>>, sz, cont, s)
         ELSE Result(<<<<"getglobal", <<"const", t.name>>>>>> \o cont, s)
    [] t.k = "op" -> op_code(t.op, Arith[t.op], cont, s)
    [] t.k \in {"ind", "con", "i31"} -> compile_constr(r, str_const(t), sz, cont, s)
    [] t.k = "sc" /\ t.sc[1] = "b0" -> Result(<<<<"constint", t.sc[2]>>>> \o cont, s)
    [] t.k = "sc" /\ t.sc[1] # "b0" -> Result(<<<<"getglobal", t.sc>>>> \o cont, s)
    [] t.k = "makeblock" ->
         comp_args(r, t.args, sz, <<<<"makeblock", Len(t.args), t.tag>>>> \o cont, s, 1)
    [] t.k = "construct_app" ->
         IF t.args = <<>> THEN code_construct(t.con, cont, s)
         ELSE comp_app(r, [t EXCEPT !.args = <<>>], t.args, sz, cont, s)
    [] t.k = "special" -> dynamic_int31_compilation(r, t.args, sz, cont, s)
    [] t.k = "let" ->
         LET b == compile_constr(push_param(1, sz, r), t.b, sz + 1, add_pop(1, cont), s)
         IN compile_constr(r, t.a, sz, <<<<"push">>>> \o b.c, b.s)
    [] t.k = "prod" ->
         LET d == compile_constr(r, t.a, sz + 1, <<<<"makeprod">>>> \o cont, s)
         IN compile_constr(r, Lam(1, t.b), sz, <<<<"push">>>> \o d.c, d.s)
    [] t.k = "lam" ->
         LET b == compile_constr(comp_env_fun(t.n), t.b, t.n, <<<<"return", t.n>>>>,
                       [Fresh(s) EXCEPT !.fv = <<>>])
         IN compile_fv(r, b.s.fv, sz, <<<<"closure", s.lbl, Len(b.s.fv)>>>> \o cont,
                       [AddFun(b.s, add_grab(t.n, s.lbl, b.c)) EXCEPT !.fv = s.fv])
    [] t.k = "app" /\ t.f.k \in {"con", "i31"} -> compile_constr(r, str_const(t), sz, cont, s)
    [] t.k = "app" /\ t.f.k = "const" /\ t.f.name \in DOMAIN Arith ->
         op_compilation(r, t.f.name, t.args, sz, cont, s)
    [] t.k = "app" /\ t.f.k \notin {"con", "i31"}
         /\ ~(t.f.k = "const" /\ t.f.name \in DOMAIN Arith) ->
         comp_app(r, t.f, t.args, sz, cont, s)
    [] t.k = "fix" ->
         LET ts == Types(comp_env_fun(0), t.defs, 1, [s EXCEPT !.fv = <<>>], <<>>)
             bs == FixBodies(t.defs, 1, ts.s, <<>>)
         IN compile_fv(r, bs.s.fv, sz,
                       <<<<"closurerec", Len(bs.s.fv), t.init, ts.ls, bs.ls>>>> \o cont,
                       [bs.s EXCEPT !.fv = s.fv])
    [] t.k = "cofix" ->
         LET ts == Types(comp_env(0, <<>>, 1 + Len(t.defs)), t.defs, 1,
                         [s EXCEPT !.fv = <<>>], <<>>)
             bs == CoFixBodies(t.defs, 1, ts.s, <<>>)
         IN compile_fv(r, bs.s.fv, sz,
                       <<<<"closurecofix", Len(bs.s.fv), t.init, ts.ls, bs.ls>>>> \o cont,
                       [bs.s EXCEPT !.fv = s.fv])
    [] t.k = "case" -> compile_case(r, t, sz, cont, s)

\* The codes of a term and of its functions.
compile(t) ==
  LET Codes(c) == <<c.c>> \o c.s.funs
  IN Codes(compile_constr(comp_env(0, <<>>, 0), t, 0, <<<<"stop">>>>,
                          [fv |-> <<>>, funs |-> <<>>, lbl |-> 0]))

-----------------------------------------------------------------------------
(* Emission: the words of an instruction.  <<"@", l, d>> is a label whose   *)
(* origin is d words before, <<"$", x>> a global data, <<"label", l>> the   *)
(* place of a label.                                                        *)
Num(n) == <<"#", n>>
Access(name, n, S) == IF n \in S THEN <<<<name, n>>>> ELSE <<<<name>>, Num(n)>>
Table(ls) == [i \in DOMAIN ls |-> <<"@", ls[i], i - 1>>]
Closures(name, i) ==
  <<<<name>>, Num(Len(i[5])), Num(i[2]), Num(i[3])>> \o Table(i[4]) \o Table(i[5])

emit_instr(i) ==
  CASE i[1] = "label"  -> <<i>>
    [] i[1] = "acc"    -> Access("ACC", i[2], 0..7)
    [] i[1] = "envacc" -> Access("ENVACC", i[2], 1..4)
    [] i[1] = "offsetclosure" -> Access("OFFSETCLOSURE", i[2], {-2, 0, 2})
    [] i[1] = "push"   -> <<<<"PUSH">>>>
    [] i[1] = "pop"    -> <<<<"POP">>, Num(i[2])>>
    [] i[1] = "push_retaddr" -> <<<<"PUSH_RETADDR">>, <<"@", i[2], 0>>>>
    [] i[1] = "apply"  -> IF i[2] < 4 THEN <<<<"APPLYN", i[2]>>>> ELSE <<<<"APPLY">>, Num(i[2])>>
    [] i[1] = "appterm" -> Access("APPTERM", i[2], 1..3) \o <<Num(i[3])>>
    [] i[1] = "return" -> <<<<"RETURN">>, Num(i[2])>>
    [] i[1] = "jump"   -> <<<<"RETURN">>, Num(0)>>
    [] i[1] = "restart" -> <<<<"RESTART">>>>
    [] i[1] = "grab"   -> <<<<"GRAB">>, Num(i[2])>>
    [] i[1] = "grabrec" -> <<<<"GRABREC">>, Num(i[2])>>
    [] i[1] = "closure" -> <<<<"CLOSURE">>, Num(i[3]), <<"@", i[2], 0>>>>
    [] i[1] = "closurerec" -> Closures("CLOSUREREC", i)
    [] i[1] = "closurecofix" -> Closures("CLOSURECOFIX", i)
    [] i[1] = "getglobal" -> <<<<"GETGLOBAL">>, <<"$", i[2]>>>>
    [] i[1] = "constint" -> Access("CONSTINT", i[2], 0..3)
    [] i[1] = "makeblock" -> Access("MAKEBLOCK", i[2], 1..3) \o <<Num(i[3])>>
    [] i[1] = "makeprod" -> <<<<"MAKEPROD">>>>
    [] i[1] = "makeswitchblock" ->
         <<<<"MAKESWITCHBLOCK">>, <<"@", i[2], 0>>, <<"@", i[3], 0>>, <<"$", i[4]>>, Num(i[5])>>
    [] i[1] = "switch" ->
         <<<<"SWITCH">>, Num(Len(i[2]) + 65536 * Len(i[3]))>> \o Table(i[2] \o i[3])
    [] i[1] = "pushfields" -> <<<<"PUSHFIELDS">>, Num(i[2])>>
    [] i[1] = "field"  -> Access("GETFIELD", i[2], {0, 1})
    [] i[1] = "setfield" -> Access("SETFIELD", i[2], {0, 1})
    [] i[1] = "branch" -> <<<<"BRANCH">>, <<"@", i[2], 0>>>>
    [] i[1] = "isconst" -> <<<<"ISCONST">>, <<"@", i[2], 0>>>>
    [] i[1] = "areconst" -> <<<<"ARECONST">>, Num(i[2]), <<"@", i[3], 0>>>>
    [] i[1] = "arith"  -> <<<<i[2]>>>>
    [] i[1] = "stop"   -> <<<<"STOP">>>>

\* The instructions that have a form that pushes first.
WithPush == [acc |-> "PUSHACC", envacc |-> "PUSHENVACC", getglobal |-> "PUSHGETGLOBAL",
             offsetclosure |-> "PUSHOFFSETCLOSURE", constint |-> "PUSHCONSTINT"]

RECURSIVE emit(_), EmitAll(_)
emit(c) ==
  IF c = <<>> THEN <<>>
  ELSE IF Len(c) > 1 /\ c[1][1] = "push" /\ c[2][1] \in DOMAIN WithPush
  THEN LET i == emit_instr(c[2])
       IN <<[i[1] EXCEPT ![1] = WithPush[c[2][1]]]>> \o Tail(i) \o emit(Tail(Tail(c)))
  ELSE IF Len(c) > 1 /\ c[1][1] = "pop" /\ c[2][1] = "jump"
  THEN <<<<"RETURN">>, Num(c[1][2])>> \o emit(Tail(Tail(c)))
  ELSE emit_instr(c[1]) \o emit(Tail(c))
EmitAll(cs) == IF cs = <<>> THEN <<>> ELSE emit(cs[1]) \o EmitAll(Tail(cs))

-----------------------------------------------------------------------------
(* Translation and linking.                                                 *)

\* The number of operands that follow an instruction: the table arity of the C
\* code, where a short form is an instruction of its own.
ArityOf(w) ==
  CASE w[1] \in {"ACC", "PUSHACC", "ENVACC", "PUSHENVACC", "OFFSETCLOSURE",
                 "PUSHOFFSETCLOSURE", "GETFIELD", "SETFIELD", "CONSTINT", "PUSHCONSTINT",
                 "APPLY"} -> IF Len(w) = 2 THEN 0 ELSE 1
    [] w[1] \in {"APPTERM", "MAKEBLOCK"} -> IF Len(w) = 2 THEN 1 ELSE 2
    [] w[1] \in {"POP", "PUSH_RETADDR", "RETURN", "GRAB", "GRABREC", "GETGLOBAL",
                 "PUSHGETGLOBAL", "MAKEACCU", "PUSHFIELDS", "BRANCH", "ISCONST"} -> 1
    [] w[1] \in {"CLOSURE", "ARECONST"} -> 2
    [] w[1] = "MAKESWITCHBLOCK" -> 4
    [] OTHER -> 0

\* Mutant: one label too many in the table of a fixpoint.
SizeOneMore(p, a) ==
  CASE p[a][1] = "SWITCH" ->
         2 + (p[a + 1][2] % 65536) + (p[a + 1][2] \div 65536)
    [] p[a][1] \in {"CLOSUREREC", "CLOSURECOFIX"} -> 2 + 3 + 2 * p[a + 1][2]
    [] OTHER -> 1 + ArityOf(p[a])

\* The number of words from an instruction to the next, in a code p.
Size(p, a) ==
  CASE p[a][1] = "SWITCH" ->
         2 + (p[a + 1][2] % 65536) + (p[a + 1][2] \div 65536)
    [] p[a][1] \in {"CLOSUREREC", "CLOSURECOFIX"} -> 1 + 3 + 2 * p[a + 1][2]
    [] OTHER -> 1 + ArityOf(p[a])

RECURSIVE Instructions(_, _)
Instructions(p, a) ==
  IF a > Len(p) THEN {} ELSE {a} \cup Instructions(p, a + Size(p, a))

\* An opcode that is not translated is no instruction, nor is an operand that is.
tcode_of_code(p) ==
  [a \in DOMAIN p |->
     IF (a \in Instructions(p, 1)) = (p[a][1] \notin {"#", "@", "$"})
     THEN p[a] ELSE <<"untranslated">>]

\* The code of the machine itself: ACCUMULATE, STOP, POP n STOP, MAKEACCU i.
Pops == 9
Accus == 8
Builtin ==
  <<<<"ACCUMULATE">>, <<"STOP">>>>
    \o [a \in 1..(3 * Pops) |->
          CASE a % 3 = 1 -> <<"POP">> [] a % 3 = 2 -> Num((a + 1) \div 3)
            [] OTHER -> <<"STOP">>]
    \o [a \in 1..(2 * Accus) |->
          IF a % 2 = 1 THEN <<"MAKEACCU">> ELSE Num(a \div 2 - 1)]

\* The words with labels and global data in place.
IsWord(x) == x[1] # "label"
AddressIn(items, l) ==
  LET i == CHOOSE j \in DOMAIN items : items[j] = <<"label", l>>
  IN Len(SelectSeq(SubSeq(items, 1, i), IsWord)) + 1
Linked(items, slots) ==
  LET words == SelectSeq(items, IsWord)
      Slot(x) == CHOOSE i \in DOMAIN slots : slots[i] = x
  IN [a \in DOMAIN words |->
        CASE words[a][1] = "@" -> Num(AddressIn(items, words[a][2]) - (a - words[a][3]))
          [] words[a][1] = "$" -> Num(Slot(words[a][2]) - 1)
          [] OTHER -> words[a]]

\* The blocks b of the constants of a program: Stored(x, b) is the value of x
\* and the blocks with its own.  The block b[i] is at the address i - 1.
Constant(n) == <<"int", n>>
Newest(b) == <<"ptr", Len(b) - 1, 0>>
Accumulator(tag, key, b) ==
  LET atom == Append(b, [tag |-> tag, f |-> <<<<"key", key>>>>])
      accu == Append(atom, [tag |-> 0, f |-> <<<<"code", 1>>, Newest(atom)>>])
  IN [v |-> Newest(accu), b |-> accu]

RECURSIVE Stored(_, _), StoredAll(_, _, _)
Stored(x, b) ==
  CASE x[1] = "b0" -> [v |-> Constant(x[2]), b |-> b]
    [] x[1] = "bn" ->
         LET args == StoredAll(x[3], b, <<>>)
             c == Append(args.b, [tag |-> x[2], f |-> args.v])
         IN [v |-> Newest(c), b |-> c]
    [] x[1] = "annot" ->
         LET c == Append(b, [tag |-> 0, f |-> <<Constant(0), <<"key", x[2]>>,
                                                Constant(IF x[3] THEN 1 ELSE 0)>>])
         IN [v |-> Newest(c), b |-> c]
    [] OTHER -> Accumulator(IF x[1] = "ind" THEN 2 ELSE 0, x, b)
StoredAll(xs, b, vs) ==
  IF xs = <<>> THEN [v |-> vs, b |-> b]
  ELSE LET p == Stored(xs[1], b) IN StoredAll(Tail(xs), p.b, Append(vs, p.v))

\* The image of a term, that may be said to be a function.
IsData(w) == w[1] = "$"
Slots(data) == [i \in DOMAIN data |-> data[i][2]]
Image(t, functional, items, slots, rels, globals) ==
  [term |-> t, functional |-> functional,
   code |-> Builtin \o tcode_of_code(Linked(items, slots)),
   global_data |-> globals.v,
   static |-> [a \in 0..(Len(globals.b) - 1) |-> globals.b[a + 1]],
   rels |-> rels.v,
   atom_tbl |-> [i \in DOMAIN rels.v |-> rels.b[rels.v[i][2] + 1].f[2]],
   popstop |-> [n \in 1..Pops |-> 3 * n],
   relaccu |-> [i \in 1..Accus |-> 3 * Pops + 2 * i + 1],
   start |-> Len(Builtin) + 1]
ImageOf(t, functional) ==
  LET Assembled(items, slots, rels) ==
        Image(t, functional, items, slots, rels, StoredAll(slots, rels.b, <<>>))
      Emitted(items) ==
        Assembled(items, Slots(SelectSeq(items, IsData)),
                StoredAll([i \in 1..Accus |-> <<"rel", i - 1>>],
                          <<[tag |-> 0, f |-> <<>>]>>, <<>>))
  IN Emitted(EmitAll(compile(t)))
=============================================================================
