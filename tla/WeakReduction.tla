---------------------------- MODULE WeakReduction ----------------------------
(* What a term reduces to, by the rules of the calculus and without code,   *)
(* closures or stack: the reference for what the machine computes.          *)
(* Arguments are passed one at a time.  A reduction that is stuck on a      *)
(* variable is neutral: the variable, and what was to be done with it.      *)
EXTENDS Cbytegen

VInt(n)          == [k |-> "int", n |-> n]
VBlk(tag, args)  == [k |-> "blk", tag |-> tag, args |-> args]
VNeu(head, spine) == [k |-> "neu", head |-> head, spine |-> spine]
\* A function of n arguments waits for those that args lacks.
VFun(n, body, args) == [k |-> "fun", n |-> n, body |-> body, args |-> args]
VRel(i) == VNeu(<<"rel", i>>, <<>>)

Reversed(s) == [i \in DOMAIN s |-> s[Len(s) + 1 - i]]
Stuck(v, what) == [v EXCEPT !.spine = Append(@, what)]

\* A mutual definition in the environment of its bodies, the last one nearest.
Recs(f) == [j \in DOMAIN f.defs |->
              [f EXCEPT !.i = Len(f.defs) - j, !.args = <<>>]]

Computed(op, args) ==
  LET ws == [i \in DOMAIN args |-> value_of_uint32(args[i].n)]
      r == Execute(op, ws[1], Tail(ws))
      ns == [i \in DOMAIN r.words |-> VInt(uint32_of_value(r.words[i]))]
  IN IF r.block THEN VBlk(r.tag, ns) ELSE ns[1]

RECURSIVE Eval(_, _), ApplyTo(_, _), ApplyAll(_, _), Run(_, _), Match(_, _, _)

\* e is the environment.
Eval(t, e) ==
  CASE t.k = "rel" -> e[t.i]
    [] t.k = "const" ->
         IF t.name \in DOMAIN Arith THEN VFun(Arith[t.name], <<"op", t.name>>, <<>>)
                                    ELSE VNeu(<<"const", t.name>>, <<>>)
    [] t.k = "ind" -> VNeu(<<"ind", t.id>>, <<>>)
    [] t.k = "con" -> IF t.np + t.ar = 0 THEN VInt(t.tag)
                      ELSE VFun(t.np + t.ar, <<"con", t>>, <<>>)
    [] t.k = "i31" -> VFun(W - 1, <<"i31">>, <<>>)
    [] t.k = "lam" -> VFun(t.n, <<"code", t.b, e>>, <<>>)
    [] t.k = "app" -> ApplyAll(Eval(t.f, e), [i \in DOMAIN t.args |-> Eval(t.args[i], e)])
    [] t.k = "let" -> Eval(t.b, <<Eval(t.a, e)>> \o e)
    [] t.k = "prod" -> [k |-> "prod", a |-> Eval(t.a, e), b |-> VFun(1, <<"code", t.b, e>>, <<>>)]
    [] t.k \in {"fix", "cofix"} ->
         [k |-> t.k, i |-> t.init, defs |-> t.defs, e |-> e, args |-> <<>>]
    [] t.k = "case" -> Match(Eval(t.a, e), t, e)

Run(body, args) ==
  CASE body[1] = "code" -> Eval(body[2], Reversed(args) \o body[3])
    [] body[1] = "con" -> IF body[2].ar = 0 THEN VInt(body[2].tag)
                          ELSE VBlk(body[2].tag, SubSeq(args, body[2].np + 1, Len(args)))
    [] body[1] = "i31" -> IF \A i \in DOMAIN args : args[i].k = "int"
                          THEN LET Value[i \in 0..Len(args)] ==
                                     IF i = 0 THEN 0 ELSE 2 * Value[i - 1] + args[i].n
                               IN VInt(Value[Len(args)])
                          ELSE VBlk(1, args)
    [] body[1] = "op" -> IF \A i \in DOMAIN args : args[i].k = "int"
                         THEN Computed(body[2], args)
                         ELSE VNeu(<<"const", body[2]>>,
                                   [i \in DOMAIN args |-> <<"arg", args[i]>>])

ApplyTo(f, v) ==
  LET args == Append(f.args, v)
      def == f.defs[f.i + 1]
  IN CASE f.k = "fun" -> IF Len(args) = f.n THEN Run(f.body, args)
                         ELSE [f EXCEPT !.args = args]
       [] f.k = "fix" ->
            IF Len(args) <= def.rec THEN [f EXCEPT !.args = args]
            ELSE IF v.k = "neu" THEN Stuck(v, <<"fix", f.args>>)
            ELSE ApplyAll(VFun(def.n, <<"code", def.b, Recs(f) \o f.e>>, <<>>), args)
       [] f.k = "cofix" -> [f EXCEPT !.args = args]
       [] f.k = "neu" -> Stuck(f, <<"arg", v>>)
ApplyAll(f, vs) == IF vs = <<>> THEN f ELSE ApplyAll(ApplyTo(f, vs[1]), Tail(vs))

\* A cofixpoint reduces under a match only.
Match(v, t, e) ==
  LET digits == [i \in 1..(W - 1) |-> VInt((v.n \div (2^(W - 1 - i))) % 2)]
      Branch(tag, n) == t.brs[CHOOSE i \in DOMAIN t.tbl :
                                t.tbl[i][1] = tag /\ (t.tbl[i][2] > 0) = (n > 0)]
      OnBlock(tag, args) ==
        LET b == Branch(tag, Len(args))
        IN ApplyAll(Eval(b, e), args)
  IN CASE v.k = "int" /\ t.tbl = int31_tbl -> OnBlock(1, digits)
       [] v.k = "int" /\ t.tbl # int31_tbl -> Eval(Branch(v.n, 0), e)
       [] v.k = "blk" -> OnBlock(v.tag, v.args)
       [] v.k = "neu" -> Stuck(v, <<"case", t, e>>)
       [] v.k = "cofix" ->
            Match(Run(<<"code", v.defs[v.i + 1].b, Recs(v) \o v.e>>, v.args), t, e)

-----------------------------------------------------------------------------
(* The parts of a value, under the variables 0 to k - 1.                    *)
Variables(i, n) == [j \in 1..n |-> VRel(i + n - j)]

\* The arguments that a neutral value has after all else.
LastArguments(z) ==
  LET ends == {n \in 0..Len(z) : \A j \in (n + 1)..Len(z) : z[j][1] = "arg"}
      n == CHOOSE n \in ends : \A j \in ends : n <= j
  IN [j \in 1..(Len(z) - n) |-> z[n + j][2]]

IsMatch(z) == z[1] = "case"
StuckMatch(v, n) == SelectSeq(v.spine, IsMatch)[n]
BranchPart(z, i, k) ==
  LET tag == z[2].tbl[i][1]
      n == z[2].tbl[i][2]
  IN Match(IF n = 0 THEN VInt(tag) ELSE VBlk(tag, [j \in 1..n |-> VRel(k + j - 1)]), z[2], z[3])

PartOf(v, step, k) ==
  LET i == step[2] IN
  CASE step[1] = "component" -> IF v.k = "neu" THEN LastArguments(v.spine)[i] ELSE v.args[i]
    [] step[1] = "apply"    -> ApplyAll(v, Variables(k, i))
    [] step[1] = "domain"   -> v.a
    [] step[1] = "codomain" -> ApplyTo(v.b, VRel(k))
    [] step[1] = "type"     -> Eval(StuckMatch(v, i)[2].ty, StuckMatch(v, i)[3])
    [] step[1] = "branch"   -> BranchPart(StuckMatch(v, i), step[3], k)
    [] step[1] \in {"fixtype", "cofixtype"} -> Eval(v.defs[i].ty, v.e)
    [] step[1] \in {"fixbody", "cofixbody"} ->
         LET def == v.defs[i]
             e == Variables(k, Len(v.defs)) \o v.e
         IN IF def.n = 0 THEN Eval(def.b, e) ELSE VFun(def.n, <<"code", def.b, e>>, <<>>)

-----------------------------------------------------------------------------
(* What can be seen of a value.                                             *)
RECURSIVE Seen(_)
Seen(v) ==
  LET All(vs) == [i \in DOMAIN vs |-> Seen(vs[i])] IN
  CASE v.k = "int" -> <<"int", v.n>>
    [] v.k = "blk" -> <<"blk", v.tag, All(v.args)>>
    [] v.k = "fun" -> <<"fun", v.n - Len(v.args)>>
    [] v.k \in {"fix", "cofix"} -> <<v.k, All(v.args)>>
    [] v.k = "prod" -> <<"prod", Seen(v.a)>>
    [] v.k = "neu" ->
         <<"neu", v.head,
           [i \in DOMAIN v.spine |->
              CASE v.spine[i][1] = "arg" -> <<"arg", Seen(v.spine[i][2])>>
                [] v.spine[i][1] = "fix" -> <<"fix", All(v.spine[i][2])>>
                [] v.spine[i][1] = "case" -> <<"case", v.spine[i][2].tbl>>]>>
=============================================================================
