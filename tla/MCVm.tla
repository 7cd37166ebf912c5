-------------------------------- MODULE MCVm --------------------------------
(* Programs for the machine of VmEval, and what it must do with them: it    *)
(* runs the code that Cbytegen makes of each, and WeakReduction says what   *)
(* each is worth.                                                           *)
EXTENDS VmEval, WeakReduction

X == Const("x")
\* nat, lists, streams, and a constructor of four arguments.
O == Con(0, 0, 0)
S(t) == App(Con(1, 0, 1), <<t>>)
nat_tbl == <<<<0, 0>>, <<1, 1>>>>
Under(n, b) == IF b.k = "lam" THEN Lam(n + b.n, b.b) ELSE Lam(n, b)
NatMatch(a, o, s) == Case(Ind("nat"), a, nat_tbl, <<o, Under(1, s)>>)
Nil == App(Con(0, 1, 0), <<Ind("nat")>>)
Cons(h, t) == App(Con(1, 1, 2), <<Ind("nat"), h, t>>)
stream_tbl == <<<<1, 2>>>>
Hd(t) == Case(Ind("nat"), t, stream_tbl, <<Lam(2, Rel(2))>>)
Tl(t) == Case(Ind("stream"), t, stream_tbl, <<Lam(2, Rel(1))>>)
Quad(a, b, c, d) == App(Con(1, 0, 4), <<a, b, c, d>>)
RECURSIVE Numeral(_)
Numeral(n) == IF n = 0 THEN O ELSE S(Numeral(n - 1))
Digit(d) == Con(d, 0, 0)
Number(n) == App(I31, [i \in 1..(W - 1) |-> Digit((n \div (2^(W - 1 - i))) % 2)])
Digits(a, b) == Case(Ind("list"), a, int31_tbl, <<Lam(3, Quad(Rel(3), Rel(2), Rel(1), b))>>)

\* Addition by recursion on its first argument, and on its second.
Plus == Fix(0, <<Def(0, 2, Prod(Ind("nat"), Ind("nat")),
                     NatMatch(Rel(2), Rel(1), S(App(Rel(4), <<Rel(1), Rel(2)>>))))>>)
Plus2 == Fix(0, <<Def(1, 2, Ind("nat"),
                      NatMatch(Rel(1), Rel(2), App(Rel(4), <<S(Rel(3)), Rel(1)>>)))>>)
\* Of three arguments, by recursion on the second: it returns a function.
Plus3 == Fix(0, <<Def(1, 3, Ind("nat"),
                      NatMatch(Rel(2), Cons(Rel(3), Rel(1)),
                               App(Rel(5), <<S(Rel(4)), Rel(1), Rel(2)>>)))>>)
Plus4 == Fix(0, <<Def(0, 3, Ind("nat"),
                      NatMatch(Rel(3), Cons(Rel(2), Rel(1)),
                               App(Rel(5), <<Rel(1), Rel(2), S(Rel(3))>>)))>>)
\* Three mutual functions, under a variable that their types and bodies use.
Rest3(i) ==
  LET Def3(j, res) == Def(0, 1, Rel(1), NatMatch(Rel(1), res, App(Rel(j), <<Rel(1)>>)))
  IN Fix(i, <<Def3(4, Rel(5)), Def3(3, O), Def3(5, S(O))>>)

From == CoFix(0, <<Def(0, 1, Ind("nat"), Cons(Rel(1), App(Rel(2), <<S(Rel(1))>>)))>>)
From2 == CoFix(0, <<Def(0, 2, Ind("nat"),
                        Cons(Rel(2), App(Rel(3), <<S(Rel(1)), Rel(2)>>)))>>)
\* Two mutual streams, under a variable.
Alternate(i) == CoFix(i, <<Def(0, 0, Ind("stream"), Cons(Rel(3), Rel(1))),
                           Def(0, 0, Ind("stream"), Cons(X, Rel(2)))>>)
\* A stream that is stuck when its argument is.
Stuckfix == CoFix(0, <<Def(0, 1, Ind("nat"),
                           NatMatch(Rel(1), Cons(O, App(Rel(2), <<O>>)),
                                    Cons(Rel(1), App(Rel(3), <<Rel(1)>>))))>>)

Fun5 == Lam(5, Quad(Rel(5), Rel(4), Rel(2), Rel(1)))
Fun10 == Lam(10, App(Lam(1, Quad(Rel(1), Rel(11), Rel(6), Quad(Rel(2), Rel(3), Rel(4), Rel(5)))),
                     <<App(X, <<Rel(10), Rel(9)>>)>>))
Ten == <<Numeral(1), O, Numeral(2), X, O, O, Numeral(1), Numeral(3), O, Con(5, 0, 0)>>

-----------------------------------------------------------------------------
(* The programs, in two lists: in the second one OCaml takes the result for *)
(* a function.                                                              *)
Native(name, xs) == App(Const(name), xs)

Terms == <<
  App(Plus, <<Numeral(2), Numeral(1)>>),
  App(Plus, <<X, Numeral(1)>>),
  Let(App(Plus, <<X>>), App(Rel(1), <<Numeral(1)>>)),
  Plus,
  App(Plus2, <<Numeral(1)>>),
  App(Fix(0, <<Def(0, 1, Ind("nat"), NatMatch(Rel(1), O, S(Rel(3))))>>), <<Numeral(1)>>),
  Plus2,
  Let(App(Plus2, <<Numeral(1)>>), App(Rel(1), <<X>>)),
  Let(App(Plus3, <<O, Numeral(1)>>), Cons(App(Rel(1), <<Nil>>), App(Rel(1), <<X>>))),
  App(Plus3, <<O, Numeral(1)>>),
  Let(App(Plus3, <<Numeral(1)>>), App(Rel(1), <<X, Nil>>)),
  App(Lam(1, Rest3(1)), <<Numeral(2)>>),
  Let(Numeral(2), App(Rest3(0), <<Numeral(3)>>)),
  App(Lam(1, App(Rest3(2), <<S(X)>>)), <<Numeral(2)>>),
  \* matches, in tail position or not, on blocked values
  Let(Numeral(2), Case(Rel(1), X, nat_tbl, <<Rel(1), Lam(1, S(Rel(2)))>>)),
  App(Lam(2, Case(Rel(2), Rel(2), nat_tbl, <<Rel(1), Lam(1, Cons(Rel(1), Rel(2)))>>)),
    <<X, Numeral(3)>>),
  Let(Numeral(2), Cons(NatMatch(X, Rel(1), Rel(1)), NatMatch(Rel(1), O, Rel(1)))),
  App(Lam(2, Case(Ind("nat"), Rel(2), nat_tbl, <<O, Rel(1)>>)),
    <<X, Lam(1, S(Rel(1)))>>),
  Let(Lam(1, S(Rel(1))), Case(Ind("nat"), X, nat_tbl, <<O, Rel(1)>>)),
  Let(Lam(1, S(Rel(1))), S(Case(Ind("nat"), Numeral(2), nat_tbl, <<O, Rel(1)>>))),
  NatMatch(NatMatch(X, O, Rel(1)), Numeral(1), X),
  App(NatMatch(X, Lam(1, S(Rel(1))), Lam(1, Rel(2))), <<Numeral(4)>>),
  \* calls of every arity
  S(App(Fun5, <<O, X, O, Numeral(1), X>>)),
  App(Lam(1, App(Rel(1), <<O, X, O, Numeral(1), X>>)), <<Fun5>>),
  Let(App(Fun5, <<O, X>>), Cons(App(Rel(1), <<O, O, Numeral(1)>>), Rel(1))),
  Let(App(Fun5, <<O, X>>), Let(App(Rel(1), <<O>>), App(Rel(1), <<O, O>>))),
  Let(Lam(1, Let(S(Rel(1)), Lam(2, Cons(Rel(3), Rel(1))))), App(Rel(1), <<O, X, Numeral(1)>>)),
  App(Lam(2, App(Rel(2), <<Rel(1), Rel(1), X>>)), <<Lam(2, Let(X, Lam(1, Cons(Rel(3), Rel(1))))), O>>),
  App(Fun10, Ten),
  App(Lam(1, Let(X, App(Fun10, Ten))), <<O>>),
  App(Lam(6, Let(X, Lam(1, Quad(Rel(8), Cons(Rel(3), Rel(4)), Quad(Rel(5), Rel(6), Rel(7), O), Rel(1))))),
    <<O, Numeral(1), Numeral(2), X, O, Numeral(1), Numeral(3)>>),
  App(X, <<O, Numeral(1)>>),
  Let(App(X, <<O>>), Cons(Rel(1), App(Rel(1), <<Numeral(1), Nil>>))),
  NatMatch(App(X, <<O>>), Numeral(1), Rel(1)),
  \* constructors
  Let(App(Con(1, 1, 2), <<Ind("nat"), X>>), Cons(App(Rel(1), <<Nil>>), Rel(1))),
  App(Lam(1, App(Rel(1), <<Ind("nat"), O, Nil>>)), <<Con(1, 1, 2)>>),
  App(Lam(1, Cons(App(Rel(1), <<Ind("nat")>>), Rel(1))), <<Con(0, 1, 0)>>),
  Cons(Prod(Ind("nat"), App(X, <<Rel(1)>>)), Ind("nat")),
  \* streams
  App(From, <<O>>),
  Let(App(From, <<O>>), Quad(Hd(Rel(1)), Hd(Tl(Tl(Rel(1)))), Hd(Tl(Rel(1))), Rel(1))),
  App(Lam(1, Hd(Tl(Rel(1)))), <<App(From, <<X>>)>>),
  Let(O, Let(Alternate(1), Quad(Hd(Tl(Rel(1))), Hd(Rel(1)), Tl(Tl(Rel(1))), Rel(1)))),
  Hd(App(Stuckfix, <<X>>)),
  Let(App(Stuckfix, <<X>>), Cons(Hd(Rel(1)), Hd(Rel(1)))),
  App(Lam(1, Hd(Tl(Rel(1)))), <<App(Stuckfix, <<Numeral(2)>>)>>),
  Hd(App(X, <<Numeral(1)>>)),
  App(Lam(1, Hd(Tl(Rel(1)))), <<App(X, <<Numeral(1)>>)>>),
  \* native integers
  Native("ADDINT31", <<Number(3), Number(6)>>),
  Native("ADDINT31", <<X, Number(6)>>),
  App(Lam(2, Native("MULCINT31", <<Rel(1), Rel(2)>>)), <<Number(3), Number(6)>>),
  App(Lam(2, Native("SUBCINT31", <<Rel(2), Rel(1)>>)), <<Number(3), X>>),
  Let(Native("SUBINT31", <<Number(3)>>), Cons(App(Rel(1), <<Number(5)>>), App(Rel(1), <<X>>))),
  App(Lam(1, App(Rel(1), <<Number(2), Number(1), Number(5)>>)), <<Const("DIV21INT31")>>),
  Cons(Native("HEAD0INT31", <<Number(1)>>), Native("TAIL0INT31", <<X>>)),
  Native("COMPAREINT31", <<Number(1), Native("ADDINT31", <<Number(7), Number(2)>>)>>),
  Digits(Number(5), O),
  Let(O, Digits(X, Rel(1))),
  App(Lam(1, Digits(App(I31, <<Rel(1), Digit(1), Digit(0)>>), O)), <<X>>),
  App(Lam(1, App(I31, <<Rel(1), Digit(1), Digit(0)>>)), <<Digit(1)>>),
  Let(App(I31, <<Digit(1)>>), Cons(App(Rel(1), <<Digit(0), X>>), App(Rel(1), <<Digit(0), Digit(1)>>))),
  Cons(App(Lam(2, App(I31, <<Rel(1), Digit(1), Rel(2)>>)), <<X, Digit(1)>>), I31)
>>

Functionals == <<
  App(Plus, <<X>>),
  App(Plus3, <<O, X>>),
  Let(App(Plus4, <<X, O>>), Rel(1)),
  App(Lam(1, Plus4), <<O, X>>),
  NatMatch(X, Lam(1, S(Rel(1))), Lam(1, Cons(Rel(1), Rel(2)))),
  App(Lam(2, NatMatch(Rel(1), X, Lam(2, Cons(Rel(3), Rel(4))))), <<Numeral(1), X>>),
  App(X, <<O, Numeral(1)>>),
  From,
  App(From2, <<O>>)
>>

Programs == {ImageOf(Terms[i], FALSE) : i \in DOMAIN Terms}
              \cup {ImageOf(Functionals[i], TRUE) : i \in DOMAIN Functionals}

-----------------------------------------------------------------------------
\* The value of the part that is computed, by the rules of the calculus.
RECURSIVE Follow(_, _, _)
Follow(v, steps, i) ==
  IF steps = <<>> THEN v
  ELSE LET step == steps[1]
           n == CASE step[1] = "apply" -> step[2]
                  [] step[1] = "codomain" -> 1
                  [] step[1] = "branch" -> StuckMatch(v, step[2])[2].tbl[step[3]][2]
                  [] step[1] \in {"fixbody", "cofixbody"} -> Len(v.defs)
                  [] OTHER -> 0
       IN Follow(PartOf(v, step, i), Tail(steps), i + n)
Expected == Follow(Eval(image.term, <<>>), path, 0)

(* Whatever the machine computes is what the term, or the part of it that is *)
(* computed, reduces to: the code, its calls with too few and too many       *)
(* arguments, its closures and the stack it keeps for a match that is stuck. *)
Agrees == Ready => SeenVm(vm, vm.accu) = Seen(Expected)

(* A run leaves the stack as it was: the frames, the arguments and the stack *)
(* of a match that OCaml puts back are popped, none too many.                *)
Balanced == phase = "ocaml" => vm.stk = <<>>

(* The collector may run at each allocation: what the machine, OCaml and the *)
(* blocks refer to has been saved from it.                                   *)
NoDangling ==
  \A a \in Roots(vm) \cup UNION {Pointed(vm, vm.heap[b].f) : b \in DOMAIN vm.heap} :
     a \in DOMAIN vm.heap

(* The machine runs instructions that were translated, never an operand: the *)
(* sizes that the compiler, the translation and the machine know agree, and  *)
(* the code pointers that are computed (RESTART, GRABREC) are right.         *)
OnInstruction == phase = "run" => op \notin {"#", "untranslated"}
=============================================================================
