------------------------------- MODULE MCLean -------------------------------
EXTENDS LeanPipeline, MoveCorpus

MCStructFields == [S |-> <<U, U>>]
MCEnumVariants == [E |-> <<<<U>>, <<U, U>>>>]
MCValuesOf(t) == CASE t = BoolT -> {BoolV(b) : b \in BOOLEAN}
                   [] IsUInt(t) -> {UIntV(t[2], n) : n \in {0, 3, Bound(t[2]) - 1}}
                   [] t = S -> {StructV("S", <<UIntV("u3", a), UIntV("u3", 3)>>) : a \in {1, 7}}
                   [] t = E -> {EnumV("E", 1, <<UIntV("u3", 2)>>), EnumV("E", 2, <<UIntV("u3", 7), UIntV("u3", 5)>>)}
MCTemps == {Temp(n) : n \in 1..150}

-----------------------------------------------------------------------------
(* Statements; a cond leaves a Boolean on the stack. *)

Cmp(l, op, n) == <<Cp(l), Ld(n), O(op)>>
When(cond, body) == cond \o <<BrF(Len(cond) + Len(body) + 2)>> \o Moved(body, Len(cond) + 1)
WhenElse(cond, t, f) == LET n == Len(cond) + 1
                            m == n + Len(t) + 1
                        IN  cond \o <<BrF(m + 1)>> \o Moved(t, n) \o <<Br(m + Len(f) + 1)>> \o Moved(f, m)
Brk == <<"Break">>
Cont == <<"Continue">>
Repeat(code) == MapSeq(code \o <<Br(1)>>, LAMBDA bc : CASE bc = Brk -> Br(Len(code) + 2) [] bc = Cont -> Br(1) [] OTHER -> bc)
While(cond, body) == Repeat(cond \o <<BrF(Len(cond) + Len(body) + 3)>> \o Moved(body, Len(cond) + 1))
Set(l, n) == <<Ld(n), St(l)>>
Inc(l) == <<Cp(l), Ld(1), O("Add"), St(l)>>
Ret2(l, m) == <<Cp(l), Cp(m), RetI>>
AbortI == <<Ld(1), O("Abort")>>

\* g(n, k) = k ? 6 / n : n - 1, h(n) = n < 2 ? 0 : 1 + h(n - 2), q(s) = s.0 + s.1
G == Func("g", <<<<"n", U>>, <<"k", BoolT>>>>, <<>>, <<U>>,
       WhenElse(<<Cp("k")>>, <<Ld(6), Cp("n"), O("Div"), RetI>>, <<Cp("n"), Ld(1), O("Sub"), RetI>>) \o <<Cp("n"), RetI>>)
H == Func("h", <<<<"n", U>>>>, <<>>, <<U>>,
       WhenElse(Cmp("n", "Lt", 2), <<Ld(0), RetI>>,
                <<Ld(1), Cp("n"), Ld(2), O("Sub"), CallFn("h"), O("Add"), RetI>>) \o <<Ld(0), RetI>>)
Q == Func("q", <<<<"r", RefT(S)>>>>, <<>>, <<U>>,
       <<Cp("r"), IF_("S", 1), RR, Mv("r"), IF_("S", 2), RR, O("Add"), RetI>>)

-----------------------------------------------------------------------------
(* main(c: bool, a: u3, b: u3): (u3, u3) returns its locals x and y. *)

MatchE == Blocks(<<WhenElse(<<Cp("c")>>, <<Cp("a"), <<"PackVariant", "E", 1>>, St("e")>>,
                                         <<Cp("a"), Cp("b"), <<"PackVariant", "E", 2>>, St("e")>>),
                   <<IB("e"), <<"VariantSwitch", <<3, 7>>>>, Cp("e"), <<"UnpackVariant", "E", 1>>, St("x"), Br(11),
                     Cp("e"), <<"UnpackVariant", "E", 2>>, St("y"), St("x")>>>>)
Swap == <<Cp("x"), Cp("y"), St("x"), St("y")>>
Straight == {
  \* x = a + b;  (x, y) = (y, x);  y = g(x, c);  x = h(a);  y = q(&S(x, y));  x = (b << (a as u2)) ^ x
  <<Cp("a"), Cp("b"), O("Add"), St("x")>>,
  Swap,
  <<Cp("x"), Cp("c"), CallFn("g"), St("y")>>,
  <<Cp("a"), CallFn("h"), St("x")>>,
  <<Cp("x"), Cp("y"), <<"Pack", "S">>, St("s"), IB("s"), CallFn("q"), St("y")>>,
  <<Cp("a"), <<"Cast", "u2">>, St("z"), Cp("b"), Cp("z"), O("Shl"), Cp("x"), O("Xor"), St("x")>>}
Branching == {
  \* if (c) x++ else y = x;  if (x < 3) x++;  if (a < b) return;  assert a != y
  WhenElse(<<Cp("c")>>, Inc("x"), <<Cp("x"), St("y")>>),
  When(Cmp("x", "Lt", 3), Inc("x")),
  When(<<Cp("a"), Cp("b"), O("Lt")>>, Ret2("x", "y")),
  When(<<Cp("a"), Cp("y"), O("Eq")>>, AbortI),
  \* if (c) { assert a != 7; x = 4 } else { x = b; y = x };  if (c) { if (b == 0) return else y++ }
  WhenElse(<<Cp("c")>>, WhenElse(Cmp("a", "Neq", 7), Set("x", 4), AbortI), <<Cp("b"), St("x"), Cp("x"), St("y")>>),
  When(<<Cp("c")>>, WhenElse(Cmp("b", "Eq", 0), Ret2("x", "y"), Inc("y"))),
  \* y = !(a > 1 & b <= 2) ? 1 : 2
  WhenElse(Cmp("a", "Gt", 1) \o Cmp("b", "Le", 2) \o <<O("And"), O("Not")>>, Set("y", 1), Set("y", 2))}
Loops == {
  Blocks(<<Set("i", 0), While(Cmp("i", "Lt", 3), Inc("i") \o Swap)>>),
  Repeat(Blocks(<<When(Cmp("x", "Ge", 3), <<Brk>>), Inc("x")>>)),
  Blocks(<<Set("i", 0), While(Cmp("i", "Lt", 3), Blocks(<<Inc("i"), When(Cmp("i", "Eq", 2), <<Cont>>), <<Cp("i"), St("x")>>>>))>>),
  Blocks(<<Set("i", 0), While(Cmp("i", "Lt", 3), Blocks(<<Inc("i"), When(<<Cp("i"), Cp("b"), O("Eq")>>, Ret2("i", "x"))>>))>>),
  Blocks(<<Set("i", 0),
           While(Cmp("i", "Lt", 2),
                 Blocks(<<Set("j", 0),
                          While(Cmp("j", "Lt", 2), Blocks(<<Inc("j"), When(<<Cp("c")>>, <<Brk>>),
                                                            <<Cp("i"), Cp("j"), O("Add"), St("y")>>>>)),
                          Inc("i")>>))>>)}

\* while ({ j = x ^ b; j >= 3 }) { x++; if (x > 4) break }; y = j
HeaderLoop == Blocks(<<While(<<Cp("x"), Cp("b"), O("Xor"), St("j"), Cp("j"), Ld(3), O("Ge")>>,
                             Blocks(<<Inc("x"), When(Cmp("x", "Gt", 4), <<Brk>>)>>)),
                       <<Cp("j"), St("y")>>>>)

Locals == <<<<"x", U>>, <<"y", U>>, <<"i", U>>, <<"j", U>>, <<"s", S>>, <<"e", E>>, <<"z", UIntT("u2")>>>>
Main(body, end) == Func("main", <<<<"c", BoolT>>, <<"a", U>>, <<"b", U>>>>, Locals, <<U, U>>,
                        Blocks(<<Set("x", 1), Set("y", 5), body, end>>))
Prog(b) == Program({Main(b, Ret2("x", "y")), G, H, Q})

CountAndAbort(code) ==
    Program({Main(Blocks(<<Set("i", 0), While(Cmp("i", "Lt", 3), Inc("i"))>>), <<Cp(code), O("Abort")>>)})

\* Every two statements in sequence; no loop after a match, nor after HeaderLoop;
\* an abort with the code i after a loop over i.
First == Straight \cup Branching \cup Loops
MCCorpus == {Prog(Blocks(<<b1, b2>>)) : b1 \in First, b2 \in First \cup {MatchE, HeaderLoop}}
            \cup {Prog(Blocks(<<MatchE, b>>)) : b \in Straight \cup Branching}
            \cup {CountAndAbort("i")}
MCSamples == {<<BoolV(c), UIntV("u3", s[1]), UIntV("u3", s[2])>> : c \in BOOLEAN, s \in {<<0, 7>>, <<3, 0>>, <<7, 2>>}}
=============================================================================
