------------------------------ MODULE MCMemory ------------------------------
EXTENDS MemoryPipeline, MoveCorpus

MCStructFields == [S |-> <<UIntT("u3"), UIntT("u3")>>, N |-> <<StructT("S"), UIntT("u3")>>]
MCEnumVariants == [E |-> <<<<UIntT("u3")>>, <<UIntT("u3"), UIntT("u3")>>>>]

NewS(a, b) == <<Ld(a), Ld(b), <<"Pack", "S">>>>
NewN(a, b, c) == NewS(a, b) \o <<Ld(c), <<"Pack", "N">>>>

\* Locals of main: x a nested struct, y a struct, a and b numbers, v a vector,
\* e an enum, r and q references to S and to a number, i and j counters.
Setup == NewN(1, 2, 3) \o <<St("x")>> \o NewS(4, 5) \o <<St("y"), Ld(6), St("a"), Ld(7), St("b")>>
         \o <<Ld(1), Ld(2), <<"VecPack", U, 2>>, St("v"), Ld(3), <<"PackVariant", "E", 1>>, St("e")>>

\* r = c ? &mut x.0 : &mut y
CondBorrow(c) == IfElse(c, <<MB("x"), MF("N", 1), St("r")>>, <<MB("y"), St("r")>>)

\* f(&mut S, bool): &mut u3, one field or the other.
Pick == Func("pick", <<<<"s", MutRefT(S)>>, <<"k", BoolT>>>>, <<>>, <<MutRefT(U)>>,
           <<Cp("k"), BrF(6), Mv("s"), MF("S", 1), RetI, Mv("s"), MF("S", 2), RetI>>)
\* One of two references.
Either == Func("either", <<<<"p", MutRefT(U)>>, <<"o", MutRefT(U)>>, <<"k", BoolT>>>>, <<>>, <<MutRefT(U)>>,
             <<Cp("k"), BrF(5), Mv("p"), RetI, Mv("o"), RetI>>)
Bump == Func("bump", <<<<"p", MutRefT(U)>>>>, <<>>, <<>>,
           <<Cp("p"), RR, Ld(1), O("BitAnd"), Mv("p"), WR, RetI>>)
\* What it was given or a local of its own, on condition.  Not in the corpus: a
\* local whose index is that of the local it was given a reference to (README).
Mixed == Func("mixed", <<<<"p", MutRefT(U)>>, <<"k", BoolT>>>>, <<<<"l", U>>, <<"o", MutRefT(U)>>>>, <<U>>,
           Blocks(<<<<Ld(3), St("l")>>, IfElse("k", <<Mv("p"), St("o")>>, <<MB("l"), St("o")>>),
                    <<Ld(5), Mv("o"), WR, Cp("l"), RetI>>>>))

MatchMut == <<MB("e"), St("z"), Cp("z"), <<"FreezeRef">>, <<"VariantSwitch", <<6, 13>>>>,
              Mv("z"), <<"UnpackVariantMutRef", "E", 1>>, St("q"), Ld(0), Mv("q"), WR, Br(20),
              Mv("z"), <<"UnpackVariantMutRef", "E", 2>>, St("q"), O("Pop"), Ld(1), Mv("q"), WR>>

Leading ==
  {\* r = c ? &mut x.0 : &mut y; q = d ? &mut r.0 : &mut r.1; *q = 0
     Blocks(<<CondBorrow("c"), IfElse("d", <<Mv("r"), MF("S", 1), St("q")>>, <<Mv("r"), MF("S", 2), St("q")>>),
              <<Ld(0), Mv("q"), WR>>>>),
     \* r = c ? &mut x.0 : &mut y; { q = &mut r.0; *q = 0 }; r.1 = r.0
     Blocks(<<CondBorrow("c"), <<Cp("r"), MF("S", 1), St("q"), Ld(0), Mv("q"), WR>>,
              <<Cp("r"), IF_("S", 1), RR, Mv("r"), MF("S", 2), WR>>>>),
     \* r = &mut y; if (c) { r = &mut x.0 }; if (d) { *r = S(0, 6) } and r dies on the other arm
     Blocks(<<<<MB("y"), St("r")>>, IfOnly("c", <<MB("x"), MF("N", 1), St("r")>>),
              IfOnly("d", NewS(0, 6) \o <<Mv("r"), WR>>)>>),
     \* *pick(&mut y, c) = 0
     <<MB("y"), Cp("c"), CallFn("pick"), St("q"), Ld(0), Mv("q"), WR>>
  }
MainBlocks == Leading \cup
  {\* *pick(c ? &mut x.0 : &mut y, d) = 0
     Blocks(<<CondBorrow("c"), <<Mv("r"), Cp("d"), CallFn("pick"), St("q"), Ld(0), Mv("q"), WR>>>>),
     \* *either(&mut a, &mut b, d) = 1; bump it again
     <<MB("a"), MB("b"), Cp("d"), CallFn("either"), St("q"), Ld(5), Cp("q"), WR, Mv("q"), CallFn("bump")>>,
     \* b = mixed(&mut a, d)
     <<MB("a"), Cp("d"), CallFn("mixed"), St("b")>>,
     \* *either(&mut m.0, &mut y.1, c) = 0
     <<Cp("m"), MF("S", 1), MB("y"), MF("S", 2), Cp("c"), CallFn("either"), St("q"), Ld(0), Mv("q"), WR>>,
     \* v[c ? 0 : 1] = 5; push_back, pop_back
     Blocks(<<IfElse("c", <<Ld(0), St("i")>>, <<Ld(1), St("i")>>),
              <<MB("v"), Cp("i"), <<"VecMutBorrow", U>>, St("q"), Ld(5), Mv("q"), WR>>,
              <<MB("v"), Ld(6), <<"VecPushBack", U>>, MB("v"), <<"VecPopBack", U>>, St("a")>>>>),
     \* *(c ? &mut v[1] : &mut x.1) = 0
     Blocks(<<IfElse("c", <<MB("v"), Ld(1), <<"VecMutBorrow", U>>, St("q")>>, <<MB("x"), MF("N", 2), St("q")>>),
              <<Ld(0), Mv("q"), WR>>>>),
     \* if (d) { e = V2(1, 2) }; match (&mut e) { V1(q) => *q = 0, V2(_, q) => *q = 1 }
     Blocks(<<IfOnly("d", <<Ld(1), Ld(2), <<"PackVariant", "E", 2>>, St("e")>>), MatchMut>>),
     \* y = *r through a frozen copy; x.0 = y
     Blocks(<<CondBorrow("d"), <<Mv("r"), <<"FreezeRef">>, RR, St("y"), Cp("y"), MB("x"), MF("N", 1), WR>>>>),
     \* *m = y; m.1 = 0 behind a reborrow
     <<Cp("y"), Cp("m"), WR, Cp("m"), MF("S", 2), St("q"), Ld(0), Mv("q"), WR>>
  }

MainLocals == <<<<"x", N>>, <<"y", S>>, <<"a", U>>, <<"b", U>>, <<"v", VectorT(U)>>, <<"e", E>>,
                <<"r", MutRefT(S)>>, <<"q", MutRefT(U)>>, <<"z", MutRefT(E)>>, <<"i", U>>, <<"j", U>>>>
Main(body) == Func("main", <<<<"c", BoolT>>, <<"d", BoolT>>, <<"m", MutRefT(S)>>>>, MainLocals,
                 <<N, S, U, U, VectorT(U), E>>,
                 Blocks(<<Setup, body, <<Cp("x"), Cp("y"), Cp("a"), Cp("b"), Cp("v"), Cp("e"), RetI>>>>))
Callees == {Pick, Either, Bump, Mixed}

\* Pure functions: of x = p and the conditions, with assignments on some of the
\* paths, nested, in a row and before early returns, and matches.
PB(n) == <<Ld(n), St("y")>>
Inc == <<Cp("y"), Ld(1), O("Add"), St("y")>>
PureBlocks ==
  {PB(1), Inc, IfOnly("c", PB(2)), IfElse("c", PB(2), Inc), IfElse("d", Inc, PB(3)),
   IfOnly("d", Blocks(<<PB(4), Inc>>)), IfOnly("d", <<Cp("y"), RetI>>),
   IfElse("c", IfElse("d", PB(5), Inc), PB(6)), IfOnly("c", IfElse("d", PB(5), Inc)),
   IfOnly("c", Blocks(<<IfOnly("d", <<Ld(7), RetI>>), Inc>>)),
   <<Cp("y"), CallFn("half"), St("y")>>,
   <<IB("e"), <<"VariantSwitch", <<3, 7>>>>, Cp("e"), <<"UnpackVariant", "E", 1>>, St("y"), Br(11),
     Cp("e"), <<"UnpackVariant", "E", 2>>, O("Pop"), St("y")>>,
   IfOnly("d", <<Ld(1), Ld(2), <<"PackVariant", "E", 2>>, St("e")>>)}
Half == [Func("half", <<<<"k", U>>>>, <<<<"h", U>>>>, <<U>>,
              <<Cp("k"), Ld(3), O("Lt"), BrF(7), Cp("k"), RetI, Cp("k"), Ld(2), O("Div"), St("h"), Cp("h"), RetI>>)
           EXCEPT !.pure = TRUE]
PureMain(body) == [Func("main", <<<<"c", BoolT>>, <<"d", BoolT>>, <<"s", S>>>>, <<<<"y", U>>, <<"e", E>>>>, <<U>>,
                        Blocks(<<<<IB("s"), IF_("S", 1), RR, St("y"), Cp("y"), <<"PackVariant", "E", 1>>, St("e")>>, body,
                                 <<Cp("y"), RetI>>>>)) EXCEPT !.pure = TRUE]
PurePrograms == {Program({PureMain(Blocks(<<a, b, c>>)), Half}) : a \in PureBlocks, b \in PureBlocks, c \in {Inc, IfOnly("d", PB(0))}}

\* Each block run twice in a loop, and each after one that borrows on condition.
MCCorpus == {Program({Main(Twice("j", b))} \cup Callees) : b \in MainBlocks}
            \cup {Program({Main(Blocks(<<b1, b2>>))} \cup Callees) : b1 \in Leading, b2 \in MainBlocks}
            \cup PurePrograms
MCSamples == {<<BoolV(c), BoolV(d), StructV("S", <<UIntV("u3", 2), UIntV("u3", 7)>>)>> : c \in BOOLEAN, d \in BOOLEAN}

=============================================================================
