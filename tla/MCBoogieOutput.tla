--------------------------- MODULE MCBoogieOutput ---------------------------
(***************************************************************************)
(* Outputs for BoogieOutput: up to three failures, each with or without    *)
(* its traces and model, among other lines; one failure with a value of    *)
(* every kind; and files with every call graph over four procedures.       *)
(***************************************************************************)
EXTENDS BoogieOutput

U == UIntT("u1")
MCStructFields == [S |-> <<U>>, P |-> <<U, VectorT(U)>>]
MCEnumVariants == [E |-> <<<<U>>, <<>>, <<U, BoolT>>>>]
MCFunctions == [n \in 1..9 |-> CASE n <= 3 -> "f" [] n <= 6 -> "g" [] OTHER -> "h"]

-----------------------------------------------------------------------------
(* Files: f$verify, f, g and h, of which f$verify and one other call. *)

Header(name, inline) == <<[k |-> "procedure", name |-> name, inline |-> inline]>>
AtLine(n) == <<[k |-> "at", loc |-> <<n, 0>>]>>
Body(name, inline, n, callees) ==
    Header(name, inline) \o AtLine(n)
    \o FlattenSeq([i \in DOMAIN callees |-> (IF i = 1 THEN <<>> ELSE AtLine(n + 1)) \o <<[k |-> "call", callee |-> callees[i]]>>])
    \o <<[k |-> "assert"], [k |-> "close"]>>
Callees(E, p) == SelectSeq(<<"f", "g", "h">>, LAMBDA q : <<p, q>> \in E)
File(E) == Body("f$verify", FALSE, 1, Callees(E, "f$verify")) \o Body("f", TRUE, 2, Callees(E, "f"))
           \o Body("g", TRUE, 4, Callees(E, "g")) \o Body("h", TRUE, 7, Callees(E, "h")) \o Body("g$verify", FALSE, 5, <<"g">>)
Edges == {<<"f$verify", "f">>, <<"f$verify", "h">>, <<"f", "g">>, <<"f", "h">>, <<"g", "h">>, <<"h", "g">>, <<"g", "f">>}

-----------------------------------------------------------------------------
(* Outputs. *)

Entry(k, t, v) == [k |-> k, type |-> t, value |-> Printed(v, t, <<>>), is |-> v]
Model(rows) == [k |-> "model", vars |-> Tables(rows)]
Row(v, t, i) == [type |-> t, array |-> Array(t, <<>>), at |-> i, value |-> Printed(v, t, <<i>>)]
Went(n, c) == [k |-> "at", loc |-> <<n, c>>]

Failure(n, expected, parts) ==
    [assert |-> [k |-> "assert", loc |-> <<n, 0>>, labels |-> IF n = 1 THEN <<>> ELSE <<<<n, 1>>>>, expected |-> expected], parts |-> parts]
Text(fs, before) == FlattenSeq([i \in DOMAIN fs |-> before[i] \o <<fs[i].assert>> \o fs[i].parts]) \o before[Len(fs) + 1]
Output(fs, before, trace) == [failures |-> fs, text |-> Text(fs, before), trace |-> trace]

\* What the n-th failure prints: values of its own, none of which the model of
\* another failure has.
Vec(n) == VectorV([i \in 1..n |-> UIntV("u1", IF i = n THEN 1 ELSE 0)])
Plain(n) == [k |-> "trace", entries |-> <<n * 3, n * 4>>]
Augmented(n) == [k |-> "augmented", entries |-> <<Went(n, 0), Went(n + 1, 0), Entry("local", VectorT(U), Vec(n)), [k |-> "info"], Went(n + 1, 1),
                                                  [k |-> "abort"], Entry("local", U, UIntV("u1", 0))>>]
ModelOf(n) == Model(Rows(Vec(n), VectorT(U), <<>>, FALSE))
Parts(n) == {<<>>, <<Plain(n)>>, <<Plain(n), ModelOf(n)>>, <<Plain(n), Augmented(n)>>, <<Plain(n), Augmented(n), ModelOf(n)>>}

Inconclusive(masked) == <<[k |-> "inconclusive", loc |-> <<IF masked THEN 10 ELSE 9, 0>>, masked |-> masked]>>
Lines == {<<>>, Inconclusive(TRUE), Inconclusive(FALSE), <<[k |-> "inconsistency", loc |-> <<8, 0>>]>>, <<[k |-> "noise"]>>, <<[k |-> "text"]>>}
Several ==
    {Output(<<Failure(1, FALSE, a), Failure(2, x, b), Failure(3, FALSE, c)>>, <<<<>>, <<>>, l, <<>>>>, TRUE) :
        a \in Parts(1), b \in Parts(2), c \in Parts(3), x \in BOOLEAN, l \in {<<>>, Inconclusive(FALSE)}}
    \cup {Output(<<Failure(1, FALSE, a), Failure(2, FALSE, a)>>, <<l, m, l>>, t) :
             a \in Parts(1), l \in Lines, m \in Lines, t \in BOOLEAN}
    \cup {Output(<<>>, <<l>>, FALSE) : l \in Lines}

\* One value.
Ints == {IntegerV(n) : n \in {-1, 0, 1}}
Vectors(S) == {VectorV(vs) : vs \in UNION {[1..n -> S] : n \in 0..3}}
Typed == {<<U, v>> : v \in Values(U)} \cup {<<BoolT, v>> : v \in Values(BoolT)} \cup {<<IntegerT, v>> : v \in Ints}
         \cup {<<EnumT("E"), v>> : v \in Values(EnumT("E"))}
         \cup {<<VectorT(U), v>> : v \in Vectors(Values(U))} \cup {<<VectorT(IntegerT), v>> : v \in Vectors(Ints)}
         \cup {<<VectorT(StructT("S")), v>> : v \in Vectors(Values(StructT("S")))}
         \cup {<<VectorT(EnumT("E")), v>> : v \in {VectorV(vs) : vs \in [1..2 -> Values(EnumT("E"))]}}
         \cup {<<VectorT(VectorT(U)), VectorV(<<v, w>>)>> : v \in Vectors(Values(U)), w \in {Vec(0), Vec(2)}}
         \cup {<<StructT("P"), StructV("P", <<u, v>>)>> : u \in Values(U), v \in Vectors(Values(U))}
\* A row past the end of the vector may be there too.
Beyond(t, v) == IF t[1] = "vector" THEN {Row(Zero(t[2]), t[2], Len(v[2])), Row(Zero(t[2]), t[2], Len(v[2]) + 1)} ELSE {}
Single(t, v, k, sparse, beyond) ==
    Output(<<Failure(1, FALSE, <<Plain(1), [k |-> "augmented", entries |-> <<Went(1, 0), Entry(k, t, v)>>],
                                 Model(Rows(v, t, <<>>, sparse) \cup (IF beyond THEN Beyond(t, v) ELSE {}) \cup {Row(BoolV(TRUE), BoolT, 0)})>>)>>,
           <<<<>>, <<>>>>, FALSE)
Valued == {Single(x[1], x[2], "local", s, b) : x \in Typed, s \in BOOLEAN, b \in BOOLEAN}
          \cup {Single(x[1], x[2], k, FALSE, FALSE) : x \in Typed, k \in {"return", "ghost"}}

MCCases == {[output |-> o, file |-> File(Edges)] : o \in Several \cup Valued}
           \cup {[output |-> Output(<<Failure(1, FALSE, <<Plain(2)>>)>>, <<<<>>, <<>>>>, FALSE), file |-> File(E)] : E \in SUBSET Edges}

=============================================================================
