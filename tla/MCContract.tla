----------------------------- MODULE MCContract -----------------------------
(***************************************************************************)
(* Packages for ContractTranslation: functions of one number x (0 to 3)    *)
(* with their specs, a function that uses another through its contract,    *)
(* and a loop that counts up to its argument with an invariant.            *)
(***************************************************************************)
EXTENDS ContractTranslation

MCNone == NoFun
U == UIntT("u2")

Fn(name, params, bools, nums, ret, code) ==
    [name |-> name, code |-> code, locals |-> params \o nums \o bools, params |-> Len(params),
     user |-> Len(params), ret |-> ret, native |-> FALSE, pure |-> FALSE, invs |-> NoFun, old |-> NoFun,
     types |-> [t \in Range(bools) |-> BoolT] @@ [t \in Range(params \o nums) |-> U]]
K(d, n) == Load(d, <<"u2", n>>)

\* Bodies: f(x) in the name given, with g where a callee is meant.
Plus(n)  == <<K("k", n), Op(<<"r">>, "Add", <<"x", "k">>), Ret(<<"r">>)>>
Minus(n) == <<K("k", n), Op(<<"r">>, "Sub", <<"x", "k">>), Ret(<<"r">>)>>
AbortIf(op, n) == <<K("k", n), Op(<<"c">>, op, <<"x", "k">>), Branch("c", 1, 2), Label(1), Abort("k"), Label(2), Ret(<<"x">>)>>
Clamp == <<K("k", 3), Op(<<"c">>, "Lt", <<"x", "k">>), Branch("c", 1, 2), Label(1), K("k", 1),
           Op(<<"r">>, "Add", <<"x", "k">>), Ret(<<"r">>), Label(2), Ret(<<"x">>)>>
CallThen(n) == <<CallOf(<<"y">>, "g", <<"x">>), K("k", n), Op(<<"r">>, "Add", <<"y", "k">>), Ret(<<"r">>)>>
CallIf(n) == <<K("k", n), Op(<<"c">>, "Lt", <<"x", "k">>), Branch("c", 1, 2), Label(1), CallOf(<<"r">>, "g", <<"x">>),
               Ret(<<"r">>), Label(2), Ret(<<"x">>)>>
Body(name, code) == Fn(name, <<"x">>, <<"c">>, <<"k", "y", "r">>, U, code)

\* Conditions <<kind, op, n>> on x, and on the result: r op x + n.
Cond(i, kind, op, n) == <<K("k" \o ToString(i), n), Op(<<"c" \o ToString(i)>>, op, <<"x", "k" \o ToString(i)>>),
                          NativeCall(kind, <<"c" \o ToString(i)>>)>>
Post(i, op, n) == <<K("k" \o ToString(i), n), Op(<<"e">>, "Add", <<"x", "k" \o ToString(i)>>),
                    Op(<<"c" \o ToString(i)>>, op, <<"r", "e">>), NativeCall("ensures", <<"c" \o ToString(i)>>)>>
SpecFn(name, f, pre, post) ==
    LET before == FoldAt(LAMBDA acc, i : acc \o Cond(i, pre[i][1], pre[i][2], pre[i][3]), <<>>, pre)
        after == FoldAt(LAMBDA acc, i : acc \o Post(i + 3, post[i][1], post[i][2]), <<>>, post)
    IN  Fn(name, <<"x">>, <<"c1", "c2", "c3", "c4", "c5">>, <<"k1", "k2", "k3", "k4", "k5", "e", "r">>, U,
           before \o <<CallOf(<<"r">>, f, <<"x">>)>> \o after \o <<Ret(<<"r">>)>>)

Package(code, of, ignore, omit) ==
    [code |-> [n \in {x.name : x \in code} |-> CHOOSE x \in code : x.name = n], of |-> of, ignore |-> ignore, omit |-> omit]

Bodies == {Plus(1), Minus(1), Minus(2), AbortIf("Eq", 0), AbortIf("Ge", 2), Clamp}
Pre == {<<>>, <<<<"asserts", "Lt", 3>>>>, <<<<"asserts", "Gt", 0>>>>, <<<<"requires", "Lt", 2>>, <<"asserts", "Gt", 0>>>>,
        <<<<"asserts", "Gt", 0>>, <<"asserts", "Lt", 2>>>>, <<<<"requires", "Gt", 0>>>>, <<<<"requires", "Lt", 3>>>>}
Posts == {<<>>, <<<<"Eq", 1>>>>, <<<<"Le", 0>>>>, <<<<"Le", 0>>, <<"Neq", 0>>>>}

\* One function and its spec.
Alone == {Package({Body("f", b), SpecFn("fs", "f", p, q)}, [fs |-> "f"], i, {}) :
            b \in Bodies, p \in Pre, q \in Posts, i \in {{}, {"fs"}}}

\* f uses g: through the contract of gs, or through its code.
Using == {Package({Body("f", b), SpecFn("fs", "f", p, q), Body("g", d), SpecFn("gs", "g", x, y)},
                  [fs |-> "f", gs |-> "g"], a[1], a[2]) :
            b \in {CallThen(1), CallIf(2)}, p \in {<<>>, <<<<"asserts", "Lt", 3>>>>, <<<<"requires", "Lt", 2>>>>},
            q \in {<<>>, <<<<"Eq", 1>>>>}, d \in {Plus(1), AbortIf("Ge", 2)},
            x \in {<<>>, <<<<"asserts", "Lt", 3>>>>, <<<<"requires", "Lt", 2>>>>}, y \in {<<>>, <<<<"Eq", 1>>>>},
            a \in {<<{}, {}>>, <<{"gs"}, {}>>, <<{}, {"gs"}>>}}
Inlining == {Package({Body("f", b), SpecFn("fs", "f", p, q), Body("g", d)}, [fs |-> "f"], i, {}) :
            b \in {CallThen(0), CallThen(1), CallIf(2)}, p \in {<<>>, <<<<"asserts", "Lt", 3>>>>, <<<<"asserts", "Lt", 2>>>>},
            q \in {<<>>, <<<<"Eq", 1>>>>}, d \in {Plus(1), AbortIf("Ge", 2)}, i \in {{}, {"fs"}}}

-----------------------------------------------------------------------------
(* f(x): i := 0; while (i < x) { body }; return i.  The label of the loop   *)
(* is 1.  An invariant i op x, or i op __old_i, is written before the loop, *)
(* or is a function: "bool" returns it, "void" ensures it.                  *)

Once == <<K("k", 1), Op(<<"i">>, "Add", <<"i", "k">>)>>
Skip == <<K("k", 1), Op(<<"c">>, "Eq", <<"i", "k">>), Branch("c", 5, 6), Label(5), K("k", 2), Assign("i", "k", "Store"), Jump(1),
          Label(6)>> \o Once                                       \* two back edges
Fail == <<K("k", 2), Op(<<"c">>, "Eq", <<"i", "k">>), Branch("c", 5, 6), Label(5), Abort("k"), Label(6)>> \o Once
Inner == <<Assign("y", "i", "Copy"), Label(7), Op(<<"c">>, "Lt", <<"y", "x">>), Branch("c", 8, 9), Label(8), K("k", 1),
           Op(<<"y">>, "Add", <<"y", "k">>), Jump(7), Label(9)>> \o Once     \* a loop of its own
Inside(op) == <<NativeCall("invariant_begin", <<>>), Op(<<"c">>, op, <<"i", "x">>), NativeCall("ensures", <<"c">>),
                NativeCall("invariant_end", <<>>)>>
Loop(body) == <<Label(1), Op(<<"c">>, "Lt", <<"i", "x">>), Branch("c", 2, 3), Label(2)>> \o body \o <<Jump(1), Label(3), Ret(<<"i">>)>>
\* Two ways into the loop: both through the invariant, where it is code.
Fork(n, l) == <<K("k", 2), Op(<<"c">>, "Lt", <<"x", "k">>), Branch("c", 10, 11), Label(10), K("i", n), Jump(l), Label(11), K("i", 0)>>

LoopFn(code, inv) ==
    [Fn("f", <<"x">>, <<"c">>, <<"i", "k", "y">>, U, code) EXCEPT !.invs = inv, !.user = 3]
InvFn(kind, op, arg) ==
    LET code == IF kind = "bool" THEN <<Op(<<"b">>, op, <<"i", arg>>), Ret(<<"b">>)>>
                ELSE <<Op(<<"b">>, op, <<"i", arg>>), NativeCall("ensures", <<"b">>), Ret(<<>>)>>
    IN  [Fn("inv", <<"i", arg>>, <<"b">>, <<>>, IF kind = "bool" THEN BoolT ELSE UnitT, code)
            EXCEPT !.old = IF arg = "old_i" THEN [old_i |-> "i"] ELSE NoFun]

Classical(entry, body, op) == {LoopFn(entry \o Inside(op) \o Loop(body), NoFun)}
Targeted(entry, body, kind, op, arg) == {LoopFn(entry \o Loop(body), 0 :> "inv"), InvFn(kind, op, arg)}
Uninvited(body) == {LoopFn(<<K("i", 0)>> \o Loop(body), NoFun)}

\* The conditions before and after, and whether aborts are ignored.
LoopSpecs == {<<<<>>, <<<<"Eq", 0>>>>, {}>>, <<<<>>, <<<<"Neq", 0>>>>, {}>>, <<<<>>, <<<<"Eq", 0>>>>, {"fs"}>>,
              <<<<<<"asserts", "Lt", 3>>>>, <<<<"Eq", 0>>>>, {}>>, <<<<<<"requires", "Gt", 0>>>>, <<<<"Eq", 0>>>>, {}>>}
MCLoops == {Package(code \cup {SpecFn("fs", "f", s[1], s[2])}, [fs |-> "f"], s[3], {}) : s \in LoopSpecs, code \in
              {Classical(e, b, op) : e \in {<<K("i", 0)>>, <<K("i", 1)>>, Fork(1, 12) \o <<Label(12)>>, Fork(3, 12) \o <<Label(12)>>}, b \in {Once, Skip, Fail, Inner}, op \in {"Le", "Lt", "Ge", "Neq"}}
              \cup {Targeted(<<K("i", n)>>, b, kind, o[1], o[2]) :
                        n \in {0, 1}, b \in {Once, Skip, Fail}, kind \in {"bool", "void"}, o \in {<<"Le", "x">>, <<"Lt", "x">>, <<"Ge", "old_i">>}}
              \cup {Uninvited(b) : b \in {Once, Fail, Inner}}
              \cup {{LoopFn(Inside("Le") \o <<K("i", 0)>> \o Loop(Once), NoFun)},      \* not before the loop
                    Targeted(<<K("i", 0)>>, Once, "bool", "Le", "z")}}                 \* no such variable
MCPackages == Alone \cup Using \cup Inlining \cup MCLoops
=============================================================================
