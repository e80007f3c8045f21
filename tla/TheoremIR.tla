----------------------------- MODULE TheoremIR -----------------------------
(***************************************************************************)
(* The expression tree of the Lean pipeline (data/ir.rs): its node kinds,  *)
(* its traversals, its notions of use, binding and free variable, and the  *)
(* type of a node.                                                         *)
(*                                                                         *)
(* A node is a record: its kind k, the names it carries v (a pattern, an   *)
(* operator, a callee, a struct), a number n (a constant, a field index)   *)
(* and its children c, in the order traverse_ir! visits them.  The case    *)
(* bodies of a Match follow the order of the variants' tags; a body        *)
(* unpacks the variant itself.                                             *)
(***************************************************************************)
EXTENDS StacklessBytecode

Node(k, v, n, c) == [k |-> k, v |-> v, n |-> n, c |-> c]
Var(x)           == Node("Var", <<x>>, 0, <<>>)
Bool(b)          == Node("Bool", <<>>, IF b THEN 1 ELSE 0, <<>>)
UInt(ty, n)      == Node("UInt", <<ty>>, n, <<>>)
BinOp(op, l, r)  == Node("BinOp", <<op>>, 0, <<l, r>>)
Not(e)           == Node("UnOp", <<"Not">>, 0, <<e>>)
BitNot(e)        == Node("UnOp", <<"BitNot">>, 0, <<e>>)
Cast(ty, e)      == Node("UnOp", <<"Cast", ty>>, 0, <<e>>)
Call(f, args)    == Node("Call", <<f>>, 0, args)
Pack(s, tag, es) == Node("Pack", <<s>>, tag, es)                   \* tag 0: a struct
Field(s, i, e)   == Node("Field", <<s>>, i, <<e>>)
Unpack(s, tag, e) == Node("Unpack", <<s>>, tag, <<e>>)
Tuple(es)        == Node("Tuple", <<>>, 0, es)
Let(p, e, b)     == Node("Let", p, 0, <<e, b>>)
If(e, t, f)      == Node("If", <<>>, 0, <<e, t, f>>)
Match(e, cs)     == Node("Match", <<>>, 0, <<e>> \o cs)
UpdateField(s, i, b, e) == Node("UpdateField", <<s>>, i, <<b, e>>)
MutableBorrow(p, e, r)  == Node("MutableBorrow", <<p>>, 0, <<e, r>>)
ReadRef(e)       == Node("ReadRef", <<>>, 0, <<e>>)
WriteRef(r, e)   == Node("WriteRef", <<>>, 0, <<r, e>>)
WriteBack(ch, p, i)     == Node("WriteBack", <<ch, p>>, i, <<>>)   \* i = 0: WriteBackEdge::Direct
MutableCompose(i, o)    == Node("MutableCompose", <<i, o>>, 0, <<>>)
OptionSome(e)    == Node("OptionSome", <<>>, 0, <<e>>)
OptionNone       == Node("OptionNone", <<>>, 0, <<>>)
MatchOption(e, x, s, f) == Node("MatchOption", <<x>>, 0, <<e, s, f>>)
ToProp(e)        == Node("ToProp", <<>>, 0, <<e>>)
Inhabited        == Node("Inhabited", <<>>, 0, <<>>)
AbortNode(code)  == Node("Abort", <<>>, 0, code)                   \* code is empty or one node
MoveAbortValue(src, e)  == Node("MoveAbortValue", <<src>>, 0, <<e>>)
Overflows(op, l, r)     == Node("ArithOverflowCheck", <<op>>, 0, <<l, r>>)
Unit             == Tuple(<<>>)

\* The callback, then the collection (n = 1: there is one), then the range.
Quantifier(kind, x, w, coll, call, args) == Node("Quantifier", <<kind, x, w>>, coll, <<call>> \o args)
VectorBased(kind) == kind \notin {"Forall", "Exists", "RangeMap", "RangeCount", "RangeSumMap"}
RangeBased(kind)  == kind \in {"MapRange", "FilterRange", "FindRange", "FindIndexRange", "FindIndicesRange", "CountRange",
                               "AnyRange", "AllRange", "SumMapRange", "RangeMap", "RangeCount", "RangeSumMap"}

IsUnitNode(n) == n.k = "Tuple" /\ n.c = <<>>
IsConst(n)    == n.k \in {"Bool", "UInt"}
is_atomic(n)  == n.k \in {"Var", "Bool", "UInt", "Tuple"}
Child(n, i)   == n.c[i]

-----------------------------------------------------------------------------
(* Traversals. *)

\* map_direct_children
MapChildren(n, F(_)) == [n EXCEPT !.c = MapSeq(n.c, F)]
UnionOf(n, F(_))     == UNION {F(n.c[i]) : i \in DOMAIN n.c}

RECURSIVE Nodes(_)
Nodes(n) == {n} \cup UnionOf(n, Nodes)               \* iter, as a set

RECURSIVE Size(_)
Size(n) == 1 + FoldSeq(LAMBDA x, y : Size(x) + y, 0, n.c)   \* iter().count()

calls(n) == {m.v[1] : m \in {x \in Nodes(n) : x.k = "Call"}}

\* Every variable read: Vars that no MutableBorrow of the tree binds, and the
\* names WriteBack and MutableCompose carry outside their children.
used_vars(n) ==
    LET ns == Nodes(n)
        params == {x.v[1] : x \in {y \in ns : y.k = "MutableBorrow"}}
    IN  {x.v[1] : x \in {y \in ns : y.k = "Var" /\ y.v[1] \notin params}}
        \cup UNION {Range(x.v) : x \in {y \in ns : y.k \in {"WriteBack", "MutableCompose"}}}

RECURSIVE Occurrences(_, _)
Occurrences(n, x) == (IF n = Var(x) THEN 1 ELSE 0) + FoldSeq(LAMBDA m, s : Occurrences(m, x) + s, 0, n.c)

all_var_refs(n) == {x.v[1] : x \in {y \in Nodes(n) : y.k = "Var"}}
bindings(n)     == UNION {Range(x.v) : x \in {y \in Nodes(n) : y.k = "Let"}} \ {"_"}

\* collect_free_vars: a pair <<free, bound>> threaded through the children.  A
\* Let binds for its body and for what follows in sequence; what both branches of
\* an If (every case of a Match) bind is bound after it; a lambda parameter or an
\* Option payload is bound only under its binder.
RECURSIVE CollectFree(_, _)
CollectNames(xs, fb) == <<fb[1] \cup (xs \ fb[2]), fb[2]>>
CollectUnder(n, x, fb) ==
    LET r == CollectFree(n, <<fb[1], fb[2] \cup {x}>>)
    IN  <<r[1], IF x \in fb[2] THEN r[2] ELSE r[2] \ {x}>>
CollectBranches(ns, fb) ==
    LET rs == MapSeq(ns, LAMBDA m : CollectFree(m, fb))
    IN  <<UNION {r[1] : r \in Range(rs)},
          fb[2] \cup {x \in UNION {r[2] : r \in Range(rs)} : \A r \in Range(rs) : x \in r[2]}>>
CollectChildren(n, fb) == Fold(LAMBDA s, m : CollectFree(m, s), fb, n.c)
CollectFree(n, fb) ==
    CASE n.k = "Var" -> CollectNames({n.v[1]}, fb)
      [] n.k \in {"WriteBack", "MutableCompose"} -> CollectNames(Range(n.v), fb)
      [] n.k = "Let" -> LET r == CollectFree(n.c[1], fb)
                        IN  CollectFree(n.c[2], <<r[1], r[2] \cup Range(n.v)>>)
      [] n.k \in {"If", "Match"} -> CollectBranches(Tail(n.c), CollectFree(n.c[1], fb))
      [] n.k = "MutableBorrow" -> CollectUnder(n.c[2], n.v[1], CollectFree(n.c[1], fb))
      [] n.k = "MatchOption" ->
            CollectFree(n.c[3], CollectUnder(n.c[2], n.v[1], CollectFree(n.c[1], fb)))
      [] n.k = "Quantifier" ->
            Fold(LAMBDA s, m : CollectFree(m, s), CollectUnder(n.c[1], n.v[2], fb), Tail(n.c))
      [] OTHER -> CollectChildren(n, fb)

free_vars(n) == CollectFree(n, <<{}, {}>>)[1]

\* assign: second is put at the trailing () of first's spine.
RECURSIVE append_at_tail(_, _)
append_at_tail(n, tail) ==
    IF n.k # "Let" THEN Let(<<>>, n, tail)
    ELSE Let(n.v, n.c[1], IF IsUnitNode(n.c[2]) THEN tail ELSE append_at_tail(n.c[2], tail))

assign(first, second) == IF IsUnitNode(first) THEN second
                         ELSE IF IsUnitNode(second) THEN first
                         ELSE append_at_tail(first, second)

-----------------------------------------------------------------------------
(* A program maps a function's name to its parameters, their types, what it   *)
(* returns, its body, the function whose .aborts it is or belongs to (or ""),  *)
(* whether it is native, a loop's (helper) or what follows one (after), and    *)
(* the members of its recursive group, or none.                                *)

Fn(params, ptys, ret, body, of) ==
    [params |-> params, ptys |-> ptys, ret |-> ret, body |-> body, of |-> of, native |-> FALSE,
     helper |-> FALSE, after |-> FALSE, group |-> {}]
ParamTypes(fn) == SetAll(NoFun, fn.params, fn.ptys)

-----------------------------------------------------------------------------
(* get_type.  A type is a tuple headed by its name; ty maps the variables   *)
(* in scope to their types, prog the functions to their signatures.  NoType  *)
(* is where the code panics.                                                 *)

PropT  == <<"prop">>
NoType == <<"none">>

\* register_pattern
PatternTypes(ty, p, t) ==
    SetAll(ty, p, IF Len(p) = 1 THEN <<t>> ELSE [i \in DOMAIN p |-> IF i < Len(t) THEN t[i + 1] ELSE NoType])

\* The type of an operator, and of what is about a reference, over the types t of
\* the children.
OperatorType(n, t) ==
    LET propIf(is) == IF \E i \in is : t[i] = PropT THEN PropT ELSE BoolT
    IN  CASE n.v[1] \in {"Lt", "Le", "Gt", "Ge", "Eq", "Neq"} -> BoolT
          [] n.v[1] \in {"And", "Or"} -> propIf({1, 2})
          [] n.v[1] = "Not" -> propIf({1})
          [] n.v[1] = "Cast" -> UIntT(n.v[2])
          [] OTHER -> t[1]
ReferenceType(n, t) ==
    CASE n.k = "MutableBorrow" -> MutRefT(t[1])
      [] n.k = "ReadRef" -> LET r == t[1] IN IF IsMutRef(r) THEN r[2] ELSE r
      [] OTHER -> t[1]

RECURSIVE get_type(_, _, _)
get_type(n, prog, ty) ==
    LET t(i) == get_type(n.c[i], prog, ty)
    IN  CASE n.k = "Var" -> IF n.v[1] \in DOMAIN ty THEN ty[n.v[1]] ELSE NoType
          [] n.k \in {"Bool", "ArithOverflowCheck"} -> BoolT
          [] n.k = "UInt" -> UIntT(n.v[1])
          [] n.k \in {"BinOp", "UnOp"} -> OperatorType(n, [i \in DOMAIN n.c |-> t(i)])
          [] n.k = "Call" -> prog[n.v[1]].ret
          [] n.k = "Pack" -> IF n.n = 0 THEN StructT(n.v[1]) ELSE EnumT(n.v[1])
          [] n.k = "Field" -> StructFields[n.v[1]][n.n]
          [] n.k = "Unpack" -> <<"tuple">> \o (IF n.n = 0 THEN StructFields[n.v[1]] ELSE EnumVariants[n.v[1]][n.n])
          [] n.k = "Tuple" -> <<"tuple">> \o [i \in DOMAIN n.c |-> t(i)]
          [] n.k = "Let" -> get_type(n.c[2], prog, PatternTypes(ty, n.v, t(1)))
          [] n.k \in {"If", "Match"} -> t(2)
          [] n.k \in {"UpdateField", "WriteRef", "MutableBorrow", "ReadRef"} -> ReferenceType(n, [i \in DOMAIN n.c |-> t(i)])
          [] n.k = "ToProp" -> PropT
          [] n.k = "MatchOption" -> LET s == t(1) IN IF s = NoType THEN s ELSE s[2]
          [] n.k = "WriteBack" -> UnitT
          [] OTHER -> NoType

RECURSIVE Typable(_)
Typable(t) == t # NoType /\ (t[1] = "tuple" => \A i \in 2..Len(t) : Typable(t[i]))

-----------------------------------------------------------------------------
(* What an expression means as Lean: the total, pure functions of the      *)
(* Prelude.  An overflowing operation is opaque junk (BoundedNat.lean), so *)
(* are an abort and a default; division by zero is the Nat convention; a   *)
(* mutable reference is a value with a function that rebuilds what it was  *)
(* borrowed from (ProgramState.lean).                                      *)

Junk      == <<"junk">>
SomeV(v)  == <<"some", v>>
NoneV     == <<"none">>
MutV(v, p, r, env) == <<"mut", v, p, r, env>>     \* Mutable.mk v (fun p => r)

Exact(w, n) == IF n \in 0..(Bound(w) - 1) THEN UIntV(w, n) ELSE Junk

\* BoundedNat.add, sub, mul, div, mod, land, lor, bxor, the shift instances.
Arith(op, w, a, b) ==
    CASE op = "Add" -> Exact(w, a + b)
      [] op = "Sub" -> Exact(w, a - b)
      [] op = "Mul" -> Exact(w, a * b)
      [] op = "Div" -> UIntV(w, IF b = 0 THEN 0 ELSE a \div b)
      [] op = "Mod" -> UIntV(w, IF b = 0 THEN a ELSE a % b)
      [] op = "Shl" -> UIntV(w, (a * 2 ^ b) % Bound(w))
      [] op = "Shr" -> UIntV(w, a \div 2 ^ b)
      [] OTHER -> UIntV(w, BitWise(op, a, b, Bits[w]))

\* a && b and a || b are decided by one operand whatever the other is.
Connective(op, a, b) ==
    LET stop == BoolV(op = "Or") IN
    CASE a = stop \/ b = stop -> stop
      [] a = Junk \/ b = Junk -> Junk
      [] OTHER -> BoolV(op = "And")

ApplyBinOp(op, a, b) ==
    CASE op \in {"And", "Or"} -> Connective(op, a, b)
      [] a = Junk \/ b = Junk -> Junk
      [] op \in {"Eq", "Neq"} -> BoolV((a = b) = (op = "Eq"))
      [] op \in {"Lt", "Le", "Gt", "Ge"} -> BoolV(Compare(op, a[3], b[3]))
      [] OTHER -> Arith(op, a[2], a[3], b[3])

ApplyUnOp(n, a) ==
    CASE a = Junk -> Junk
      [] n.v[1] = "Not" -> BoolV(~a[2])
      [] n.v[1] = "BitNot" -> UIntV(a[2], Bound(a[2]) - 1 - a[3])
      [] OTHER -> IF a[1] = "b" THEN UIntV(n.v[2], IF a[2] THEN 1 ELSE 0)
                  ELSE Exact(n.v[2], a[3])              \* BoundedNat.convert

\* BoundedNat.add_overflows, sub_underflows, mul_overflows.
ApplyCheck(op, a, b) == IF a = Junk \/ b = Junk THEN Junk
                        ELSE BoolV(Arith(op, a[2], a[3], b[3]) = Junk)

\* The values a pattern takes apart: an intermediate pair and its projections.
Parts(p, v) == CASE Len(p) = 1 -> <<v>>
                 [] v = Junk \/ v[1] # "t" -> [i \in DOMAIN p |-> Junk]
                 [] OTHER -> v[2]
Bound1(env, x, v) == SetAll(env, <<x>>, <<v>>)
BindParts(env, p, v) == IF p = <<>> THEN env ELSE SetAll(env, p, Parts(p, v))

\* is_mutable_ref_expr, read off the value; Mutable.val.
IsMutable(m) == m[1] = "mut"
MutVal(m)    == IF IsMutable(m) THEN m[2] ELSE m

\* Another variant's fields are a default; a single field comes without a tuple.
UnpackTo(tag, b) == LET v == MutVal(b) IN
                    CASE v = Junk \/ (tag # 0 /\ v[3] # tag) -> Junk
                      [] tag # 0 /\ Len(v[4]) = 1 -> v[4][1]
                      [] OTHER -> TupleV(PartsOf(v))

\* { base with field := v }
FieldOf(b, i)       == LET s == MutVal(b) IN IF s = Junk THEN Junk ELSE s[3][i]
WithField(b, i, v)  == LET s == MutVal(b) IN IF s = Junk THEN Junk ELSE StructV(s[2], [s[3] EXCEPT ![i] = v])
Packed(n, vs)       == IF n.n = 0 THEN StructV(n.v[1], vs) ELSE EnumV(n.v[1], n.n, vs)
MutableSet(m, v)    == IF IsMutable(m) THEN [m EXCEPT ![2] = v] ELSE UnitV

\* The lets at the head of a value are written before the line that uses it, so
\* their names stay in scope of the rest.
RECURSIVE extract_lets(_)
extract_lets(n) ==
    IF n.k # "Let" THEN [lets |-> <<>>, value |-> n]
    ELSE LET v == extract_lets(n.c[1])
             b == extract_lets(n.c[2])
         IN  [lets |-> v.lets \o <<<<n.v, v.value>>>> \o b.lets, value |-> b.value]

\* Lean's functions terminate: a call that is nested deeper than any of the
\* samples needs stands for one that does not.
MaxCalls == 40

RECURSIVE EvalIn(_, _, _, _)

\* Mutable.apply
Apply(P, m, d) == IF IsMutable(m) THEN EvalIn(P, m[4], Bound1(m[5], m[3], m[2]), d) ELSE m

\* let p := n, where a WriteRef of what is no Mutable binds nothing.
RenderLet(P, env, p, n, d) ==
    IF n.k = "WriteRef" /\ p # <<>> /\ n.c[1] = Var(p[1]) /\ ~IsMutable(EvalIn(P, n.c[1], env, d)) THEN env
    ELSE BindParts(env, p, EvalIn(P, n, env, d))
RenderLets(P, env, lets, d) == Fold(LAMBDA e, l : RenderLet(P, e, l[1], l[2], d), env, lets)

\* What a WriteBack yields for its parent: the child's reconstruction, put into
\* the parent's field unless it is the whole parent already.
EvalWriteBack(P, w, env, d) ==
    LET up  == Apply(P, env[w.v[1]], d)
        par == env[w.v[2]]
        all == IF w.n = 0 \/ (up[1] = "s" /\ up[2] = MutVal(par)[2]) THEN up ELSE WithField(par, w.n, up)
    IN  IF IsMutable(par) THEN MutableSet(par, all) ELSE all

\* The chain of lets, line by line, and its last line.
EvalLet(P, n, env, d) ==
    LET w == n.c[1]
        x == extract_lets(w)
    IN  IF w.k = "WriteBack"
        THEN EvalIn(P, n.c[2], Bound1(env, IF n.v = <<>> THEN w.v[2] ELSE n.v[1], EvalWriteBack(P, w, env, d)), d)
        ELSE EvalIn(P, n.c[2], RenderLet(P, RenderLets(P, env, x.lets, d), n.v, x.value, d), d)

\* The lets of every argument, then the call.
EvalCall(P, n, env, d) ==
    LET xs == MapSeq(n.c, extract_lets)
        at == RenderLets(P, env, Fold(LAMBDA s, x : s \o x.lets, <<>>, xs), d)
        f  == P[n.v[1]]
    IN  IF d = 0 THEN Junk
        ELSE EvalIn(P, f.body, SetAll(NoFun, f.params, [i \in DOMAIN xs |-> EvalIn(P, xs[i].value, at, d)]), d - 1)

EvalIf(P, n, env, d) ==
    LET b == EvalIn(P, n.c[1], env, d) IN IF b = Junk THEN Junk ELSE EvalIn(P, n.c[IF b[2] THEN 2 ELSE 3], env, d)
EvalMatch(P, n, env, d) ==
    LET v == MutVal(EvalIn(P, n.c[1], env, d)) IN IF v = Junk THEN Junk ELSE EvalIn(P, n.c[1 + v[3]], env, d)
EvalMatchOption(P, n, env, d) ==
    LET s == EvalIn(P, n.c[1], env, d)
    IN  CASE s = Junk -> Junk
          [] s = NoneV -> EvalIn(P, n.c[3], env, d)
          [] OTHER -> EvalIn(P, n.c[2], Bound1(env, n.v[1], s[2]), d)

EvalIn(P, n, env, d) ==
    LET e(i) == EvalIn(P, n.c[i], env, d)
        all  == MapSeq(n.c, LAMBDA m : EvalIn(P, m, env, d))
    IN  CASE n.k = "Var" -> IF n.v[1] \in DOMAIN env THEN env[n.v[1]] ELSE Junk
          [] n.k = "Bool" -> BoolV(n.n = 1)
          [] n.k = "UInt" -> Exact(n.v[1], n.n)
          [] n.k = "BinOp" -> ApplyBinOp(n.v[1], e(1), e(2))
          [] n.k = "UnOp" -> ApplyUnOp(n, e(1))
          [] n.k = "ArithOverflowCheck" -> ApplyCheck(n.v[1], e(1), e(2))
          [] n.k = "Call" -> EvalCall(P, n, env, d)
          [] n.k = "Tuple" -> TupleV(all)
          [] n.k = "Pack" -> Packed(n, all)
          [] n.k = "Unpack" -> UnpackTo(n.n, e(1))
          [] n.k = "Field" -> FieldOf(e(1), n.n)
          [] n.k = "UpdateField" -> WithField(e(1), n.n, e(2))
          [] n.k = "Let" -> EvalLet(P, n, env, d)
          [] n.k = "If" -> EvalIf(P, n, env, d)
          [] n.k = "Match" -> EvalMatch(P, n, env, d)
          [] n.k = "MatchOption" -> EvalMatchOption(P, n, env, d)
          [] n.k = "OptionSome" -> SomeV(e(1))
          [] n.k = "OptionNone" -> NoneV
          [] n.k = "MoveAbortValue" -> <<"abort", n.v[1], e(1)>>
          [] n.k = "ToProp" -> e(1)
          [] n.k = "MutableBorrow" -> MutV(e(1), n.v[1], n.c[2], env)
          [] n.k = "ReadRef" -> MutVal(e(1))
          [] n.k = "WriteRef" -> MutableSet(e(1), e(2))
          [] OTHER -> Junk                               \* Abort (sorry), Inhabited (default)

Eval(P, n, env) == EvalIn(P, n, env, MaxCalls)

=============================================================================
