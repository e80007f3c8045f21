-------------------------- MODULE AbortDerivation --------------------------
(***************************************************************************)
(* How a function's abort behaviour becomes a Lean function of its own,    *)
(* f.aborts : Option MoveAbort.  The translation first emits a Bool body   *)
(* that knows the explicit aborts (early_return.rs: simplify_aborts and    *)
(* rewrite_asserts_in_aborts); inject_arithmetic_aborts.rs then walks the  *)
(* implementation for the implicit ones and joins the two.  At the end     *)
(* decompose_aborts.rs takes a body apart for the proofs about it.         *)
(***************************************************************************)
EXTENDS IROptimize

CONSTANT AssertsFn            \* Prover.asserts

-----------------------------------------------------------------------------
(* early_return.rs: the Bool body. *)

RECURSIVE replace_inhabited_let_values(_)
replace_inhabited_let_values(n) ==
    LET falses == IF Len(n.v) = 1 THEN Bool(FALSE) ELSE Tuple([i \in DOMAIN n.v |-> Bool(FALSE)])
        rec(m) == replace_inhabited_let_values(m)
    IN  CASE n.k = "Let" /\ (\E x \in Nodes(n.c[1]) : x.k = "Inhabited") -> Let(n.v, falses, rec(n.c[2]))
          [] n.k \in {"Let", "If", "Match", "MatchOption"} -> MapChildren(n, rec)
          [] OTHER -> n

\* let _ := asserts(p); rest  becomes  if !p then true else rest
RECURSIVE rewrite_asserts_in_aborts(_)
rewrite_asserts_in_aborts(n) ==
    LET rec(m) == rewrite_asserts_in_aborts(m) IN
    CASE n.k = "Let" ->
            IF n.v = <<>> /\ n.c[1].k = "Call" /\ n.c[1].v[1] = AssertsFn /\ n.c[1].c # <<>>
            THEN If(Not(n.c[1].c[1]), Bool(TRUE), rec(n.c[2]))
            ELSE Let(n.v, n.c[1], rec(n.c[2]))
      [] n.k = "If" -> If(n.c[1], rec(n.c[2]), rec(n.c[3]))
      [] n.k = "Match" -> [n EXCEPT !.c = <<n.c[1]>> \o MapSeq(Tail(n.c), rec)]
      [] OTHER -> n

RECURSIVE contains_abort_calls(_)
contains_abort_calls(n) ==
    \/ n.k = "Call"
    \/ n.k \in {"Let", "If", "Tuple", "BinOp", "UnOp"}
       /\ \E i \in DOMAIN n.c : contains_abort_calls(n.c[i])

\* The end of every spine: P holds of it, through the branches All or Some of them.
RECURSIVE EndsBool(_)
EndsBool(n) == \/ n.k = "Bool" \/ (n.k = "Let" /\ EndsBool(n.c[2]))
               \/ (n.k = "If" /\ EndsBool(n.c[2]) /\ EndsBool(n.c[3]))
RECURSIVE EndsTuple(_)
EndsTuple(n) == \/ (n.k = "Tuple" /\ n.c # <<>>) \/ (n.k = "Let" /\ EndsTuple(n.c[2]))
                \/ (n.k = "If" /\ (EndsTuple(n.c[2]) \/ EndsTuple(n.c[3])))
RECURSIVE EndsNonBool(_)
EndsNonBool(n) == \/ n.k = "Var" \/ (n.k = "Tuple" /\ n.c # <<>>)
                  \/ (n.k = "Let" /\ EndsNonBool(n.c[2]))
                  \/ (n.k = "If" /\ (EndsNonBool(n.c[2]) \/ EndsNonBool(n.c[3])))
RECURSIVE is_effectively_unit_for_aborts(_)
is_effectively_unit_for_aborts(n) ==
    IsUnitNode(n) \/ n.k = "Abort" \/ (n.k = "Let" /\ is_effectively_unit_for_aborts(n.c[2]))

RECURSIVE wrap_unit_branch_with_false(_)
wrap_unit_branch_with_false(n) ==
    CASE IsUnitNode(n) \/ n.k = "Abort" -> Bool(FALSE)
      [] n.k = "Let" -> Let(n.v, n.c[1], wrap_unit_branch_with_false(n.c[2]))
      [] OTHER -> n

RECURSIVE wrap_non_bool_with_false(_)
wrap_non_bool_with_false(n) ==
    LET arm(b) == IF EndsNonBool(b) THEN wrap_non_bool_with_false(b) ELSE b IN
    CASE n.k = "Var" \/ (n.k = "Tuple" /\ n.c # <<>>) -> Bool(FALSE)
      [] n.k = "Let" -> Let(n.v, n.c[1], wrap_non_bool_with_false(n.c[2]))
      [] n.k = "If" -> If(n.c[1], arm(n.c[2]), arm(n.c[3]))
      [] OTHER -> n

\* A branch that does not abort: false, or a unit spine without calls.
NoAbort(b) == b = Bool(FALSE) \/ (is_effectively_unit_for_aborts(b) /\ ~contains_abort_calls(b))

SimplifyAbortsIf(cond, t, f) ==
    LET free(b) == NoAbort(b) /\ ~contains_bindings(b)
        arm(b, other) == IF is_effectively_unit_for_aborts(b) THEN wrap_unit_branch_with_false(b)
                         ELSE IF EndsTuple(b) /\ EndsBool(other) THEN wrap_non_bool_with_false(b)
                         ELSE b
    IN  IF \/ free(t) /\ free(f)
           \/ NoAbort(t) /\ f = Bool(FALSE)
           \/ t = Bool(FALSE) /\ NoAbort(f)
        THEN Bool(FALSE)
        ELSE If(cond, arm(t, f), arm(f, t))

SimplifyAbortsLet(p, v, b) ==
    LET clash == Len(p) > 1 /\ (IF v.k = "If" THEN EndsBool(v.c[2]) \/ EndsBool(v.c[3]) ELSE EndsBool(v))
        q == IF clash THEN <<>> ELSE p
        unused == (Range(q) \ {"_"}) \cap all_var_refs(b) = {}
    IN  IF unused /\ (v.k = "Inhabited" \/ (b = Bool(FALSE) /\ ~contains_abort_calls(v)))
        THEN b ELSE Let(q, v, b)

RECURSIVE simplify_aborts(_)
simplify_aborts(n) ==
    LET rec(i) == simplify_aborts(n.c[i]) IN
    CASE n.k = "Let" -> SimplifyAbortsLet(n.v, rec(1), rec(2))
      [] n.k = "If" -> SimplifyAbortsIf(rec(1), rec(2), rec(3))
      [] n.k = "Match" -> [n EXCEPT !.c = <<n.c[1]>> \o MapSeq(Tail(n.c), simplify_aborts)]
      [] OTHER -> n

-----------------------------------------------------------------------------
(* inject_arithmetic_aborts.rs *)

CodeWidth == "u3"            \* u64
zero_u64  == UInt(CodeWidth, 0)
arith_some == OptionSome(MoveAbortValue("Arithmetic", zero_u64))
user_assert_some(code) == OptionSome(MoveAbortValue("UserAssert", code))
CodeOf(n) == IF n.c = <<>> THEN zero_u64 ELSE n.c[1]

AbortVar == "__abort"
OrElse(first, second) == MatchOption(first, AbortVar, OptionSome(Var(AbortVar)), second)

chain_option(first, second) == IF first = OptionNone THEN second
                               ELSE IF second = OptionNone THEN first ELSE OrElse(first, second)
fold_chain(parts) == Fold(chain_option, OptionNone, parts)

RECURSIVE collapse_none(_)
collapse_none(n) ==
    LET rec(i) == collapse_none(n.c[i]) IN
    CASE n.k = "If" -> IF rec(2) = OptionNone /\ rec(3) = OptionNone THEN OptionNone
                       ELSE If(n.c[1], rec(2), rec(3))
      [] n.k = "Let" -> IF rec(2) = OptionNone THEN OptionNone ELSE Let(n.v, n.c[1], rec(2))
      [] n.k = "Match" -> IF \A i \in 2..Len(n.c) : rec(i) = OptionNone THEN OptionNone
                          ELSE [n EXCEPT !.c = <<n.c[1]>> \o MapSeq(Tail(n.c), collapse_none)]
      [] n.k = "MatchOption" ->
            IF n.v[1] = AbortVar /\ n.c[2] = OptionSome(Var(AbortVar)) /\ rec(3) = OptionNone
            THEN n.c[1] ELSE [n EXCEPT !.c = <<n.c[1], n.c[2], rec(3)>>]
      [] OTHER -> n

ControlFlow == {"If", "Match", "MatchOption"}

\* The Bool body as an Option; with dropCallee only its explicit aborts.
RECURSIVE transform_existing(_, _, _)
transform_existing(n, abortsIds, dropCallee) ==
    LET rec(m) == transform_existing(m, abortsIds, dropCallee) IN
    CASE n.k = "Bool" -> IF n.n = 1 THEN user_assert_some(zero_u64) ELSE OptionNone
      [] n.k = "Abort" -> user_assert_some(CodeOf(n))
      [] n.k = "Call" /\ n.v[1] \in abortsIds -> IF dropCallee THEN OptionNone ELSE n
      [] n.k = "If" -> If(n.c[1], rec(n.c[2]), rec(n.c[3]))
      [] n.k \in {"Match", "MatchOption"} -> [n EXCEPT !.c = <<n.c[1]>> \o MapSeq(Tail(n.c), rec)]
      [] n.k = "Let" ->
            IF Range(n.v) \subseteq {"_"} /\ n.c[1].k \in ControlFlow
            THEN IF rec(n.c[1]) = OptionNone THEN rec(n.c[2]) ELSE OrElse(rec(n.c[1]), rec(n.c[2]))
            ELSE Let(n.v, n.c[1], rec(n.c[2]))
      [] OTHER -> If(n, user_assert_some(zero_u64), OptionNone)

Width(t) == t[2]
ArithIf(cond) == If(cond, arith_some, OptionNone)
MaxWidth == "u4"              \* u256: no shift amount, a u8, reaches it

check_binop(op, l, r, P, ty) ==
    LET lt == get_type(l, P, ty)
        rt == get_type(r, P, ty)
    IN  CASE op \in {"Add", "Sub", "Mul"} -> ArithIf(Overflows(op, l, r))
          [] op \in {"Div", "Mod"} ->
                IF IsUInt(lt) THEN ArithIf(BinOp("Eq", r, UInt(Width(lt), 0))) ELSE OptionNone
          [] op \in {"Shl", "Shr"} ->
                IF IsUInt(lt) /\ IsUInt(rt) /\ Bits[Width(lt)] < Bits[MaxWidth]
                THEN ArithIf(BinOp("Ge", r, UInt(Width(rt), Bits[Width(lt)]))) ELSE OptionNone
          [] OTHER -> OptionNone

check_unop(n, P, ty) ==
    LET t == get_type(n.c[1], P, ty) IN
    IF n.v[1] = "Cast" /\ IsUInt(t) /\ Bits[n.v[2]] < Bits[Width(t)]
    THEN ArithIf(BinOp("Ge", n.c[1], UInt(Width(t), Bound(n.v[2])))) ELSE OptionNone

\* ctx: the program, the functions' aborts companions to consult, the
\* companions themselves and the functions whose calls are skipped.
synth_callee_check(n, ctx) ==
    LET f == n.v[1] IN
    IF f \in ctx.abortsIds \cup ctx.skip \/ f \notin DOMAIN ctx.map THEN OptionNone
    ELSE OrElse(Call(ctx.map[f], n.c), OptionNone)

\* The children that a node without a check of its own evaluates, in order.  An
\* Abort in argument position is a proof placeholder.
Evaluated(n) ==
    LET kids == [i \in DOMAIN n.c |-> i]
    IN  CASE n.k = "Call" -> SelectSeq(kids, LAMBDA i : n.c[i].k # "Abort")
          [] n.k \in {"Pack", "Tuple", "Field", "Unpack", "UpdateField", "ReadRef", "WriteRef", "ToProp", "OptionSome"} -> kids
          [] n.k = "MutableBorrow" -> <<1>>
          [] OTHER -> <<>>

RECURSIVE walk(_, _, _)
walk(n, ctx, ty) ==
    LET w(i) == walk(n.c[i], ctx, ty)
        all == fold_chain(MapSeq(Evaluated(n), w))
        P == ctx.prog
    IN  CASE n.k = "BinOp" ->
                chain_option(w(1), chain_option(w(2), check_binop(n.v[1], n.c[1], n.c[2], P, ty)))
          [] n.k = "UnOp" -> chain_option(w(1), check_unop(n, P, ty))
          [] n.k = "Call" -> chain_option(all, synth_callee_check(n, ctx))
          [] n.k = "Let" ->
                chain_option(w(1), Let(n.v, n.c[1], walk(n.c[2], ctx, PatternTypes(ty, n.v, get_type(n.c[1], P, ty)))))
          [] n.k = "If" -> chain_option(w(1), If(n.c[1], w(2), w(3)))
          [] n.k = "Match" ->
                chain_option(w(1), [n EXCEPT !.c = <<n.c[1]>> \o [i \in 1..(Len(n.c) - 1) |-> w(i + 1)]])
          [] n.k = "MatchOption" ->
                chain_option(w(1), MatchOption(n.c[1], n.v[1],
                    walk(n.c[2], ctx, SetAll(ty, n.v, <<NoType>>)), w(3)))
          [] n.k = "Abort" -> user_assert_some(CodeOf(n))
          [] OTHER -> all

RECURSIVE has_inline_abort(_)
has_inline_abort(n) ==
    \/ n.k = "Abort"
    \/ \E i \in DOMAIN n.c : ~(n.k = "Call" /\ n.c[i].k = "Abort") /\ has_inline_abort(n.c[i])

Companions(P) == {f \in DOMAIN P : P[f].of # "" /\ ~P[f].native}

\* Callees whose companion is consulted: not a native that never aborts.
AbortsOf(f) == f \o ".aborts"

\* Mutant: every callee without explicit aborts is passed over, not only natives.
AbortsMapByBody(P) ==
    LET mapped == {f \in DOMAIN P : P[f].of = "" /\ AbortsOf(f) \in DOMAIN P /\ P[AbortsOf(f)].body # Bool(FALSE)}
    IN  [f \in mapped |-> AbortsOf(f)]

AbortsMap(P) ==
    LET mapped == {f \in DOMAIN P : /\ P[f].of = "" /\ AbortsOf(f) \in DOMAIN P
                                     /\ ~(P[AbortsOf(f)].native /\ P[AbortsOf(f)].body = Bool(FALSE))}
    IN  [f \in mapped |-> AbortsOf(f)]

\* The body that inject_arithmetic_aborts gives the companion a of a function f.
InjectedBody(P, a) ==
    LET f == P[a].of
        impl == P[f]
        ids == Companions(P)
        mutual == P[a].group # {} /\ P[a].helper
        exitAborts == /\ f \in DOMAIN P
                      /\ \/ has_inline_abort(impl.body)
                         \/ \E g \in calls(impl.body) : P[g].after
                                                        /\ \E n \in Nodes(P[g].body) : n.k = "Abort"
        ctx == [prog |-> P, map |-> AbortsMap(P), abortsIds |-> ids,
                skip |-> IF mutual THEN {} ELSE {f}]
        ty == [x \in Range(impl.params) |-> impl.ptys[CHOOSE i \in DOMAIN impl.params : impl.params[i] = x]]
        walked == walk(impl.body, ctx, ty)
        recursive == impl.group # {} \/ f \in calls(impl.body)
        residue(drop) == collapse_none(transform_existing(P[a].body, ids, drop))
    IN  IF mutual /\ ~exitAborts THEN OptionNone
        ELSE IF f \notin DOMAIN P \/ ~(free_vars(impl.body) \subseteq Range(impl.params)) THEN residue(FALSE)
        ELSE IF recursive THEN walked
        ELSE chain_option(walked, residue(TRUE))

OptionT == <<"option", <<"abort">>>>
inject_arithmetic_aborts(P) ==
    [f \in DOMAIN P |-> IF f \in Companions(P) THEN [P[f] EXCEPT !.body = InjectedBody(P, f), !.ret = OptionT]
                        ELSE P[f]]

-----------------------------------------------------------------------------
(* decompose_aborts.rs.  A body becomes a bundle: obligations over the        *)
(* parameters, a guard, a callee or a segment each, that hold where the body  *)
(* is none.  What no obligation can be stated of becomes a segment, a function *)
(* of its own, and so do the pieces of a large body that has no bundle.  No    *)
(* function here has proof parameters, and none threads a world.               *)

CONSTANTS MIN_TOTAL, CHUNK, MIN_TAIL,              \* sizes of a body, of a segment and of the last one
          SUBST_MAX, MULTI_USE_SUBST_MAX,          \* of a value that is stated in place of its name
          ATOM_MIN                                 \* of a chain of arithmetic that gets a name

\* Stands for the length of the tree in print.
RECURSIVE approx_size(_)
approx_size(n) == IF n.k \in {"Var", "OptionNone"} \/ IsUnitNode(n) THEN 1
                  ELSE FoldSeq(LAMBDA m, s : approx_size(m) + s, 2, n.c)

RECURSIVE try_type(_, _, _)
try_type(n, P, ty) ==
    LET t(i) == try_type(n.c[i], P, ty)
    IN  CASE n.k \in {"BinOp", "UnOp"} /\ n.v[1] \in {"And", "Or", "Not"} -> BoolT
          [] n.k \in {"BinOp", "UnOp"} /\ n.v[1] \notin CompareOps \cup {"Cast"} -> t(1)
          [] n.k = "UpdateField" -> t(1)
          [] n.k = "If" -> t(2)
          [] n.k = "Let" -> try_type(n.c[2], P, PatternTypes(ty, n.v, t(1)))
          [] n.k = "Tuple" -> LET ts == <<"tuple">> \o [i \in DOMAIN n.c |-> t(i)] IN IF Typable(ts) THEN ts ELSE NoType
          [] n.k = "OptionSome" -> IF t(1) = NoType THEN NoType ELSE <<"option", t(1)>>
          [] n.k = "MoveAbortValue" -> <<"abort">>
          [] n.k \in {"Var", "Bool", "UInt", "BinOp", "UnOp", "ArithOverflowCheck", "ToProp", "Call", "Pack", "Field"} ->
                get_type(n, P, ty)
          [] OTHER -> NoType
Typed(xs, ty)   == \A x \in xs : x \in DOMAIN ty /\ Typable(ty[x])
Binds(P, ty, n) == IF n.k = "Let" THEN PatternTypes(ty, n.v, try_type(n.c[1], P, ty)) ELSE ty
contains_abort_node(n) == \E m \in Nodes(n) : m.k = "Abort"

\* Every Var is replaced, one that the tree itself binds as well.
RECURSIVE subst_exprs(_, _)
subst_exprs(n, map) == IF n.k = "Var" /\ n.v[1] \in DOMAIN map THEN map[n.v[1]]
                       ELSE MapChildren(n, LAMBDA m : subst_exprs(m, map))

\* The decomposition of one function: [prog, name, segs (created), atoms, repl].
Threaded(st, n) == [st |-> st, ir |-> n]
SegName(st)     == st.name \o ".seg_" \o ToString(Cardinality(st.segs) + 1)
Piece(st, name, n, ty, ret) ==
    LET fn(ps) == Fn(ps, MapSeq(ps, LAMBDA x : ty[x]), ret, n, st.prog[st.name].of)
    IN  [st EXCEPT !.prog = With(@, name, fn(Listed(free_vars(n))))]
seg_call(P, f) == Call(f, MapSeq(P[f].params, Var))
Segment(st, n, ty, name) ==
    LET called(s) == Threaded(s, seg_call(s.prog, name))
    IN  called([Piece(st, name, n, ty, st.prog[st.name].ret) EXCEPT !.segs = @ \cup {name}])
create_segment(st, n, ty) == Segment(st, n, ty, SegName(st))

\* hoist_atoms: ar maps a name to the arithmetic behind it; e is n over what it
\* stands for, of type t.
is_arith(n) == (n.k = "BinOp" /\ n.v[1] \in {"Add", "Sub", "Mul", "Div", "Mod"}) \/ (n.k = "UnOp" /\ n.v[1] = "Cast")
is_atomizable(n) == is_arith(n) \/ (n.k = "If" /\ \A m \in Nodes(n) : m.k \notin {"Abort", "WriteBack", "MutableCompose"})
Atom(st, n, ty, e, t, name) ==
    LET known    == {a \in st.atoms : st.prog[a].body = e}
        of(s, a) == Threaded(s, seg_call(s.prog, a))
    IN  CASE approx_size(e) < ATOM_MIN \/ ~Typed(free_vars(e), ty) \/ ~Typable(t) -> Threaded(st, n)
          [] known # {} -> of(st, CHOOSE a \in known : TRUE)
          [] OTHER -> of([Piece(st, name, e, ty, t) EXCEPT !.atoms = @ \cup {name}], name)
make_atom(st, n, ty, ar) ==
    LET of(e) == Atom(st, n, ty, e, try_type(e, st.prog, ty), st.name \o ".atom_" \o ToString(Cardinality(st.atoms) + 1))
    IN  of(subst_exprs(n, ar))
HoistValue(st, n, ty, ar) ==
    LET second(t, f) == Threaded(f.st, If(n.c[1], t.ir, f.ir))
        first(t) == second(t, make_atom(t.st, n.c[3], ty, ar))
    IN  CASE ~is_atomizable(n) \/ approx_size(subst_exprs(n, ar)) < ATOM_MIN -> Threaded(st, n)
          [] n.k = "If" -> first(make_atom(st, n.c[2], ty, ar))
          [] OTHER -> make_atom(st, n, ty, ar)

RECURSIVE hoist_atoms(_, _, _, _)
HoistLet(n, ty, ar, e, v) ==
    LET keep == Len(n.v) = 1 /\ is_atomizable(n.c[1]) /\ approx_size(e) <= 4 * SUBST_MAX
        of(b) == Threaded(b.st, Let(n.v, v.ir, b.ir))
    IN  of(hoist_atoms(v.st, n.c[2], Binds(v.st.prog, ty, Let(n.v, v.ir, Unit)), IF keep THEN Put(ar, n.v[1], e) ELSE ar))
hoist_atoms(st, n, ty, ar) ==
    LET \* the children i and then j, each in its scope, and n over them
        pair(s, i, si, j, sj) == LET a == hoist_atoms(s, n.c[i], ty, si)
                                     b == hoist_atoms(a.st, n.c[j], ty, sj)
                                 IN  Threaded(b.st, [n EXCEPT !.c[i] = a.ir, !.c[j] = b.ir])
        rest == hoist_atoms(st, n.c[3], ty, ar)
    IN  CASE n.k = "Let" -> HoistLet(n, ty, ar, subst_exprs(n.c[1], ar),
                                     IF Len(n.v) = 1 THEN HoistValue(st, n.c[1], ty, ar) ELSE Threaded(st, n.c[1]))
          [] n.k = "If" -> pair(st, 2, NoMap, 3, NoMap)
          [] n.k = "MatchOption" -> IF n.c[1].k \in {"Let", "MatchOption", "If"} THEN pair(st, 1, NoMap, 3, ar)
                                    ELSE Threaded(rest.st, [n EXCEPT !.c[3] = rest.ir])
          [] OTHER -> Threaded(st, n)

\* A scope of the bundle: types and, by name, the value over the parameters, or
\* Poison where there is none.
Poison == Node("Poison", <<>>, 0, <<>>)
RECURSIVE fold_proj(_)
fold_proj(n) ==
    LET b == n.c[1] IN
    CASE n.k # "Field" -> n
      [] b.k = "UpdateField" /\ b.v = n.v -> IF b.n = n.n THEN b.c[2] ELSE fold_proj(Field(n.v[1], n.n, b.c[1]))
      [] b.k = "Pack" /\ b.v = n.v /\ b.n = 0 -> b.c[n.n]
      [] OTHER -> n
RECURSIVE fold_all_projs(_)
fold_all_projs(n) == fold_proj(MapChildren(n, fold_all_projs))
bundle_subst(n, su) == IF \E x \in free_vars(n) \cap DOMAIN su : su[x] = Poison THEN Poison
                       ELSE fold_all_projs(subst_exprs(n, su))

\* The proof that the obligations suffice, a tree (AbortsProofNode).
Proof(p, obs, of) == [p |-> p, obs |-> obs, of |-> of]
Rfl    == Proof("Rfl", {}, <<>>)
NoProof == Proof("none", {}, <<>>)
RECURSIVE collect_used_obs(_)
collect_used_obs(t) == t.obs \cup UNION {collect_used_obs(t.of[i]) : i \in DOMAIN t.of}
OrElses(lefts, t) == FoldRight(LAMBDA l, r : Proof("OrElse", {}, <<l, r>>), lefts, t)
Proved(st, t) == [st |-> st, proof |-> t]
Fails(r) == r.proof = NoProof

\* Nothing but parameters may occur in an obligation: what kind says of e, on the path.
add_obligation(st, path, kind, e) ==
    IF e = Poison \/ ~(free_vars(e) \cup UNION {free_vars(c[1]) : c \in Range(path)} \subseteq Range(st.prog[st.name].params))
    THEN {} ELSE {[path |-> path, kind |-> kind, e |-> e]}
LeafOf(st, path, e) ==
    LET of(ob) == Proved(st, IF ob = {} THEN NoProof ELSE Proof("Leaf", ob, <<>>)) IN of(add_obligation(st, path, "OptionNone", e))

is_abort_propagation(n) == n.k = "MatchOption" /\ n.c[2] = OptionSome(Var(n.v[1]))
RECURSIVE is_some_abort(_)
is_some_abort(n) == n.k = "OptionSome" \/ (n.k = "Let" /\ is_some_abort(n.c[2]))

\* The subtree becomes a segment, here and (repl) in the body.
bundle_opaque(st, n, sc, path) ==
    LET of(s) == LeafOf([s.st EXCEPT !.repl = Append(@, <<n, s.ir>>)], path, subst_exprs(s.ir, sc.su))
    IN  IF ~Typed(free_vars(n), sc.ty) \/ \E x \in free_vars(n) \cap DOMAIN sc.su : sc.su[x] = Poison THEN Proved(st, NoProof)
        ELSE of(create_segment(st, n, sc.ty))

\* What a let adds to the scope; root is where its spine begins.
BundleLet(st, n, root, sc) ==
    LET e     == bundle_subst(n.c[1], sc.su)
        big   == approx_size(e) > SUBST_MAX
        twice == Occurrences(root, n.v[1]) > 1 /\ approx_size(e) > MULTI_USE_SUBST_MAX
        value(x) == CASE e = Poison \/ big -> Poison
                      [] Len(n.v) = 1 -> IF twice THEN Poison ELSE e
                      [] OTHER -> Let(n.v, e, Var(x))
    IN  [ty |-> Binds(st.prog, sc.ty, n), su |-> SetAll(sc.su, n.v, MapSeq(n.v, value))]

RECURSIVE bundle_expr(_, _, _, _)

\* The rest of the spine, from its first poisoned let on, is one segment.
escalate(st, n, sc, path, lefts, poison) ==
    LET of(r, ls) == IF Fails(r) THEN r ELSE Proved(r.st, OrElses(ls, r.proof))
        at(p) == of(bundle_opaque(st, p.n, p.sc, path), p.lefts)
    IN  at(IF poison = <<>> THEN [n |-> n, sc |-> sc, lefts |-> lefts] ELSE poison[1])

\* r is the bundle of n itself, or of the check that n propagates.
RECURSIVE Spine(_, _, _, _, _, _, _)
SpineEnd(r, n, root, sc, path, lefts, poison) ==
    CASE Fails(r) -> escalate(r.st, n, sc, path, lefts, poison)
      [] is_abort_propagation(n) -> Spine(r.st, n.c[3], root, sc, path, Append(lefts, r.proof), poison)
      [] OTHER -> Proved(r.st, OrElses(lefts, r.proof))
SpineLet(st, n, root, sc, in, path, lefts, poison) ==
    LET poisons == IF n.v = <<>> THEN \E m \in Nodes(n.c[1]) : m.k = "MutableCompose" ELSE in.su[n.v[1]] = Poison
        here    == <<[n |-> n, sc |-> sc, lefts |-> lefts]>>
    IN  Spine(st, n.c[2], root, in, path, lefts, IF poisons /\ poison = <<>> THEN here ELSE poison)
Spine(st, n, root, sc, path, lefts, poison) ==
    IF n.k = "Let" THEN SpineLet(st, n, root, sc, BundleLet(st, n, root, sc), path, lefts, poison)
    ELSE SpineEnd(bundle_expr(st, IF is_abort_propagation(n) THEN n.c[1] ELSE n, sc, path), n, root, sc, path, lefts, poison)
bundle_spine(st, n, sc, path) == Spine(st, n, n, sc, path, <<>>, <<>>)

\* Mutant: the second branch has the premise of the first.
BranchedAsFirst(path, c, taken) == Append(path, <<c, TRUE>>)

\* The premises of a branch: c is true in the first, false in the second.
Branched(path, c, taken) == Append(path, <<c, taken>>)

\* An aborting branch makes its guard an obligation, any other two a path each.
BundleIf(st, n, c, sc, path) ==
    LET guarded(kind, ob, r) == IF Fails(r) THEN r ELSE Proved(r.st, Proof(kind, ob, <<r.proof>>))
        guard(kind, ob, i)   == IF ob = {} THEN Proved(st, NoProof) ELSE guarded(kind, ob, bundle_expr(st, n.c[i], sc, path))
        both(t, f) == CASE Fails(t) -> t
                        [] Fails(f) -> f
                        [] OTHER -> Proved(f.st, Proof("BIte", {}, <<t.proof, f.proof>>))
        then(t)    == both(t, bundle_expr(t.st, n.c[3], sc, Branched(path, c, FALSE)))
    IN  CASE contains_abort_node(n) -> bundle_opaque(st, n, sc, path)
          [] c = Poison -> Proved(st, NoProof)
          [] is_some_abort(n.c[2]) -> guard("GuardFalse", add_obligation(st, path, "GuardFalse", c), 3)
          [] is_some_abort(n.c[3]) -> guard("GuardTrue", add_obligation(st, path, "GuardTrue", c), 2)
          [] OTHER -> then(bundle_expr(st, n.c[2], sc, Branched(path, c, TRUE)))

bundle_expr(st, n, sc, path) ==
    LET e == bundle_subst(n, sc.su)
        total(f) == ~st.prog[f].native /\ st.prog[f].body = OptionNone
    IN  CASE n.k = "OptionNone" -> Proved(st, Rfl)
          [] n.k = "Let" \/ is_abort_propagation(n) -> bundle_spine(st, n, sc, path)
          [] n.k = "If" -> BundleIf(st, n, bundle_subst(n.c[1], sc.su), sc, path)
          [] IF n.k = "Call" THEN total(n.v[1]) ELSE n.k = "Var" /\ e = OptionNone -> Proved(st, Rfl)
          [] n.k \in {"Call", "Var"} /\ ~contains_abort_node(n) -> LeafOf(st, path, e)
          [] OTHER -> bundle_opaque(st, n, sc, path)

\* segment_spine: cuts after a CHUNK, from the last segment to the first.
RECURSIVE collect_spine(_)
collect_spine(n) == IF n.k \notin {"Let", "MatchOption"} THEN [steps |-> <<>>, last |-> n]
                    ELSE LET s == collect_spine(n.c[Len(n.c)]) IN [s EXCEPT !.steps = <<n>> \o @]
rebuild(steps, tail) == FoldRight(LAMBDA n, t : [n EXCEPT !.c[Len(n.c)] = t], steps, tail)
step_size(n) == FoldSeq(LAMBDA m, s : approx_size(m) + s, 1, Front(n.c))

RECURSIVE abort_exposed(_)
abort_exposed(n) == n.k = "Abort" \/ \E i \in (IF n.k = "If" THEN {1} ELSE DOMAIN n.c) : abort_exposed(n.c[i])

\* The steps that end a segment, of these sizes; left is the size that follows.
CutAt(a, i, acc, left) ==
    IF acc >= CHUNK /\ left >= MIN_TAIL THEN [acc |-> 0, left |-> left, at |-> Append(a.at, i)]
    ELSE [acc |-> acc, left |-> left, at |-> a.at]
CutsOf(sizes, last) ==
    FoldAt(LAMBDA a, i : CutAt(a, i, a.acc + sizes[i], a.left - sizes[i]),
           [acc |-> 0, left |-> FoldSeq(LAMBDA n, s : n + s, last, sizes), at |-> <<>>], sizes).at
Cuts(steps, last) == CutsOf(MapSeq(steps, step_size), approx_size(last))

\* From the last segment to the first; from is where they begin.
CutOff(st, b, ty) == IF Typed(free_vars(b), ty) THEN create_segment(st, b, ty) ELSE Threaded(st, b)
SegmentFrom(steps, last, from, tys) ==
    LET upto(j) == IF j = Len(from) THEN Len(steps) ELSE from[j + 1] - 1
    IN  FoldRight(LAMBDA j, s : CutOff(s.st, rebuild(SubSeq(steps, from[j], upto(j)), s.ir), tys[from[j]]),
                  [j \in DOMAIN from |-> j], last)

RECURSIVE segment_spine(_, _, _)
\* Child i of n, in the scope ty, where it is large.
SegmentChild(st, n, i, ty) ==
    LET r == segment_spine(st, n.c[i], ty)
    IN  IF approx_size(n.c[i]) > CHUNK THEN Threaded(r.st, [n EXCEPT !.c[i] = r.ir]) ELSE Threaded(st, n)
SegmentCheck(st, n, ty) == IF n.k = "MatchOption" THEN SegmentChild(st, n, 1, ty) ELSE Threaded(st, n)
SegmentArm(s, i, ty) == IF s.ir.k = "If" /\ ~abort_exposed(s.ir.c[i]) THEN SegmentChild(s.st, s.ir, i, ty) ELSE s
Appended(q, r) == Threaded(r.st, Append(q, r.ir))
SegmentEnd(steps, last, tys) == SegmentFrom(steps, last, <<1>> \o MapSeq(Cuts(steps, last.ir), LAMBDA i : i + 1), tys)
SegmentTail(s, last, tys) ==
    SegmentEnd(s.ir, SegmentArm(SegmentArm(Threaded(s.st, last), 2, tys[Len(tys)]), 3, tys[Len(tys)]), tys)
SegmentSteps(st, spine, tys) ==
    SegmentTail(FoldAt(LAMBDA s, i : Appended(s.ir, SegmentCheck(s.st, spine.steps[i], tys[i])), Threaded(st, <<>>), spine.steps),
                spine.last, tys)
Scopes(P, steps, ty) == FoldAt(LAMBDA q, i : Append(q, Binds(P, q[i], steps[i])), <<ty>>, steps)
segment_spine(st, n, ty) ==
    LET spine == collect_spine(n)
    IN  IF Typed(free_vars(n), ty) THEN SegmentSteps(st, spine, Scopes(st.prog, spine.steps, ty)) ELSE Threaded(st, n)

\* The body with every segment called; the first of equals counts.
RECURSIVE WithSegments(_, _)
WithSegments(n, repl) ==
    LET hits == SelectSeq(repl, LAMBDA r : r[1] = n)
        m    == IF hits = <<>> THEN n ELSE hits[1][2]
    IN  MapChildren(m, LAMBDA x : WithSegments(x, repl))

Decomposable(P, f, contract) ==
    /\ ~P[f].native /\ P[f].group = {} /\ f \notin calls(P[f].body)
    /\ \A i \in DOMAIN P[f].ptys : ~IsRef(P[f].ptys[i])
    /\ P[f].body # OptionNone
    /\ approx_size(P[f].body) >= MIN_TOTAL \/ contract

\* What becomes of f: the program, its obligations (none, or a set) and the
\* segments to go on with; h is f with its atoms, b the proof of its bundle.  A
\* segment is not cut up again.
Decomposed(st, f, body, bundle, more) == [prog |-> [st.prog EXCEPT ![f].body = body], bundle |-> bundle, more |-> more]
CutUp(P, f, h, b, cut) == IF cut.ir = h.ir THEN Decomposed(b.st, f, P[f].body, {}, {}) ELSE Decomposed(cut.st, f, cut.ir, {}, {})
Bundled(P, f, segment, h, b) ==
    LET obs   == collect_used_obs(b.proof)
        small == approx_size(P[f].body) < MIN_TOTAL
        one   == Cardinality(obs) = 1
        same  == one /\ b.proof.p = "Leaf" /\ \A o \in obs : o.e.k = "Call" /\ o.e.v[1] \in b.st.segs
    IN  CASE ~Fails(b) /\ ~same /\ ~(small /\ one) -> Decomposed(b.st, f, WithSegments(h.ir, b.st.repl), {obs}, b.st.segs)
          [] small \/ segment -> Decomposed(b.st, f, P[f].body, {}, {})
          [] OTHER -> CutUp(P, f, h, b, segment_spine(b.st, h.ir, ParamTypes(P[f])))
Hoisted(P, f, segment, h) ==
    Bundled(P, f, segment, h, bundle_spine(h.st, h.ir, [ty |-> ParamTypes(P[f]), su |-> NoMap], <<>>))
decompose_one(P, f, segment) ==
    Hoisted(P, f, segment, hoist_atoms([prog |-> P, name |-> f, segs |-> {}, atoms |-> {}, repl |-> <<>>],
                                       P[f].body, ParamTypes(P[f]), NoMap))

\* Of every name ending .aborts, and of the segments of a bundle: the program
\* and the obligations by function.  The code stops after 500, more than here.
RECURSIVE DecomposeAll(_, _, _, _)
Dequeue(r, f, bundles, queue, contract) ==
    DecomposeAll(r.prog, IF r.bundle = {} THEN bundles ELSE With(bundles, f, CHOOSE s \in r.bundle : TRUE),
                 queue \cup {<<s, TRUE>> : s \in r.more}, contract)
DecomposeAll(P, bundles, queue, contract) ==
    LET q == CHOOSE x \in queue : TRUE
    IN  IF queue = {} THEN [prog |-> P, bundles |-> bundles]
        ELSE Dequeue(IF Decomposable(P, q[1], contract) THEN decompose_one(P, q[1], q[2]) ELSE [prog |-> P, bundle |-> {}, more |-> {}],
                     q[1], bundles, queue \ {q}, contract)
decompose_aborts(P, contract) == DecomposeAll(P, NoFun, {<<f, FALSE>> : f \in {g \in DOMAIN P : P[g].of # ""}}, contract)

=============================================================================
