----------------------------- MODULE IROptimize -----------------------------
(***************************************************************************)
(* The passes that optimize_with (analysis/mod.rs) runs over every function *)
(* body before it is rendered: temp_inlining.rs, dead_code_removal.rs,     *)
(* logical_simplification.rs, constant_folding.rs, the first part of       *)
(* cleanup.rs and early_return.rs.                                         *)
(***************************************************************************)
EXTENDS TheoremIR

CONSTANTS Temps,       \* the names that VariableRegistry::is_temp takes for compiler temporaries
          MaxFold      \* MAX_GUARD_FOLD_NODES: the continuation that is still duplicated

WorldVar == "__world"
is_single_temp(p) == Len(p) = 1 /\ p[1] \in Temps

-----------------------------------------------------------------------------
(* temp_inlining.rs *)

NoMap == [x \in {} |-> Unit]
Put(m, x, v) == [y \in DOMAIN m \cup {x} |-> IF y = x THEN v ELSE m[y]]

RECURSIVE is_rebound_in(_, _)
is_rebound_in(x, n) ==
    \/ n.k = "Let" /\ x \in Range(n.v)
    \/ n.k = "WriteBack" /\ n.v[2] = x
    \/ n.k = "MutableCompose" /\ x \in Range(n.v)
    \/ \E i \in DOMAIN n.c : is_rebound_in(x, n.c[i])

value_vars_rebound_in_body(v, b) == \E x \in all_var_refs(v) : is_rebound_in(x, b)

mentions_world(v) == WorldVar \in all_var_refs(v)

is_used_in_writeback_or_compose(b, x) ==
    \E n \in Nodes(b) : n.k \in {"WriteBack", "MutableCompose"} /\ x \in Range(n.v)

RECURSIVE EffectiveUses(_, _, _)
EffectiveUses(n, x, mult) ==
    CASE n.k = "Var" -> IF n.v[1] = x THEN mult ELSE 0
      [] n.k = "Unpack" -> EffectiveUses(n.c[1], x, 2 * mult)
      [] n.k = "WriteBack" -> mult * Cardinality({i \in 1..2 : n.v[i] = x})
      [] OTHER -> FoldSeq(LAMBDA m, s : EffectiveUses(m, x, mult) + s, 0, n.c)

count_effective_uses(n, x) == EffectiveUses(n, x, 1)

\* A WriteBack's names are rewritten only to other names.
RECURSIVE substitute_temps(_, _)
substitute_temps(n, temps) ==
    LET ren(x) == IF x \in DOMAIN temps /\ temps[x].k = "Var" THEN temps[x].v[1] ELSE x
    IN  CASE n.k = "Var" -> IF n.v[1] \in DOMAIN temps THEN temps[n.v[1]] ELSE n
          [] n.k = "WriteBack" -> [n EXCEPT !.v = MapSeq(n.v, ren)]
          [] OTHER -> MapChildren(n, LAMBDA m : substitute_temps(m, temps))

\* Mutant: a value is inlined past an assignment to what it reads.
KeepLetUnlessRead(v, x, b, aborts) ==
    \/ count_effective_uses(b, x) = 0 /\ ~is_atomic(v)
    \/ count_effective_uses(b, x) > 1 /\ ~is_atomic(v)

KeepLet(v, x, b, aborts) ==
    LET uses == count_effective_uses(b, x) IN
    \/ uses = 0 /\ ~is_atomic(v)
    \/ uses > 1 /\ (IF aborts THEN mentions_world(v) ELSE ~is_atomic(v))
    \/ value_vars_rebound_in_body(v, b)
    \/ v.k # "Var" /\ is_used_in_writeback_or_compose(b, x)
    \/ v.k \in {"WriteRef", "WriteBack", "MutableBorrow", "MutableCompose"}

RECURSIVE inline_in_node(_, _, _)
inline_in_node(n, temps, aborts) ==
    LET rec(m) == inline_in_node(m, temps, aborts) IN
    CASE n.k = "Let" ->
            LET v == substitute_temps(n.c[1], temps) IN
            IF is_single_temp(n.v) /\ ~KeepLet(v, n.v[1], n.c[2], aborts)
            THEN inline_in_node(n.c[2], Put(temps, n.v[1], v), aborts)
            ELSE Let(n.v, v, rec(n.c[2]))
      [] n.k = "If" -> If(substitute_temps(n.c[1], temps), rec(n.c[2]), rec(n.c[3]))
      [] n.k \in {"BinOp", "UnOp", "Call"} -> MapChildren(n, rec)
      [] OTHER -> substitute_temps(n, temps)

inline_temps(n, aborts) == inline_in_node(n, NoMap, aborts)

-----------------------------------------------------------------------------
(* dead_code_removal.rs *)

\* Without side effects: PureOver names the compound kinds that may be pure.
RECURSIVE PureOver(_, _)
PureOver(n, kinds) == \/ n.k \in {"Var", "Bool", "UInt"}
                      \/ n.k \in kinds /\ \A i \in DOMAIN n.c : PureOver(n.c[i], kinds)

is_pure(n)      == PureOver(n, {"BinOp", "UnOp", "Tuple", "Field"})
is_pure_expr(n) == PureOver(n, {"BinOp", "UnOp", "Tuple", "Let", "If"})

is_dead_let(n, used) == n.k = "Let" /\ Range(n.v) \cap used = {} /\ is_pure(n.c[1])

RECURSIVE remove_dead_lets(_, _)
remove_dead_lets(n, used) ==
    LET m == MapChildren(n, LAMBDA x : remove_dead_lets(x, used))
    IN  IF is_dead_let(m, used) THEN m.c[2] ELSE m

RECURSIVE simplify_tuple_patterns(_, _)
simplify_tuple_patterns(n, used) ==
    LET m == MapChildren(n, LAMBDA x : simplify_tuple_patterns(x, used))
    IN  IF m.k = "Let" /\ Len(m.v) > 1
        THEN [m EXCEPT !.v = MapSeq(m.v, LAMBDA x : IF x \in used THEN x ELSE "_")]
        ELSE m

remove_dead_code(n) == LET used == used_vars(n)
                       IN  simplify_tuple_patterns(remove_dead_lets(n, used), used)

-----------------------------------------------------------------------------
(* logical_simplification.rs *)

Negated == [Eq |-> "Neq", Neq |-> "Eq", Lt |-> "Ge", Ge |-> "Lt", Le |-> "Gt", Gt |-> "Le"]

simplify_not(e) ==
    CASE e.k = "UnOp" /\ e.v[1] = "Not" -> e.c[1]
      [] e.k = "BinOp" /\ e.v[1] \in DOMAIN Negated -> [e EXCEPT !.v = <<Negated[e.v[1]]>>]
      [] OTHER -> Not(e)

\* The constant a node is known to be: a set of at most one Boolean.
RECURSIVE evaluates_to_bool(_)
evaluates_to_bool(n) ==
    LET e(i) == evaluates_to_bool(n.c[i]) IN
    CASE n.k = "Bool" -> {n.n = 1}
      [] n.k = "Let" -> IF n.v = <<>> /\ ~is_pure_expr(n.c[1]) THEN {} ELSE e(2)
      [] n.k = "If" -> IF e(2) = e(3) THEN e(2) ELSE {}
      [] n.k = "UnOp" /\ n.v[1] = "Not" -> {~b : b \in e(1)}
      [] n.k = "BinOp" /\ n.v[1] \in {"And", "Or"} ->
            LET stop == n.v[1] = "Or" IN
            IF stop \in e(1) \cup e(2) THEN {stop}
            ELSE IF e(1) # {} /\ e(2) # {} THEN {~stop} ELSE {}
      [] OTHER -> {}

simplify_binop(n) ==
    LET l == evaluates_to_bool(n.c[1])
        r == evaluates_to_bool(n.c[2])
        stop == n.v[1] = "Or"
    IN  IF n.v[1] \notin {"And", "Or"} THEN n
        ELSE IF stop /\ TRUE \in l \cup r THEN Bool(TRUE)
        ELSE IF (~stop) \in l THEN n.c[2]
        ELSE IF (~stop) \in r THEN n.c[1]
        ELSE IF stop \in l \cup r THEN Bool(stop)
        ELSE n

simplify_if(n) ==
    CASE n.c[2] = Bool(TRUE) /\ n.c[3] = Bool(FALSE) -> n.c[1]
      [] n.c[2] = Bool(FALSE) /\ n.c[3] = Bool(TRUE) -> Not(n.c[1])
      [] n.c[2] = n.c[3] -> n.c[2]
      [] OTHER -> n

RECURSIVE simplify(_)
simplify(n) ==
    LET m == MapChildren(n, simplify) IN
    CASE m.k = "UnOp" /\ m.v[1] = "Not" -> simplify_not(m.c[1])
      [] m.k = "BinOp" -> simplify_binop(m)
      [] m.k = "If" -> simplify_if(m)
      [] OTHER -> m

-----------------------------------------------------------------------------
(* constant_folding.rs: a folded operation wraps to the wider of its operands'   *)
(* widths; division by zero is left alone.                                       *)

Wider(a, b) == IF Bits[a] >= Bits[b] THEN a ELSE b
mask_to_bits(w, n) == UInt(w, n % Bound(w))

fold_bits(op, a, b) ==
    LET w == Wider(a.v[1], b.v[1])
    IN  CASE op = "Shl" -> mask_to_bits(a.v[1], a.n * 2 ^ b.n)
          [] op = "Shr" -> UInt(a.v[1], a.n \div 2 ^ b.n)
          [] OTHER -> UInt(w, BitWise(op, a.n, b.n, Bits[w]))
fold_binop(op, a, b) ==
    LET w == Wider(a.v[1], b.v[1])
    IN  CASE op = "Add" -> mask_to_bits(w, a.n + b.n)
          [] op = "Sub" -> mask_to_bits(w, a.n - b.n)
          [] op = "Mul" -> mask_to_bits(w, a.n * b.n)
          [] op \in {"Div", "Mod"} /\ b.n = 0 -> BinOp(op, a, b)
          [] op = "Div" -> UInt(w, a.n \div b.n)
          [] op = "Mod" -> UInt(w, a.n % b.n)
          [] op \in {"Shl", "Shr", "BitAnd", "BitOr", "Xor"} -> fold_bits(op, a, b)
          [] OTHER -> Bool(Compare(op, a.n, b.n))

fold_boolop(op, x, y) == Bool(CASE op = "And" -> x /\ y [] op = "Or" -> x \/ y
                                [] op = "Eq" -> x = y [] OTHER -> x # y)

fold_unop(n) ==
    LET a == n.c[1] IN
    CASE n.v[1] = "Not" /\ a.k = "Bool" -> Bool(a.n = 0)
      [] n.v[1] = "BitNot" /\ a.k = "UInt" -> UInt(a.v[1], Bound(a.v[1]) - 1 - a.n)
      [] n.v[1] = "Cast" -> mask_to_bits(n.v[2], a.n)
      [] OTHER -> n

RECURSIVE fold_constants(_)
fold_constants(n) ==
    LET m == MapChildren(n, fold_constants)
        both(k) == m.c[1].k = k /\ m.c[2].k = k
    IN  CASE m.k = "BinOp" /\ both("UInt") -> fold_binop(m.v[1], m.c[1], m.c[2])
          [] m.k = "BinOp" /\ both("Bool") -> fold_boolop(m.v[1], m.c[1].n = 1, m.c[2].n = 1)
          [] m.k = "UnOp" /\ IsConst(m.c[1]) -> fold_unop(m)
          [] m.k = "If" /\ m.c[1].k = "Bool" -> IF m.c[1].n = 1 THEN m.c[2] ELSE m.c[3]
          [] OTHER -> m

-----------------------------------------------------------------------------
(* cleanup.rs, lines 19 to 590 *)

RECURSIVE remove_identity_lets(_)
remove_identity_lets(n) ==
    LET m == MapChildren(n, remove_identity_lets)
    IN  IF m.k = "Let" /\ Len(m.v) = 1 /\ m.c[1] = Var(m.v[1]) THEN m.c[2] ELSE m

\* A Boolean constant at the end of a spine whose statements are pure.
RECURSIVE get_bool_const(_)
get_bool_const(n) ==
    CASE n.k = "Bool" -> {n.n = 1}
      [] n.k = "Let" -> IF n.v = <<>> /\ ~is_pure_expr(n.c[1]) THEN {} ELSE get_bool_const(n.c[2])
      [] OTHER -> {}

RECURSIVE is_unit_valued(_)
is_unit_valued(n) == IsUnitNode(n) \/ (n.k = "Let" /\ is_unit_valued(n.c[2]))

\* In a Bool function () means "does not abort here".
RECURSIVE normalize_unit_branches(_)
normalize_unit_branches(n) ==
    LET m == MapChildren(n, normalize_unit_branches)
        fix(b) == IF is_unit_valued(b) THEN Bool(FALSE) ELSE b
    IN  IF m.k = "If" THEN If(m.c[1], fix(m.c[2]), fix(m.c[3])) ELSE m

RECURSIVE simplify_boolean_ifs(_)
simplify_boolean_ifs(n) ==
    LET m == MapChildren(n, simplify_boolean_ifs) IN
    IF m.k # "If" THEN m
    ELSE LET t == get_bool_const(m.c[2])
             f == get_bool_const(m.c[3])
         IN  IF TRUE \in t /\ FALSE \in f THEN m.c[1]
             ELSE IF FALSE \in t /\ TRUE \in f THEN Not(m.c[1]) ELSE m

RECURSIVE is_boolean_type(_, _, _)
is_boolean_type(n, prog, ty) ==
    CASE n.k = "If" -> is_boolean_type(n.c[2], prog, ty) /\ is_boolean_type(n.c[3], prog, ty)
      [] n.k = "Let" -> is_boolean_type(n.c[2], prog, ty)
      [] OTHER -> get_type(n, prog, ty) = BoolT

branch_is_self_recursive(n, self) == self \in calls(n)

\* Short-circuit forms, unless the kept branch loops back to this function:
\* the If is what gives the termination proof its guard.
AndOrIf(m, prog, ty, self) ==
    LET t == get_bool_const(m.c[2])
        f == get_bool_const(m.c[3])
        keeps(b) == ~branch_is_self_recursive(b, self) /\ is_boolean_type(b, prog, ty)
    IN  IF t # {} /\ t = f THEN Bool(TRUE \in t)
        ELSE IF FALSE \in f /\ FALSE \notin t /\ keeps(m.c[2]) THEN BinOp("And", m.c[1], m.c[2])
        ELSE IF TRUE \in t /\ TRUE \notin f /\ keeps(m.c[3]) THEN BinOp("Or", m.c[1], m.c[3])
        ELSE m

RECURSIVE convert_boolean_ifs_to_and_or(_, _, _, _)
convert_boolean_ifs_to_and_or(n, prog, ty, self) ==
    LET rec(m) == convert_boolean_ifs_to_and_or(m, prog, ty, self) IN
    CASE n.k = "Let" ->
            LET v == rec(n.c[1])
                vt == IF v.k \in {"Inhabited", "Abort", "OptionSome", "OptionNone", "MoveAbortValue"}
                      THEN NoType ELSE get_type(v, prog, ty)
            IN  Let(n.v, v, convert_boolean_ifs_to_and_or(n.c[2], prog, PatternTypes(ty, n.v, vt), self))
      [] n.k = "If" -> AndOrIf(MapChildren(n, rec), prog, ty, self)
      [] OTHER -> n

\* The code's third pattern, an If whose branches bind the returned variable,
\* is never reached: the first one takes every value but a WriteBack.
RECURSIVE collapse_once(_)
collapse_once(n) ==
    LET m == MapChildren(n, collapse_once) IN
    IF \/ m.k = "Let" /\ Len(m.v) = 1 /\ m.c[2] = Var(m.v[1]) /\ m.c[1].k # "WriteBack"
       \/ m.k = "Let" /\ m.v \in {<<>>, <<"_">>} /\ IsUnitNode(m.c[2])
            /\ m.c[1].k \notin {"WriteRef", "WriteBack"}
    THEN m.c[1] ELSE m

RECURSIVE collapse_branch_bindings(_)
collapse_branch_bindings(n) == LET m == collapse_once(n)
                               IN  IF m = n THEN n ELSE collapse_branch_bindings(m)

cleanup(n, prog, ty, self) ==
    collapse_branch_bindings(
        convert_boolean_ifs_to_and_or(simplify_boolean_ifs(remove_identity_lets(n)), prog, ty, self))

RECURSIVE ends_with_unit(_, _)
ends_with_unit(n, prog) ==
    \/ IsUnitNode(n)
    \/ n.k = "Call" /\ n.v[1] \in DOMAIN prog /\ prog[n.v[1]].ret = UnitT
    \/ n.k = "Let" /\ ends_with_unit(n.c[2], prog)
    \/ n.k = "If" /\ ends_with_unit(n.c[2], prog) /\ ends_with_unit(n.c[3], prog)

RECURSIVE make_return_unit(_)
make_return_unit(n) ==
    CASE n.k = "Call" -> Let(<<>>, n, Unit)
      [] n.k = "Let" -> Let(n.v, n.c[1], make_return_unit(n.c[2]))
      [] n.k = "If" -> If(n.c[1], make_return_unit(n.c[2]), make_return_unit(n.c[3]))
      [] OTHER -> n

RECURSIVE fix_nested_if_types(_, _)
fix_nested_if_types(n, prog) ==
    LET m == MapChildren(n, LAMBDA x : fix_nested_if_types(x, prog))
    IN  IF m.k = "If" /\ ends_with_unit(m.c[2], prog) /\ ~ends_with_unit(m.c[3], prog)
        THEN Let(<<>>, If(m.c[1], make_return_unit(m.c[2]), Unit), m.c[3])
        ELSE m

RECURSIVE flatten_sequential_ifs(_, _)
flatten_sequential_ifs(n, prog) ==
    LET m == fix_nested_if_types(n, prog)
    IN  IF m = n THEN n ELSE flatten_sequential_ifs(m, prog)

-----------------------------------------------------------------------------
(* early_return.rs: folding the rest of a function into the branches of an If. *)

RECURSIVE contains_bindings(_)
contains_bindings(n) ==
    \/ n.k = "Let" /\ n.v # <<>>
    \/ n.k \in {"Let", "If", "Tuple", "BinOp", "UnOp", "Call"}
       /\ \E i \in DOMAIN n.c : contains_bindings(n.c[i])

RECURSIVE is_unit(_)
is_unit(n) == \/ IsUnitNode(n) \/ n.k = "Abort"
              \/ n.k = "Let" /\ n.v = <<>> /\ ~contains_bindings(n.c[1]) /\ is_unit(n.c[2])

RECURSIVE tail_is_unit(_)
tail_is_unit(n) == IsUnitNode(n) \/ n.k = "UpdateField" \/ (n.k = "Let" /\ tail_is_unit(n.c[2]))

RECURSIVE append_continuation(_, _)
append_continuation(n, rest) ==
    CASE n.k = "Let" -> Let(n.v, n.c[1], append_continuation(n.c[2], rest))
      [] IsUnitNode(n) -> rest
      [] OTHER -> Let(<<>>, n, rest)

RECURSIVE fold_early_returns_inner(_)
fold_early_returns_inner(n) ==
    CASE n.k = "Let" ->
            LET v == fold_early_returns_inner(n.c[1])
                b == fold_early_returns_inner(n.c[2])
            IN  IF n.v = <<>> /\ v.k = "If" /\ is_unit(v.c[3]) /\ ~is_unit(b)
                THEN IF ~tail_is_unit(v.c[2]) THEN If(v.c[1], v.c[2], b)
                     ELSE IF Size(b) <= MaxFold
                          THEN If(v.c[1], append_continuation(v.c[2], b), b)
                          ELSE Let(n.v, v, b)
                ELSE Let(n.v, v, b)
      [] n.k = "If" -> MapChildren(n, fold_early_returns_inner)
      [] n.k = "Match" -> [n EXCEPT !.c = <<n.c[1]>> \o MapSeq(Tail(n.c), fold_early_returns_inner)]
      [] OTHER -> n

\* An If with an empty branch goes, unless a comparison or a variable guards it:
\* the loop handler's termination guard.
TerminationGuard(e) == e.k = "Var" \/ (e.k = "BinOp" /\ e.v[1] \in {"Gt", "Ge", "Lt", "Le"})

RECURSIVE strip_abort_branches(_)
strip_abort_branches(n) ==
    CASE n.k = "If" ->
            LET t == strip_abort_branches(n.c[2])
                f == strip_abort_branches(n.c[3])
                bare(m) == m.k = "Abort" \/ IsUnitNode(m)
                guard == TerminationGuard(n.c[1]) /\ (bare(t) \/ bare(f))
            IN  IF ~guard /\ is_unit(t) /\ ~is_unit(f) THEN f
                ELSE IF ~guard /\ is_unit(f) /\ ~is_unit(t) THEN t
                ELSE If(strip_abort_branches(n.c[1]), t, f)
      [] n.k = "Let" -> MapChildren(n, strip_abort_branches)
      [] n.k = "Match" -> [n EXCEPT !.c = <<n.c[1]>> \o MapSeq(Tail(n.c), strip_abort_branches)]
      [] OTHER -> n

fold_early_returns(n) == strip_abort_branches(fold_early_returns_inner(n))

=============================================================================
