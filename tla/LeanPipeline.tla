---------------------------- MODULE LeanPipeline ----------------------------
(***************************************************************************)
(* A program on its way to Lean: the bytecode processors of lean_driver.rs,*)
(* the translation of every function into a value and an abort condition   *)
(* (program_builder.rs, function_translator.rs), and the passes of         *)
(* finalize_with_mode (data/mod.rs) over the functions without mutable     *)
(* references, specifications and quantifiers.                             *)
(***************************************************************************)
EXTENDS ControlFlowReconstruction, AbortDerivation, MemoryInstrumentation

CONSTANTS Corpus,       \* programs in stack code, by function name
          Samples,      \* arguments for main
          ValuesOf(_)   \* arguments of other functions, by type

VARIABLES mode,         \* BuildMode: "Spec" or "Test"
          source,       \* the program as compiled
          targets,      \* the function targets
          prog,         \* the functions of the intermediate program, by name
          bundles,      \* aborts_bundles: the obligations stated of a function
          stage         \* how many passes have run

vars == <<mode, source, targets, prog, bundles, stage>>

-----------------------------------------------------------------------------
(* create_function and build_function. *)

build_signature(fn) ==
    [ptys |-> MapSeq(ParamsOf(fn), LAMBDA p : fn.types[p]),
     ret |-> IF Len(fn.ret) = 1 THEN fn.ret[1] ELSE <<"tuple">> \o fn.ret]

\* The value and the abort condition, each with the functions of its loops.
EmitMode(src, tgt, tree, aborts) ==
    emit([fn |-> tgt.name, aborts |-> aborts, keep |-> mode = "Test", vars |-> tgt.types, ret |-> build_signature(src).ret],
         tree, [scope |-> Range(ParamsOf(tgt)), stack |-> <<>>, k |-> 0, fns |-> NoFun])
BoolBody(n) == simplify_aborts(rewrite_asserts_in_aborts(fold_early_returns(replace_inhabited_let_values(n))))

Functions(src, tgt, body, aborts) ==
    LET sig == build_signature(src)
        fn(ret, b, of) == Fn(ParamsOf(tgt), sig.ptys, ret, b, of)
    IN  (tgt.name :> fn(sig.ret, body.ir, "")) @@ (AbortsOf(tgt.name) :> fn(BoolT, BoolBody(aborts.ir), tgt.name))
        @@ body.st.fns @@ aborts.st.fns
BothModes(src, tgt, tree) == Functions(src, tgt, EmitMode(src, tgt, tree, FALSE), EmitMode(src, tgt, tree, TRUE))
create_function(P, src, tgt) == BothModes(src, tgt, translate(P, tgt))

build(S, P) == FoldSet(LAMBDA f, acc : create_function(P, S[f], P[f]) @@ acc, NoFun, DOMAIN P)

-----------------------------------------------------------------------------
(* dependency_order.rs: which functions are recursive, and with which. *)

RECURSIVE ReachableIn(_, _)
ReachableIn(edges, S) == LET T == S \cup UNION {edges[g] : g \in S} IN IF T = S THEN S ELSE ReachableIn(edges, T)
CallEdges(P) == [f \in DOMAIN P |-> calls(P[f].body) \cap DOMAIN P]
order_by_dependencies(P) ==
    LET edges == CallEdges(P)
        from == [f \in DOMAIN P |-> ReachableIn(edges, edges[f])]
    IN  [f \in DOMAIN P |-> [P[f] EXCEPT !.group = {g \in from[f] : f \in from[g]}]]

-----------------------------------------------------------------------------
(* cleanup.rs, lines 1486 to 1880: variables assigned in the branches of a   *)
(* statement and read after it become part of what the statement yields.     *)

Forks == {"If", "Match", "MatchOption"}
MapBranches(n, F(_)) == [n EXCEPT !.c = <<n.c[1]>> \o MapSeq(Tail(n.c), F)]

effective_bindings(n) == bindings(n) \cup {m.v[2] : m \in {x \in Nodes(n) : x.k = "WriteBack"}}

RECURSIVE append_phi_yield(_, _)
append_phi_yield(n, phis) ==
    CASE n.k = "Let" -> Let(n.v, n.c[1], append_phi_yield(n.c[2], phis))
      [] n.k \in Forks -> MapBranches(n, LAMBDA b : append_phi_yield(b, phis))
      [] OTHER -> Let(<<>>, n, PhiTuple(phis))
RECURSIVE append_extended_yield(_, _, _)
append_extended_yield(n, p, phis) ==
    CASE n.k = "Let" -> Let(n.v, n.c[1], append_extended_yield(n.c[2], p, phis))
      [] n.k \in Forks -> MapBranches(n, LAMBDA b : append_extended_yield(b, p, phis))
      [] n.k = "Tuple" /\ Len(p) > 1 -> Tuple(n.c \o MapSeq(phis, Var))
      [] OTHER -> Tuple(<<n>> \o MapSeq(phis, Var))

try_lift_phis(p, v, b) ==
    LET defs == UNION {effective_bindings(v.c[i]) : i \in 2..Len(v.c)}
        phis == Listed((free_vars(b) \cap defs) \ Range(p))
        yield(br) == IF p = <<>> THEN append_phi_yield(br, phis) ELSE append_extended_yield(br, p, phis)
    IN  IF phis = <<>> THEN Let(p, v, b) ELSE Let(p \o phis, MapBranches(v, yield), b)

RECURSIVE phi_lift_walk(_)
phi_lift_walk(n) ==
    LET m == MapChildren(n, phi_lift_walk)
    IN  IF m.k = "Let" /\ m.c[1].k \in Forks THEN try_lift_phis(m.v, m.c[1], m.c[2]) ELSE m

RECURSIVE LiftTimes(_, _)
LiftTimes(n, k) == LET m == phi_lift_walk(n) IN IF k = 0 \/ m = n THEN n ELSE LiftTimes(m, k - 1)
lift_post_threading_phis(n) == LiftTimes(n, 16)

-----------------------------------------------------------------------------
(* optimize_with, run until the hash of the tree is stable: the hash looks   *)
(* into the children of the common kinds only.                               *)

Hashed == {"Var", "Bool", "UInt", "Let", "If", "Call", "Tuple", "BinOp", "UnOp"}
RECURSIVE compute_ir_hash(_)
compute_ir_hash(n) ==
    IF n.k \notin Hashed THEN Node(n.k, <<>>, 0, <<>>)
    ELSE [MapChildren(n, compute_ir_hash) EXCEPT !.v = IF n.k = "UnOp" THEN <<n.v[1]>> ELSE @]

optimize_single_pass(n, P, f) ==
    fold_early_returns(cleanup(simplify(remove_dead_code(inline_temps(n, P[f].of # ""))), P, ParamTypes(P[f]), f))

MaxRounds == 50
RECURSIVE OptimizeTimes(_, _, _, _)
OptimizeTimes(n, P, f, k) ==
    LET m == optimize_single_pass(n, P, f)
    IN  IF k = 0 \/ compute_ir_hash(m) = compute_ir_hash(n) THEN m ELSE OptimizeTimes(m, P, f, k - 1)
optimize_with(n, P, f) == flatten_sequential_ifs(OptimizeTimes(n, P, f, MaxRounds), P)

OptimizeFn(P, f) ==
    LET b == P[f].body
    IN  IF P[f].native THEN P[f]
        ELSE [P[f] EXCEPT !.body = optimize_with(IF P[f].ret = BoolT THEN normalize_unit_branches(b) ELSE b, P, f)]
fold_constant_calls(n) == simplify(fold_constants(n))

-----------------------------------------------------------------------------
(* dead_param_elimination.rs *)

\* The occurrences of x that pass parameter i on as argument i inside the group.
RECURSIVE PassedOn(_, _, _, _)
PassedOn(n, x, i, group) ==
    (IF n.k = "Call" /\ n.v[1] \in group /\ i \in DOMAIN n.c /\ n.c[i] = Var(x) THEN 1 ELSE 0)
    + FoldSeq(LAMBDA m, s : PassedOn(m, x, i, group) + s, 0, n.c)

TrulyUsed(fn) ==
    {i \in DOMAIN fn.params :
        /\ fn.params[i] \in used_vars(fn.body)
        /\ ~(Occurrences(fn.body, fn.params[i]) \in {PassedOn(fn.body, fn.params[i], i, fn.group)} \ {0})}
Analyzed(P) == {f \in DOMAIN P : ~P[f].native /\ P[f].params # <<>> /\ P[f].of = ""}
DeadParams(P, f) ==
    IF f \notin Analyzed(P) THEN {}
    ELSE DOMAIN P[f].params \ UNION {TrulyUsed(P[g]) : g \in ({f} \cup P[f].group) \cap Analyzed(P)}

Kept(s, dead) == LET is == SelectSeq([i \in DOMAIN s |-> i], LAMBDA i : i \notin dead) IN MapSeq(is, LAMBDA i : s[i])
RECURSIVE remove_dead_args(_, _)
remove_dead_args(n, dead) ==
    LET m == MapChildren(n, LAMBDA x : remove_dead_args(x, dead))
    IN  IF m.k = "Call" /\ m.v[1] \in DOMAIN dead THEN [m EXCEPT !.c = Kept(@, dead[m.v[1]])] ELSE m

eliminate_dead_params_once(P) ==
    LET dead == [f \in DOMAIN P |-> DeadParams(P, f)]
    IN  [f \in DOMAIN P |-> [P[f] EXCEPT !.body = IF P[f].native THEN @ ELSE remove_dead_args(@, dead),
                                         !.params = Kept(@, dead[f]), !.ptys = Kept(@, dead[f])]]
RECURSIVE EliminateTimes(_, _)
EliminateTimes(P, k) == LET Q == eliminate_dead_params_once(P) IN IF k = 0 \/ Q = P THEN P ELSE EliminateTimes(Q, k - 1)
eliminate_dead_params(P) == EliminateTimes(P, 20)

-----------------------------------------------------------------------------
(* early_return.rs, lines 1098 to 1208: the rest of a loop that only aborts is *)
(* put in the place of the calls to it.                                        *)

RECURSIVE abort_tail_code(_)
abort_tail_code(n) == CASE n.k = "Abort" -> {n} [] n.k = "Let" -> abort_tail_code(n.c[2]) [] OTHER -> {}

RECURSIVE inline_after_calls_inner(_, _)
inline_after_calls_inner(n, aborting) ==
    LET target(m) == m.k = "Call" /\ m.v[1] \in DOMAIN aborting
        rec(m) == inline_after_calls_inner(m, aborting)
        fix(m) == IF target(m) THEN aborting[m.v[1]] ELSE rec(m)
    IN  CASE n.k = "Let" -> IF target(n.c[1]) THEN aborting[n.c[1].v[1]] ELSE MapChildren(n, rec)
          [] n.k \in {"If", "Match"} -> MapBranches(n, fix)
          [] OTHER -> n

inline_abort_only_after_calls(P) ==
    LET aborting == [f \in {g \in DOMAIN P : P[g].after /\ abort_tail_code(P[g].body) # {}} |->
                        CHOOSE n \in abort_tail_code(P[f].body) : TRUE]
    IN  [f \in DOMAIN P |-> [P[f] EXCEPT !.body = IF P[f].of = "" THEN inline_after_calls_inner(@, aborting) ELSE @]]

-----------------------------------------------------------------------------
(* loop_body_extraction.rs: what an iteration of a loop computes before it    *)
(* calls itself moves into a function of its own, fn.while_k.step.  A plan    *)
(* is a set, empty where the loop keeps its form, of [body, step].            *)

is_extractable_loop(P, f) == P[f].helper /\ ~P[f].after /\ P[f].of = "" /\ P[f].group # {}

\* The lets of a spine up to the first that calls the loop, and what follows.
RECURSIVE SplitAtCall(_, _)
SplitAtCall(n, f) ==
    IF n.k = "Let" /\ f \notin calls(n.c[1])
    THEN LET s == SplitAtCall(n.c[2], f) IN [s EXCEPT !.prefix = <<n>> \o @]
    ELSE [prefix |-> <<>>, rest |-> n]
CallingBranches(n, f) == {i \in 2..3 : f \in calls(n.c[i])}
classify_spine(n, f) ==
    LET rest == SplitAtCall(n, f).rest IN
    CASE rest.k = "If" -> IF CallingBranches(rest, f) = {} THEN "Bail"
                          ELSE IF Cardinality(CallingBranches(rest, f)) = 2 THEN "Spine" ELSE "Descend"
      [] OTHER -> IF f \in calls(rest) THEN "Spine" ELSE "Bail"

\* A let's types in scope; the code gives a loop up when it cannot type one.
AddNode(P, ty, n) == IF n.v = <<>> THEN ty ELSE PatternTypes(ty, n.v, get_type(n.c[1], P, ty))
Types(ty) == \A x \in DOMAIN ty : Typable(ty[x])

EffectDefines(v) == {m.v[2] : m \in {x \in Nodes(v) : x.k = "WriteBack"}}
                    \cup {m.c[1].v[1] : m \in {x \in Nodes(v) : x.k = "WriteRef" /\ x.c[1].k = "Var"}}
Defines(n) == Range(n.v) \cup EffectDefines(n.c[1])
rebuild_lets(prefix, tail) == FoldRight(LAMBDA l, b : Let(l.v, l.c[1], b), prefix, tail)

plan_from_spine(n, f, P, ty) ==
    LET s        == SplitAtCall(n, f)
        inner    == Fold(LAMBDA t, l : AddNode(P, t, l), ty, s.prefix)
        before(i) == UNION {Defines(s.prefix[j]) : j \in 1..(i - 1)}
        liveIn   == Listed(UNION {free_vars(s.prefix[i].c[1]) \ before(i) : i \in DOMAIN s.prefix})
        liveOut  == Listed(before(Len(s.prefix) + 1) \cap free_vars(s.rest))
        types(xs, t) == MapSeq(xs, LAMBDA x : t[x])
        outTypes == types(liveOut, inner)
        one      == Len(liveOut) = 1
        step     == Fn(liveIn, types(liveIn, ty), IF one THEN outTypes[1] ELSE <<"tuple">> \o outTypes,
                       rebuild_lets(s.prefix, IF one THEN Var(liveOut[1]) ELSE Tuple(MapSeq(liveOut, Var))), "")
    IN  IF liveOut = <<>> \/ ~Types(inner) \/ ~(Range(liveIn) \subseteq DOMAIN ty) THEN {}
        ELSE {[body |-> Let(liveOut, Call(f \o ".step", MapSeq(liveIn, Var)), s.rest), step |-> step]}

\* Down the lets and the branches that loop, to the first spine below an If
\* from which both or no further If branches loop.
RECURSIVE plan_extraction(_, _, _, _, _)
plan_extraction(n, f, P, ty, crossed_if) ==
    LET class == classify_spine(n, f)
        under(i, t, c) == {[p EXCEPT !.body = [n EXCEPT !.c[i] = p.body]] : p \in plan_extraction(n.c[i], f, P, t, c)}
    IN  CASE crossed_if /\ class = "Spine" -> plan_from_spine(n, f, P, ty)
          [] crossed_if /\ class = "Bail" -> {}
          [] n.k = "Let" -> IF f \in calls(n.c[1]) \/ ~Types(AddNode(P, ty, n)) THEN {}
                            ELSE under(2, AddNode(P, ty, n), crossed_if)
          [] n.k = "If" -> IF Cardinality(CallingBranches(n, f)) # 1 THEN {}
                           ELSE under(SetMin(CallingBranches(n, f)), ty, TRUE)
          [] OTHER -> {}

apply_plan(P, f) ==
    LET plans == plan_extraction(P[f].body, f, P, ParamTypes(P[f]), FALSE)
        plan  == CHOOSE p \in plans : TRUE
    IN  IF plans = {} THEN P
        ELSE ((f \o ".step") :> [plan.step EXCEPT !.helper = TRUE]) @@ [P EXCEPT ![f].body = plan.body]
extract_loop_bodies(P) == FoldSet(LAMBDA f, Q : apply_plan(Q, f), P, {f \in DOMAIN P : is_extractable_loop(P, f)})

-----------------------------------------------------------------------------
(* The pipeline. *)

Order == <<"Bytecode", "Translate", "LiftPhis", "InjectAborts", "Optimize", "FoldConstants", "DeadParams",
           "DropDefaults", "Decompose", "InlineAborts", "ExtractLoops">>

Init ==
    /\ mode \in {"Spec", "Test"}
    /\ source \in Corpus
    /\ targets = source
    /\ prog = NoFun
    /\ bundles = NoFun
    /\ stage = 0

Runs(name) == stage < Len(Order) /\ Order[stage + 1] = name /\ stage' = stage + 1

\* The processors of build_lean_pipeline that change code without mutable references.
Processed(fn) ==
    CleanAndOptimize(LiveVarProcess(copy_propagation(MutRefInstrument(EliminateImmRefs(generate_function(source, fn))))))
Bytecode ==
    /\ Runs("Bytecode")
    /\ targets' = [f \in DOMAIN source |-> Processed(source[f])]
    /\ UNCHANGED <<mode, source, prog, bundles>>

Rewrite(name, P) ==
    /\ Runs(name)
    /\ prog' = P
    /\ UNCHANGED <<mode, source, targets, bundles>>
Bodies(F(_)) == [f \in DOMAIN prog |-> [prog[f] EXCEPT !.body = F(@)]]
InSpec(P) == IF mode = "Spec" THEN P ELSE prog

Translate      == Rewrite("Translate", order_by_dependencies(build(source, targets)))
LiftPhis       == Rewrite("LiftPhis", Bodies(lift_post_threading_phis))
InjectAborts   == Rewrite("InjectAborts", InSpec(order_by_dependencies(inject_arithmetic_aborts(prog))))
Optimize       == Rewrite("Optimize", InSpec([f \in DOMAIN prog |-> OptimizeFn(prog, f)]))
FoldConstants  == Rewrite("FoldConstants", order_by_dependencies(InSpec(Bodies(fold_constant_calls))))
DeadParameters == Rewrite("DeadParams", order_by_dependencies(eliminate_dead_params(prog)))
DropDefaults   == Rewrite("DropDefaults", [f \in DOMAIN prog |->
                      [prog[f] EXCEPT !.body = IF prog[f].of = "" THEN @ ELSE replace_inhabited_let_values(@)]])
\* With contract_aborts, small bodies have bundles as well.
Decompose ==
    /\ Runs("Decompose")
    /\ \E contract \in BOOLEAN :
          LET d == decompose_aborts(prog, contract) IN prog' = d.prog /\ bundles' = d.bundles
    /\ UNCHANGED <<mode, source, targets>>
InlineAborts   == Rewrite("InlineAborts", inline_abort_only_after_calls(prog))
ExtractLoops   == Rewrite("ExtractLoops", extract_loop_bodies(prog))

Done == stage = Len(Order) /\ UNCHANGED vars

Next == Bytecode \/ Translate \/ LiftPhis \/ InjectAborts \/ Optimize \/ FoldConstants \/ DeadParameters \/ DropDefaults
        \/ Decompose \/ InlineAborts \/ ExtractLoops \/ Done
Spec == Init /\ [][Next]_vars

-----------------------------------------------------------------------------

Returns(vals) == IF Len(vals) = 1 THEN vals[1] ELSE TupleV(vals)
Applied(f, args) ==
    LET at(p) == args[IndexOf(ParamsOf(source["main"]), p)]
    IN  Eval(prog, prog[f].body, SetAll(NoFun, prog[f].params, MapSeq(prog[f].params, at)))

\* Where the compiled function returns, the Lean function has the same value:
\* the control flow put together again, its joins and loops, and every
\* rewriting after it (early_return.rs, phi_detection.rs, loop_handling.rs,
\* analysis/).
ValueKept ==
    stage >= 3 => \A args \in Samples :
        LET out == VMRun(source, "main", args)
        IN  out.st = "ret" => Applied("main", args) = Returns(out.vals)

\* In a specification, main.aborts is none where the compiled function returns
\* and tells of the abort where it does not.  What aborts behind a loop or a
\* recursive call is known to be left out (inject_arithmetic_aborts.rs).
Repeats(f) == \E g \in ReachableIn(CallEdges(prog), {f}) : prog[g].group # {}
AbortsExact ==
    stage >= 4 /\ mode = "Spec" => \A args \in Samples :
        LET out == VMRun(source, "main", args)
            said == Applied("main.aborts", args)
        IN  /\ out.st = "ret" => said = NoneV
            /\ out.st = "abort" /\ ~Repeats("main") => said[1] = "some"

\* The obligations of a bundle are what its function promises: where they all
\* hold it is none, the theorem f.aborts_none_of, and where it is none they hold,
\* so that none of them is beyond proof.  A let whose value binds a name again is
\* known to break it: bundle_subst replaces that name as well (decompose_aborts.rs).
BoundIn(n)  == UNION {Range(m.v) : m \in {m \in Nodes(n) : m.k = "Let"}}
Rebinds(fn) == \E n \in Nodes(fn.body) : n.k = "Let" /\ BoundIn(n.c[1]) \cap (Range(fn.params) \cup BoundIn(n.c[2]) \cup Range(n.v)) # {}
Met(o, env) ==
    LET v(e) == Eval(prog, e, env)
    IN  \/ \E c \in Range(o.path) : v(c[1]) = BoolV(~c[2])
        \/ v(o.e) = CASE o.kind = "OptionNone" -> NoneV [] OTHER -> BoolV(o.kind = "GuardTrue")
Broken(o, env) ==
    LET v(e) == Eval(prog, e, env)
    IN  /\ \A c \in Range(o.path) : v(c[1]) = BoolV(c[2])
        /\ IF o.kind = "OptionNone" THEN v(o.e)[1] = "some" ELSE v(o.e) = BoolV(o.kind = "GuardFalse")
Arguments(ptys) == Fold(LAMBDA S, t : {Append(s, v) : s \in S, v \in ValuesOf(t)}, {<<>>}, ptys)
ObligationsExact ==
    stage = Len(Order) /\ mode = "Spec" => \A f \in {g \in DOMAIN bundles : ~Rebinds(prog[g])} :
        LET fn == prog[f] IN
        \A args \in Arguments(fn.ptys) :
            LET env == SetAll(NoFun, fn.params, args)
                v   == Eval(prog, fn.body, env)
            IN  /\ v = NoneV => \A o \in bundles[f] : Met(o, env)
                /\ v[1] = "some" => \E o \in bundles[f] : Broken(o, env)

\* Every definition is closed, names a function that exists and gives it as many
\* arguments as it has parameters: Lean elaborates the file.  The passes that
\* take names out of a body, parameters out of a signature and arguments out of
\* calls agree with each other.
Closed ==
    stage >= 3 => \A f \in DOMAIN prog :
        /\ free_vars(prog[f].body) \subseteq Range(prog[f].params)
        /\ \A n \in Nodes(prog[f].body) :
              n.k = "Call" => n.v[1] \in DOMAIN prog /\ Len(n.c) = Len(prog[n.v[1]].params)

=============================================================================
