------------------------------- MODULE MoveVM -------------------------------
(***************************************************************************)
(* What a Move program means, on two machines that share their operations: *)
(* VMRun runs the stack code the compiler wrote, Run the stackless code    *)
(* the generator makes of it.  Here a reference is a location: a local     *)
(* and a path into it.  A call copies what its references point at in and  *)
(* out, which Move's borrow checker makes unobservable.                    *)
(*                                                                         *)
(* A stack instruction is <<opcode, argument...>>.                          *)
(***************************************************************************)
EXTENDS StacklessBytecode

\* The result of an operation, or none when it aborts: a set of at most one.
Only(cond, v) == IF cond THEN {v} ELSE {}
Constant(x) == IF x[1] = "bool" THEN BoolV(x[2]) ELSE UIntV(x[1], x[2])
Binary(op, a, b) ==
    LET w == a[2]
        x == a[3]
        y == b[3]
        num(n) == Only(Fits(w, n), UIntV(w, n))
    IN  CASE op \in {"Eq", "Neq"} -> {BoolV((a = b) = (op = "Eq"))}
          [] op = "And" -> {BoolV(a[2] /\ b[2])}
          [] op = "Or"  -> {BoolV(a[2] \/ b[2])}
          [] op \in CompareOps -> {BoolV(Compare(op, x, y))}
          [] op = "Add" -> num(x + y)
          [] op = "Sub" -> num(x - y)
          [] op = "Mul" -> num(x * y)
          [] op = "Div" -> IF y = 0 THEN {} ELSE num(x \div y)
          [] op = "Mod" -> IF y = 0 THEN {} ELSE num(x % y)
          [] op = "Shl" -> Only(y < Bits[w], UIntV(w, (x * 2 ^ y) % Bound(w)))
          [] op = "Shr" -> Only(y < Bits[w], UIntV(w, x \div 2 ^ y))
          [] OTHER -> num(BitWise(op, x, y, Bits[w]))
CastTo(w, a) == Only(Fits(w, a[3]), UIntV(w, a[3]))

\* Native vector functions, on values: what they return and what the vector becomes.
VectorNatives == {"vector::" \o f : f \in {"empty", "length", "push_back", "pop_back", "swap",
                                            "borrow", "borrow_mut", "destroy_empty"}}
Native(f, a) ==
    LET v == PartsOf(a[1])
        n(k) == a[k][3] + 1                       \* positions count from 0
        res(vals, w) == [vals |-> vals, vec |-> VectorV(w)]
    IN  CASE f = "vector::empty" -> {res(<<VectorV(<<>>)>>, <<>>)}
          [] f = "vector::length" -> {res(<<UIntV("u3", Len(v))>>, v)}
          [] f = "vector::push_back" -> {res(<<>>, Append(v, a[2]))}
          [] f = "vector::pop_back" -> Only(v # <<>>, res(<<v[Len(v)]>>, Front(v)))
          [] f = "vector::swap" -> Only({n(2), n(3)} \subseteq DOMAIN v,
                                        res(<<>>, [v EXCEPT ![n(2)] = v[n(3)], ![n(3)] = v[n(2)]]))
          [] f = "vector::destroy_empty" -> Only(v = <<>>, res(<<>>, v))
          [] OTHER -> Only(n(2) \in DOMAIN v, res(<<v[n(2)]>>, v))

-----------------------------------------------------------------------------
(* Memory. *)

\* An outcome: how the function ended, what it returned, what its mutable
\* reference parameters point at.
Outcome(st, vals, muts) == [st |-> st, vals |-> vals, muts |-> muts]
Aborted == Outcome("abort", <<>>, <<>>)
Diverged == Outcome("fuel", <<>>, <<>>)
Running == Outcome("run", <<>>, <<>>)

Loc(t, path) == <<"loc", t, path>>
IsLoc(v) == v[1] = "loc"
ParamCell(p) == "^" \o p
Deref(env, v) == IF IsLoc(v) THEN At(env[v[2]], v[3]) ELSE v
Poke(env, r, v) == [env EXCEPT ![r[2]] = Updated(@, r[3], v)]

InitialEnv(fn, args) ==
    LET ps == ParamsOf(fn)
        refs == RefParams(fn)
        at(p) == args[CHOOSE i \in DOMAIN ps : ps[i] = p]
    IN  SetAll(SetAll(NoFun, ps, MapSeq(ps, LAMBDA p : IF IsRef(fn.types[p]) THEN Loc(ParamCell(p), <<>>) ELSE at(p))),
               MapSeq(refs, ParamCell), MapSeq(refs, at))
Returned(fn, vals, env) == Outcome("ret", vals, MapSeq(MutParams(fn), LAMBDA p : env[ParamCell(p)]))

\* The operations that are not control, on argument values: at most one sequence of results.
Compute(op, x, args, env) ==
    LET v == args[1]
        val == Deref(env, v)
        into(i) == Loc(v[2], Append(v[3], i))
    IN  CASE op = "Load" -> {<<Constant(x)>>}
          [] op \in {"Assign", "FreezeRef"} -> {args}
          [] op \in BinaryOps -> {<<r>> : r \in Binary(op, val, Deref(env, args[2]))}
          [] op = "Not" -> {<<BoolV(~v[2])>>}
          [] op = "Cast" -> {<<r>> : r \in CastTo(x[1], v)}
          [] op = "Pack" -> {<<StructV(x[1], args)>>}
          [] op = "PackVariant" -> {<<EnumV(x[1], x[2], args)>>}
          [] op = "Unpack" -> {PartsOf(v)}
          [] op = "UnpackVariant" -> {IF IsLoc(v) THEN [i \in DOMAIN PartsOf(val) |-> into(i)] ELSE PartsOf(v)}
          [] op = "BorrowField" -> {<<into(x[2])>>}
          [] op = "GetField" -> {<<PartsOf(val)[x[2]]>>}
          [] op = "ReadRef" -> {<<val>>}
          [] OTHER -> {<<>>}                       \* Destroy, Nop, Label

\* The environment and the results after a call of g that ended with `out`.
AfterCall(g, args, out, env) ==
    LET refs == SelectSeq([i \in DOMAIN args |-> i], LAMBDA i : IsRef(g.types[g.locals[i]]))
        muts == SelectSeq(refs, LAMBDA i : IsMutRef(g.types[g.locals[i]]))
        of(c) == args[CHOOSE i \in Range(refs) : ParamCell(g.locals[i]) = c]
        home(v) == IF IsLoc(v) THEN Loc(of(v[2])[2], of(v[2])[3] \o v[3]) ELSE v
    IN  [env |-> FoldAt(LAMBDA e, k : Poke(e, args[muts[k]], out.muts[k]), env, muts),
         vals |-> MapSeq(out.vals, home)]
\* The same for a native; borrow and borrow_mut return a path into the vector.
AfterNative(f, args, env) ==
    {[env |-> IF args # <<>> /\ IsLoc(args[1]) THEN Poke(env, args[1], r.vec) ELSE env,
      vals |-> IF f \in {"vector::borrow_mut", "vector::borrow"} /\ IsLoc(args[1])
               THEN <<Loc(args[1][2], Append(args[1][3], args[2][3] + 1))>> ELSE r.vals] :
        r \in Native(f, MapSeq(args, LAMBDA a : Deref(env, a)))}

-----------------------------------------------------------------------------
(* The stackless machine: where it is, what its locals hold, how it ended. *)

Machine(pc, env, stack) == [pc |-> pc, env |-> env, stack |-> stack, out |-> Running]
Ended(out) == [pc |-> 0, env |-> NoFun, stack |-> <<>>, out |-> out]

RECURSIVE Exec(_, _, _, _)
Step(P, fn, m, fuel) ==
    LET bc == fn.code[m.pc]
        env == m.env
        args == MapSeq(bc.s, LAMBDA t : env[t])
        go(l) == Machine(label_offsets(fn.code)[l], env, <<>>)
        next(e, vals) == Machine(m.pc + 1, SetAll(e, bc.d, vals), <<>>)
        results(R) == IF R = {} THEN Ended(Aborted) ELSE LET r == CHOOSE x \in R : TRUE IN next(r.env, r.vals)
    IN  CASE bc.op = "Ret" -> Ended(Returned(fn, args, env))
          [] bc.op = "Abort" -> Ended(Aborted)
          [] bc.op = "Jump" -> go(bc.x[1])
          [] bc.op = "Branch" -> go(IF args[1][2] THEN bc.x[1] ELSE bc.x[2])
          [] bc.op = "VariantSwitch" -> go(bc.x[Deref(env, args[1])[3]])
          [] bc.op = "WriteRef" -> next(Poke(env, args[1], args[2]), <<>>)
          [] bc.op = "BorrowLoc" -> next(env, <<Loc(bc.s[1], <<>>)>>)
          [] bc.op = "Uninit" -> next(env, <<>>)
          [] bc.op = "Function" /\ bc.x[1] \in VectorNatives -> results(AfterNative(bc.x[1], args, env))
          [] bc.op = "Function" ->
                LET g == P[bc.x[1]]
                    out == Exec(P, g, Machine(1, InitialEnv(g, MapSeq(args, LAMBDA a : Deref(env, a))), <<>>), fuel - 1)
                IN  IF out.st = "ret" THEN results({AfterCall(g, args, out, env)}) ELSE Ended(out)
          [] OTHER -> results({[env |-> env, vals |-> vs] : vs \in Compute(bc.op, bc.x, args, env)})
Exec(P, fn, m, fuel) == CASE m.out # Running -> m.out
                          [] fuel = 0 -> Diverged
                          [] OTHER -> Exec(P, fn, Step(P, fn, m, fuel), fuel - 1)

-----------------------------------------------------------------------------
(* The stack machine. *)

PopCount(P, fn, bc) ==
    CASE bc[1] \in {"LdConst", "CopyLoc", "MoveLoc", "MutBorrowLoc", "ImmBorrowLoc", "Branch", "Nop"} -> 0
      [] bc[1] \in BinaryOps \cup {"WriteRef", "VecMutBorrow", "VecImmBorrow", "VecPushBack"} -> 2
      [] bc[1] = "VecSwap" -> 3
      [] bc[1] = "Pack" -> Len(StructFields[bc[2]])
      [] bc[1] = "PackVariant" -> Len(EnumVariants[bc[2]][bc[3]])
      [] bc[1] = "VecPack" -> bc[3]
      [] bc[1] = "Call" -> P[bc[2]].params
      [] bc[1] = "Ret" -> Len(fn.ret)
      [] OTHER -> 1

VectorCall == [VecLen |-> "vector::length", VecMutBorrow |-> "vector::borrow_mut", VecImmBorrow |-> "vector::borrow",
               VecPushBack |-> "vector::push_back", VecPopBack |-> "vector::pop_back", VecSwap |-> "vector::swap"]
\* The operation of the stackless machine that computes the same.
SameOp(bc) == CASE bc[1] = "LdConst" -> "Load"
                [] bc[1] \in {"MutBorrowField", "ImmBorrowField"} -> "BorrowField"
                [] bc[1] \in {"UnpackVariantMutRef", "UnpackVariantImmRef"} -> "UnpackVariant"
                [] OTHER -> bc[1]

RECURSIVE VMExec(_, _, _, _)
VMStep(P, fn, m, fuel) ==
    LET bc == fn.code[m.pc]
        env == m.env
        k == Len(m.stack) - PopCount(P, fn, bc)
        args == SubSeq(m.stack, k + 1, Len(m.stack))
        go(to, e, vals) == Machine(to, e, SubSeq(m.stack, 1, k) \o vals)
        next(e, vals) == go(m.pc + 1, e, vals)
        results(R) == IF R = {} THEN Ended(Aborted) ELSE LET r == CHOOSE x \in R : TRUE IN next(r.env, r.vals)
    IN  CASE bc[1] = "Ret" -> Ended(Returned(fn, args, env))
          [] bc[1] = "Abort" -> Ended(Aborted)
          [] bc[1] = "Branch" -> go(bc[2], env, <<>>)
          [] bc[1] \in {"BrTrue", "BrFalse"} -> go(IF args[1][2] = (bc[1] = "BrTrue") THEN bc[2] ELSE m.pc + 1, env, <<>>)
          [] bc[1] = "VariantSwitch" -> go(bc[2][Deref(env, args[1])[3]], env, <<>>)
          [] bc[1] \in {"CopyLoc", "MoveLoc"} -> next(env, <<env[bc[2]]>>)
          [] bc[1] = "StLoc" -> next(SetAll(env, <<bc[2]>>, args), <<>>)
          [] bc[1] \in {"MutBorrowLoc", "ImmBorrowLoc"} -> next(env, <<Loc(bc[2], <<>>)>>)
          [] bc[1] = "WriteRef" -> next(Poke(env, args[2], args[1]), <<>>)
          [] bc[1] = "VecPack" -> next(env, <<VectorV(args)>>)
          [] bc[1] = "VecUnpack" -> IF Len(PartsOf(args[1])) = bc[3] THEN next(env, PartsOf(args[1])) ELSE Ended(Aborted)
          [] bc[1] \in DOMAIN VectorCall -> results(AfterNative(VectorCall[bc[1]], args, env))
          [] bc[1] = "Call" ->
                LET g == P[bc[2]]
                    out == VMExec(P, g, Machine(1, InitialEnv(g, MapSeq(args, LAMBDA a : Deref(env, a))), <<>>), fuel - 1)
                IN  IF out.st = "ret" THEN results({AfterCall(g, args, out, env)}) ELSE Ended(out)
          [] OTHER -> results({[env |-> env, vals |-> vs] : vs \in Compute(SameOp(bc), Tail(bc), args, env)})
VMExec(P, fn, m, fuel) == CASE m.out # Running -> m.out
                            [] fuel = 0 -> Diverged
                            [] OTHER -> VMExec(P, fn, VMStep(P, fn, m, fuel), fuel - 1)

-----------------------------------------------------------------------------
(* What a caller sees: not a reference the function returned, but its target. *)

Fuel == 250
Seen(fn, args, out) ==
    LET cells == SetAll(InitialEnv(fn, args), MapSeq(MutParams(fn), ParamCell), out.muts)
    IN  IF out.st # "ret" THEN out ELSE [out EXCEPT !.vals = MapSeq(@, LAMBDA v : Deref(cells, v))]
Run(P, f, args)   == Seen(P[f], args, Exec(P, P[f], Machine(1, InitialEnv(P[f], args), <<>>), Fuel))
VMRun(P, f, args) == Seen(P[f], args, VMExec(P, P[f], Machine(1, InitialEnv(P[f], args), <<>>), Fuel))

=============================================================================
