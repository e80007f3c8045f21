------------------------- MODULE ContractTranslation -------------------------
(***************************************************************************)
(* From a function and its spec to what the solver is asked: the abort     *)
(* checks (spec_instrumentation.rs), the styles in which one spec is       *)
(* written (bytecode_translator.rs), and what Boogie makes of them.        *)
(*                                                                         *)
(* A spec is a function that states conditions, calls its target once and  *)
(* states more:  requires(..); asserts(..); let r = f(x); ensures(..).     *)
(*   requires   what a caller owes;                                        *)
(*   asserts    the function aborts exactly when one of them is false;     *)
(*   ensures    what holds of the result.                                  *)
(* It is written as a proof (verify), as a check of its own code (sna), as *)
(* its conditions (asserts, aborts), and as the contract that stands for   *)
(* the function in the callers' proofs (plain).                            *)
(***************************************************************************)
EXTENDS LoopInvariants, MoveVM

CONSTANT Packages    \* [code, of (spec -> function), ignore, omit: sets of specs]

VARIABLES
    pkg,
    stage,     \* the next pass, or "refused", "solve", "done"
    fns,       \* the functions as the passes have left them
    text,      \* what the translator wrote: mode -> name -> procedure
    goals,     \* <<mode, name>>: what the solver has not been asked yet
    failed     \* the goals it could not prove

vars == <<pkg, stage, fns, text, goals, failed>>

Modes      == {"Check", "Assume", "SpecNoAbortCheck"}
Conditions == {"requires", "ensures", "asserts"}
Specs      == DOMAIN pkg.of
SpecsOf(f) == {s \in Specs : pkg.of[s] = f}
HasSpec(f) == SpecsOf(f) # {}
SpecOf(f)  == CHOOSE s \in SpecsOf(f) : TRUE
HasAsserts(s) == "asserts" \in Calls(pkg.code[s].code)

-----------------------------------------------------------------------------
(* Abort checks. *)

Aborting == AbortingOps \ {"Abort"}            \* can_abort
IsChecked(bc) == "aa" \in DOMAIN bc
Check(bc)   == [aa |-> "Check"] @@ bc
Uncheck(bc) == Without(bc, {"aa"})

\* no_abort_analysis.rs, for calls without recursion.  A callee's spec that states
\* no abort condition answers for it, except in that spec itself.
NoAbortSpec(f) == HasSpec(f) /\ SpecOf(f) \notin pkg.ignore /\ ~HasAsserts(SpecOf(f))
RECURSIVE does_not_abort(_, _)
does_not_abort(f, caller) ==
    \/ f \in Conditions
    \/ NoAbortSpec(f) /\ SpecOf(f) # caller
    \/ /\ ~MayAbort(pkg.code[f].code)
       /\ \A g \in Calls(pkg.code[f].code) : does_not_abort(g, f)

instrument_bytecode(name, bc) ==
    CASE bc.op = "Function" -> IF does_not_abort(bc.x[1], name) THEN Uncheck(bc) ELSE Check(bc)
      [] bc.op \in Aborting -> Check(bc)
      [] OTHER -> bc

Optimized(fn) == LiveVarProcess(copy_propagation(fn))
Instrumented(fn) == Optimized([fn EXCEPT !.code = MapSeq(@, LAMBDA bc : instrument_bytecode(fn.name, bc))])

-----------------------------------------------------------------------------
(* translate_function_style: one spec, written in a style for a mode. *)

As(bc, f) == Uncheck([bc EXCEPT !.x = <<f>>])
Havocked(bc) == MapSeq(bc.d, Havoc)

\* Mutant: the abort conditions are no precondition of the proof.
DefaultKeepsNone(s, m, bc) ==
    CASE IsCallTo(bc, "asserts") -> <<>>
      [] IsCallTo(bc, "ensures") -> IF m = "Assume" /\ s \notin pkg.ignore THEN <<>> ELSE <<Uncheck(bc)>>
      [] IsCallTo(bc, pkg.of[s]) -> <<bc>>
      [] OTHER -> <<Uncheck(bc)>>

DefaultStyle(s, m, bc) ==
    CASE IsCallTo(bc, "asserts") -> IF m = "Check" THEN <<As(bc, "requires")>> ELSE <<>>
      [] IsCallTo(bc, "ensures") -> IF m = "Assume" /\ s \notin pkg.ignore THEN <<>> ELSE <<Uncheck(bc)>>
      [] IsCallTo(bc, pkg.of[s]) -> <<bc>>
      [] OTHER -> <<Uncheck(bc)>>

ConditionStyle(s, style, bc) ==
    CASE IsCallTo(bc, "requires") \/ IsCallTo(bc, "ensures") \/ IsCallTo(bc, pkg.of[s]) \/ bc.op = "Ret" -> <<>>
      [] IsCallTo(bc, "asserts") -> <<As(bc, IF style = "asserts" THEN "ensures" ELSE "requires")>>
      [] OTHER -> <<Uncheck(bc)>>

NoAbortStyle(s, bc) ==
    CASE IsCallTo(bc, pkg.of[s]) -> IF s \in pkg.omit THEN <<bc>> ELSE <<Uncheck(bc)>> \o Havocked(bc)
      [] IsCallTo(bc, "ensures") \/ IsCallTo(bc, "asserts") -> <<[bc EXCEPT !.x = <<"requires">>]>>
      [] OTHER -> <<bc>>

OpaqueStyle(s, m, bc) ==
    CASE IsCallTo(bc, "asserts") -> IF m = "Check" THEN <<As(bc, "ensures")>> ELSE <<>>
      [] IsCallTo(bc, pkg.of[s]) ->
            (IF s \in pkg.omit \/ ~does_not_abort(pkg.of[s], "") THEN <<bc>> ELSE <<Uncheck(bc)>>)
            \o IF s \in pkg.omit THEN <<>> ELSE Havocked(bc)
      [] IsCallTo(bc, "ensures") -> <<As(bc, "requires")>>
      [] IsCallTo(bc, "requires") -> <<As(bc, "ensures")>>
      [] OTHER -> <<Uncheck(bc)>>

StyleOne(s, style, m, bc) ==
    CASE style = "verify" -> DefaultStyle(s, m, bc)
      [] style \in {"asserts", "aborts"} -> ConditionStyle(s, style, bc)
      [] style = "sna" -> NoAbortStyle(s, bc)
      [] OTHER -> OpaqueStyle(s, m, bc)

\* Functions with a body do their own checks.
StripCalls(bc) == IF bc.op = "Function" /\ bc.x[1] \notin Conditions THEN Uncheck(bc) ELSE bc

Styled(s, style, m) ==
    LET code == Fold(LAMBDA acc, bc : acc \o MapSeq(StyleOne(s, style, m, bc), StripCalls), <<>>, fns[s].code)
    IN  IF code = <<>> THEN [fns[s] EXCEPT !.code = code] ELSE Optimized([fns[s] EXCEPT !.code = code])

\* Which styles are written in which mode, for specs that are proved.
ModeAllows(s, style, m) ==
    CASE style = "sna" -> m = "SpecNoAbortCheck"
      [] style \in {"asserts", "aborts"} -> m = "Assume" /\ HasAsserts(s)
      [] style = "verify" -> \/ m = "Check" /\ s \notin pkg.ignore
                             \/ m = "Assume" /\ (s \in pkg.ignore \/ HasAsserts(s))
      [] OTHER -> TRUE

-----------------------------------------------------------------------------
(* The procedures of a mode, under their names <<style, name>>: the code,  *)
(* the spec it is written from (or none), and the mode.                    *)

Procedure(fn, spec, style, m) == [fn |-> fn, spec |-> spec, style |-> style, m |-> m]
SpecStyles == {"verify", "sna", "asserts", "aborts", "opaque"}
NameOf(s, style) == CASE style = "aborts" -> <<"aborts", pkg.of[s]>>
                      [] style = "opaque" -> <<"plain", pkg.of[s]>>
                      [] OTHER -> <<style, s>>
\* An ordinary function is written as its callers see it, or next to its contract.
CodeName(f) == <<IF HasSpec(f) THEN "impl" ELSE "plain", f>>

TextOf(m) ==
    LET written == {x \in Specs \X SpecStyles : ModeAllows(x[1], x[2], m)}
        code == DOMAIN fns \ Specs
    IN  [n \in {NameOf(x[1], x[2]) : x \in written} |->
            LET x == CHOOSE y \in written : NameOf(y[1], y[2]) = n IN Procedure(Styled(x[1], x[2], m), {x[1]}, x[2], m)]
        @@ [n \in {CodeName(f) : f \in code} |-> Procedure(fns[n[2]], {}, n[1], m)]

GoalsOf == {<<m, <<style, s>>>> : <<m, style, s>> \in
              {x \in Modes \X {"verify", "sna"} \X Specs : ModeAllows(x[3], x[2], x[1])}}

\* The procedure that a call names; f$opaque has no code.
CalleeOf(u, f) ==
    CASE \A s \in u.spec : pkg.of[s] # f -> <<"plain", f>>
      [] u.style = "verify" -> <<"impl", f>>
      [] u.style = "opaque" /\ u.spec \subseteq pkg.omit -> <<"impl", f>>
      [] OTHER -> <<"opaque", f>>

\* What is called before a return in Assume mode.
ReturnCalls(u) ==
    {NameOf(s, IF u.style = "verify" THEN "asserts" ELSE "aborts") :
        s \in {x \in u.spec : /\ u.m = "Assume" /\ x \notin pkg.ignore /\ HasAsserts(x)
                              /\ u.style = "verify" \/ (u.style = "opaque" /\ x \notin pkg.omit)}}
\* A contract that says nothing of aborts cannot be used where none may happen.
ReturnFails(u) == u.m # "Assume" /\ u.style = "opaque" /\ \E s \in u.spec : s \notin pkg.omit /\ s \in pkg.ignore

-----------------------------------------------------------------------------
(* Boogie.  A state is where a unit is, what its variables hold, and the   *)
(* abort flag; a procedure ends in failure of an assertion, or returns.    *)

At_(pc, env, flag) == <<"at", pc, env, flag>>
Failure == <<"fail">>
Return(vals, flag) == <<"ret", vals, flag>>
Assuming(ok, st) == IF ok THEN {st} ELSE {}
Asserting(ok, st) == IF ok THEN {st} ELSE {Failure}

\* The prelude's arithmetic: unbounded, with the flag set out of range.
Flagged(ty, n) == <<{UIntV(ty, n)}, ~Fits(ty, n)>>
PreludeProduct(op, a, b) ==
    CASE op = "Mul" -> Flagged(a[2], a[3] * b[3])
      [] b[3] = 0 -> <<Values(UIntT(a[2])), TRUE>>
      [] op = "Div" -> Flagged(a[2], a[3] \div b[3])
      [] OTHER -> Flagged(a[2], a[3] % b[3])
PreludeArith(op, a, b) ==
    CASE op = "Add" -> Flagged(a[2], a[3] + b[3])
      [] op = "Sub" -> Flagged(a[2], a[3] - b[3])
      [] OTHER -> PreludeProduct(op, a, b)

AbortCheck(u, bc, st) ==
    CASE ~IsChecked(bc) -> {st}
      [] u.m = "Assume" -> Assuming(~st[4], st)
      [] OTHER -> Asserting(~st[4], st)

\* What may be read before it is set holds anything.
Entry(u, args, flag) ==
    LET ps == ParamsOf(u.fn)
        bound == SetAll(NoFun, ps, args)
        open == IF u.fn.code = <<>> THEN {} ELSE analyze_live(u.fn.code)[1].before \ Range(ps)
    IN  {At_(1, bound @@ e, flag) : e \in {x \in [open -> UNION {Values(u.fn.types[t]) : t \in open}] :
                                              \A t \in open : x[t] \in Values(u.fn.types[t])}}

RECURSIVE Outcomes(_, _, _)
RECURSIVE Explored(_, _, _, _)

CallAll(units, args, flag) ==        \* units without results, one after the other
    IF units = {} THEN {Return(<<>>, flag)} ELSE Outcomes(CHOOSE x \in units : TRUE, args, flag)

BoogieStep(u, args, st) ==
    LET bc == u.fn.code[st[2]]
        env == st[3]
        flag == st[4]
        vals == MapSeq(bc.s, LAMBDA t : env[t])
        next(vs, fl) == At_(st[2] + 1, SetAll(env, bc.d, vs), fl)
        go(l) == {At_(label_offsets(u.fn.code)[l], env, flag)}
        any == {At_(st[2] + 1, With(env, bc.d[1], v), flag) : v \in Values(u.fn.types[bc.d[1]])}
        callee == CalleeOf(u, bc.x[1])
    IN  CASE bc.op = "Ret" ->
                IF ReturnFails(u) THEN {Failure}
                ELSE {IF r = Failure THEN r ELSE Return(vals, r[3]) :
                         r \in CallAll({text[u.m][c] : c \in ReturnCalls(u)}, args, flag)}
          [] bc.op = "Abort" -> IF u.m = "Assume" THEN {} ELSE {Failure}
          [] bc.op = "Stop" -> {}
          [] bc.op = "Jump" -> go(bc.x[1])
          [] bc.op = "Branch" -> go(bc.x[IF vals[1] = BoolV(TRUE) THEN 1 ELSE 2])
          [] bc.op = "Havoc" -> any
          [] IsCallTo(bc, "requires") -> Assuming(vals[1] = BoolV(TRUE), next(<<>>, flag))
          [] IsCallTo(bc, "ensures") -> Asserting(vals[1] = BoolV(TRUE), next(<<>>, flag))
          [] bc.op = "Function" /\ callee[1] = "opaque" -> any
          [] bc.op = "Function" ->
                UNION {IF r = Failure THEN {r} ELSE AbortCheck(u, bc, next(r[2], r[3])) :
                          r \in Outcomes(text[u.m][callee], vals, flag)}
          [] bc.op \in Aborting ->
                LET r == PreludeArith(bc.op, vals[1], vals[2])
                IN  UNION {AbortCheck(u, bc, next(<<v>>, flag \/ r[2])) : v \in r[1]}
          [] OTHER -> {next(vs, flag) : vs \in Compute(bc.op, bc.x, vals, env)}

\* A unit without a return falls off its end.
Explored(u, args, front, seen) ==
    LET at == {st \in front : st[1] = "at" /\ st[2] \in DOMAIN u.fn.code}
        over == {IF st[1] = "at" THEN Return(<<>>, st[4]) ELSE st : st \in front \ at}
        after == UNION {BoogieStep(u, args, st) : st \in at}
    IN  IF front = {} THEN {} ELSE over \cup Explored(u, args, after \ seen, seen \cup front)

Outcomes(u, args, flag) == Explored(u, args, Entry(u, args, flag), {})

Arguments(fn) == Products(MapSeq(ParamsOf(fn), LAMBDA p : fn.types[p]))
\* $InitVerification clears the flag; the parameters are well formed.
Proved(u) == \A args \in Arguments(u.fn) : Failure \notin Outcomes(u, args, FALSE)

-----------------------------------------------------------------------------
Init == /\ pkg \in Packages
        /\ stage = "move_loop_invariants"
        /\ fns = pkg.code
        /\ text = NoFun /\ goals = {} /\ failed = {}

Pass(from, to, F(_)) ==
    /\ stage = from /\ stage' = to
    /\ fns' = [f \in DOMAIN fns |-> F(fns[f])]
    /\ UNCHANGED <<pkg, text, goals, failed>>

\* An invariant that cannot be placed is an error, and nothing is proved.
Refuse ==
    /\ stage = "move_loop_invariants"
    /\ \E f \in DOMAIN fns : LoopInvariantsRefused(fns, fns[f])
    /\ stage' = "refused"
    /\ UNCHANGED <<pkg, fns, text, goals, failed>>
MoveInvariants ==
    /\ \A f \in DOMAIN fns : ~LoopInvariantsRefused(fns, fns[f])
    /\ Pass("move_loop_invariants", "optimize", LAMBDA fn : MoveLoopInvariants(fns, fn))
Optimize == Pass("optimize", "loop_analysis", Optimized)
AnalyzeLoops == Pass("loop_analysis", "spec_instrumentation", LoopAnalysis)
Instrument == Pass("spec_instrumentation", "translate", Instrumented)
Translate ==
    /\ stage = "translate" /\ stage' = "solve"
    /\ text' = [m \in Modes |-> TextOf(m)]
    /\ goals' = GoalsOf
    /\ UNCHANGED <<pkg, fns, failed>>
Solve(g) ==
    /\ stage = "solve" /\ g \in goals
    /\ goals' = goals \ {g}
    /\ failed' = IF Proved(text[g[1]][g[2]]) THEN failed ELSE failed \cup {g}
    /\ UNCHANGED <<pkg, stage, fns, text>>
Finish ==
    /\ stage = "solve" /\ goals = {}
    /\ stage' = "done"
    /\ UNCHANGED <<pkg, fns, text, goals, failed>>
Finished == stage \in {"done", "refused"} /\ UNCHANGED vars

Next == \/ Refuse \/ MoveInvariants \/ Optimize \/ AnalyzeLoops \/ Instrument \/ Translate
        \/ \E g \in goals : Solve(g)
        \/ Finish \/ Finished
Spec == Init /\ [][Next]_vars

-----------------------------------------------------------------------------
(* What a spec means, on the program as it was written: the conditions it  *)
(* states, in order, with their values, and how the target ended.          *)

\* What is written for the prover does nothing in a run.
Runnable == [f \in DOMAIN pkg.code |-> [pkg.code[f] EXCEPT !.code =
                MapSeq(@, LAMBDA bc : IF bc.op = "Function" /\ bc.x[1] \notin DOMAIN pkg.code THEN Nop ELSE bc)]]

RECURSIVE Told(_, _, _)
Told(s, mach, log) ==
    LET fn == pkg.code[s]
        bc == fn.code[mach.pc]
        vals == MapSeq(bc.s, LAMBDA t : mach.env[t])
        on(vs) == Machine(mach.pc + 1, SetAll(mach.env, bc.d, vs), <<>>)
        out == Run(Runnable, pkg.of[s], vals)
    IN  CASE mach.out # Running -> Append(log, <<"end", mach.out.st>>)
          [] mach.out = Running /\ bc.op = "Function" /\ bc.x[1] \in Conditions ->
                Told(s, on(<<>>), Append(log, <<bc.x[1], vals[1] = BoolV(TRUE)>>))
          [] mach.out = Running /\ IsCallTo(bc, pkg.of[s]) ->
                IF out.st = "ret" THEN Told(s, on(out.vals), Append(log, <<"call", "ret">>)) ELSE Append(log, <<"call", out.st>>)
          [] OTHER -> Told(s, Step(Runnable, fn, mach, Fuel), log)
Account(s, args) == Told(s, Machine(1, InitialEnv(pkg.code[s], args), <<>>), <<>>)

Says(log, what, value) == <<what, value>> \in Range(log)
\* The abort conditions say exactly when the function aborts.
AbortsAsSaid(s, log) ==
    s \in pkg.ignore \/ (Says(log, "call", "abort") <=> Says(log, "asserts", FALSE))
ResultAsSaid(log) == Says(log, "call", "ret") => ~Says(log, "ensures", FALSE) /\ ~Says(log, "end", "abort")
Keeps(s, log) == Says(log, "requires", FALSE) \/ (AbortsAsSaid(s, log) /\ ResultAsSaid(log))
ContractHolds(s) == \A args \in Arguments(pkg.code[s]) : Keeps(s, Account(s, args))

\* When every goal of every spec is proved, every spec is true of the program:
\* the proof of one function uses the contracts of the functions it calls, and
\* the goals of one spec are spread over three modes (translate_function_style).
ContractsHold == stage = "done" /\ failed = {} => \A s \in Specs : ContractHolds(s)

\* For code without loops that uses no contract, and a spec whose own code does
\* not abort, a proof fails only when the spec is wrong: in the mode Check because the function aborts or an ensures is false
\* where requires and asserts hold, in the mode Assume because it returns where
\* an asserts is false.
Simple(s) == /\ find_loops_headers(pkg.code[pkg.of[s]].code) = NoFun
             /\ \A f \in Calls(pkg.code[pkg.of[s]].code) : ~HasSpec(f)
             /\ \A args \in Arguments(pkg.code[s]) : ~Says(Account(s, args), "end", "abort")
Reason(s, m, log) ==
    /\ ~Says(log, "requires", FALSE)
    /\ IF s \in pkg.ignore THEN Says(log, "call", "ret") /\ Says(log, "ensures", FALSE)
       ELSE IF m = "Check"
            THEN ~Says(log, "asserts", FALSE) /\ (Says(log, "call", "abort") \/ Says(log, "ensures", FALSE))
            ELSE Says(log, "asserts", FALSE) /\ Says(log, "call", "ret")
VerdictExact ==
    stage = "done" => \A s \in {x \in Specs : Simple(x)} : \A m \in {"Check", "Assume"} :
        ModeAllows(s, "verify", m) =>
            ((<<m, <<"verify", s>>>> \in failed) <=> \E args \in Arguments(pkg.code[s]) : Reason(s, m, Account(s, args)))

=============================================================================
