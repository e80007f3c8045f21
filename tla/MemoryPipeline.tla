--------------------------- MODULE MemoryPipeline ---------------------------
(***************************************************************************)
(* A program on its way through the processors that take references out of *)
(* it, in the order of pipeline_factory.rs, and what it means at each      *)
(* stage.                                                                  *)
(*                                                                         *)
(* What the Boogie program made of a function's instrumented bytecode      *)
(* computes (bytecode_translator.rs, prelude.bpl).  A mutable reference is *)
(* a mutation: a location, a path and a copy of the value; nothing but a   *)
(* write-back moves the value to where the reference came from.  A call is *)
(* inlined: it gives back every mutable reference it was given.            *)
(*                                                                         *)
(* A variable that was never set has an arbitrary value: a run that        *)
(* depends on one ends "undef".                                            *)
(*                                                                         *)
(* A pure function, used in specifications, becomes one Boogie expression. *)
(* conditional_merge_insertion.rs gives every assignment of a variable a   *)
(* name of its own and joins the names after each conditional;             *)
(* generate_pure_expression (bytecode_translator.rs) then forgets about    *)
(* control flow and reads the assignments in code order.                   *)
(***************************************************************************)
EXTENDS MemoryInstrumentation

Mutation(l, p, v) == <<"mut", l, p, v>>
LocalLocation(i)  == <<"Local", i>>
ParamLocation(i)  == <<"Param", i>>
Uninitialized     == <<"Uninitialized", 0>>
Garbage           == <<"undef">>
Undefined         == Outcome("undef", <<>>, <<>>)
IsMutation(v)     == v[1] = "mut"
Dereference(m)    == IF IsMutation(m) THEN m[4] ELSE m
UpdateMutation(m, v) == [m EXCEPT ![4] = v]
ChildMutation(m, off, v) == Mutation(m[2], Append(m[3], off), v)

\* (tag << 32) | offset, scaled down; tags and fields count from 1 here.
variant_field_offset(tag, off) == (tag - 1) * 2 ^ 10 + off

-----------------------------------------------------------------------------
(* Is a mutation the parent of another along an edge. *)

EdgePattern(edge) ==
    LET pat(e) == CASE e[1] = "Field" -> e[3]
                    [] e[1] = "EnumField" -> variant_field_offset(e[4], e[3])
                    [] OTHER -> -1
    IN  MapSeq(SelectSeq(flatten(edge), LAMBDA e : e # Direct), pat)
IsParentMutation(parent, pattern, child) ==
    LET pp == parent[3]
        cp == child[3]
    IN  /\ parent[2] = child[2]
        /\ Len(cp) = Len(pp) + Len(pattern)
        /\ \A i \in DOMAIN pp : pp[i] = cp[i]
        /\ \A i \in DOMAIN pattern : pattern[i] \in {-1, cp[Len(pp) + i]}

-----------------------------------------------------------------------------
(* translate_write_back_update: the destination with the part along the    *)
(* edges replaced; an index is read from the path of the source.           *)

RECURSIVE WriteBackUpdate(_, _, _, _)
WriteBackUpdate(dest, edges, path, src) ==
    IF edges = <<>> THEN src
    ELSE LET e == Head(edges)
             into(i) == WithParts(dest, [PartsOf(dest) EXCEPT ![i] = WriteBackUpdate(@, Tail(edges), Tail(path), src)])
         IN  CASE e[1] = "Direct" -> WriteBackUpdate(dest, Tail(edges), path, src)
               [] dest = Garbage -> Garbage
               [] e[1] \in {"Field", "EnumField"} -> into(e[3])
               [] OTHER -> into(Head(path) + 1)

WriteBackTo(env, node, edge, m) ==
    LET t == node[2] IN
    CASE node[1] = "LocalRoot" -> [env EXCEPT ![t] = m[4]]
      [] t \notin DOMAIN env -> env
      [] OTHER -> LET p == env[t]
                      rest == SubSeq(m[3], Len(p[3]) + 1, Len(m[3]))
                  IN  [env EXCEPT ![t] = UpdateMutation(p, WriteBackUpdate(p[4], flatten(edge), rest, m[4]))]

-----------------------------------------------------------------------------
(* The statements of one instruction. *)

\* Numbers: $AddU8, $Sub, $MulU8, $Div, $Mod, $Shl, $Shr of the prelude, which abort.
BoogieAdd(w, a, b) == Only(a + b < Bound(w), UIntV(w, a + b))
BoogieSub(w, a, b) == Only(a >= b, UIntV(w, a - b))
BoogieMul(w, a, b) == Only(a * b < Bound(w), UIntV(w, a * b))
BoogieDiv(w, a, b) == IF b = 0 THEN {} ELSE {UIntV(w, a \div b)}
BoogieMod(w, a, b) == IF b = 0 THEN {} ELSE {UIntV(w, a % b)}
BoogieShift(op, w, a, b) ==
    Only(b < Bits[w], UIntV(w, IF op = "Shl" THEN (a * 2 ^ b) % Bound(w) ELSE a \div 2 ^ b))
BoogieCompare(op, a, b) == {BoolV(Compare(op, a, b))}
BoogieEqual(op, a, b)   == {BoolV((a = b) <=> (op = "Eq"))}
BoogieLogical(op, a, b) == {BoolV(IF op = "And" THEN a /\ b ELSE a \/ b)}
BoogieBitwise(op, w, a, b) == {UIntV(w, BitWise(op, a, b, Bits[w]))}
BoogieCast(w, a) == Only(a < Bound(w), UIntV(w, a))
BoogieBinary(op, x, y) ==
    LET w == x[2]
        a == x[3]
        b == y[3]
    IN  CASE op = "Add" -> BoogieAdd(w, a, b)
          [] op = "Sub" -> BoogieSub(w, a, b)
          [] op = "Mul" -> BoogieMul(w, a, b)
          [] op = "Div" -> BoogieDiv(w, a, b)
          [] op = "Mod" -> BoogieMod(w, a, b)
          [] op \in {"Shl", "Shr"} -> BoogieShift(op, w, a, b)
          [] op \in {"Eq", "Neq"}  -> BoogieEqual(op, x, y)
          [] op \in {"And", "Or"}  -> BoogieLogical(op, x[2], y[2])
          [] op \in CompareOps     -> BoogieCompare(op, a, b)
          [] OTHER -> BoogieBitwise(op, w, a, b)

\* The values an instruction that does not touch control computes.
Evaluate(fn, bc, args, env) ==
    LET m == args[1]
        child(i, off) == ChildMutation(m, off, PartsOf(Dereference(m))[i])
    IN  CASE bc.op = "BorrowLoc" -> {<<Mutation(LocalLocation(IndexOf(fn.locals, bc.s[1])), <<>>, m)>>}
          [] bc.op = "BorrowField" -> {<<child(bc.x[2], bc.x[2])>>}
          [] bc.op = "UnpackVariant" /\ bc.x[3] = "ByMutRef" ->
                {[i \in DOMAIN bc.d |-> child(i, variant_field_offset(bc.x[2], i))]}
          [] bc.op \in {"ReadRef", "GetField"} -> Compute(bc.op, bc.x, <<Dereference(m)>>, env)
          [] bc.op = "IsParent" -> {<<BoolV(IsParentMutation(env[bc.x[1][2]], EdgePattern(bc.x[2]), m))>>}
          [] bc.op \in BinaryOps -> {<<r>> : r \in BoogieBinary(bc.op, Dereference(m), Dereference(args[2]))}
          [] bc.op = "Cast" -> {<<r>> : r \in BoogieCast(bc.x[1], m[3])}
          [] bc.op = "IfThenElse" -> {<<IF m[2] THEN args[2] ELSE args[3]>>}
          [] bc.op = "VariantMerge" -> {<<args[1 + m[3]]>>}
          [] OTHER -> Compute(bc.op, bc.x, args, env)

\* A native vector procedure: its results, and its vector back when it was a mutation.
CallNative(f, args) ==
    {[vals |-> IF f = "vector::borrow_mut" THEN <<ChildMutation(args[1], args[2][3], r.vals[1])>> ELSE r.vals,
      muts |-> IF args # <<>> /\ IsMutation(args[1]) THEN <<UpdateMutation(args[1], r.vec)>> ELSE <<>>] :
        r \in Native(f, MapSeq(args, Dereference))}

\* A merge reads one of its versions; the others may be unset.
MergeOps == {"IfThenElse", "VariantMerge"}
Reads(bc) == (IF bc.op \in MergeOps THEN {bc.s[1]} ELSE Range(bc.s)) \cup (IF bc.op = "IsParent" THEN {bc.x[1][2]} ELSE {})

RECURSIVE BoogieCall(_, _, _, _)
BoogieStep(P, fn, m, fuel) ==
    LET bc == fn.code[m.pc]
        env == m.env
        args == MapSeq(bc.s, LAMBDA t : IF t \in DOMAIN env THEN env[t] ELSE Garbage)
        mutSrcs == SelectSeq(bc.s, LAMBDA t : IsMutRef(fn.types[t]))
        go(l) == Machine(label_offsets(fn.code)[l], env, <<>>)
        next(e) == Machine(m.pc + 1, e, <<>>)
        returns(out) == next(SetAll(env, bc.d \o mutSrcs, out.vals \o out.muts))
    IN  CASE bc.op = "Uninit" -> next(SetAll(env, bc.s, <<Mutation(Uninitialized, <<>>, Garbage)>>))
          [] bc.op = "Destroy" -> next(env)
          [] ~(Reads(bc) \subseteq DOMAIN env) -> Ended(Undefined)
          [] bc.op = "Ret" -> Ended(Outcome("ret", args, MapSeq(MutParams(fn), LAMBDA p : env[p])))
          [] bc.op = "Abort" -> Ended(Aborted)
          [] bc.op = "Jump" -> go(bc.x[1])
          [] bc.op = "Branch" -> go(IF args[1][2] THEN bc.x[1] ELSE bc.x[2])
          [] bc.op = "VariantSwitch" -> go(bc.x[Dereference(args[1])[3]])
          [] bc.op = "WriteRef" -> next([env EXCEPT ![bc.s[1]] = UpdateMutation(@, args[2])])
          [] bc.op = "WriteBack" -> next(WriteBackTo(env, bc.x[1], bc.x[2], args[1]))
          [] bc.op = "Function" /\ bc.x[1] \in VectorNatives ->
                LET R == CallNative(bc.x[1], args) IN IF R = {} THEN Ended(Aborted) ELSE returns(CHOOSE r \in R : TRUE)
          [] bc.op = "Function" ->
                LET g == P[bc.x[1]]
                    out == BoogieCall(P, g, Machine(1, SetAll(NoFun, ParamsOf(g), args), <<>>), fuel - 1)
                IN  IF out.st = "ret" THEN returns(out) ELSE Ended(out)
          [] OTHER -> LET R == Evaluate(fn, bc, args, env)
                      IN  IF R = {} THEN Ended(Aborted) ELSE next(SetAll(env, bc.d, CHOOSE r \in R : TRUE))

\* Code with loops jumps from label to label, as translate_bytecode leaves it.
RECURSIVE BoogieExec(_, _, _, _)
BoogieExec(P, fn, m, fuel) == CASE m.out # Running -> m.out
                                [] fuel = 0 -> Diverged
                                [] OTHER -> BoogieExec(P, fn, BoogieStep(P, fn, m, fuel), fuel - 1)

\* Other code becomes nested conditionals; the last variant of a switch needs no test.
RECURSIVE translate_structured_block(_, _, _, _, _)
translate_structured_block(P, fn, t, m, fuel) ==
    LET run(a, b) == translate_structured_block(P, fn, b, a, fuel)
        basic(a, pc) == IF a.out # Running \/ fn.code[pc].op \in {"Jump", "Branch", "Label", "VariantSwitch"} THEN a
                        ELSE BoogieStep(P, fn, [a EXCEPT !.pc = pc], fuel)
        cond == fn.code[t[2]].s[1]
        tested == m.env[cond]
    IN  CASE m.out # Running -> m
          [] t[1] = "Basic" -> Fold(basic, m, iter_offsets(t))
          [] t[1] = "Seq" -> Fold(run, m, t[2])
          [] cond \notin DOMAIN m.env -> Ended(Undefined)
          [] t[1] = "IfThenElse" -> IF tested[2] THEN run(m, t[3]) ELSE Fold(run, m, t[4])
          [] OTHER -> run(m, t[3][Dereference(tested)[3]])

BoogieCall(P, fn, m, fuel) ==
    LET trees == reconstruct_control_flow(fn.code) IN
    IF trees = {} THEN BoogieExec(P, fn, m, fuel)
    ELSE translate_structured_block(P, fn, CHOOSE t \in trees : TRUE, m, fuel).out

\* The verified function: its mutable reference parameters come from outside.
BoogieRun(P, f, args) ==
    LET fn == P[f]
        arg(i) == IF IsMutRef(fn.types[fn.locals[i]]) THEN Mutation(ParamLocation(i), <<>>, args[i]) ELSE args[i]
        out == BoogieCall(P, fn, Machine(1, SetAll(NoFun, ParamsOf(fn), [i \in DOMAIN args |-> arg(i)]), <<>>), 2 * Fuel)
    IN  IF out.st # "ret" THEN out ELSE Outcome("ret", MapSeq(out.vals, Dereference), MapSeq(out.muts, Dereference))

-----------------------------------------------------------------------------
(***************************************************************************)
(* Pure functions.  The walk's state is [fn, cur, at, completed,           *)
(* completedAt, out, n]: the function, the current version of each variable*)
(* assigned more than once, the merges to be emitted after an offset, the  *)
(* variables that are back to their own name, the conditional after which  *)
(* each one is, the merges of the tree just walked, and the number of names*)
(* made.                                                                   *)
(***************************************************************************)

Merge(fresh, at, vers) == [fresh |-> fresh, at |-> at, vers |-> vers]
MergeInstr(fn, g) == LET bc == fn.code[g.at]
                     IN  Op(<<g.fresh>>, IF bc.op = "Branch" THEN "IfThenElse" ELSE "VariantMerge", bc.s \o g.vers)
AllSame(s) == \A i \in DOMAIN s : s[i] = s[1]

MergeTemp(n) == "m" \o ToString(n)
NewVersion(st, of) ==
    LET t == MergeTemp(st.n + 1)
    IN  [st EXCEPT !.n = @ + 1, !.fn.locals = Append(@, t), !.fn.types = With(@, t, st.fn.types[of])]

-----------------------------------------------------------------------------
(* The variables assigned more than once, and where each is joined last. *)

collect_multi_assigned_vars(code) ==
    {t \in UNION {Range(code[pc].d) : pc \in DOMAIN code} :
        Cardinality({pc \in DOMAIN code : t \in Range(code[pc].d)}) > 1}

\* Completed at a conditional: known in every arm and assigned in some.
CompleteAt(acc, arms, before, at) ==
    LET everywhere == {v \in before \cup UNION Range(arms) : \A i \in DOMAIN arms : v \in before \cup arms[i]}
    IN  [acc EXCEPT !.at = [v \in everywhere \cap UNION Range(arms) |-> at] @@ acc.at, !.assigned = UNION Range(arms)]

\* [at, assigned]: the completions so far, and what this tree assigns.
RECURSIVE compute_completed_at(_, _, _, _, _)
compute_completed_at(code, vars, t, before, at) ==
    LET arms == IF t[1] = "IfThenElse" THEN <<t[3]>> \o t[4] ELSE t[3]
        arm(acc, b) == LET r == compute_completed_at(code, vars, b, before, acc.at)
                       IN  [at |-> r.at, arms |-> Append(acc.arms, r.assigned)]
        walked == Fold(arm, [at |-> at, arms |-> <<>>], arms)
        child(acc, c) == LET r == compute_completed_at(code, vars, c, before \cup acc.assigned, acc.at)
                         IN  [at |-> r.at, assigned |-> acc.assigned \cup r.assigned]
        none == [at |-> at, assigned |-> {}]
    IN  CASE t[1] = "Basic" -> [none EXCEPT !.assigned = vars \cap UNION {Range(code[pc].d) : pc \in t[2]..t[3]}]
          [] t[1] = "Seq" -> Fold(child, none, t[2])
          [] t[1] = "IfThenElse" -> CompleteAt([none EXCEPT !.at = walked.at],
                                               walked.arms \o (IF t[4] = <<>> THEN <<{}>> ELSE <<>>), before, t[2])
          [] OTHER -> CompleteAt([none EXCEPT !.at = walked.at], walked.arms, before, t[2])

-----------------------------------------------------------------------------
(* The walk. *)

process_instruction(st, pc) ==
    LET to == [t \in DOMAIN st.fn.types |-> IF t \in DOMAIN st.cur \ st.completed THEN st.cur[t] ELSE t]
        read == [st EXCEPT !.fn.code[pc] = remap_src_vars(@, to)]
        rename(s, d) == IF d \notin DOMAIN s.cur THEN s
                        ELSE LET s1 == NewVersion(s, d)
                                 v == MergeTemp(s1.n)
                             IN  [s1 EXCEPT !.cur[d] = v, !.fn.code[pc].d = MapSeq(@, LAMBDA x : IF x = d THEN v ELSE x)]
    IN  Fold(rename, read, st.fn.code[pc].d)

\* One merge for each variable whose versions differ after the arms: into the
\* variable itself at its last conditional, into a new version before.
\* Mutant: into the variable itself at every conditional.
MergeEager(st, at, arms, v) ==
    LET vers == [i \in DOMAIN arms |-> arms[i][v]] IN
    IF AllSame(vers) THEN [st EXCEPT !.cur[v] = vers[1]]
    ELSE [st EXCEPT !.cur[v] = v, !.completed = @ \cup {v}, !.out = Append(@, Merge(v, at, vers))]

MergeVersions(st, at, arms, v) ==
    LET vers == [i \in DOMAIN arms |-> arms[i][v]]
        last == v \in DOMAIN st.completedAt /\ st.completedAt[v] = at
        s1 == IF last THEN [st EXCEPT !.completed = @ \cup {v}] ELSE NewVersion(st, v)
        fresh == IF last THEN v ELSE MergeTemp(s1.n)
    IN  IF AllSame(vers) THEN [st EXCEPT !.cur[v] = vers[1]]
        ELSE [s1 EXCEPT !.cur[v] = fresh, !.out = Append(@, Merge(fresh, at, vers))]

RECURSIVE process_block(_, _)
\* The arms one by one from the same versions; a missing one changes nothing.
process_arms(st, at, arms) ==
    LET arm(acc, b) == LET s == process_block([acc.st EXCEPT !.cur = st.cur], b)
                       IN  [st |-> s, out |-> acc.out \o s.out, vers |-> Append(acc.vers, s.cur)]
        r == Fold(arm, [st |-> st, out |-> <<>>, vers |-> <<>>], arms)
        vers == r.vers \o (IF Len(arms) = 1 THEN <<st.cur>> ELSE <<>>)
    IN  Fold(LAMBDA s, v : MergeVersions(s, at, vers, v), [r.st EXCEPT !.out = r.out],
             SelectSeq(st.fn.locals, LAMBDA v : v \in DOMAIN st.cur))
process_block(st, t) ==
    LET child(s, c) == process_block([s EXCEPT !.at = With(@, iter_offsets(c)[1], s.out), !.out = <<>>], c)
    IN  CASE t[1] = "Basic" -> Fold(process_instruction, [st EXCEPT !.out = <<>>], iter_offsets(t))
          [] t[1] = "Seq" -> Fold(child, [st EXCEPT !.out = <<>>], t[2])
          [] t[1] = "IfThenElse" -> process_arms(st, t[2], <<t[3]>> \o t[4])
          [] OTHER -> process_arms(st, t[2], t[3])

-----------------------------------------------------------------------------
(* One return. *)

\* [st, rets]: the state with the merges made, and at most one list of results.
RECURSIVE merge_return_temps(_, _, _)
MergeRets(st, at, arms) ==
    LET lists == UNION Range(arms)
        position(acc, i) == LET vers == [k \in DOMAIN arms |-> (CHOOSE r \in arms[k] : TRUE)[i]]
                                s1 == NewVersion(acc.st, vers[1])
                            IN  IF AllSame(vers) THEN [acc EXCEPT !.rets = Append(@, vers[1])]
                                ELSE [st |-> [s1 EXCEPT !.out = Append(@, Merge(MergeTemp(s1.n), at, vers))],
                                      rets |-> Append(acc.rets, MergeTemp(s1.n))]
        merged == Fold(position, [st |-> st, rets |-> <<>>], [i \in 1..Len(CHOOSE r \in lists : TRUE) |-> i])
    IN  CASE Cardinality(lists) <= 1 -> [st |-> st, rets |-> lists]
          [] OTHER -> [st |-> merged.st, rets |-> {merged.rets}]
MergeArms(st, at, arms, fall) ==
    LET arm(acc, b) == LET r == merge_return_temps(acc.st, b, fall) IN [st |-> r.st, rets |-> Append(acc.rets, r.rets)]
        walked == Fold(arm, [st |-> st, rets |-> <<>>], arms)
    IN  [walked EXCEPT !.rets = IF Len(arms) = 1 THEN Append(@, fall) ELSE @]
merge_return_temps(st, t, fall) ==
    LET code == st.fn.code
        back(acc, b) == merge_return_temps(acc.st, b, acc.rets)
        rets == {pc \in t[2]..t[3] : code[pc].op = "Ret"}
        arms == MergeArms(st, t[2], IF t[1] = "IfThenElse" THEN <<t[3]>> \o t[4] ELSE t[3], fall)
    IN  CASE t[1] = "Basic" -> [st |-> st, rets |-> IF rets = {} THEN fall ELSE {code[SetMax(rets)].s}]
          [] t[1] = "Seq" -> Fold(back, [st |-> st, rets |-> fall], Reverse(t[2]))
          [] t[1] = "IfThenElse" -> MergeRets(arms.st, t[2], arms.rets)
          [] \E i \in DOMAIN arms.rets : arms.rets[i] = {} -> [st |-> arms.st, rets |-> {}]
          [] OTHER -> MergeRets(arms.st, t[2], arms.rets)

merge_returns(st, t) ==
    LET r == merge_return_temps([st EXCEPT !.out = <<>>], t, {})
        exit == next_free_label(st.fn.code)
        jumps == MapSeq(st.fn.code, LAMBDA bc : IF bc.op = "Ret" THEN Jump(exit) ELSE bc)
    IN  IF r.rets = {} THEN r.st
        ELSE [r.st EXCEPT !.fn.code = EmitBytecode(jumps, Label(exit)) \o MapSeq(r.st.out, LAMBDA g : MergeInstr(st.fn, g))
                                      \o <<Ret(CHOOSE x \in r.rets : TRUE)>>]

emit_merges(st) ==
    LET at(pc) == IF pc \in DOMAIN st.at THEN st.at[pc] ELSE <<>>
    IN  FoldAt(LAMBDA acc, pc : Fold(LAMBDA a, g : Append(a, MergeInstr(st.fn, g)), EmitBytecode(acc, st.fn.code[pc]), at(pc)),
               <<>>, st.fn.code)

ReturnCount(code) == Cardinality({pc \in DOMAIN code : code[pc].op = "Ret"})

\* Only pure functions, without mutable references and without loops.
ConditionalMerge(fn, pure) ==
    LET multi == collect_multi_assigned_vars(fn.code)
        tree == CHOOSE t \in reconstruct_control_flow(fn.code) : TRUE
        st0 == [fn |-> fn, cur |-> [v \in multi |-> v], at |-> NoFun, completed |-> {}, out |-> <<>>, n |-> 0,
                completedAt |-> compute_completed_at(fn.code, multi, tree, {}, NoFun).at]
        st1 == IF multi = {} THEN st0 ELSE process_block(st0, tree)
        st2 == IF ReturnCount(fn.code) > 1 THEN merge_returns(st1, tree) ELSE st1
    IN  CASE ~pure \/ \E t \in Range(fn.locals) : IsMutRef(fn.types[t]) -> fn
          [] multi = {} /\ ReturnCount(fn.code) <= 1 -> fn
          [] reconstruct_control_flow(fn.code) = {} -> fn
          [] multi = {} -> st2.fn
          [] OTHER -> [st2.fn EXCEPT !.code = emit_merges(st2)]

-----------------------------------------------------------------------------
(* Which functions are pure: the declared ones and what they call. *)

called_functions(fn) == {fn.code[pc].x[1] : pc \in {k \in DOMAIN fn.code : fn.code[k].op = "Function"}}
RECURSIVE pure_callees(_, _)
pure_callees(P, fs) ==
    LET more == fs \cup UNION {called_functions(P[f]) \cap DOMAIN P : f \in fs}
    IN  IF more = fs THEN fs ELSE pure_callees(P, more)
PureSet(P) == pure_callees(P, {f \in DOMAIN P : P[f].pure})

\* Accepted: no mutable reference, no abort, no loop left, only pure callees.
native_pure_variants == {"vector::borrow", "vector::length", "vector::empty"}
check_function(P, f) == f \in native_pure_variants \/ f \in PureSet(P)
check_bytecode(P, fn) == \A pc \in DOMAIN fn.code :
    LET bc == fn.code[pc] IN bc.op # "Abort" /\ (bc.op = "Function" => check_function(P, bc.x[1]))
PureAccepted(P, fn) ==
    /\ \A t \in Range(fn.locals) : ~IsMutRef(fn.types[t])
    /\ check_bytecode(P, fn)
    /\ reconstruct_control_flow(fn.code) # {}

-----------------------------------------------------------------------------
(* generate_pure_expression: a binding per instruction, whatever the path; *)
(* a parameter is always read by its name at entry.  Integers have no      *)
(* bound, and an operation the program would not survive has any value.    *)

PureArith(op, w, a, b) ==
    CASE op = "Add" -> {UIntV(w, a + b)}
      [] op = "Sub" -> {UIntV(w, a - b)}
      [] op = "Mul" -> {UIntV(w, a * b)}
      [] op = "Div" -> IF b <= 0 THEN {} ELSE {UIntV(w, a \div b)}
      [] op = "Mod" -> IF b <= 0 THEN {} ELSE {UIntV(w, a % b)}
      [] op = "Shl" -> IF b < 0 THEN {} ELSE {UIntV(w, a * 2 ^ b)}
      [] op = "Shr" -> IF b < 0 THEN {} ELSE {UIntV(w, a \div 2 ^ b)}
      [] OTHER -> IF a < 0 \/ b < 0 THEN {} ELSE {UIntV(w, BitWise(op, a, b, Bits[w] + 3))}
PureOp(op, x, a) ==
    CASE op \in {"Add", "Sub", "Mul", "Div", "Mod", "Shl", "Shr", "BitAnd", "BitOr", "Xor"} ->
            {<<v>> : v \in PureArith(op, a[1][2], a[1][3], a[2][3])}
      [] op = "UnpackVariant" /\ a[1][3] # x[2] -> {}
      [] op = "Function" /\ x[1] \in VectorNatives -> {r.vals : r \in Native(x[1], a)}
      [] OTHER -> Compute(op, x, a, NoFun)

\* What a merge picks: the arm the condition, or the variant, names.
Picked(a) == IF a[1] = Garbage THEN Garbage ELSE IF a[1][1] = "b" THEN a[IF a[1][2] THEN 2 ELSE 3] ELSE a[1 + a[1][3]]
Skipped == {"Branch", "Jump", "Label", "Nop", "VariantSwitch", "Destroy", "Ret"}

RECURSIVE PureRun(_, _, _)
PureBinding(P, fn, args, env, bc) ==
    LET ps == ParamsOf(fn)
        val(t) == CASE t \in Range(ps) -> args[IndexOf(ps, t)] [] t \in DOMAIN env -> env[t] [] OTHER -> Garbage
        a == MapSeq(bc.s, val)
        R == CASE bc.op \in {"IfThenElse", "VariantMerge"} -> {<<Picked(a)>>}
               [] Garbage \in Range(a) -> {}
               [] bc.op = "Function" /\ bc.x[1] \in DOMAIN P -> {PureRun(P, bc.x[1], a)}
               [] OTHER -> PureOp(bc.op, bc.x, a)
    IN  IF bc.op \in Skipped THEN env
        ELSE SetAll(env, bc.d, IF R = {} THEN [i \in DOMAIN bc.d |-> Garbage] ELSE CHOOSE r \in R : TRUE)
PureRun(P, f, args) ==
    LET fn == P[f]
        ps == ParamsOf(fn)
        env == Fold(LAMBDA e, bc : PureBinding(P, fn, args, e, bc), NoFun, fn.code)
        last == SetMax({pc \in DOMAIN fn.code : fn.code[pc].op = "Ret"})
        val(t) == CASE t \in Range(ps) -> args[IndexOf(ps, t)] [] t \in DOMAIN env -> env[t] [] OTHER -> Garbage
    IN  MapSeq(fn.code[last].s, val)

-----------------------------------------------------------------------------
(* The pipeline. *)

CONSTANTS Corpus,       \* programs in stack code, by function name
          Samples       \* arguments for main

VARIABLES source,       \* the program as compiled
          targets,      \* the function targets: the same functions, transformed
          borrows,      \* the borrow information of each instruction, by function
          stage         \* how many processors have run

vars == <<source, targets, borrows, stage>>

Order == <<"Generate", "EliminateImmRefs", "MutRef", "ReachingDef", "LiveVar", "Borrow", "Memory",
           "ReachingDef", "LiveVar", "ConditionalMerge", "CleanAndOptimize">>

Init ==
    /\ source \in Corpus
    /\ targets = source
    /\ borrows = NoFun
    /\ stage = 0

Runs(name) == stage < Len(Order) /\ Order[stage + 1] = name /\ stage' = stage + 1
Process(name, F(_)) ==
    /\ Runs(name)
    /\ targets' = [f \in DOMAIN targets |-> F(targets[f])]
    /\ UNCHANGED <<source, borrows>>

Generate    == Process("Generate", LAMBDA fn : generate_function(source, fn))
ImmRefs     == Process("EliminateImmRefs", EliminateImmRefs)
MutRef      == Process("MutRef", MutRefInstrument)
ReachingDef == Process("ReachingDef", copy_propagation)
LiveVar     == Process("LiveVar", LiveVarProcess)
Borrow ==
    /\ Runs("Borrow")
    /\ LET sums == BorrowSummaries(targets) IN borrows' = [f \in DOMAIN targets |-> BorrowStates(targets[f], sums)]
    /\ UNCHANGED <<source, targets>>
Memory ==
    /\ Runs("Memory")
    /\ targets' = [f \in DOMAIN targets |-> MemoryInstrument(targets[f], borrows[f])]
    /\ UNCHANGED <<source, borrows>>
Merges == Process("ConditionalMerge", LAMBDA fn : ConditionalMerge(fn, fn.name \in PureSet(targets)))
Clean == Process("CleanAndOptimize", CleanAndOptimize)

Done == stage = Len(Order) /\ UNCHANGED vars

Next == Generate \/ ImmRefs \/ MutRef \/ ReachingDef \/ LiveVar \/ Borrow \/ Memory \/ Merges \/ Clean \/ Done
Spec == Init /\ [][Next]_vars

-----------------------------------------------------------------------------

\* From the write-backs on, the code means what the Boogie program made of it
\* computes.  The second LiveVar initializes the references they may read unset.
Meaning(args) == CASE stage = 0 -> VMRun(targets, "main", args)
                   [] stage \in 1..6 -> Run(targets, "main", args)
                   [] OTHER -> BoogieRun(targets, "main", args)

\* Whatever the processors did so far, main returns, aborts and leaves behind
\* its mutable reference parameters as the compiled program does: no write is
\* lost, and none reaches a place it was not meant for (the write-backs of
\* memory_instrumentation.rs and the ones clean_and_optimize.rs drops).
MeaningKept == stage \in {7, 8} \/ \A args \in Samples : Meaning(args) = VMRun(source, "main", args)

\* A pure function that is accepted computes, as one expression over the
\* bindings of all its paths, what the program computes when it does not abort
\* (generate_pure_expression on what conditional_merge_insertion.rs leaves).
PureExact ==
    stage >= 10 /\ targets["main"].pure /\ PureAccepted(targets, targets["main"]) =>
        \A args \in Samples : LET out == VMRun(source, "main", args)
                               IN  out.st = "ret" => PureRun(targets, "main", args) = out.vals

\* What the processors and the translator assert or rely on.  Every jump lands
\* on a label; no reference is copied or moved when the borrow graph is built
\* (borrow_analysis.rs); the graph has no cycle, so that the walks along it end;
\* a test of a parent is made against a reference, and only a reference to the
\* whole of a local is written back to it (bytecode_translator.rs); the first arm
\* of a conditional has a block (control_flow_reconstruction/reconstructor.rs).
JumpsLand(code) ==
    \A pc \in DOMAIN code : \A l \in Range(branch_dests(code[pc])) :
        Cardinality({k \in DOMAIN code : code[k].op = "Label" /\ code[k].x[1] = l}) = 1
NoReferenceMoves(fn) ==
    \A pc \in DOMAIN fn.code : fn.code[pc].op = "Assign" /\ fn.code[pc].x[1] # "Store"
                                => ~IsRef(fn.types[fn.code[pc].s[1]]) /\ ~IsRef(fn.types[fn.code[pc].d[1]])
MemoryOpsFit(code) ==
    \A pc \in DOMAIN code : /\ code[pc].op = "IsParent" => code[pc].x[1][1] = "Reference"
                            /\ code[pc].op = "WriteBack" /\ code[pc].x[1][1] = "LocalRoot" => code[pc].x[2] = Direct
RECURSIVE Branches(_)
Branches(t) == CASE t[1] \in {"Basic", "Panic"} -> t # NoRegion
                 [] t[1] = "Seq" -> \A i \in DOMAIN t[2] : Branches(t[2][i])
                 [] t[1] = "IfThenElse" -> \A b \in Range(<<t[3]>> \o t[4]) : Branches(b)
                 [] OTHER -> \A i \in DOMAIN t[3] : Branches(t[3][i])
BorrowsAcyclic(states) == \A pc \in DOMAIN states : \A b \in states[pc] : Acyclic(b.before) /\ Acyclic(b.after)
NoPanic ==
    /\ stage >= 1 => \A f \in DOMAIN targets : JumpsLand(targets[f].code) /\ MemoryOpsFit(targets[f].code)
    /\ stage >= 7 => \A f \in DOMAIN targets : \A t \in reconstruct_control_flow(targets[f].code) : Branches(t)
    /\ stage \in {5, 6} => \A f \in DOMAIN targets : NoReferenceMoves(targets[f])
    /\ stage = 6 => \A f \in DOMAIN borrows : BorrowsAcyclic(borrows[f])

=============================================================================
