--------------------- MODULE ControlFlowReconstruction ---------------------
(***************************************************************************)
(* From stackless bytecode to expressions (stackless-to-intermediate):     *)
(* basic blocks and loops (bytecode_cfg.rs), the structured skeleton       *)
(* (skeleton_recovery.rs), the translation of the instructions             *)
(* (ir_translator.rs, borrow_tracking.rs, ir_translation.rs), and the      *)
(* emission of a function's value and of its abort condition               *)
(* (early_return.rs, phi_detection.rs, loop_handling.rs).                  *)
(*                                                                         *)
(* Blocks are numbered from 1; the end of a range of blocks is exclusive.  *)
(***************************************************************************)
EXTENDS TheoremIR

-----------------------------------------------------------------------------
(* bytecode_cfg.rs *)

\* A terminator: its kind, its temps, whether the condition is negated, its
\* labels, and the header a Continue goes back to.
Term(k, ts, neg, ls, h) == [k |-> k, ts |-> ts, neg |-> neg, ls |-> ls, h |-> h]
Plain(k) == Term(k, <<>>, FALSE, <<>>, 0)
Block(start, end, t) == [start |-> start, end |-> end, t |-> t]

\* A back-edge to h from block b: the loop is new, or has one more of them.
AddBackedge(loops, h, b, exits) ==
    IF \E i \in DOMAIN loops : loops[i].header = h
    THEN MapSeq(loops, LAMBDA l : IF l.header # h THEN l
                                  ELSE [l EXCEPT !.backs = @ \cup {b}, !.exit = IF exits = {} THEN @ ELSE exits])
    ELSE Append(loops, [header |-> h, backs |-> {b}, exit |-> exits])

MaxLabel == 99          \* u16::MAX: synthetic labels count down from it

\* A branch with a backward arm gets a block of its own for that arm, always
\* on the else side.
CfgBranch(st, pc, bc) ==
    LET cur == Len(st.blocks) + 1
        back(l) == l \in DOMAIN st.at /\ st.at[l] <= cur
        neg == back(bc.x[1])
        h == st.at[IF neg THEN bc.x[1] ELSE bc.x[2]]
        exit == IF neg THEN bc.x[2] ELSE bc.x[1]
        syn == MaxLabel - st.syn
        t(n, ls) == Term("Branch", bc.s, n, ls, 0)
    IN  IF ~back(bc.x[1]) /\ ~back(bc.x[2])
        THEN [st EXCEPT !.blocks = Append(@, Block(st.start, pc, t(FALSE, bc.x))), !.start = pc + 1]
        ELSE [st EXCEPT !.blocks = @ \o << Block(st.start, pc, t(neg, <<exit, syn>>)),
                                           Block(pc, pc, [Plain("Continue") EXCEPT !.h = h]) >>,
                        !.loops = AddBackedge(@, h, cur + 1, {exit}),
                        !.at = [l \in DOMAIN @ \cup {syn} |-> IF l = syn THEN cur + 1 ELSE @[l]],
                        !.syn = @ + 1, !.start = pc + 1]

CfgStep(st, pc, bc) ==
    LET cur == Len(st.blocks) + 1
        close(t) == [st EXCEPT !.blocks = Append(@, Block(st.start, pc, t)), !.start = pc + 1]
    IN  CASE bc.op = "Label" ->
                [close(Plain("Fallthrough")) EXCEPT
                    !.at = [l \in DOMAIN @ \cup {bc.x[1]} |-> IF l = bc.x[1] THEN cur + 1 ELSE @[l]]]
          [] bc.op = "Branch" -> CfgBranch(st, pc, bc)
          [] bc.op = "Jump" ->
                IF bc.x[1] \in DOMAIN st.at
                THEN [close([Plain("Continue") EXCEPT !.h = st.at[bc.x[1]]]) EXCEPT
                        !.loops = AddBackedge(@, st.at[bc.x[1]], cur, {})]
                ELSE close(Term("Jump", <<>>, FALSE, bc.x, 0))
          [] bc.op = "VariantSwitch" -> close(Term("Switch", bc.s, FALSE, bc.x, 0))
          [] bc.op = "Ret"    -> close(Term("Return", bc.s, FALSE, <<>>, 0))
          [] bc.op = "Abort"  -> close(Term("Abort", bc.s, FALSE, <<>>, 0))
          [] OTHER -> st

\* The exit of a loop known only by unconditional jumps: the outer target of the
\* first branch of its range with one target inside and one outside.
RecoverExit(loop, blocks, at) ==
    LET h == loop.header
        b == SetMax(loop.backs)
        in(l) == at[l] >= h /\ at[l] <= b
        cands == {i \in h..b : i <= Len(blocks) /\ blocks[i].t.k = "Branch"
                               /\ in(blocks[i].t.ls[1]) # in(blocks[i].t.ls[2])}
        ls == blocks[CHOOSE i \in cands : \A j \in cands : i <= j].t.ls
    IN  IF loop.exit # {} \/ cands = {} THEN loop
        ELSE [loop EXCEPT !.exit = {IF in(ls[1]) THEN ls[2] ELSE ls[1]}]

Successors(blocks, at, i) ==
    LET t == blocks[i].t IN
    CASE t.k \in {"Branch", "Switch", "Jump"} -> {at[t.ls[j]] : j \in DOMAIN t.ls}
      [] t.k = "Fallthrough" -> {i + 1} \cap DOMAIN blocks
      [] OTHER -> {}

discover_cfg(code) ==
    LET st0 == [blocks |-> <<>>, at |-> NoFun, loops |-> <<>>, start |-> 1, syn |-> 0]
        st == FoldAt(LAMBDA s, pc : CfgStep(s, pc, code[pc]), st0, code)
        n == Len(st.blocks)
        blocks == IF n > 0 /\ st.blocks[n].t.k = "Return" THEN st.blocks
                  ELSE Append(st.blocks, Block(st.start, Len(code) + 1, Plain("Return")))
        loops == MapSeq(st.loops, LAMBDA l : RecoverExit(l, blocks, st.at))
    IN  [blocks |-> blocks, at |-> st.at, loops |-> loops,
         succ |-> [i \in DOMAIN blocks |-> Successors(blocks, st.at, i)]]

-----------------------------------------------------------------------------
(* skeleton_recovery.rs.  A skeleton node: its kind, its block, how it ends *)
(* <<"Return">>, <<"Abort", temp>>, <<"Continue", level>>,                  *)
(* <<"Break", level>>, and its children.                                    *)

Skel(s, b, t, c) == [s |-> s, b |-> b, t |-> t, c |-> c]
SBlock(b)  == Skel("Block", b, <<>>, <<>>)
STerm(t)   == Skel("Term", 0, t, <<>>)
SSeq(c)    == Skel("Seq", 0, <<>>, c)

\* Edges only go forward (a Continue has no successor): one pass from the end.
PostDoms(succ) ==
    LET n == Len(succ)
        common(pd, ks) == {j \in DOMAIN succ : \A k \in ks : j \in pd[k]}
    IN  FoldAt(LAMBDA pd, k : LET i == n + 1 - k
                              IN  With(pd, i, {i} \cup (IF succ[i] = {} THEN {} ELSE common(pd, succ[i]))),
               NoFun, succ)

\* The immediate post-dominator of a block, a set of at most one.
compute_post_dominators(succ) ==
    LET pd == PostDoms(succ)
    IN  [i \in DOMAIN succ |-> {j \in pd[i] \ {i} : pd[j] = pd[i] \ {i}}]

find_convergence(ctx, i, end) == {j \in ctx.pd[i] : j < end}

\* Enclosing loops, outermost first: [header, brk].  Levels count from the innermost.
Frames(enc, h) == {i \in DOMAIN enc : enc[i].header = h}
LevelOf(enc, is) == IF is = {} THEN 0 ELSE Len(enc) - SetMax(is)
continue_level_for(enc, h) == LevelOf(enc, Frames(enc, h))

\* The innermost loop must be left; then as many outer ones as the target lies past.
break_levels_for(enc, b) ==
    LET past(l) == b >= enc[Len(enc) - l].brk
        lvls == {l \in 0..(Len(enc) - 1) : \A m \in 0..l : past(m)}
    IN  IF lvls = {} THEN {} ELSE {SetMax(lvls)}

RECURSIVE widen_backedge_past_nested_loops(_, _, _)
widen_backedge_past_nested_loops(loops, h, b) ==
    LET inner == {i \in DOMAIN loops : loops[i].header # h /\ loops[i].header \in h..b
                                       /\ SetMax(loops[i].backs) > b}
    IN  IF inner = {} THEN b
        ELSE widen_backedge_past_nested_loops(loops, h, SetMax(UNION {loops[i].backs : i \in inner}))

has_exits_past_exit_block(ctx, h, exit, end) ==
    \E i \in h..(exit - 1) :
        ctx.blocks[i].t.k \in {"Branch", "Jump", "Switch"}
        /\ \E j \in DOMAIN ctx.blocks[i].t.ls :
              ctx.at[ctx.blocks[i].t.ls[j]] > exit /\ ctx.at[ctx.blocks[i].t.ls[j]] < end

\* Blocks reached only from inside the loop belong to it, up to stop.
RECURSIVE AbsorbExits(_, _, _, _, _)
AbsorbExits(ctx, h, exit, end, stop) ==
    IF exit < end /\ exit \notin stop
       /\ \A p \in DOMAIN ctx.succ : exit \in ctx.succ[p] => p >= h /\ p < exit
    THEN AbsorbExits(ctx, h, exit + 1, end, stop) ELSE exit

RECURSIVE build_block(_, _, _, _)
RECURSIVE build_from_in(_, _, _, _)
RECURSIVE build_while(_, _, _, _)

build_from_in(ctx, start, end, enc) ==
    IF start >= end THEN SSeq(<<>>)
    ELSE IF \E i \in DOMAIN ctx.loops : ctx.loops[i].header = start THEN build_while(ctx, start, end, enc)
    ELSE build_block(ctx, start, end, enc)

build_while(ctx, h, end, enc) ==
    LET loop == ctx.loops[CHOOSE i \in DOMAIN ctx.loops : ctx.loops[i].header = h]
        back == widen_backedge_past_nested_loops(ctx.loops, h, SetMax(loop.backs))
        semantic == {ctx.at[l] : l \in loop.exit}
        e1 == AbsorbExits(ctx, h, back + 1, end, semantic)
        exit == IF has_exits_past_exit_block(ctx, h, e1, end) THEN AbsorbExits(ctx, h, e1, end, {}) ELSE e1
        w == Skel("While", h, <<>>,
                  << build_block(ctx, h, exit, Append(enc, [header |-> h, brk |-> exit])) >>)
    IN  IF exit < end THEN SSeq(<<w, build_from_in(ctx, exit, end, enc)>>) ELSE w

\* Where a jump to block b leads: back to a loop's header, out of loops, or on.
JumpTerm(enc, b) ==
    IF Frames(enc, b) # {} THEN {<<"Continue", LevelOf(enc, Frames(enc, b))>>}
    ELSE {<<"Break", l>> : l \in break_levels_for(enc, b)}

classify_arm(ctx, b, end, enc) ==
    LET t == JumpTerm(enc, b)
    IN  IF t # {} THEN STerm(CHOOSE x \in t : TRUE) ELSE build_from_in(ctx, b, end, enc)

build_block(ctx, i, end, enc) ==
    LET t == ctx.blocks[i].t
        ends(x) == SSeq(<<SBlock(i), STerm(x)>>)
        conv == find_convergence(ctx, i, end)
        stop == IF conv = {} THEN end ELSE CHOOSE j \in conv : TRUE
        fork(kind) == LET f == Skel(kind, i, <<>>, MapSeq(t.ls, LAMBDA l : classify_arm(ctx, ctx.at[l], stop, enc)))
                      IN  IF conv = {} THEN f ELSE SSeq(<<f, build_from_in(ctx, stop, end, enc)>>)
    IN  IF i >= end THEN SSeq(<<>>)
        ELSE CASE t.k = "Return" -> ends(<<"Return">>)
               [] t.k = "Abort" -> ends(<<"Abort", t.ts[1]>>)
               [] t.k = "Continue" -> ends(<<"Continue", continue_level_for(enc, t.h)>>)
               [] t.k = "Fallthrough" ->
                     IF break_levels_for(enc, i + 1) # {}
                     THEN ends(<<"Break", CHOOSE l \in break_levels_for(enc, i + 1) : TRUE>>)
                     ELSE SSeq(<<SBlock(i), build_from_in(ctx, i + 1, end, enc)>>)
               [] t.k = "Jump" ->
                     LET b == ctx.at[t.ls[1]] IN
                     IF JumpTerm(enc, b) # {} THEN ends(CHOOSE x \in JumpTerm(enc, b) : TRUE)
                     ELSE IF b >= end THEN SBlock(i)
                     ELSE SSeq(<<SBlock(i), build_from_in(ctx, b, end, enc)>>)
               [] t.k = "Branch" -> fork("If")
               [] OTHER -> fork("Switch")

recover(cfg) == LET ctx == [blocks |-> cfg.blocks, at |-> cfg.at, loops |-> cfg.loops, succ |-> cfg.succ,
                            pd |-> compute_post_dominators(cfg.succ)]
                IN  build_from_in(ctx, 1, Len(cfg.blocks) + 1, <<>>)

-----------------------------------------------------------------------------
(* borrow_tracking.rs.  The live borrows of a block: the parent of every     *)
(* borrowing temp, what ReadRef copied from, and the temps that were         *)
(* borrowed from anywhere in the function.                                   *)

ParentOps == {"BorrowField", "BorrowLoc", "GetField"}
CallOps   == {"Function", "OpaqueCallBegin", "OpaqueCallEnd"}

precompute_borrow_field_parents(code) ==
    {code[i].s[1] : i \in {j \in DOMAIN code : code[j].op \in ParentOps /\ code[j].s # <<>>}}

NewBorrowState(seen) == [parent |-> NoFun, aliases |-> NoFun, seen |-> seen]

introduce(bs, child, parent) == [bs EXCEPT !.parent = With(@, child, parent), !.seen = @ \cup {parent}]
kill_borrow(bs, child) == [bs EXCEPT !.parent = Without(@, {child}), !.aliases = Without(@, {child})]
kill_rooted_at(bs, slots) == [bs EXCEPT !.parent = [c \in {x \in DOMAIN @ : @[x] \notin slots} |-> @[c]]]
KillAll(bs, xs) == kill_rooted_at(Fold(kill_borrow, bs, xs), Range(xs))
Effective(bs, slot) == IF slot \in DOMAIN bs.aliases THEN bs.aliases[slot] ELSE slot
saw_borrow_field(bs, slot) == Effective(bs, slot) \in bs.seen

observe(bs, bc) ==
    CASE bc.op \in ParentOps -> introduce(bs, bc.d[1], bc.s[1])
      [] bc.op = "ReadRef"   -> [bs EXCEPT !.aliases = With(@, bc.d[1], bc.s[1])]
      [] bc.op = "WriteBack" -> kill_borrow(bs, bc.s[1])
      [] bc.op = "Destroy"   -> KillAll(bs, bc.s)
      [] bc.op \in CallOps   -> KillAll(kill_rooted_at(bs, Range(bc.s)), bc.d)
      [] OTHER               -> KillAll(bs, bc.d)

RefOf(t) == IF t[1] \in {"ref", "mutref"} THEN t[2] ELSE t
types_compatible(a, b) == RefOf(a) = RefOf(b)

\* The live child of a slot that stands for it where the slot's own type does not
\* fit; the slot itself otherwise.
resolve_typed(bs, types, slot, expected) ==
    LET kids == {c \in DOMAIN bs.parent : bs.parent[c] = Effective(bs, slot)}
        fit == {c \in kids : types_compatible(types[c], expected)}
    IN  IF ~types_compatible(types[slot], expected) /\ Cardinality(fit) = 1
        THEN CHOOSE c \in fit : TRUE ELSE slot

-----------------------------------------------------------------------------
(* ir_translator.rs *)

NoValueOps == {"Destroy", "Trace", "Havoc", "Stop", "PackRef", "UnpackRef", "Uninit"}
BorrowVar == "__v"

convert_constant(x) == IF x[1] = "bool" THEN Bool(x[2]) ELSE UInt(x[1], x[2])
make_let(d, e) == Let(d, e, Unit)

translate_mutable_borrow_field(src, str, i) ==
    MutableBorrow(BorrowVar, Field(str, i, Var(src)), UpdateField(str, i, Var(src), Var(BorrowVar)))

\* Only a dynamic field of a parent that was itself borrowed from is written back
\* through a field: the one that holds the UID.
UidT == <<"struct", "UID">>
find_uid_field_index(t) ==
    LET fs == IF RefOf(t)[1] # "struct" THEN <<>> ELSE StructFields[RefOf(t)[2]]
        is == {i \in DOMAIN fs : fs[i] = UidT}
    IN  IF is = {} THEN 1 ELSE CHOOSE i \in is : \A j \in is : i <= j
translate_borrow_edge(tgt, bs, parent, edge) ==
    IF edge[1] = "Hyper" /\ edge[2][1][1] = "DynamicField" /\ saw_borrow_field(bs, parent)
    THEN find_uid_field_index(tgt.types[parent]) ELSE 0

\* The arguments of a quantifier: the collection and the range come first.
translate_quantifier(bc) ==
    LET coll == IF VectorBased(bc.x[1]) THEN 1 ELSE 0
        rng  == IF RangeBased(bc.x[1]) THEN 2 ELSE 0
        args == MapSeq(SubSeq(bc.s, coll + rng + 1, Len(bc.s)), Var)
    IN  Quantifier(bc.x[1], args[bc.x[3]].v[1], bc.x[4], coll, Call(bc.x[2], args),
                   MapSeq(SubSeq(bc.s, 1, coll + rng), Var))

\* The value of an operation over its (resolved) arguments: one about a reference
\* or a field, an operator, a write-back, and any other.
translate_reference(tgt, bc, args) ==
    LET mutSrc == IsMutRef(tgt.types[bc.s[1]])
        mutDst == IsMutRef(tgt.types[bc.d[1]])
    IN  CASE bc.op = "GetField" \/ (bc.op = "BorrowField" /\ ~mutDst) -> Field(bc.x[1], bc.x[2], args[1])
          [] bc.op = "BorrowField" -> translate_mutable_borrow_field(bc.s[1], bc.x[1], bc.x[2])
          [] bc.op = "BorrowLoc" /\ mutDst -> MutableBorrow(BorrowVar, args[1], Var(BorrowVar))
          [] bc.op \in {"ReadRef", "FreezeRef"} /\ mutSrc -> ReadRef(args[1])
          [] bc.op = "WriteRef" -> WriteRef(args[1], args[2])
          [] OTHER -> args[1]
translate_operator(bc, args) ==
    CASE bc.op \in BinaryOps -> BinOp(bc.op, args[1], args[2])
      [] bc.op = "Not" -> Not(args[1])
      [] bc.op = "Cast" -> Cast(bc.x[1], args[1])
translate_write_back(tgt, bs, bc) ==
    WriteBack(bc.s[1], bc.x[1][2], translate_borrow_edge(tgt, bs, bc.x[1][2], bc.x[2]))

translate_call(tgt, bs, bc, args) ==
    CASE bc.op \in BinaryOps \cup {"Not", "Cast"} -> translate_operator(bc, args)
      [] bc.op = "Function" -> Call(bc.x[1], args)
      [] bc.op = "Pack" -> Pack(bc.x[1], 0, args)
      [] bc.op = "PackVariant" -> Pack(bc.x[1], bc.x[2], args)
      [] bc.op = "UnpackVariant" -> Unpack(bc.x[1], bc.x[2], args[1])
      [] bc.op \in {"GetField", "BorrowField", "BorrowLoc", "ReadRef", "FreezeRef", "WriteRef"} -> translate_reference(tgt, bc, args)
      [] bc.op = "WriteBack" -> translate_write_back(tgt, bs, bc)
      [] bc.op = "IsParent" -> Bool(TRUE)
      [] bc.op = "Quantifier" -> translate_quantifier(bc)
      [] bc.op \in NoValueOps -> Unit

translate_one(P, tgt, bs, bc) ==
    LET expected(i) == LET g == P[bc.x[1]] IN g.types[g.locals[i]]
        args == [i \in DOMAIN bc.s |->
                    Var(IF bc.op \in CallOps THEN resolve_typed(bs, tgt.types, bc.s[i], expected(i)) ELSE bc.s[i])]
    IN  CASE bc.op = "Assign" -> make_let(bc.d, Var(bc.s[1]))
          [] bc.op = "Load"   -> make_let(bc.d, convert_constant(bc.x))
          [] bc.op \in {"Nop", "Prop", "SaveMem"} -> Unit
          [] bc.op = "Unpack" ->
                FoldAt(LAMBDA chain, i : assign(chain, make_let(<<bc.d[i]>>, Field(bc.x[1], i, args[1]))),
                               Unit, bc.d)
          [] OTHER -> make_let(bc.d, translate_call(tgt, bs, bc, SubSeq(args, 1, Len(bc.s))))

-----------------------------------------------------------------------------
(* ir_translation.rs.  A structure: its kind, the statements before it, its *)
(* condition or scrutinee, how a Leaf ends, its branches and what follows   *)
(* it (a sequence of at most one).                                          *)

Structure(s, body, cond, t, c, k) == [s |-> s, body |-> body, cond |-> cond, t |-> t, c |-> c, k |-> k]
Leaf(body, t) == Structure("Leaf", body, Unit, t, <<>>, <<>>)

\* Through the branches, or through what follows.
RECURSIVE terminates_on_every_path(_, _)
terminates_on_every_path(s, kinds) ==
    IF s.s = "Leaf" THEN s.t # <<>> /\ s.t[1] \in kinds
    ELSE \/ s.c # <<>> /\ \A i \in DOMAIN s.c : terminates_on_every_path(s.c[i], kinds)
         \/ s.k # <<>> /\ terminates_on_every_path(s.k[1], kinds)
always_returns(s) == terminates_on_every_path(s, {"Return", "Abort"})
always_aborts(s)  == terminates_on_every_path(s, {"Abort"})

SkippedOps == {"Label", "Branch", "Jump", "VariantSwitch", "Ret", "Abort"}

\* The borrows are followed inside one block only.
translate_block_body(P, tgt, b, seen) ==
    LET code == SelectSeq(SubSeq(tgt.code, b.start, b.end - 1), LAMBDA bc : bc.op \notin SkippedOps)
        step(st, bc) == [body |-> assign(st.body, translate_one(P, tgt, st.bs, bc)), bs |-> observe(st.bs, bc)]
        body == Fold(step, [body |-> Unit, bs |-> NewBorrowState(seen)], code).body
        vals == MapSeq(b.t.ts, Var)
    IN  IF b.t.k # "Return" \/ vals = <<>> THEN body
        ELSE assign(body, IF Len(vals) = 1 THEN vals[1] ELSE Tuple(vals))

cond_from_branch_block(b) == IF b.t.neg THEN Not(Var(b.t.ts[1])) ELSE Var(b.t.ts[1])

prepend_body(prefix, s) == IF IsUnitNode(prefix) THEN s ELSE [s EXCEPT !.body = assign(prefix, @)]

combine(prefix, suffix) ==
    CASE prefix.s # "Leaf"  -> [prefix EXCEPT !.k = <<suffix>>]
      [] prefix.t = <<>>    -> prepend_body(prefix.body, suffix)
      [] OTHER              -> prefix

RECURSIVE translate_inner(_, _, _, _, _)
translate_inner(P, tgt, blocks, seen, sk) ==
    LET rec(x) == translate_inner(P, tgt, blocks, seen, x)
        kids == MapSeq(sk.c, rec)
        body == translate_block_body(P, tgt, blocks[sk.b], seen)
    IN  CASE sk.s = "Block" -> Leaf(body, <<>>)
          [] sk.s = "Term"  -> Leaf(Unit, sk.t)
          [] sk.s = "Seq"   -> IF kids = <<>> THEN Leaf(Unit, <<>>)
                               ELSE FoldRight(combine, Front(kids), Last(kids))
          [] sk.s = "If"    -> Structure("If", body, cond_from_branch_block(blocks[sk.b]), <<>>, kids, <<>>)
          [] sk.s = "While" -> Structure("While", Unit, Unit, <<>>, kids, <<>>)
          [] OTHER          -> Structure("Switch", body, Var(blocks[sk.b].t.ts[1]), <<>>, kids, <<>>)

translate(P, tgt) == LET cfg == discover_cfg(tgt.code)
                     IN  translate_inner(P, tgt, cfg.blocks, precompute_borrow_field_parents(tgt.code), recover(cfg))

-----------------------------------------------------------------------------
(* Emission (early_return.rs, phi_detection.rs, loop_handling.rs), once for *)
(* the value and once for the abort condition.  ctx: [fn (the function's    *)
(* name), aborts (the mode), keep (preserve_aborts), vars (types), ret].    *)
(* st: the names in scope, the enclosing loops (outermost first, [w, a,     *)
(* wp, ap]: their functions and parameters), the next loop's number and     *)
(* the functions emitted so far.                                            *)

Emitted(ir, st) == [ir |-> ir, st |-> st]
InScope(st, scope) == [st EXCEPT !.scope = scope]
extend_scope(st, n) == InScope(st, st.scope \cup bindings(n))
no_abort == Bool(FALSE)
EmptyRest(ctx) == IF ctx.aborts THEN no_abort ELSE Unit
PhiTuple(vs) == IF Len(vs) = 1 THEN Var(vs[1]) ELSE Tuple(MapSeq(vs, Var))

\* Assigned in every branch, or in some branch and already in scope; never what
\* the condition reads.
PhiVars(cond, branches, scope) ==
    LET defs == {bindings(branches[i]) : i \in DOMAIN branches}
    IN  {x \in UNION defs : (\A d \in defs : x \in d) \/ x \in scope} \ free_vars(cond)
compute_if_phi_vars(cond, t, f, scope) == PhiVars(cond, <<t, f>>, scope)

RECURSIVE append_phi_return(_, _)
append_phi_return(n, vs) ==
    CASE n.k = "Let" -> Let(n.v, n.c[1], append_phi_return(n.c[2], vs))
      [] n.k \in {"If", "Match"} ->
            [n EXCEPT !.c = <<n.c[1]>> \o MapSeq(Tail(n.c), LAMBDA m : append_phi_return(m, vs))]
      [] OTHER -> Let(<<>>, n, PhiTuple(vs))

WithPhis(fork, vs, cont) ==
    IF vs = <<>> THEN Let(<<>>, fork, cont) ELSE Let(vs, append_phi_return(fork, vs), cont)
detect_if_phis(cond, t, f, cont, scope) ==
    WithPhis(If(cond, t, f), Listed(compute_if_phi_vars(cond, t, f, scope)), cont)
detect_match_phis(scrut, cases, cont, scope) ==
    LET m == Match(scrut, cases) IN
    IF cases = <<>> THEN assign(m, cont) ELSE WithPhis(m, Listed(PhiVars(scrut, cases, scope)), cont)

RECURSIVE collect_structure_free_vars(_)
collect_structure_free_vars(s) ==
    free_vars(s.body) \cup free_vars(s.cond)
    \cup UNION {collect_structure_free_vars(s.c[i]) : i \in DOMAIN s.c}
    \cup UNION {collect_structure_free_vars(s.k[i]) : i \in DOMAIN s.k}

\* The loops around this one that its jumps leave for: <<level, is a break>>.
RECURSIVE collect_term_resolutions(_, _)
collect_term_resolutions(s, off) ==
    IF s.s = "Leaf"
    THEN IF s.t # <<>> /\ s.t[1] \in {"Continue", "Break"} /\ s.t[2] >= off
         THEN {<<s.t[2] - off, s.t[1] = "Break">>} ELSE {}
    ELSE UNION {collect_term_resolutions(s.c[i], IF s.s = "While" THEN off + 1 ELSE off) : i \in DOMAIN s.c}
         \cup UNION {collect_term_resolutions(s.k[i], off) : i \in DOMAIN s.k}

\* What is assigned on the way to each break of the loop.
RECURSIVE walk_break_paths(_, _, _)
walk_break_paths(s, depth, in) ==
    LET now == in \cup bindings(s.body) IN
    IF s.s = "Leaf" THEN IF s.t = <<"Break", depth>> THEN {now} ELSE {}
    ELSE UNION {walk_break_paths(s.c[i], IF s.s = "While" THEN depth + 1 ELSE depth, now) : i \in DOMAIN s.c}
         \cup UNION {walk_break_paths(s.k[i], depth, now) : i \in DOMAIN s.k}
collect_break_safe_bindings(body) ==
    LET snaps == walk_break_paths(body, 0, {}) IN {x \in UNION snaps : \A s \in snaps : x \in s}

\* A continue calls the loop's function, a break the one that follows it.
emit_loop_call(ctx, st, level, isBreak, body) ==
    IF level >= Len(st.stack) THEN assign(body, EmptyRest(ctx))
    ELSE LET l == st.stack[Len(st.stack) - level]
         IN  assign(body, IF isBreak THEN Call(l.a, MapSeq(l.ap, Var)) ELSE Call(l.w, MapSeq(l.wp, Var)))

emit_leaf(ctx, s, st) ==
    LET end(n) == assign(s.body, n)
        ir == CASE s.t = <<>> \/ s.t[1] = "Return" -> end(EmptyRest(ctx))
                [] s.t[1] = "Abort" -> end(IF ctx.aborts THEN Bool(TRUE) ELSE AbortNode(<<Var(s.t[2])>>))
                [] OTHER -> emit_loop_call(ctx, st, s.t[2], s.t[1] = "Break", s.body)
    IN  Emitted(ir, extend_scope(st, s.body))

RECURSIVE emit(_, _, _)

\* Every branch from the same scope; the loops it emits stay.
AddBranch(acc, r, scope) == [ir |-> Append(acc.ir, r.ir), st |-> InScope(r.st, scope)]
EmitAll(ctx, ss, st) ==
    Fold(LAMBDA acc, s : AddBranch(acc, emit(ctx, s, InScope(acc.st, st.scope)), st.scope), Emitted(<<>>, st), ss)
EmitRest(ctx, s, st) == IF s.k = <<>> THEN Emitted(EmptyRest(ctx), st) ELSE emit(ctx, s.k[1], st)

\* In the value of a specification an aborting branch is dropped with its test.
Prunes(ctx, s) == ~ctx.aborts /\ ~ctx.keep /\ always_aborts(s.c[1]) # always_aborts(s.c[2])
ThenRest(s, r, k) == Emitted(assign(s.body, assign(r.ir, k.ir)), k.st)
PruneRest(ctx, s, st, r) == ThenRest(s, r, EmitRest(ctx, s, InScope(r.st, st.scope)))
try_abort_prune_if(ctx, s, st) ==
    PruneRest(ctx, s, st, emit(ctx, IF always_aborts(s.c[1]) THEN s.c[2] ELSE s.c[1], st))

\* The branches bs and the rest k: the rest goes into the branches when one returns.
IfThen(s, scope, bs, k) ==
    LET rets(i) == always_returns(s.c[i])
        arm(i) == IF rets(i) \/ rets(1) = rets(2) THEN bs.ir[i] ELSE assign(bs.ir[i], k.ir)
        joins == ~rets(1) /\ ~rets(2) /\ s.k # <<>>
    IN  Emitted(assign(s.body, IF joins THEN detect_if_phis(s.cond, bs.ir[1], bs.ir[2], k.ir, scope)
                                        ELSE If(s.cond, arm(1), arm(2))),
                IF joins \/ rets(1) # rets(2) THEN k.st ELSE bs.st)
IfRest(ctx, s, scope, bs) ==
    LET phis == IF \E i \in {1, 2} : always_returns(s.c[i]) THEN {}
                ELSE compute_if_phi_vars(s.cond, bs.ir[1], bs.ir[2], scope)
    IN  IfThen(s, scope, bs, EmitRest(ctx, s, InScope(bs.st, scope \cup phis)))
emit_if(ctx, s, st) ==
    IF Prunes(ctx, s) THEN try_abort_prune_if(ctx, s, st) ELSE IfRest(ctx, s, st.scope, EmitAll(ctx, s.c, st))

\* What follows is emitted before the cases.
SwitchThen(s, scope, bs, k) ==
    Emitted(assign(s.body, IF s.k = <<>> THEN Match(s.cond, bs.ir) ELSE detect_match_phis(s.cond, bs.ir, k.ir, scope)), bs.st)
SwitchCases(ctx, s, st, k) == SwitchThen(s, st.scope, EmitAll(ctx, s.c, InScope(k.st, st.scope)), k)
emit_switch(ctx, s, st) == SwitchCases(ctx, s, st, EmitRest(ctx, s, st))

\* A loop becomes two functions: one iteration, and what follows the loop.  The
\* iteration takes what it, the rest, or an outer loop it jumps to reads; the
\* rest takes, besides, what every break has assigned and it reads.
LoopParams(s, st) ==
    LET outer(r) == IF r[1] >= Len(st.stack) THEN {}
                    ELSE LET l == st.stack[Len(st.stack) - r[1]] IN Range(IF r[2] THEN l.ap ELSE l.wp)
        jumps == collect_term_resolutions(s.c[1], 1) \cup UNION {collect_term_resolutions(s.k[i], 0) : i \in DOMAIN s.k}
        used == collect_structure_free_vars(s.c[1]) \cup UNION {collect_structure_free_vars(s.k[i]) : i \in DOMAIN s.k}
    IN  (st.scope \ {"_"}) \cap (used \cup UNION {outer(r) : r \in jumps})

\* Mutant: the rest takes what the iteration takes, whatever a break assigned.
AfterParamsOfLoop(ctx, s, conv, wp) == {}

AfterParams(ctx, s, conv, wp) ==
    (free_vars(conv) \cap collect_break_safe_bindings(s.c[1]) \cap DOMAIN ctx.vars) \ (wp \cup {"_"})

LoopFn(ctx, name, params, body, after) ==
    [Fn(params, [i \in DOMAIN params |-> IF params[i] \in DOMAIN ctx.vars THEN ctx.vars[params[i]] ELSE UnitT],
        IF ctx.aborts THEN BoolT ELSE ctx.ret, body, IF ctx.aborts THEN name ELSE "")
     EXCEPT !.helper = TRUE, !.after = after]

\* The functions of the loop: its frame, its parameters, its body and the rest k.
LoopFns(ctx, s, st, f, k, body) ==
    LET rest == IF IsUnitNode(k.ir) /\ ~ctx.aborts /\ ctx.ret \notin {UnitT, BoolT} THEN Inhabited ELSE k.ir
        fns == With(With(body.st.fns, f.w, LoopFn(ctx, f.wname, f.wp, body.ir, FALSE)),
                    f.a, LoopFn(ctx, f.aname, f.ap, rest, TRUE))
    IN  Emitted(assign(s.body, Call(f.w, MapSeq(f.wp, Var))),
                [body.st EXCEPT !.scope = st.scope, !.stack = st.stack, !.fns = fns])
LoopBody(ctx, s, st, f, k) ==
    LoopFns(ctx, s, st, f, k, emit(ctx, s.c[1], [k.st EXCEPT !.scope = st.scope, !.k = @ + 1, !.stack = Append(@, f)]))
LoopFrame(ctx, s, st, k) ==
    LET wset == LoopParams(s, st)
        wname == ctx.fn \o ".while_" \o ToString(k.st.k)
        shown(n) == IF ctx.aborts THEN n \o ".aborts" ELSE n
    IN  [wname |-> wname, aname |-> wname \o ".after", w |-> shown(wname), a |-> shown(wname \o ".after"),
         wp |-> Listed(wset), ap |-> Listed(wset) \o Listed(AfterParams(ctx, s, k.ir, wset))]
LoopAfterRest(ctx, s, st, k) == LoopBody(ctx, s, st, LoopFrame(ctx, s, st, k), k)
emit_while(ctx, s, st) == LoopAfterRest(ctx, s, st, EmitRest(ctx, s, st))

EmitFork(ctx, s, st) == CASE s.s = "If" -> emit_if(ctx, s, st)
                      [] s.s = "While" -> emit_while(ctx, s, st)
                      [] OTHER -> emit_switch(ctx, s, st)
emit(ctx, s, st) == IF s.s = "Leaf" THEN emit_leaf(ctx, s, st) ELSE EmitFork(ctx, s, extend_scope(st, s.body))

=============================================================================
