------------------------------ MODULE Dataflow ------------------------------
(***************************************************************************)
(* The dataflow framework (dataflow_analysis.rs) and the analyses and      *)
(* rewritings built on it: reaching definitions and copy propagation       *)
(* (reaching_def_analysis.rs), live variables and the rewriting that ends  *)
(* the life of references (livevar_analysis.rs), and the borrow graph      *)
(* (borrow_analysis.rs).                                                   *)
(*                                                                         *)
(* An analysis is [kind, fn, succ, ...]: the transfer function and the     *)
(* join are chosen by its kind.  Its result has one entry per instruction, *)
(* the state before it: a set of at most one, empty where control never    *)
(* gets.                                                                   *)
(***************************************************************************)
EXTENDS StacklessBytecode

Offsets(code, F(_)) == SubSeq([pc \in DOMAIN code |-> F(pc)], 1, Len(code))
SuccessorsOf(code) == LET at == label_offsets(code) IN Offsets(code, LAMBDA pc : get_successors(pc, code, at))

-----------------------------------------------------------------------------
(* Reaching definitions: <<x, y>> when x is known to hold what y holds. *)

kill(st, t)       == {p \in st : t \notin Range(p)}
def_alias(st, d, s) == st \cup {<<d, s>>} \cup {<<d, p[2]>> : p \in {q \in st : q[1] = s}}

borrowed_locals(code) ==
    {code[i].s[1] : i \in {j \in DOMAIN code : code[j].op = "BorrowLoc"}}
    \cup {code[i].x[1][2] : i \in {j \in DOMAIN code : code[j].op \in MemoryOps}}

ReachTransfer(an, bc, st) ==
    LET killed == Fold(kill, st, bc.d) IN
    CASE bc.op = "Assign" /\ Range(bc.d \o bc.s) \cap an.borrowed = {} -> def_alias(killed, bc.d[1], bc.s[1])
      [] bc.op = "WriteBack" /\ bc.x[1][1] = "LocalRoot" -> kill(killed, bc.x[1][2])
      [] OTHER -> killed

get_propagated_local(fn, t, st) ==
    LET roots == {p[2] : p \in {q \in st : q[1] = t}} \ {p[1] : p \in st}
    IN  IF roots = {} THEN t ELSE fn.locals[SetMin({IndexOf(fn.locals, r) : r \in roots})]

-----------------------------------------------------------------------------
(* The borrow graph: the live nodes, and <<parent, child, edge>>.            *)

BorrowInfo(live, by) == [live |-> live, by |-> by]
Children(b, n) == {e[2] : e \in {x \in b.by : x[1] = n}}
get_incoming(b, n) == {<<e[1], e[3]>> : e \in {x \in b.by : x[2] = n}}

\* Nodes that borrow, directly or not, from n.
RECURSIVE Descendants(_, _)
Descendants(b, ns) == LET more == ns \cup UNION {Children(b, n) : n \in ns}
                      IN  IF more = ns THEN ns ELSE Descendants(b, more)
is_in_use(b, n) == Descendants(b, {n}) \cap b.live # {}

\* The code follows the borrows without a mark: it needs them to end.
Acyclic(b) == \A e \in b.by : e[1] \notin Descendants(b, {e[2]})

Action(src, dst, edge) == [src |-> src, dst |-> dst, edge |-> edge]

\* Every chain of write-backs from a node up to a root, to a parameter or to a
\* reference still in use.
RECURSIVE collect_dying_ancestor_trees(_, _, _, _)
collect_dying_ancestor_trees(b, next, n, order) ==
    IF n[1] = "LocalRoot" \/ is_in_use(next, n) \/ get_incoming(b, n) = {} THEN {order}
    ELSE UNION {collect_dying_ancestor_trees(b, next, p[1], Append(order, Action(n[2], p[1], p[2]))) :
                  p \in get_incoming(b, n)}

\* <<node, its chains>> for each node that is in use before and not after.
dying_nodes(b, next) ==
    Listed({<<n, collect_dying_ancestor_trees(b, next, n, <<>>)>> :
              n \in {m \in b.live \ next.live : ~is_in_use(next, m)}})

borrow_node(fn, t) == IF IsRef(fn.types[t]) THEN Reference(t) ELSE LocalRoot(t)
AddBorrow(b, p, c, e) == BorrowInfo(b.live \cup {c}, b.by \cup {<<p, c, e>>})

\* A summary: <<parameter, return position, edge>>.
VectorBorrowMut == "vector::borrow_mut"
CustomSummary(f) == IF f = VectorBorrowMut THEN {<<1, 1, IndexEdge>>} ELSE {}

SummaryOf(summaries, f) == IF f \in DOMAIN summaries THEN summaries[f] ELSE CustomSummary(f)

instantiate(b, summary, ins, outs) ==
    FoldSet(LAMBDA e, acc : AddBorrow(acc, Reference(ins[e[1]]), Reference(outs[e[2]]), e[3]), b, summary)

\* A borrow that is dead at once is not recorded: it could not be seen to die.
BorrowTransfer(an, pc, bc, b) ==
    LET fn == an.fn
        node(t) == borrow_node(fn, t)
        after == an.live[pc].after
        lives(t) == t \in after
        borrow(t, e) == IF lives(t) THEN AddBorrow(b, node(bc.s[1]), node(t), e) ELSE b
        b1 == CASE bc.op = "Assign" ->
                     LET n == node(bc.d[1])
                         s == node(bc.s[1])
                     IN  CASE bc.x[1] = "Move" -> BorrowInfo((b.live \cup {n}) \ {s}, b.by)
                           [] bc.x[1] = "Store" /\ IsMutRef(fn.types[bc.s[1]]) -> AddBorrow(b, s, n, Direct)
                           [] OTHER -> BorrowInfo(b.live \cup {n}, b.by)
                [] bc.op = "BorrowLoc" -> borrow(bc.d[1], Direct)
                [] bc.op = "BorrowField" -> borrow(bc.d[1], FieldEdge(bc.x[1], bc.x[2]))
                [] bc.op = "UnpackVariant" /\ bc.x[3] = "ByMutRef" ->
                     FoldAt(LAMBDA acc, i : IF lives(bc.d[i])
                                                    THEN AddBorrow(acc, node(bc.s[1]), node(bc.d[i]),
                                                                   EnumFieldEdge(bc.x[1], i, bc.x[2]))
                                                    ELSE acc, b, bc.d)
                [] bc.op = "Function" -> instantiate(b, SummaryOf(an.summaries, bc.x[1]), bc.s, bc.d)
                [] OTHER -> b
        gone == {t \in an.live[pc].before \ after : IsRef(fn.types[t])}
    IN  BorrowInfo(b1.live \ {node(t) : t \in gone}, b1.by)

-----------------------------------------------------------------------------
(* clean_and_optimize.rs: the references written and not yet written back. *)

UnwrittenTransfer(an, bc, st) ==
    CASE bc.op = "WriteRef" -> st \cup {bc.s[1]}
      [] bc.op = "WriteBack" /\ bc.x[1][1] = "Reference" /\ bc.s[1] \in st -> st \cup {bc.x[1][2]}
      [] bc.op = "Function" /\ bc.x[1] # VectorBorrowMut ->
            st \cup {t \in Range(bc.s) : IsMutRef(an.fn.types[t])}
      [] OTHER -> st

-----------------------------------------------------------------------------
(* The framework. *)

execute(an, pc, bc, st) == CASE an.kind = "reach"  -> ReachTransfer(an, bc, st)
                             [] an.kind = "borrow" -> BorrowTransfer(an, pc, bc, st)
                             [] OTHER              -> UnwrittenTransfer(an, bc, st)
join(an, a, b) == CASE an.kind = "reach"  -> a \cap b
                    [] an.kind = "borrow" -> BorrowInfo(a.live \cup b.live, a.by \cup b.by)
                    [] OTHER              -> a \cup b
JoinAll(an, S) == FoldSet(LAMBDA a, acc : {IF acc = {} THEN a ELSE join(an, a, CHOOSE x \in acc : TRUE)}, {}, S)

RECURSIVE analyze_function(_, _)
analyze_function(an, m) ==
    LET code == an.fn.code
        out(p) == {execute(an, p, code[p], st) : st \in m[p]}
        next == Offsets(code, LAMBDA pc : JoinAll(an, m[pc] \cup UNION {out(p) : p \in {q \in DOMAIN code : pc \in an.succ[q]}}))
    IN  IF next = m THEN m ELSE analyze_function(an, next)

Forward(an, init) == analyze_function(an, Offsets(an.fn.code, LAMBDA pc : IF pc = 1 THEN {init} ELSE {}))

-----------------------------------------------------------------------------
(* Live variables, backward.  A VariantSwitch adds no use. *)

LiveTransfer(bc, after) ==
    CASE bc.op = "Assign" -> IF bc.d[1] \in after THEN (after \ {bc.d[1]}) \cup {bc.s[1]} ELSE after
      [] bc.op \in {"Nop", "Label", "Jump", "VariantSwitch"} -> after
      [] OTHER -> (after \ Range(bc.d)) \cup Range(bc.s)

RECURSIVE LiveBefore(_, _, _)
LiveBefore(code, succ, m) ==
    LET next == Offsets(code, LAMBDA pc : LiveTransfer(code[pc], UNION {m[q] : q \in succ[pc]}))
    IN  IF next = m THEN m ELSE LiveBefore(code, succ, next)

analyze_live(code) ==
    LET succ == SuccessorsOf(code)
        m == LiveBefore(code, succ, Offsets(code, LAMBDA pc : {}))
    IN  Offsets(code, LAMBDA pc : [before |-> m[pc], after |-> UNION {m[q] : q \in succ[pc]}])

-----------------------------------------------------------------------------
(* The processors. *)

copy_propagation(fn) ==
    LET an == [kind |-> "reach", fn |-> fn, succ |-> SuccessorsOf(fn.code), borrowed |-> borrowed_locals(fn.code)]
        st == Forward(an, {})
        at(pc) == UNION st[pc]
    IN  [fn EXCEPT !.code = Offsets(@, LAMBDA pc :
                       remap_src_vars(fn.code[pc], [t \in DOMAIN fn.types |-> get_propagated_local(fn, t, at(pc))]))]

next_free_label(code) == IF Labels(code) = {} THEN 1 ELSE SetMax(Labels(code)) + 1

lost_refs_along_edge(fn, live, pc, l) ==
    {t \in live[pc].after : IsRef(fn.types[t]) /\ t \notin live[label_offsets(fn.code)[l]].before}

\* A branch arm along which references die goes through a block that destroys them.
create_block_to_destroy_refs(st, l, refs) ==
    IF refs = {} THEN [st EXCEPT !.labels = Append(@, l)]
    ELSE [labels |-> Append(st.labels, st.free), free |-> st.free + 1,
          code |-> st.code \o <<Label(st.free)>> \o MapSeq(Listed(refs), LAMBDA t : Op(<<>>, "Destroy", <<t>>))
                           \o <<Jump(l)>>]

\* A computed value that only the next instruction copies on is computed in place.
\* Mutant: a borrow of a local is computed in place too.
FusesBorrows(code, live, pc) ==
    /\ pc < Len(code) /\ Len(code[pc].d) = 1 /\ code[pc].op \notin {"Load", "Assign"}
    /\ code[pc + 1].op = "Assign" /\ code[pc + 1].s[1] = code[pc].d[1]
    /\ code[pc].d[1] \notin live[pc + 1].after

FusesWithNext(code, live, pc) ==
    /\ pc < Len(code) /\ Len(code[pc].d) = 1
    /\ code[pc].op \notin {"Load", "Assign", "BorrowLoc"}
    /\ code[pc + 1].op = "Assign" /\ code[pc + 1].s[1] = code[pc].d[1]
    /\ code[pc].d[1] \notin live[pc + 1].after

TransformOne(fn, live, st, pc) ==
    LET bc == fn.code[pc]
        arms == Fold(LAMBDA a, l : create_block_to_destroy_refs(a, l, lost_refs_along_edge(fn, live, pc, l)),
                         [labels |-> <<>>, free |-> st.free, code |-> <<>>], bc.x)
        emit(is) == [st EXCEPT !.code = @ \o is]
    IN  CASE st.skip -> [st EXCEPT !.skip = FALSE]
          [] bc.op \in {"Branch", "VariantSwitch"} ->
                [st EXCEPT !.code = @ \o <<[bc EXCEPT !.x = arms.labels]>> \o arms.code, !.free = arms.free]
          [] bc.op \in {"Load", "Assign"} /\ bc.d[1] \notin live[pc].after -> st
          [] FusesWithNext(fn.code, live, pc) ->
                [emit(<<[bc EXCEPT !.d = fn.code[pc + 1].d]>>) EXCEPT !.skip = TRUE]
          [] OTHER -> emit(<<bc>>)

\* A reference that may be read before it is set starts uninitialized.
transform_code(fn) ==
    LET live == analyze_live(fn.code)
        uninit == {t \in live[1].before : IsMutRef(fn.types[t]) /\ t \notin Range(ParamsOf(fn))}
        st0 == [code |-> MapSeq(Listed(uninit), LAMBDA t : Op(<<>>, "Uninit", <<t>>)),
                free |-> next_free_label(fn.code), skip |-> FALSE]
    IN  [fn EXCEPT !.code = FoldAt(LAMBDA st, pc : TransformOne(fn, live, st, pc), st0, fn.code).code]

\* Parameters and declared locals stay, temporaries stay while an instruction names them.
Named(bc) == Range(bc.d \o bc.s) \cup (IF bc.op \in MemoryOps THEN {bc.x[1][2]} ELSE {})
eliminate_unused_vars(fn) ==
    LET used == UNION {Named(fn.code[pc]) : pc \in DOMAIN fn.code}
    IN  [fn EXCEPT !.locals = SubSeq(@, 1, fn.user) \o SelectSeq(SubSeq(@, fn.user + 1, Len(@)), LAMBDA t : t \in used)]

LiveVarProcess(fn) == eliminate_unused_vars(transform_code(fn))

BorrowStates(fn, summaries) ==
    LET live == analyze_live(fn.code)
        an == [kind |-> "borrow", fn |-> fn, succ |-> SuccessorsOf(fn.code), live |-> live, summaries |-> summaries]
        pre == Forward(an, BorrowInfo({borrow_node(fn, p) : p \in Range(ParamsOf(fn))}, {}))
    IN  Offsets(fn.code, LAMBDA pc : {[before |-> b, after |-> BorrowTransfer(an, pc, fn.code[pc], b)] : b \in pre[pc]})

\* The paths from a returned reference up to what it was borrowed from.
RECURSIVE construct_hyper_edges(_, _, _)
construct_hyper_edges(b, n, path) ==
    LET up == get_incoming(b, n) IN
    IF up = {} THEN {<<n, path>>}
    ELSE UNION {construct_hyper_edges(b, p[1], flatten(p[2]) \o path) : p \in up}

HyperEdge(path) == IF Len(path) = 1 THEN path[1] ELSE Hyper(path)
summarize(fn, states) ==
    LET ps == ParamsOf(fn)
        rets == {pc \in DOMAIN fn.code : fn.code[pc].op = "Ret" /\ states[pc] # {}}
        of(pc, i) == LET b == (CHOOSE s \in states[pc] : TRUE).before
                         t == fn.code[pc].s[i]
                         ups == IF get_incoming(b, Reference(t)) = {} THEN {}
                                ELSE construct_hyper_edges(b, Reference(t), <<>>)
                     IN  {<<IndexOf(ps, u[1][2]), i, HyperEdge(u[2])>> : u \in {v \in ups : v[1][2] \in Range(ps)}}
                         \cup (IF t \in Range(ps) /\ IsMutRef(fn.types[t]) THEN {<<IndexOf(ps, t), i, Direct>>} ELSE {})
    IN  UNION {UNION {of(pc, i) : i \in {j \in DOMAIN fn.code[pc].s : IsMutRef(fn.types[fn.code[pc].s[j]])}} : pc \in rets}

\* Callees first, which for calls without recursion ends with the summaries that
\* stay; recursion_analysis.rs has refused the inlined recursion before.
RECURSIVE Summaries(_, _)
Summaries(P, s) ==
    LET next == [f \in DOMAIN P |-> s[f] \cup summarize(P[f], BorrowStates(P[f], s))]
    IN  IF next = s THEN s ELSE Summaries(P, next)
BorrowSummaries(P) == Summaries(P, [f \in DOMAIN P |-> {}])

=============================================================================
