--------------------------- MODULE LoopInvariants ---------------------------
(***************************************************************************)
(* Loops on their way to Boogie: where the invariants of a loop are put    *)
(* (move_loop_invariants.rs), which loops there are (graph.rs, by          *)
(* dominators), and the code without back edges that proves the invariants *)
(* and uses them (loop_analysis.rs).                                       *)
(*                                                                         *)
(* An invariant is either written in the code, between the calls           *)
(* invariant_begin and invariant_end before the loop, or is a function of  *)
(* its own: one that returns a Boolean, or one that calls ensures itself.  *)
(* An instruction may carry an attribute id, a: the number of the          *)
(* invariant it delimits.                                                  *)
(***************************************************************************)
EXTENDS Dataflow

attr(bc)     == IF "a" \in DOMAIN bc THEN bc.a ELSE 0
Tag(bc, k)   == [a |-> k] @@ bc
NativeCall(f, s) == CallOf(<<>>, f, s)
IsCallTo(bc, f) == bc.op = "Function" /\ bc.x[1] = f
Havoc(t)     == Op(<<t>>, "Havoc", <<>>)
Stop         == Op(<<>>, "Stop", <<>>)

-----------------------------------------------------------------------------
(* graph.rs.  A node is a basic block, named by its first offset. *)

BlockGraph(code) ==
    LET starts == BlockStarts(code) \cup {pc \in DOMAIN code : pc > 1 /\ is_branch(code[pc - 1])}
        upper == [b \in starts |-> BlockEnd(code, starts, b)]
    IN  [upper |-> upper, succ |-> [b \in starts |-> get_successors(upper[b], code, label_offsets(code))]]

\* A node is numbered when it is met on the stack for the second time.
RECURSIVE postorder_visit(_, _)
postorder_visit(succ, st) ==
    IF st.stack = <<>> THEN st.order
    ELSE LET curr == Last(st.stack)
             fresh == succ[curr] \ st.visited
         IN  postorder_visit(succ,
                 IF curr \in st.grey THEN [st EXCEPT !.stack = Front(@), !.order = Append(@, curr)]
                 ELSE [st EXCEPT !.grey = @ \cup {curr}, !.visited = @ \cup fresh,
                                 !.stack = @ \o SetToSortSeq(fresh, LAMBDA x, y : x < y)])

RECURSIVE intersect(_, _, _)
intersect(idom, x, y) ==
    CASE x = y -> x
      [] x < y -> intersect(idom, idom[x], y)
      [] OTHER -> intersect(idom, x, idom[y])

\* The immediate dominators, as postorder numbers, swept from the entry down
\* until nothing changes.
NewIdom(preds, idom, n) ==
    LET known == SetToSortSeq(preds[n] \cap DOMAIN idom, LAMBDA x, y : x < y)
    IN  Fold(LAMBDA d, p : intersect(idom, p, d), Head(known), Tail(known))
RECURSIVE compute_dominators(_, _, _)
compute_dominators(preds, entry, idom) ==
    LET sweep == FoldAt(LAMBDA acc, k : With(acc, entry - k, NewIdom(preds, acc, entry - k)), idom,
                        [k \in 1..(entry - 1) |-> k])
    IN  IF sweep = idom THEN idom ELSE compute_dominators(preds, entry, sweep)

RECURSIVE is_dominated_by(_, _, _, _)
is_dominated_by(idom, entry, x, y) ==
    x = y \/ (x # entry /\ is_dominated_by(idom, entry, idom[x], y))

RECURSIVE LoopBody(_, _)
LoopBody(preds, body) ==     \* body holds the header, whose predecessors are not followed
    LET more == body.in \cup UNION {preds[b] : b \in body.in \ {body.header}}
    IN  IF more = body.in THEN body.in ELSE LoopBody(preds, [body EXCEPT !.in = more])

\* One natural loop per back edge.
NaturalLoops(succ, order) ==
    LET num == [b \in Range(order) |-> IndexOf(order, b)]
        preds == [b \in DOMAIN succ |-> {p \in DOMAIN succ : b \in succ[p]}]
        numbered == [n \in DOMAIN order |-> {num[p] : p \in preds[order[n]] \cap Range(order)}]
        entry == Len(order)
        idom == compute_dominators(numbered, entry, entry :> entry)
        back == {<<p, h>> \in Range(order) \X DOMAIN succ : h \in succ[p] /\ is_dominated_by(idom, entry, num[p], num[h])}
    IN  {[header |-> e[2], latch |-> e[1], body |-> LoopBody(preds, [in |-> {e[1], e[2]}, header |-> e[2]])] : e \in back}
compute_reducible(succ) ==
    NaturalLoops(succ, postorder_visit(succ, [stack |-> <<1>>, visited |-> {1}, grey |-> {}, order |-> <<>>]))

\* The loops that share a header, by its label.
LoopsByHeader(code, g, loops) ==
    [l \in {code[x.header].x[1] : x \in loops} |->
        {[latch |-> g.upper[x.latch], body |-> UNION {b..g.upper[b] : b \in x.body}] :
            x \in {y \in loops : code[y.header] = Label(l)}}]
find_loops_headers(code) == LoopsByHeader(code, BlockGraph(code), compute_reducible(BlockGraph(code).succ))

-----------------------------------------------------------------------------
(* move_loop_invariants.rs.  The invariants of a function end up behind the *)
(* label of their loop.                                                     *)

OffsetsOf(code, f) == SetToSortSeq({pc \in DOMAIN code : IsCallTo(code[pc], f)}, LAMBDA x, y : x < y)
get_invariant_spans(code) == LET ends == OffsetsOf(code, "invariant_end")
                             IN  MapSeq(OffsetsOf(code, "invariant_begin"), LAMBDA b : <<b, SetMin({e \in Range(ends) : e > b})>>)

\* The label that follows an invariant is put before it.
handle_classical_loop_invariants(fn) ==
    LET code == fn.code
        spans == get_invariant_spans(code)
        in(pc) == {k \in DOMAIN spans : pc \in spans[k][1]..(spans[k][2] + 1)}
        emit(acc, pc) ==
            IF in(pc) = {} THEN EmitBytecode(acc, code[pc])
            ELSE LET k == CHOOSE i \in in(pc) : TRUE
                     begin == spans[k][1]
                     end == spans[k][2]
                 IN  CASE pc = begin -> EmitBytecode(acc, code[end + 1])
                       [] pc \in {end, end + 1} -> acc
                       [] OTHER -> EmitBytecode(acc, Tag(code[pc], k))
    IN  [fn EXCEPT !.code = FoldAt(LAMBDA acc, pc : emit(acc, pc), <<>>, code)]

BeforeLoop(code) == \A k \in DOMAIN get_invariant_spans(code) :
                        LET e == get_invariant_spans(code)[k][2] IN e < Len(code) /\ code[e + 1].op = "Label"

\* A parameter named after a local stands for it; __old_x for the value of x
\* before the loop, kept in a temporary that is set before the label.  inv.old
\* maps the second kind to the local.
Fresh(kind, k, t) == kind \o ToString(k) \o t
build_invariant_arguments(k, inv) ==
    MapSeq(ParamsOf(inv), LAMBDA p : IF p \in DOMAIN inv.old THEN Fresh("old", k, p) ELSE p)
SaveOld(k, inv) == MapSeq(SelectSeq(ParamsOf(inv), LAMBDA p : p \in DOMAIN inv.old),
                          LAMBDA p : Assign(Fresh("old", k, p), inv.old[p], "Copy"))

\* The call of a Boolean invariant, and what it returns asserted.
BoolInvariant(k, inv, args) ==
    LET holds == Fresh("inv", k, "holds")
    IN  <<Tag(CallOf(<<holds>>, inv.name, args), k), Tag(NativeCall("ensures", <<holds>>), k)>>

\* The body of a void one, in the function's own names: copies of parameters are
\* dropped, an early return jumps to the end.
ParameterCopies(code, given) ==
    Fold(LAMBDA to, bc : IF bc.op = "Assign" /\ bc.s[1] \in DOMAIN to THEN With(to, bc.d[1], to[bc.s[1]]) ELSE to, given, code)

inline_void_invariant(k, inv, args, free) ==
    LET copied == ParameterCopies(inv.code, SetAll(NoFun, ParamsOf(inv), args))
        to == [t \in DOMAIN inv.types |-> IF t \in DOMAIN copied THEN copied[t] ELSE Fresh("inv", k, t)]
        end == free + SetMax({0} \cup Labels(inv.code)) + 1
        early == \E pc \in 1..(Len(inv.code) - 1) : inv.code[pc].op = "Ret"
        one(bc) == CASE bc.op = "Ret" -> Jump(end)
                     [] bc.op \in {"Label", "Jump", "Branch"} ->
                           [bc EXCEPT !.s = MapSeq(@, LAMBDA t : to[t]), !.x = MapSeq(@, LAMBDA l : free + l)]
                     [] OTHER -> [bc EXCEPT !.d = MapSeq(@, LAMBDA t : to[t]), !.s = MapSeq(@, LAMBDA t : to[t])]
        kept == SelectSeq([pc \in DOMAIN inv.code |-> <<pc, inv.code[pc]>>],
                    LAMBDA x : /\ ~(x[2].op = "Assign" /\ x[2].s[1] \in DOMAIN copied /\ x[2].d[1] \in DOMAIN copied)
                               /\ ~(x[2].op = "Ret" /\ x[1] = Len(inv.code)))
        body == MapSeq(kept, LAMBDA x : one(x[2])) \o (IF early THEN <<Label(end)>> ELSE <<>>)
    IN  [pc \in DOMAIN body |-> IF pc \in {1, Len(body)} THEN Tag(body[pc], k) ELSE body[pc]]

\* The temporaries of the k-th invariant, typed.
InvariantTypes(fn, k, inv) ==
    [t \in {Fresh("old", k, p) : p \in DOMAIN inv.old} |->
        fn.types[inv.old[CHOOSE p \in DOMAIN inv.old : t = Fresh("old", k, p)]]]
    @@ (Fresh("inv", k, "holds") :> BoolT)
    @@ [t \in {Fresh("inv", k, u) : u \in DOMAIN inv.types} |->
        inv.types[CHOOSE u \in DOMAIN inv.types : t = Fresh("inv", k, u)]]

\* fn.invs: the invariant function of the loops, by the position of their
\* labels from 0 on.  The old values are saved before the label.
InsertInvariants(P, fn, headers) ==
    LET number(bc) == {k \in DOMAIN headers : bc = Label(headers[k]) /\ k - 1 \in DOMAIN fn.invs}
        emit(acc, bc) ==
            IF number(bc) = {} THEN EmitBytecode(acc, bc)
            ELSE LET k == CHOOSE i \in number(bc) : TRUE
                     inv == P[fn.invs[k - 1]]
                     args == build_invariant_arguments(k, inv)
                 IN  EmitBytecode(acc \o SaveOld(k, inv), bc)
                     \o (IF inv.ret = UnitT THEN inline_void_invariant(k, inv, args, 100 * k) ELSE BoolInvariant(k, inv, args))
        types == FoldAt(LAMBDA acc, k : IF k - 1 \in DOMAIN fn.invs THEN InvariantTypes(fn, k, P[fn.invs[k - 1]]) @@ acc ELSE acc,
                        fn.types, headers)
    IN  [fn EXCEPT !.code = Fold(emit, <<>>, fn.code), !.types = types, !.locals = @ \o Listed(DOMAIN types \ DOMAIN fn.types)]
handle_targeted_loop_invariant_functions(P, fn) ==
    InsertInvariants(P, fn, SetToSortSeq(DOMAIN find_loops_headers(fn.code), LAMBDA x, y : x < y))

\* is_valid_inv_function, for functions without calls.
AbortingOps == {"Add", "Sub", "Mul", "Div", "Mod", "Abort"}
MayAbort(code) == \E pc \in DOMAIN code : code[pc].op \in AbortingOps
Calls(code)    == {code[pc].x[1] : pc \in {q \in DOMAIN code : code[q].op = "Function"}}
is_valid_inv_function(P, fn) ==
    \A k \in DOMAIN fn.invs :
        LET inv == P[fn.invs[k]] IN
        /\ k < Cardinality(DOMAIN find_loops_headers(fn.code))
        /\ ~MayAbort(inv.code)
        /\ inv.ret \in {UnitT, BoolT}
        /\ Calls(inv.code) \subseteq IF inv.ret = UnitT THEN {"ensures"} ELSE {}
        /\ \A p \in Range(ParamsOf(inv)) : IF p \in DOMAIN inv.old THEN inv.old[p] \in Range(ParamsOf(inv))
                                           ELSE p \in Range(fn.locals)

\* An error is diagnosed, and the function left alone.
LoopInvariantsRefused(P, fn) ==
    CASE fn.invs # NoFun -> get_invariant_spans(fn.code) # <<>> \/ ~is_valid_inv_function(P, fn)
      [] OTHER -> ~BeforeLoop(fn.code)
MoveLoopInvariants(P, fn) ==
    CASE LoopInvariantsRefused(P, fn) -> fn
      [] fn.invs # NoFun -> handle_targeted_loop_invariant_functions(P, fn)
      [] get_invariant_spans(fn.code) # <<>> -> handle_classical_loop_invariants(fn)
      [] OTHER -> fn

-----------------------------------------------------------------------------
(* loop_analysis.rs *)

\* modifies, for code without references.
modifies(bc) == Range(bc.d)

\* What the loops of a header may change.
collect_loop_targets(code, loops) == UNION {modifies(code[pc]) : pc \in UNION {l.body : l \in loops}}

\* The loops with an invariant: its code, their targets and their back edges.
AnnotationOf(code, headers) ==
    LET spans == {LET at == {pc \in DOMAIN code : attr(code[pc]) = k} IN <<SetMin(at), SetMax(at)>> :
                     k \in {attr(code[pc]) : pc \in DOMAIN code} \ {0}}
        of(l) == {s \in spans : code[s[1] - 1] = Label(l)}
    IN  [spans |-> spans,
         fat_loops |-> [l \in {x \in DOMAIN headers : of(x) # {}} |->
             LET s == CHOOSE x \in of(l) : TRUE
             IN  [val_targets |-> collect_loop_targets(code, headers[l]), back_edges |-> {x.latch : x \in headers[l]},
                  invariant |-> SubSeq(code, s[1], s[2])]]]
build_loop_annotation(code) == AnnotationOf(code, find_loops_headers(code))

\* A copy of the invariant with labels of its own.
dup_code(code, n) == MapSeq(code, LAMBDA bc : IF bc.op \in {"Label", "Jump", "Branch"}
                                              THEN [bc EXCEPT !.x = MapSeq(@, LAMBDA l : l + 1000 * n)] ELSE bc)
ensures_to_requires(code) == MapSeq(code, LAMBDA bc : IF IsCallTo(bc, "ensures") THEN [bc EXCEPT !.x = <<"requires">>] ELSE bc)

\* Mutant: the variables that the loop changes keep their values.
HavocNothing(loop) == <<>>
HavocTargets(loop) == MapSeq(Listed(loop.val_targets), Havoc)

\* The invariant is asserted before the label of the loop; behind it the targets
\* are havocked and the invariant is assumed.
EnterLoop(loop, l) ==
    dup_code(loop.invariant, 1) \o <<Label(l)>> \o HavocTargets(loop) \o ensures_to_requires(dup_code(loop.invariant, 2))

\* Back edges lead to a block that asserts the invariant and stops.
CheckerLabel(l) == 500 + l
RedirectBackEdge(ann, pc, bc) ==
    IF \E l \in DOMAIN ann.fat_loops : pc \in ann.fat_loops[l].back_edges
    THEN [bc EXCEPT !.x = MapSeq(@, LAMBDA l : IF l \in DOMAIN ann.fat_loops THEN CheckerLabel(l) ELSE l)] ELSE bc
InvariantChecker(ann, l) == <<Label(CheckerLabel(l))>> \o dup_code(ann.fat_loops[l].invariant, 3) \o <<Stop>>

EliminateLoops(fn, ann) ==
    LET code == fn.code
        skipped(pc) == \E s \in ann.spans : pc \in s[1]..s[2]
        one(pc) == CASE skipped(pc) -> <<>>
                     [] code[pc].op = "Label" /\ code[pc].x[1] \in DOMAIN ann.fat_loops ->
                           EnterLoop(ann.fat_loops[code[pc].x[1]], code[pc].x[1])
                     [] OTHER -> <<RedirectBackEdge(ann, pc, code[pc])>>
        flat == FoldAt(LAMBDA acc, pc : acc \o one(pc), <<>>, code)
    IN  [fn EXCEPT !.code = Fold(LAMBDA acc, l : acc \o InvariantChecker(ann, l), flat, Listed(DOMAIN ann.fat_loops))]
LoopAnalysis(fn) == EliminateLoops(fn, build_loop_annotation(fn.code))

=============================================================================
