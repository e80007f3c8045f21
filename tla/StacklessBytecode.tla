------------------------ MODULE StacklessBytecode ------------------------
(***************************************************************************)
(* The data every model of the compilation pipeline shares, and the        *)
(* stackless bytecode (stackless_bytecode.rs).  Data: unsigned integers of *)
(* a few small widths, Booleans, structs, enums and vectors, their types,  *)
(* and the selection and update of a part of a value.                      *)
(*                                                                         *)
(* An instruction is [op, d, s, x]: its destinations, its sources and what *)
(* else it names; a function is [name, code, locals (parameters first),    *)
(* params (their number), user (the number of declared locals), types (of  *)
(* the locals), ret, native, pure].  Locals are names, labels are numbers, *)
(* offsets count from 1.                                                   *)
(***************************************************************************)
EXTENDS Integers, Sequences, FiniteSets, SequencesExt

CONSTANTS StructFields,     \* struct -> the sequence of its fields' types
          EnumVariants      \* enum -> the sequence of its variants' field types

Bits == [u1 |-> 1, u2 |-> 2, u3 |-> 3, u4 |-> 4]       \* u8 ... u256, scaled down
Bound(w) == 2 ^ Bits[w]

BoolT == <<"bool">>
UnitT == <<"tuple">>
UIntT(w)    == <<"uint", w>>
StructT(s)  == <<"struct", s>>
EnumT(e)    == <<"enum", e>>
VectorT(t)  == <<"vector", t>>
RefT(t)     == <<"ref", t>>
MutRefT(t)  == <<"mutref", t>>
IsUInt(t)   == t[1] = "uint"
IsMutRef(t) == t[1] = "mutref"
IsRef(t)    == t[1] \in {"ref", "mutref"}
NonRef(t)   == IF IsRef(t) THEN t[2] ELSE t

BoolV(b)       == <<"b", b>>
UIntV(w, n)    == <<"u", w, n>>
TupleV(vs)     == <<"t", vs>>
StructV(s, vs) == <<"s", s, vs>>
EnumV(e, tag, vs) == <<"e", e, tag, vs>>
VectorV(vs)    == <<"v", vs>>
UnitV          == TupleV(<<>>)

\* Every value of a type; vectors have length one or two.
RECURSIVE Values(_)
RECURSIVE Products(_)
Products(ts) == IF ts = <<>> THEN {<<>>}
                ELSE {<<v>> \o vs : v \in Values(Head(ts)), vs \in Products(Tail(ts))}
Values(t) ==
    CASE t[1] = "bool" -> {BoolV(TRUE), BoolV(FALSE)}
      [] t[1] = "uint" -> {UIntV(t[2], n) : n \in 0..(Bound(t[2]) - 1)}
      [] t[1] = "struct" -> {StructV(t[2], vs) : vs \in Products(StructFields[t[2]])}
      [] t[1] = "enum" -> UNION {{EnumV(t[2], k, vs) : vs \in Products(EnumVariants[t[2]][k])} :
                                    k \in DOMAIN EnumVariants[t[2]]}
      [] t[1] = "vector" -> {VectorV(vs) : vs \in Products(<<t[2]>>) \cup Products(<<t[2], t[2]>>)}
      [] IsRef(t) -> Values(t[2])
      [] OTHER -> {UnitV}

\* The parts of a compound value, and the value with other parts.
PartsOf(v) == v[Len(v)]
WithParts(v, vs) == [v EXCEPT ![Len(v)] = vs]

RECURSIVE At(_, _)
At(v, path) == IF path = <<>> THEN v ELSE At(PartsOf(v)[Head(path)], Tail(path))
RECURSIVE Updated(_, _, _)
Updated(v, path, w) ==
    IF path = <<>> THEN w
    ELSE WithParts(v, [PartsOf(v) EXCEPT ![Head(path)] = Updated(@, Tail(path), w)])

-----------------------------------------------------------------------------
(* Arithmetic. *)

\* The bits of a and b combined one by one.
RECURSIVE BitWise(_, _, _, _)
BitWise(op, a, b, k) ==
    IF k = 0 THEN 0
    ELSE LET x == a % 2
             y == b % 2
             z == CASE op = "BitAnd" -> x * y [] op = "BitOr" -> x + y - x * y
                    [] OTHER -> (x + y) % 2
         IN  z + 2 * BitWise(op, a \div 2, b \div 2, k - 1)

CompareOps == {"Lt", "Le", "Gt", "Ge", "Eq", "Neq"}
Compare(op, a, b) == CASE op = "Lt" -> a < b [] op = "Le" -> a <= b
                       [] op = "Gt" -> a > b [] op = "Ge" -> a >= b
                       [] op = "Eq" -> a = b [] OTHER -> a # b
BinaryOps == {"Add", "Sub", "Mul", "Div", "Mod", "BitAnd", "BitOr", "Xor", "Shl", "Shr", "And", "Or"} \cup CompareOps

Fits(w, n) == n \in 0..(Bound(w) - 1)

NoFun == [x \in {} |-> 0]
With(f, x, y)  == (x :> y) @@ f
Without(f, xs) == [x \in DOMAIN f \ xs |-> f[x]]
SetMax(S) == CHOOSE m \in S : \A x \in S : x <= m
SetMin(S) == CHOOSE m \in S : \A x \in S : m <= x
\* Folds over the positions and over the elements of a sequence, from the left.
FoldAt(op(_, _), base, s) ==
    LET f[k \in 0..Len(s)] == IF k = 0 THEN base ELSE CHOOSE x \in {op(acc, k) : acc \in {f[k - 1]}} : TRUE
    IN  f[Len(s)]
Fold(op(_, _), base, s) == FoldAt(LAMBDA acc, k : op(acc, s[k]), base, s)
\* f with each of ds mapped to its own of vs; of two that are equal the later counts.
SetAll(f, ds, vs) == FoldAt(LAMBDA e, i : (ds[i] :> vs[i]) @@ e, f, ds)
\* SubSeq makes a tuple of the function.
MapSeq(s, F(_)) == SubSeq([i \in DOMAIN s |-> F(s[i])], 1, Len(s))
Listed(S) == FoldSet(LAMBDA x, q : Append(q, x), <<>>, S)

-----------------------------------------------------------------------------
(* The stackless bytecode. *)

I(op, d, s, x) == [op |-> op, d |-> d, s |-> s, x |-> x]

Load(d, c)        == I("Load", <<d>>, <<>>, c)            \* <<width, n>> or <<"bool", b>>
Assign(d, s, k)   == I("Assign", <<d>>, <<s>>, <<k>>)     \* Copy, Move or Store
Op(d, op, s)      == I(op, d, s, <<>>)
CallOf(d, f, s)   == I("Function", d, s, <<f>>)
Ret(s)            == I("Ret", <<>>, s, <<>>)
Abort(s)          == I("Abort", <<>>, <<s>>, <<>>)
Branch(c, t, e)   == I("Branch", <<>>, <<c>>, <<t, e>>)
Jump(l)           == I("Jump", <<>>, <<>>, <<l>>)
VariantSwitch(s, ls) == I("VariantSwitch", <<>>, <<s>>, ls)
Label(l)          == I("Label", <<>>, <<>>, <<l>>)
Nop               == I("Nop", <<>>, <<>>, <<>>)

\* Borrow nodes and edges.
LocalRoot(t)  == <<"LocalRoot", t>>
Reference(t)  == <<"Reference", t>>
ReturnPlaceholder(i) == <<"ReturnPlaceholder", i>>
Direct        == <<"Direct">>
FieldEdge(s, i) == <<"Field", s, i>>
EnumFieldEdge(e, i, v) == <<"EnumField", e, i, v>>
IndexEdge     == <<"Index">>
Hyper(es)     == <<"Hyper", es>>
flatten(e)    == IF e[1] = "Hyper" THEN e[2] ELSE <<e>>

is_exit(bc)   == bc.op \in {"Ret", "Abort", "Stop"}
is_unconditional_branch(bc) == bc.op \in {"Ret", "Jump", "Abort", "VariantSwitch", "Stop"}
is_branch(bc) == bc.op = "Branch" \/ is_unconditional_branch(bc)
branch_dests(bc) == IF bc.op \in {"Branch", "Jump", "VariantSwitch"} THEN bc.x ELSE <<>>
Labels(code)  == {code[i].x[1] : i \in {j \in DOMAIN code : code[j].op = "Label"}}
label_offsets(code) == [l \in Labels(code) |-> CHOOSE i \in DOMAIN code : code[i].op = "Label" /\ code[i].x[1] = l]
get_successors(pc, code, at) ==
    IF is_branch(code[pc]) THEN {at[l] : l \in Range(branch_dests(code[pc]))} ELSE {pc + 1} \cap DOMAIN code

MemoryOps == {"WriteBack", "IsParent"}
\* remap_src_vars: the node of a memory operation is a source too.
remap_src_vars(bc, to) ==
    LET m == [bc EXCEPT !.s = MapSeq(bc.s, LAMBDA t : to[t])] IN
    IF bc.op \in MemoryOps /\ bc.x[1][1] \in {"LocalRoot", "Reference"}
    THEN [m EXCEPT !.x[1][2] = to[bc.x[1][2]]] ELSE m

\* FunctionDataBuilder::emit: a jump to the label that follows is dropped.
EmitBytecode(code, bc) ==
    IF bc.op = "Label" /\ code # <<>> /\ code[Len(code)] = Jump(bc.x[1]) THEN [code EXCEPT ![Len(code)] = bc]
    ELSE Append(code, bc)

ParamsOf(fn) == SubSeq(fn.locals, 1, fn.params)
RefParams(fn) == SelectSeq(ParamsOf(fn), LAMBDA p : IsRef(fn.types[p]))
MutParams(fn) == SelectSeq(ParamsOf(fn), LAMBDA p : IsMutRef(fn.types[p]))
IndexOf(s, x) == CHOOSE i \in DOMAIN s : s[i] = x

-----------------------------------------------------------------------------
(* Structured control flow from stackless bytecode: the basic blocks       *)
(* (stackless_control_flow_graph.rs, with mid-code exits falling through)  *)
(* and the tree of sequences, conditionals and switches that the           *)
(* translator and the merges walk (control_flow_reconstruction).           *)
(*                                                                         *)
(* A block is named by its first offset.  A tree is                        *)
(*   <<"Basic", lower, upper>>, <<"Seq", trees>>,                          *)
(*   <<"IfThenElse", cond_at, then, else>> with else a sequence of at most *)
(*   one tree, or <<"Switch", switch_at, branches>>.                       *)
(* The if-else chains of the source are left out: the arm of a branch      *)
(* always starts with a basic block, so none is ever built.                *)

DummyExit == 0

BlockStarts(code) ==
    LET at == label_offsets(code) IN {1} \cup UNION {{at[l] : l \in Range(branch_dests(code[pc]))} : pc \in DOMAIN code}
BlockEnd(code, starts, b) == SetMin({pc \in b..Len(code) : pc = Len(code) \/ pc + 1 \in starts})

\* A return or abort in the middle falls through; the last block leads to the exit.
BlockSuccessors(code, starts, upper) ==
    LET next == {SetMax({b \in starts : b <= pc}) : pc \in get_successors(upper, code, label_offsets(code))}
    IN  CASE upper = Len(code) -> next \cup {DummyExit}
          [] is_exit(code[upper]) -> {upper + 1}
          [] OTHER -> next

\* The last offset and the successors of each block.
collect_blocks(code) ==
    LET starts == BlockStarts(code)
        upper == [b \in starts |-> BlockEnd(code, starts, b)]
    IN  [code |-> code, upper |-> upper,
         succ |-> [b \in starts \cup {DummyExit} |-> IF b = DummyExit THEN {} ELSE BlockSuccessors(code, starts, upper[b])]]

RECURSIVE Reached(_, _)
Reached(succ, bs) == LET more == bs \cup UNION {succ[b] : b \in bs} IN IF more = bs THEN bs ELSE Reached(succ, more)
is_acyclic(cfg) == \A b \in DOMAIN cfg.succ : b \notin Reached(cfg.succ, cfg.succ[b])

\* What every path from the block to the exit goes through, from all blocks down.
RECURSIVE post_dominators(_, _)
post_dominators(succ, pd) ==
    LET next == [b \in DOMAIN succ |-> {b} \cup {d \in DOMAIN succ : succ[b] # {} /\ \A s \in succ[b] : d \in pd[s]}]
    IN  IF next = pd THEN pd ELSE post_dominators(succ, next)
find_immediate_dominator(cfg, b) == CHOOSE d \in cfg.pd[b] \ {b} : cfg.pd[d] = cfg.pd[b] \ {b}

\* The arm of a branch that has no block of its own panics.
NoRegion == <<"Panic">>
AsTree(trees) == IF Len(trees) = 1 THEN trees[1] ELSE <<"Seq", trees>>

RECURSIVE reconstruct_region(_, _, _)
reconstruct_region(cfg, b, stop) ==
    LET upper == cfg.upper[b]
        bc == cfg.code[upper]
        block(l) == LET pc == label_offsets(cfg.code)[l] IN SetMax({s \in DOMAIN cfg.upper : s <= pc})
        join == find_immediate_dominator(cfg, b)
        region(l) == reconstruct_region(cfg, block(l), join)
        arms == [i \in DOMAIN bc.x |-> region(bc.x[i])]
        rest == CASE bc.op = "VariantSwitch" ->
                       <<<<"Switch", upper, [i \in DOMAIN bc.x |-> AsTree(arms[i])]>>>> \o reconstruct_region(cfg, join, stop)
                  [] bc.op = "Branch" /\ block(bc.x[1]) = block(bc.x[2]) -> reconstruct_region(cfg, block(bc.x[1]), stop)
                  [] bc.op = "Branch" ->
                       <<<<"IfThenElse", upper, IF arms[1] = <<>> THEN NoRegion ELSE AsTree(arms[1]),
                           IF arms[2] = <<>> THEN <<>> ELSE <<AsTree(arms[2])>>>>>> \o reconstruct_region(cfg, join, stop)
                  [] OTHER -> reconstruct_region(cfg, CHOOSE s \in cfg.succ[b] : TRUE, stop)
    IN  IF b \in {stop, DummyExit} THEN <<>> ELSE <<<<"Basic", b, upper>>>> \o rest

\* At most one tree: none for code with loops, or with the stops of loop_analysis.rs.
reconstruct_control_flow(code) ==
    LET blocks == collect_blocks(code)
        pd == post_dominators(blocks.succ, [b \in DOMAIN blocks.succ |-> DOMAIN blocks.succ])
    IN  IF (\E pc \in DOMAIN code : code[pc].op = "Stop") \/ ~is_acyclic(blocks) THEN {}
        ELSE {AsTree(reconstruct_region(With(blocks, "pd", pd), 1, -1))}

RECURSIVE iter_offsets(_)
iter_offsets(t) ==
    CASE t[1] = "Basic" -> [i \in 1..(t[3] - t[2] + 1) |-> t[2] + i - 1]
      [] t[1] = "Seq" -> Fold(LAMBDA acc, c : acc \o iter_offsets(c), <<>>, t[2])
      [] t[1] = "IfThenElse" -> Fold(LAMBDA acc, c : acc \o iter_offsets(c), iter_offsets(t[3]), t[4])
      [] OTHER -> Fold(LAMBDA acc, c : acc \o iter_offsets(c), <<>>, t[3])
=============================================================================
