---------------------- MODULE MemoryInstrumentation ----------------------
(***************************************************************************)
(* From stack code to code without references.  The generator              *)
(* (stackless_bytecode_generator.rs) runs stack code on a stack of         *)
(* temporaries; then come the processors that turn references into values  *)
(* that are written back: eliminate_imm_refs.rs,                           *)
(* mut_ref_instrumentation.rs, memory_instrumentation.rs and               *)
(* clean_and_optimize.rs.                                                  *)
(*                                                                         *)
(* The generator's state is [code, stack, types, n, names]: the code so    *)
(* far, the temporaries on the stack, the type of every local, the number  *)
(* of locals and their names in order.                                     *)
(***************************************************************************)
EXTENDS Dataflow, MoveVM

-----------------------------------------------------------------------------
(* The generator. *)

Temp(n) == "t" \o ToString(n)

\* Pops `pops` temporaries, makes one of each type in `tys` and pushes it, makes
\* `hidden` ones that stay off the stack; Make gets results, operands, hidden ones.
Gen(st, pops, tys, hidden, Make(_, _, _)) ==
    LET k == Len(st.stack) - pops
        all == tys \o hidden
        fresh == [i \in DOMAIN all |-> Temp(Len(st.names) + i)]
        ds == SubSeq(fresh, 1, Len(tys))
        hs == SubSeq(fresh, Len(tys) + 1, Len(all))
    IN  [code |-> st.code \o Make(ds, SubSeq(st.stack, k + 1, Len(st.stack)), hs),
         stack |-> SubSeq(st.stack, 1, k) \o ds,
         types |-> SetAll(st.types, fresh, all),
         names |-> st.names \o fresh]
GenOne(st, pops, tys, op, x) == Gen(st, pops, tys, <<>>, LAMBDA d, s, h : <<I(op, d, s, x)>>)
Top(st, k) == st.stack[Len(st.stack) + 1 - k]
TopType(st, k) == st.types[Top(st, k)]

-----------------------------------------------------------------------------
(* Labels: one for each target of a branch and for what follows a          *)
(* conditional one.  A label made for the latter is a fall-through label.  *)

TargetsOf(bc) == CASE bc[1] \in {"BrTrue", "BrFalse", "Branch"} -> <<bc[2]>>
                   [] bc[1] = "VariantSwitch" -> bc[2]
                   [] OTHER -> <<>>
AddLabel(m, off) == IF off \in DOMAIN m THEN m ELSE With(m, off, Cardinality(DOMAIN m))
LabelsAt(st, pos, bc) ==
    LET m == Fold(AddLabel, st.map, TargetsOf(bc))
        through == bc[1] \in {"BrTrue", "BrFalse"}
    IN  [map |-> IF through THEN AddLabel(m, pos + 1) ELSE m,
         fall |-> IF through /\ pos + 1 \notin DOMAIN m THEN st.fall \cup {Cardinality(DOMAIN m)} ELSE st.fall]
label_map(code) == FoldAt(LAMBDA st, pos : LabelsAt(st, pos, code[pos]), [map |-> NoFun, fall |-> {}], code)

-----------------------------------------------------------------------------
(* generate_bytecode, a group of instructions at a time. *)

Emit(st, pops, bcs(_)) == Gen(st, pops, <<>>, <<>>, LAMBDA d, s, h : bcs(s))

\* `if c goto L1 else L2; L2: goto L3` becomes `if c goto L1 else L3` when L2 is
\* a fall-through label.
GenBranch(st, to, fall) ==
    LET at == Len(st.code)
        br == st.code[at - 1]
        lb == st.code[at]
        rewritten == /\ at >= 2 /\ br.op = "Branch" /\ lb.op = "Label"
                     /\ lb.x[1] \in fall /\ br.x[2] = lb.x[1]
    IN  [st EXCEPT !.code = IF rewritten THEN Append(SubSeq(@, 1, at - 2), [br EXCEPT !.x[2] = to])
                            ELSE Append(@, Jump(to))]

GenControl(st, fn, bc, pos, labels) ==
    LET at(off) == labels.map[off] IN
    CASE bc[1] = "Pop" -> GenOne(st, 1, <<>>, "Destroy", <<>>)
      [] bc[1] = "BrTrue" -> GenOne(st, 1, <<>>, "Branch", <<at(bc[2]), at(pos + 1)>>)
      [] bc[1] = "BrFalse" -> GenOne(st, 1, <<>>, "Branch", <<at(pos + 1), at(bc[2])>>)
      [] bc[1] = "Abort" -> GenOne(st, 1, <<>>, "Abort", <<>>)
      [] bc[1] = "StLoc" -> Emit(st, 1, LAMBDA s : <<Assign(bc[2], s[1], "Store")>>)
      [] bc[1] = "Ret" -> GenOne(st, Len(fn.ret), <<>>, "Ret", <<>>)
      [] bc[1] = "Branch" -> GenBranch(st, at(bc[2]), labels.fall)
ControlOps == {"Pop", "BrTrue", "BrFalse", "Abort", "StLoc", "Ret", "Branch"}

\* A freeze of what is not a mutable reference only pops.
GenBorrow(st, bc) ==
    CASE bc[1] = "FreezeRef" -> IF IsMutRef(TopType(st, 1)) THEN GenOne(st, 1, <<RefT(TopType(st, 1)[2])>>, "FreezeRef", <<>>)
                                ELSE [st EXCEPT !.stack = Front(@)]
      [] OTHER -> LET ty == StructFields[bc[2]][bc[3]]
                  IN  GenOne(st, 1, <<IF bc[1] = "MutBorrowField" THEN MutRefT(ty) ELSE RefT(ty)>>,
                             "BorrowField", <<bc[2], bc[3]>>)
BorrowOps == {"FreezeRef", "MutBorrowField", "ImmBorrowField"}

GenLoad(st, bc) == GenOne(st, 0, <<IF bc[2] = "bool" THEN BoolT ELSE UIntT(bc[2])>>, "Load", <<bc[2], bc[3]>>)
GenCast(st, bc) == GenOne(st, 1, <<UIntT(bc[2])>>, "Cast", <<bc[2]>>)

GenLocal(st, fn, bc) ==
    LET ty == fn.types[bc[2]] IN
    CASE bc[1] = "CopyLoc" -> Gen(st, 0, <<ty>>, <<>>, LAMBDA d, s, h : <<Assign(d[1], bc[2], "Copy")>>)
      [] bc[1] = "MoveLoc" -> Gen(st, 0, <<ty>>, <<>>, LAMBDA d, s, h : <<Assign(d[1], bc[2], "Move")>>)
      [] OTHER -> Gen(st, 0, <<IF bc[1] = "MutBorrowLoc" THEN MutRefT(ty) ELSE RefT(ty)>>, <<>>,
                      LAMBDA d, s, h : <<Op(d, "BorrowLoc", <<bc[2]>>)>>)
LocalOps == {"CopyLoc", "MoveLoc", "MutBorrowLoc", "ImmBorrowLoc"}

GenCall(st, g, bc) == GenOne(st, g.params, g.ret, "Function", <<bc[2]>>)

GenPack(st, bc) ==
    IF bc[1] = "Pack" THEN GenOne(st, Len(StructFields[bc[2]]), <<StructT(bc[2])>>, "Pack", <<bc[2]>>)
    ELSE GenOne(st, 1, StructFields[bc[2]], "Unpack", <<bc[2]>>)

GenRef(st, bc) == IF bc[1] = "ReadRef" THEN GenOne(st, 1, <<TopType(st, 1)[2]>>, "ReadRef", <<>>)
                  ELSE Emit(st, 2, LAMBDA s : <<Op(<<>>, "WriteRef", <<s[2], s[1]>>)>>)

\* The result of arithmetic has the type of the first operand.
GenArith(st, bc) == GenOne(st, 2, <<TopType(st, 2)>>, bc[1], <<>>)
GenLogic(st, bc) == GenOne(st, IF bc[1] = "Not" THEN 1 ELSE 2, <<BoolT>>, bc[1], <<>>)
LogicOps == {"And", "Or", "Not"} \cup CompareOps

Vec(f) == <<"vector::" \o f>>
GenVector(st, bc) ==
    CASE bc[1] = "VecLen" -> GenOne(st, 1, <<UIntT("u3")>>, "Function", Vec("length"))
      [] bc[1] = "VecMutBorrow" -> GenOne(st, 2, <<MutRefT(bc[2])>>, "Function", Vec("borrow_mut"))
      [] bc[1] = "VecImmBorrow" -> GenOne(st, 2, <<RefT(bc[2])>>, "Function", Vec("borrow"))
      [] bc[1] = "VecPushBack" -> GenOne(st, 2, <<>>, "Function", Vec("push_back"))
      [] bc[1] = "VecPopBack" -> GenOne(st, 1, <<bc[2]>>, "Function", Vec("pop_back"))
      [] bc[1] = "VecSwap" -> GenOne(st, 3, <<>>, "Function", Vec("swap"))
      [] bc[1] = "VecPack" ->
            Gen(st, bc[3], <<VectorT(bc[2])>>, IF bc[3] = 0 THEN <<>> ELSE <<MutRefT(VectorT(bc[2]))>>,
                LAMBDA d, s, h : <<I("Function", d, <<>>, Vec("empty"))>>
                    \o (IF s = <<>> THEN <<>> ELSE <<Op(h, "BorrowLoc", d)>>)
                    \o MapSeq(s, LAMBDA t : I("Function", <<>>, <<h[1], t>>, Vec("push_back"))))
      [] bc[1] = "VecUnpack" ->
            Gen(st, 1, [i \in 1..bc[3] |-> bc[2]], IF bc[3] = 0 THEN <<>> ELSE <<MutRefT(VectorT(bc[2]))>>,
                LAMBDA d, s, h : (IF d = <<>> THEN <<>> ELSE <<Op(h, "BorrowLoc", s)>>)
                    \o MapSeq(d, LAMBDA t : I("Function", <<t>>, h, Vec("pop_back")))
                    \o <<I("Function", <<>>, s, Vec("destroy_empty"))>>)
VectorOps == DOMAIN VectorCall \cup {"VecPack", "VecUnpack"}

UnpackRef == [UnpackVariant |-> "ByValue", UnpackVariantImmRef |-> "ByImmRef", UnpackVariantMutRef |-> "ByMutRef"]
GenUnpackVariant(st, bc, fields) ==
    LET ty(t) == CASE bc[1] = "UnpackVariantMutRef" -> MutRefT(t) [] bc[1] = "UnpackVariantImmRef" -> RefT(t) [] OTHER -> t
    IN  GenOne(st, 1, MapSeq(fields, ty), "UnpackVariant", <<bc[2], bc[3], UnpackRef[bc[1]]>>)
GenVariant(st, bc) ==
    LET fields == EnumVariants[bc[2]][bc[3]]
    IN  IF bc[1] = "PackVariant" THEN GenOne(st, Len(fields), <<EnumT(bc[2])>>, "PackVariant", <<bc[2], bc[3]>>)
        ELSE GenUnpackVariant(st, bc, fields)
VariantOps == {"PackVariant"} \cup DOMAIN UnpackRef

GenSwitch(st, bc, labels) == GenOne(st, 1, <<>>, "VariantSwitch", MapSeq(bc[2], LAMBDA off : labels.map[off]))

generate_bytecode(P, fn, labels, st0, pos) ==
    LET bc == fn.code[pos]
        st == IF pos \in DOMAIN labels.map THEN [st0 EXCEPT !.code = Append(@, Label(labels.map[pos]))] ELSE st0
    IN  CASE bc[1] \in ControlOps -> GenControl(st, fn, bc, pos, labels)
          [] bc[1] \in BorrowOps -> GenBorrow(st, bc)
          [] bc[1] = "LdConst" -> GenLoad(st, bc)
          [] bc[1] = "Cast" -> GenCast(st, bc)
          [] bc[1] \in LocalOps -> GenLocal(st, fn, bc)
          [] bc[1] = "Call" -> GenCall(st, P[bc[2]], bc)
          [] bc[1] \in {"Pack", "Unpack"} -> GenPack(st, bc)
          [] bc[1] \in {"ReadRef", "WriteRef"} -> GenRef(st, bc)
          [] bc[1] \in LogicOps -> GenLogic(st, bc)
          [] bc[1] \in BinaryOps -> GenArith(st, bc)
          [] bc[1] \in VectorOps -> GenVector(st, bc)
          [] bc[1] \in VariantOps -> GenVariant(st, bc)
          [] bc[1] = "VariantSwitch" -> GenSwitch(st, bc, labels)
          [] bc[1] = "Nop" -> Emit(st, 0, LAMBDA s : <<Nop>>)

\* No instruction but a branch falls through to a label.
NoFallThrough(code) ==
    Fold(LAMBDA acc, bc : acc \o (IF bc.op = "Label" /\ acc # <<>> /\ ~is_branch(acc[Len(acc)])
                                      THEN <<Jump(bc.x[1])>> ELSE <<>>) \o <<bc>>, <<>>, code)

generate_function(P, fn) ==
    LET labels == label_map(fn.code)
        st == FoldAt(LAMBDA s, pos : generate_bytecode(P, fn, labels, s, pos),
                             [code |-> <<>>, stack |-> <<>>, types |-> fn.types, names |-> fn.locals], fn.code)
    IN  [fn EXCEPT !.code = NoFallThrough(st.code), !.locals = st.names, !.types = st.types]

-----------------------------------------------------------------------------
(* The processors. *)

FlatMap(code, F(_)) == FoldAt(LAMBDA acc, pc : acc \o F(pc), <<>>, code)

-----------------------------------------------------------------------------
(* Immutable references become values. *)

transform_type(t) == IF t[1] = "ref" THEN t[2] ELSE t
transform_bytecode(fn, bc) ==
    LET imm(t) == fn.types[t][1] = "ref" IN
    CASE bc.op = "ReadRef" /\ imm(bc.s[1])    -> <<Assign(bc.d[1], bc.s[1], "Move")>>
      [] bc.op = "FreezeRef"                  -> <<[bc EXCEPT !.op = "ReadRef"]>>
      [] bc.op = "BorrowLoc" /\ imm(bc.d[1])  -> <<Assign(bc.d[1], bc.s[1], "Copy")>>
      [] bc.op = "BorrowField" /\ imm(bc.d[1]) -> <<[bc EXCEPT !.op = "GetField"]>>
      [] bc.op = "Destroy" /\ imm(bc.s[1])    -> <<>>
      [] OTHER -> <<bc>>
EliminateImmRefs(fn) ==
    [fn EXCEPT !.code = FlatMap(fn.code, LAMBDA pc : transform_bytecode(fn, fn.code[pc])),
               !.types = [t \in DOMAIN @ |-> transform_type(@[t])],
               !.ret = MapSeq(@, transform_type)]

\* A mutable reference parameter is never moved away: it is returned in the end.
MutRefInstrument(fn) ==
    [fn EXCEPT !.code = MapSeq(@, LAMBDA bc :
        IF bc.op = "Assign" /\ bc.x[1] = "Move" /\ bc.s[1] \in Range(MutParams(fn)) THEN [bc EXCEPT !.x[1] = "Copy"] ELSE bc)]

-----------------------------------------------------------------------------
(* Write-backs for the references that die at an instruction. *)

instruction_has_borrow_info(bc) == bc.op \notin {"Load", "Label", "Nop"}

\* Where a chain first differs from each of the others.
get_differentiation_factors(tree, chain) ==
    {SetMin({i \in DOMAIN chain \cap DOMAIN c : chain[i] # c[i]}) : c \in tree \ {chain}}

TestTemp(n) == "b" \o ToString(n)
NewTest(st) == [st EXCEPT !.fn.locals = Append(@, TestTemp(st.temps + 1)), !.temps = @ + 1,
                          !.fn.types = With(@, TestTemp(st.temps + 1), BoolT)]
Instr(st, bcs) == [st EXCEPT !.code = Fold(EmitBytecode, @, bcs)]

\* One IsParent test per factor, each And-ed with the ones before.
IsParentTest(st, action) ==
    LET s1 == NewTest(st)
        t  == TestTemp(s1.temps)
        s2 == Instr(s1, <<I("IsParent", <<t>>, <<action.src>>, <<action.dst, action.edge>>)>>)
        s3 == NewTest(s2)
        u  == TestTemp(s3.temps)
    IN  IF st.last = <<>> THEN [s2 EXCEPT !.last = <<t>>]
        ELSE [Instr(s3, <<Op(<<u>>, "And", <<st.last[1], t>>)>>) EXCEPT !.last = <<u>>]

\* Mutant: every chain is written back, whatever the reference points into.
UntestedChain(st, tree, chain) == Instr(st, MapSeq(chain, LAMBDA a : I("WriteBack", <<>>, <<a.src>>, <<a.dst, a.edge>>)))

WriteBackChain(st, tree, chain) ==
    LET writes == MapSeq(chain, LAMBDA a : I("WriteBack", <<>>, <<a.src>>, <<a.dst, a.edge>>))
        factors == SetToSortSeq(get_differentiation_factors(tree, chain), LAMBDA i, j : i < j)
        tested == Fold(LAMBDA s, i : IsParentTest(s, chain[i]), [st EXCEPT !.last = <<>>], factors)
        l == st.labels
    IN  IF Cardinality(tree) = 1 THEN Instr(st, writes)
        ELSE [Instr(tested, <<Branch(tested.last[1], l, l + 1), Label(l)>> \o writes \o <<Label(l + 1)>>)
                EXCEPT !.labels = l + 2]

memory_instrumentation(st, bc, borrows) ==
    LET dying == UNION {{d \in Range(dying_nodes(b.before, b.after)) :
                           d[1][1] = "Reference" /\ d[1][2] \notin Range(ParamsOf(st.fn))} : b \in borrows}
    IN  IF ~instruction_has_borrow_info(bc) THEN st
        ELSE FoldSet(LAMBDA d, s : FoldSet(LAMBDA chain, s1 : WriteBackChain(s1, d[2], chain), s, d[2]), st, dying)

\* Before a branch or a Destroy, after anything else.
instrument(st, bc, borrows) ==
    IF is_branch(bc) \/ bc.op = "Destroy" THEN Instr(memory_instrumentation(st, bc, borrows), <<bc>>)
    ELSE memory_instrumentation(Instr(st, <<bc>>), bc, borrows)

MemoryInstrument(fn, states) ==
    LET temps == Len(fn.locals)
        st0 == [fn |-> fn, code |-> <<>>, temps |-> temps, labels |-> next_free_label(fn.code), last |-> <<>>]
        st == FoldAt(LAMBDA s, pc : instrument(s, fn.code[pc], states[pc]), st0, fn.code)
    IN  [st.fn EXCEPT !.code = st.code]

-----------------------------------------------------------------------------
(* Write-backs of what was not written are dropped, with their tests. *)

\* The write-backs right after the label of a test, as far as none is needed.
is_unwritten(data, pc, t) == data[pc] = {} \/ t \in UNION data[pc]
RECURSIVE ObsoleteFrom(_, _, _)
ObsoleteFrom(code, data, pc) ==
    IF pc \in DOMAIN code /\ code[pc].op = "WriteBack" /\ ~is_unwritten(data, pc, code[pc].s[1])
    THEN {pc} \cup ObsoleteFrom(code, data, pc + 1) ELSE {}

OptimizeOne(code, data, st, pc) ==
    LET bc == code[pc]
        unwritten(k, t) == is_unwritten(data, k, t)
        last == IF st.code = <<>> THEN Nop ELSE st.code[Len(st.code)]
        tests == last.op = "IsParent" /\ bc.op = "Branch" /\ last.d[1] = bc.s[1] /\ ~unwritten(pc, last.s[1])
        obsolete == ObsoleteFrom(code, data, pc + 2)
        stop == pc + 2 + Cardinality(obsolete)
        st1 == IF tests THEN [st EXCEPT !.skip = @ \cup obsolete] ELSE st
    IN  CASE tests /\ code[stop].op # "WriteBack" -> [st1 EXCEPT !.code = Front(@), !.skip = @ \cup {pc + 1}]
          [] pc \in st1.skip -> st1
          [] bc.op = "WriteBack" /\ ~unwritten(pc, bc.s[1]) -> st1
          [] OTHER -> [st1 EXCEPT !.code = Append(@, bc)]

CleanAndOptimize(fn) ==
    LET data == Forward([kind |-> "unwritten", fn |-> fn, succ |-> SuccessorsOf(fn.code)], {})
    IN  [fn EXCEPT !.code = FoldAt(LAMBDA st, pc : OptimizeOne(fn.code, data, st, pc),
                                           [code |-> <<>>, skip |-> {}], fn.code).code]
=============================================================================
