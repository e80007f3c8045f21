----------------------------- MODULE MoveCorpus -----------------------------
(***************************************************************************)
(* Small Move programs as stack code, for the runs of the compilation      *)
(* pipeline.  Each block of code ends every borrow it starts, so any        *)
(* sequence of blocks passes Move's borrow checker.  Branch targets are    *)
(* relative to the start of the block.                                     *)
(***************************************************************************)
EXTENDS MoveVM

U == UIntT("u3")
S == StructT("S")
N == StructT("N")
E == EnumT("E")

Func(name, params, locals, ret, code) ==
    LET all == params \o locals IN
    [name |-> name, code |-> code, locals |-> MapSeq(all, LAMBDA l : l[1]), params |-> Len(params), user |-> Len(all),
     types |-> SetAll(NoFun, MapSeq(all, LAMBDA l : l[1]), MapSeq(all, LAMBDA l : l[2])), ret |-> ret, native |-> FALSE, pure |-> FALSE]
Program(fns) == [f \in {g.name : g \in fns} |-> CHOOSE g \in fns : g.name = f]

Ld(n)  == <<"LdConst", "u3", n>>
Cp(x)  == <<"CopyLoc", x>>
Mv(x)  == <<"MoveLoc", x>>
St(x)  == <<"StLoc", x>>
MB(x)  == <<"MutBorrowLoc", x>>
IB(x)  == <<"ImmBorrowLoc", x>>
MF(s, i) == <<"MutBorrowField", s, i>>
IF_(s, i) == <<"ImmBorrowField", s, i>>
RR == <<"ReadRef">>
WR == <<"WriteRef">>
Br(l)  == <<"Branch", l>>
BrF(l) == <<"BrFalse", l>>
CallFn(f) == <<"Call", f>>
RetI   == <<"Ret">>
O(op)  == <<op>>

\* A block moved to start after `base` instructions.
Moved(code, base) ==
    MapSeq(code, LAMBDA bc : CASE bc[1] \in {"Branch", "BrTrue", "BrFalse"} -> [bc EXCEPT ![2] = @ + base]
                               [] bc[1] = "VariantSwitch" -> [bc EXCEPT ![2] = MapSeq(@, LAMBDA l : l + base)]
                               [] OTHER -> bc)
Blocks(bs) == Fold(LAMBDA acc, b : acc \o Moved(b, Len(acc)), <<>>, bs)
\* if (c) { b }, and a loop that runs b twice.
IfOnly(c, b) == <<Cp(c), BrF(Len(b) + 3)>> \o Moved(b, 2)
IfElse(c, a, b) == LET n == Len(a) + 3 IN <<Cp(c), BrF(n + 1)>> \o Moved(a, 2) \o <<Br(n + Len(b) + 1)>> \o Moved(b, n)
Twice(i, b) == <<Ld(0), St(i), Cp(i), Ld(2), O("Lt"), BrF(Len(b) + 12)>> \o Moved(b, 6)
               \o <<Cp(i), Ld(1), O("Add"), St(i), Br(3)>>

=============================================================================
