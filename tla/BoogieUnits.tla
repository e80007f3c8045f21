---------------------------- MODULE BoogieUnits ----------------------------
(***************************************************************************)
(* What the Boogie translator writes for one pass of SpecPipeline: which   *)
(* procedures, under which names, and whom each of them calls.  A name is  *)
(* a pair <<style, function>>:                                             *)
(*   plain   f           the function as its callers see it: its own body, *)
(*                       or the contract of its spec when it has one;      *)
(*   impl    f$impl      the body of a function that has a spec;           *)
(*   opaque  f$opaque    the unconstrained result a contract starts from;  *)
(*   pure    f$pure      the body as a Boogie function;                    *)
(*   aborts, asserts     the abort conditions, assumed or asserted;        *)
(*   verify, sna, nac    what the solver is asked to prove, of a spec, of  *)
(*                       the spec's own conditions, of a no_abort function.*)
(* plain, impl, aborts and asserts are {:inline 1}: Boogie copies them     *)
(* into their callers once, and assumes false beyond that.                 *)
(***************************************************************************)
EXTENDS SpecPipeline

VARIABLES
    text,      \* the units of the current pass, a function from asserts modes
    proofs,    \* <<mode, name>>: the goals of all accepted passes
    relied     \* <<s, t>>: the proof of s, in some pass, assumes the contract of t

backend == <<text, proofs, relied>>
Inlined == {"plain", "impl", "aborts", "asserts"}
Goals == {"verify", "sna", "nac"}
NoText == <<>>

(* What the abort checks take from libraries without looking: a native has  *)
(* no code; a library function marked no_abort or pure calls only functions *)
(* that do not abort, and a native of the package that is marked does not   *)
(* abort itself.                                                            *)
LibrariesOK(p) ==
    LET marked == p.checked \cup p.pure
    IN /\ \A f \in p.native :
             /\ p.calls[f] = {}
             /\ f \in marked \cap p.aborts => p.home[f] \in p.libs
       /\ \E safe \in SUBSET (Code \ p.aborts) :
             /\ \A f \in marked \ p.native : p.home[f] \in p.libs => f \in safe
             /\ \A f \in safe : p.calls[f] \subseteq safe

ASSUME LibrariesAssumption == \A p \in Packages : LibrariesOK(p)

(* should_generate_abort_check *)
NeedsAbortCheck(f) == TargetNoAbortCheck(f) /\ f \in targets /\ no_abort[f] # TRUE

-----------------------------------------------------------------------------
(* translate_function_style: whether a style of a spec is written at all. *)

\* Mutant: abort conditions are proved of no spec but the ones that ignore aborts.
ModeSkips(s, style, m) ==
    CASE m = "Check" -> style \in {"Default", "Opaque"}
      [] m = "Assume" -> style = "Default" => s \in pkg.ignore
      [] m = "SpecNoAbortCheck" -> style \in {"Opaque", "SpecNoAbortCheck"}

ModeAllows(s, style, m) ==
    LET conditions == style \in {"Asserts", "Aborts"}
        proof == style = "Default" /\ IsVerifiedSpec(s)
    IN CASE m = "Check" -> /\ style # "SpecNoAbortCheck" /\ ~conditions
                           /\ ~(proof /\ s \in pkg.ignore)
         [] m = "Assume" -> /\ style # "SpecNoAbortCheck"
                            /\ proof => s \in pkg.ignore \cup pkg.asserts
                            /\ conditions => s \in pkg.asserts
         [] m = "SpecNoAbortCheck" -> ~proof /\ ~conditions

HasCode(s, style) ==
    IF style \in {"Default", "SpecNoAbortCheck"} THEN s \in variants
    ELSE s \in targets /\ info[s].inlined

\* A procedure that others call is written once for every instance of the
\* target's types that is used, and for its own where only specs are checked.
HasInstances(s) ==
    /\ s \notin Scenarios
    /\ FunBySpec(s) \in mono \/ (target.only /\ ~IsVerifiedSpec(s))

IsWritten(s, style, m) ==
    /\ ModeAllows(s, style, m)
    /\ style = "Default" => FunBySpec(s) \notin pkg.native /\ ~IsNoVerify(s)
    /\ HasCode(s, style)
    /\ style \in {"Opaque", "Aborts"} => HasInstances(s)

(* translate_spec: the styles tried for a spec. *)
StylesOf(s) ==
    CASE target.only -> (IF s \in Scenarios THEN {} ELSE {"Opaque", "Aborts"})
                        \cup (IF IsVerifiedSpec(s) THEN {} ELSE {"SpecNoAbortCheck"})
      [] ~target.only /\ s \in Scenarios ->
            IF IsVerifiedSpec(s) /\ s \in variants THEN {"Asserts"} ELSE {}
      [] OTHER -> {"Aborts", "Opaque"}
                  \cup (IF IsVerifiedSpec(s) THEN {"Default", "Asserts", "SpecNoAbortCheck"}
                        ELSE {})

(* A scenario is proved in the one mode its abort attribute asks for. *)
ProvesScenario(s, m) ==
    /\ s \in Scenarios /\ IsVerifiedSpec(s) /\ s \in variants /\ ~target.only
    /\ (m = "Assume") = (s \in pkg.ignore)

(* function_variant_name *)
UnitName(s, style) ==
    CASE style = "Default" -> <<"verify", s>>
      [] style = "SpecNoAbortCheck" -> <<"sna", s>>
      [] style = "Asserts" -> <<"asserts", s>>
      [] style = "Aborts" -> <<"aborts", FunBySpec(s)>>
      [] style = "Opaque" -> <<"plain", FunBySpec(s)>>

-----------------------------------------------------------------------------
(* Whom a unit calls.  A native without a spec is in the prelude. *)

CallName(c) == IF c \in pkg.pure THEN <<"pure", c>> ELSE <<"plain", c>>
BodyName(c) == IF c \in pkg.pure THEN <<"pure", c>> ELSE <<"impl", c>>

Others(f) ==
    {CallName(c) : c \in {d \in pkg.calls[f] \ {FunBySpec(f)} :
                             d \notin pkg.native \/ SpecByFun(d) # None}}

(* The call a spec makes to its own target, style by style. *)
TargetCall(s, style) ==
    LET t == FunBySpec(s)
    IN CASE t \notin pkg.calls[s] -> {}
         [] t \in pkg.calls[s] /\ style = "Default" -> {BodyName(t)}
         [] t \in pkg.calls[s] /\ style = "SpecNoAbortCheck" -> {<<"opaque", t>>}
         [] t \in pkg.calls[s] /\ style = "Opaque" ->
               {IF s \in pkg.omit THEN BodyName(t) ELSE <<"opaque", t>>}
         [] OTHER -> {}

(* Before returning in Assume mode, the conditions are asserted or assumed. *)
ReturnCall(s, style, m) ==
    IF m # "Assume" \/ s \in pkg.ignore \/ s \notin pkg.asserts THEN {}
    ELSE IF style = "Default" THEN {<<"asserts", s>>}
    ELSE IF style = "Opaque" /\ s \notin pkg.omit THEN {<<"aborts", FunBySpec(s)>>}
    ELSE {}

SpecUnit(s, style, m) ==
    [name |-> UnitName(s, style),
     calls |-> Others(s) \cup TargetCall(s, style) \cup ReturnCall(s, style, m)]

(* A contract also declares the unconstrained result it starts from. *)
OpaqueOf(s) == [name |-> <<"opaque", FunBySpec(s)>>, calls |-> {}]

SpecUnits(s, styles, m) ==
    {SpecUnit(s, st, m) : st \in {x \in styles : IsWritten(s, x, m)}}
    \cup (IF "Opaque" \in styles /\ IsWritten(s, "Opaque", m) THEN {OpaqueOf(s)} ELSE {})
    \cup (IF ProvesScenario(s, m) THEN {SpecUnit(s, "Default", m)} ELSE {})

-----------------------------------------------------------------------------
(* translate: the units written for one function. *)

PureUnits(f) ==
    IF f \notin pkg.native /\ f \in (pkg.pure \cup pure_callees) \cap mono
    THEN {[name |-> <<"pure", f>>,
           calls |-> IF f \in targets /\ info[f].inlined
                     THEN {<<"pure", c>> : c \in pkg.calls[f] \ pkg.native} ELSE {}]}
    ELSE {}

(* An ordinary function: inlined code, under $impl when it has a spec. *)
CodeUnits(f) ==
    LET s == SpecByFun(f)
        opaque == s # None /\ s \notin pkg.omit
        here == /\ f \in targets /\ info[f].inlined
                /\ IF opaque THEN IsVerifiedSpec(s) ELSE f \in mono
    IN IF here THEN {[name |-> <<IF s = None THEN "plain" ELSE "impl", f>>,
                      calls |-> Others(f)]}
       ELSE {}

UnitsOf(f, m) ==
    LET abort == target.kind = "abort"
        rest == CASE f \in pkg.native -> {}
                  [] f \notin pkg.native /\ abort /\ NeedsAbortCheck(f) ->
                        {[name |-> <<"nac", f>>, calls |-> Others(f)]}
                        \cup (IF info[f].inlined /\ f \in mono
                              THEN {[name |-> <<"plain", f>>, calls |-> Others(f)]} ELSE {})
                  [] f \notin pkg.native /\ IsSpec(f) ->
                        SpecUnits(f, IF abort THEN {"Opaque"} ELSE StylesOf(f), m)
                  [] OTHER -> CodeUnits(f)
    IN PureUnits(f) \cup rest

TextOf(m) ==
    IF target.kind = "abort" /\ \A f \in Code : ~NeedsAbortCheck(f) THEN {}
    ELSE UNION {UnitsOf(f, m) : f \in Fns}

-----------------------------------------------------------------------------
Names(units) == {u.name : u \in units}
CallsIn(units, styles) ==
    LET kept == {u \in units : u.name[1] \in styles}
    IN [n \in Names(kept) |-> UNION {u.calls : u \in {v \in kept : v.name = n}}]

(* The contracts assumed in the proof of a spec. *)
Relies(units) ==
    LET graph == CallsIn(units, Inlined \cup {"verify"})
    IN {r \in Specs \X Specs :
           /\ <<"verify", r[1]>> \in DOMAIN graph /\ r[2] \notin pkg.omit
           /\ <<"plain", FunBySpec(r[2])>> \in ReachedFrom(graph, {<<"verify", r[1]>>})}

(* generate_boogie, once per asserts mode; then the next pass. *)
Emit ==
    /\ phase = "emit"
    /\ text' = [m \in target.modes |-> TextOf(m)]
    /\ proofs' = proofs \cup UNION {{<<m, n>> : n \in {x \in Names(text'[m]) : x[1] \in Goals}}
                                       : m \in target.modes}
    /\ relied' = relied \cup UNION {Relies(text'[m]) : m \in target.modes}
    /\ phase' = "next"
    /\ UNCHANGED <<fixed, unadded, holder, info, annotations, outputs, step, agenda, group,
                   todo, marks, errors>>

BInit == Init /\ text = NoText /\ proofs = {} /\ relied = {}
BNext == (Pipeline /\ UNCHANGED backend) \/ Emit
allvars == <<vars, backend>>
Accepted == phase = "next" /\ passes = <<>>
Done == (Accepted \/ phase = "stop") /\ UNCHANGED allvars
BSpec == BInit /\ [][BNext \/ Done]_allvars /\ WF_allvars(BNext)

-----------------------------------------------------------------------------
(* Whatever the order in which the specs of a function are met, a user spec *)
(* the pass may use is never displaced by a system spec, and two of them    *)
(* are reported (process_spec).                                             *)
SpecStands ==
    phase = "start" /\ step = 1 =>
        \A t \in Code :
            LET own == {s \in Specs \ pkg.system : pkg.of[s] = t /\ Eligible(s)}
            IN /\ own # {} => SpecByFun(t) \in own
               /\ Cardinality(own) > 1 => \E s \in own : <<"duplicate", s>> \in errors

(* Every name a generated procedure calls is declared in the same file. *)
CallsDeclared ==
    text # NoText => \A m \in DOMAIN text : \A u \in text[m] : u.calls \subseteq Names(text[m])

(* translate_ghost_global: the ghost variables that generated code reads are *)
(* declared by a spec of the holder.                                         *)
GhostDeclared ==
    phase = "emit" =>
        UNION {VarsOf(pkg.uses[f]) : f \in mono \cap coded}
          \subseteq UNION {VarsOf(ghost[s]) : s \in {x \in targets : IsSpec(x)}}

(* Every procedure and every ghost variable that generated code names is     *)
(* declared in the same file: else Boogie refuses the whole file.            *)
NamesDeclared == CallsDeclared /\ GhostDeclared

(* Among the specs that are proved, the contracts assumed by one another's   *)
(* proofs, over all passes, form no cycle.                                   *)
NoCircularProof ==
    Accepted => ~HasCycle([s \in pkg.proved |-> {t \in pkg.proved : <<s, t>> \in relied}])

(* No accepted file has a cycle of inlined procedures on the way from a goal. *)
NoInlineCycle ==
    text # NoText => \A m \in DOMAIN text :
        LET graph == CallsIn(text[m], Inlined \cup Goals)
        IN ~HasCycle([n \in DOMAIN graph \cap
                         ReachedFrom(graph, {n \in DOMAIN graph : n[1] \in Goals}) |-> graph[n]])

(* Recursion that is accepted proves nothing by itself: no proof leans on    *)
(* its own contract (a spec that cuts a cycle is trusted, never proved), and *)
(* no procedure is inlined into itself, where Boogie would assume false at   *)
(* the depth it stops (recursion_analysis).                                  *)
RecursionSound == NoCircularProof /\ NoInlineCycle

(* Every spec the run is asked to prove is proved in each mode its           *)
(* attributes call for: its postconditions, that it aborts where it says,    *)
(* and that its own conditions do not abort.  The last is asked of trusted   *)
(* specs too, and of proved ones in function file mode; in module file mode  *)
(* no goal is written for it (generate_module_bpl leaves                     *)
(* spec_no_abort_check_only unset).                                          *)
EverySpecProved ==
    Accepted => \A s \in {x \in Specs \ pkg.system : /\ pkg.of[x] \notin pkg.native \cup {None}
                                                     /\ pkg.home[x] \notin pkg.libs} :
        /\ s \in pkg.proved =>
              <<IF s \in pkg.ignore THEN "Assume" ELSE "Check", <<"verify", s>>>> \in proofs
        /\ s \in pkg.proved \cap pkg.asserts => <<"Assume", <<"verify", s>>>> \in proofs
        /\ s \in pkg.proved /\ pkg.file_mode = "function" =>
              <<"SpecNoAbortCheck", <<"sna", s>>>> \in proofs
        /\ s \notin pkg.proved => <<"SpecNoAbortCheck", <<"sna", s>>>> \in proofs

(* Where an abort may come from unnoticed: from a function that aborts, up   *)
(* through its callers, stopping at the goals of the abort-check pass, which *)
(* fail, and at the functions that system specs are trusted about.           *)
ReachesUnnoticed(trusted) ==
    LET goals == {f \in Code : <<"Check", <<"nac", f>>>> \in proofs}
        open == Code \ (goals \cup {pkg.of[s] : s \in trusted})
    IN ReachedFrom([f \in open |-> {c \in open : f \in pkg.calls[c]}], pkg.aborts \cap open)

(* A system spec that lists no condition promises that there is no abort; one *)
(* that hides the body says the rest, and is believed even when it lists some *)
(* or ignores them.                                                           *)
Promising == pkg.system \ (pkg.asserts \cup pkg.ignore)
Hiding    == pkg.system \ pkg.omit

(* A function marked no_abort or pure that may abort is never accepted: it,  *)
(* or the function on the way to the abort, is a goal that fails.  Aborts    *)
(* behind a system spec that hides the body are not looked for               *)
(* (no_abort_analysis).                                                      *)
NoAbortChecked ==
    Accepted => \A f \in ReachesUnnoticed(Promising \cup Hiding) : ~TargetNoAbortCheck(f)

(* "ext(pure)/no_abort ..., so evaluating it never aborts" (prop_inference): *)
(* not so when it calls a function whose system spec lists abort conditions  *)
(* and hides the body, as random_spec::u128_in_range_spec does.              *)
MarkedNeverAborts ==
    Accepted => \A f \in ReachesUnnoticed(Promising) : ~TargetNoAbortCheck(f)

(* The fixedpoint iterations over recursive groups end, and so does the run. *)
PipelineEnds == <>(Accepted \/ phase = "stop")
=============================================================================
