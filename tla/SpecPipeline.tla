---------------------------- MODULE SpecPipeline ----------------------------
(***************************************************************************)
(* The function-target pipeline of the Boogie backend: for every file to   *)
(* verify (a pass) a holder is filled with the functions of the package,   *)
(* the specs the pass may use are chosen, and a fixed list of processors   *)
(* runs over the call graph, callees first, a recursive group again and    *)
(* again until its annotations are stable.  A processor that reports an    *)
(* error stops the run.                                                    *)
(*                                                                         *)
(* Modelled processors: verification_analysis, recursion_analysis,         *)
(* spec_global_variable_analysis, spec_purity_analysis, no_abort_analysis, *)
(* deterministic_analysis, pure_callee_detection, spec_instrumentation     *)
(* (which variants of a function exist) and mono_analysis (which functions *)
(* are instantiated).  The processors between them rewrite bytecode and    *)
(* are the subject of MemoryPipeline.                                      *)
(*                                                                         *)
(* The package is a record.  Functions are not generic and a ghost         *)
(* variable is its name; the order in which a set of functions is visited  *)
(* is the order of interned ids, which is left open.                       *)
(***************************************************************************)
EXTENDS Naturals, FiniteSets, Sequences

CONSTANTS
    Code,      \* functions that are not specs
    Specs,     \* functions with a spec attribute
    Vars,      \* ghost variables
    None,      \* no function, no annotation
    Packages   \* the packages to run on, see PackageOK

Fns == Code \cup Specs
NoVars == [imm |-> {}, mut |-> {}]

(* What the front end knows of a package. *)
PackageOK(p) ==
    /\ p.calls \in [Fns -> SUBSET Code]        \* get_called_functions
    /\ p.of \in [Specs -> Code \cup {None}]    \* the target; None: a scenario
    /\ p.home \in [Fns -> p.modules]
    /\ IsFiniteSet(p.modules)
    /\ p.libs \subseteq p.modules              \* not target modules
    /\ p.order \in Seq(Fns)                    \* env.get_modules order
    /\ \A f \in Fns : \E i \in DOMAIN p.order : p.order[i] = f
    /\ {p.proved, p.omit, p.system, p.ignore, p.asserts} \subseteq SUBSET Specs
    /\ {p.native, p.aborts, p.checked, p.pure, p.network, p.random} \subseteq SUBSET Code
    /\ p.include \subseteq p.modules \X Specs
    /\ p.uses \in [Fns -> [imm : SUBSET Vars, mut : SUBSET Vars]]
    /\ p.declares \in [Specs -> [imm : SUBSET Vars, mut : SUBSET Vars]]
    /\ p.file_mode \in {"function", "module"}

ASSUME PackagesOK == \A p \in Packages : PackageOK(p)
ASSUME NamesOK == IsFiniteSet(Code) /\ IsFiniteSet(Specs) /\ Code \cap Specs = {}
                  /\ None \notin Fns \cup BOOLEAN

Processors == <<"verification", "recursion", "global_variable", "purity", "no_abort",
                "deterministic", "pure_callee", "spec_instrumentation", "mono">>

VARIABLES
    pkg,             \* the package, chosen once
    passes,          \* the passes still to run
    target,          \* FunctionHolderTarget of the current pass
    unadded,         \* functions not yet added to the holder
    function_specs,  \* the holder's bimap, as a set of <<spec, function>>
    targets,         \* the functions in the holder
    info,            \* VerificationInfo
    ghost,           \* SpecGlobalVariableInfo, or None
    impure,          \* PurityVerificationInfo.is_network_call, or None
    no_abort,        \* NoAbortInfo.does_not_abort, or None
    det,             \* DeterministicInfo.is_deterministic, or None
    pure_callees,    \* package_targets.pure_callees of this holder
    variants,        \* functions with a verification variant
    coded,           \* functions whose baseline code is kept
    mono,            \* functions mono_analysis instantiates
    phase, step,     \* where the pipeline is
    agenda,          \* components not yet visited by the processor
    group, todo,     \* the component being visited, its members left this round
    busy, pending,   \* the function taken out of the holder, the marks to make
    unsettled,       \* functions whose annotation has not reached its fixedpoint
    errors           \* diagnostics of severity error

holder == <<function_specs, targets>>
marks == <<busy, pending>>
annotations == <<ghost, impure, no_abort, det, unsettled>>
outputs == <<pure_callees, variants, coded, mono>>
schedule == <<phase, step, agenda, group, todo>>
fixed == <<pkg, passes, target>>
vars == <<pkg, passes, target, unadded, function_specs, targets, info, ghost, impure,
          no_abort, det, pure_callees, variants, coded, mono, phase, step, agenda, group,
          todo, busy, pending, unsettled, errors>>

-----------------------------------------------------------------------------
(* Questions the processors ask of the holder. *)

Unmarked == [verified |-> FALSE, inlined |-> FALSE, essential |-> FALSE,
             reachable |-> FALSE]

Scenarios == {s \in Specs : pkg.of[s] = None}
IsSpec(f) == f \in Scenarios \/ \E p \in function_specs : p[1] = f
IsFunctionSpec(f) == \E p \in function_specs : p[1] = f
FunBySpec(f) == IF IsFunctionSpec(f) THEN (CHOOSE p \in function_specs : p[1] = f)[2]
                ELSE None
SpecByFun(f) == IF \E p \in function_specs : p[2] = f
                THEN (CHOOSE p \in function_specs : p[2] = f)[1] ELSE None

in_target(f) ==
    CASE target.kind = "abort" -> f \in pkg.checked
      [] target.kind = "spec_no_abort" -> pkg.home[f] = target.id /\ f \notin pkg.proved
      [] target.kind = "function" -> f = target.id
      [] target.kind = "module" -> pkg.home[f] = target.id

IsNoVerify(s) == IsSpec(s) /\ (s \notin pkg.proved \/ ~in_target(s))
IsVerifiedSpec(s) == IsSpec(s) /\ ~IsNoVerify(s)

(* The spec that stands for `callee` in the code of `caller`. *)
CalleeSpec(caller, callee) ==
    LET s == SpecByFun(callee) IN IF s # caller THEN s ELSE None

AbortChecked(f) == f \in pkg.checked \cup pkg.pure
TargetNoAbortCheck(f) == AbortChecked(f) /\ pkg.home[f] \notin pkg.libs

(* Call graph: an edge to the callee and one to the callee's spec. *)
CallGraph == [f \in targets |->
    {c \in targets : \/ c \in pkg.calls[f]
                     \/ \E g \in pkg.calls[f] : c = CalleeSpec(f, g)}]

(* What a graph reaches from a set of its nodes, the set included. *)
ReachedFrom(graph, S) ==
    LET R[n \in Nat] == IF n = 0 THEN S
                        ELSE LET r == R[n - 1]
                             IN r \cup UNION {graph[x] : x \in r \cap DOMAIN graph}
    IN R[Cardinality(DOMAIN graph)]

Reaches(graph, from, to) == to \in ReachedFrom(graph, {from})

Component(graph, f) ==
    {f} \cup {g \in DOMAIN graph : Reaches(graph, f, g) /\ Reaches(graph, g, f)}
Components == LET graph == CallGraph
              IN {Component(graph, f) : f \in targets}

(* kosaraju_scc yields callees first. *)
Ready(c) == \A f \in c : \A g \in CallGraph[f] \ c : \A d \in agenda : g \notin d

-----------------------------------------------------------------------------
(* Passes, in the order of run_prover and process_specs.  The pipeline does  *)
(* not read the asserts mode, so the files one target is generated into, one *)
(* per mode, share a pass.  `only` is the option spec_no_abort_check_only.   *)

SeqOf(S, k, modes, only) ==
    LET sq == CHOOSE q \in [1..Cardinality(S) -> S] : {q[i] : i \in 1..Cardinality(S)} = S
    IN [i \in 1..Cardinality(S) |-> [kind |-> k, id |-> sq[i], modes |-> modes, only |-> only]]

PassesOf(p) ==
    LET trusted == {p.home[s] : s \in Specs \ (p.proved \cup p.system)}
        proving == {p.home[s] : s \in p.proved}
    IN SeqOf(trusted, "spec_no_abort", {"SpecNoAbortCheck"}, TRUE)
       \o <<[kind |-> "abort", id |-> None, modes |-> {"Check"}, only |-> FALSE]>>
       \o IF p.file_mode = "function"
          THEN SeqOf(p.proved, "function", {"Check", "Assume", "SpecNoAbortCheck"}, FALSE)
          ELSE SeqOf(proving, "module", {"Check", "Assume"}, FALSE)
               \o SeqOf(proving, "spec_no_abort", {"SpecNoAbortCheck"}, FALSE)

FreshHolder ==
    /\ function_specs' = {} /\ targets' = {} /\ pure_callees' = {} /\ variants' = {}
    /\ coded' = {} /\ mono' = {} /\ unsettled' = {}
    /\ info' = [f \in Fns |-> Unmarked]
    /\ ghost' = [f \in Fns |-> None] /\ impure' = [f \in Fns |-> None]
    /\ no_abort' = [f \in Fns |-> None] /\ det' = [f \in Fns |-> None]
    /\ step' = 1 /\ agenda' = {} /\ group' = {} /\ todo' = {}
    /\ busy' = None /\ pending' = {}

Init ==
    /\ pkg \in Packages
    /\ passes = PassesOf(pkg)
    /\ target = None /\ unadded = <<>> /\ phase = "next"
    /\ function_specs = {} /\ targets = {} /\ pure_callees = {} /\ variants = {}
    /\ coded = {} /\ mono = {} /\ unsettled = {}
    /\ info = [f \in Fns |-> Unmarked]
    /\ ghost = [f \in Fns |-> None] /\ impure = [f \in Fns |-> None]
    /\ no_abort = [f \in Fns |-> None] /\ det = [f \in Fns |-> None]
    /\ step = 1 /\ agenda = {} /\ group = {} /\ todo = {}
    /\ busy = None /\ pending = {} /\ errors = {}

(* create_and_process_bytecode: a new holder for the next pass. *)
NextPass ==
    /\ phase = "next" /\ passes # <<>>
    /\ target' = Head(passes) /\ passes' = Tail(passes)
    /\ unadded' = pkg.order /\ phase' = "add"
    /\ FreshHolder
    /\ UNCHANGED <<pkg, errors>>

(* Whether process_spec files the spec at all under the pass's target. *)
Eligible(s) ==
    IF target.kind = "abort" THEN s \in pkg.system
    ELSE LET m == IF target.kind = "function" THEN pkg.home[target.id] ELSE target.id
         IN pkg.home[s] = m \/ <<m, s>> \in pkg.include \/ s \in pkg.system

\* Mutant: the last spec met stands for its function.
NeverTaken(t) == FALSE

(* A user spec stands for the function already. *)
Taken(t) == SpecByFun(t) # None /\ SpecByFun(t) \notin pkg.system

(* add_target and process_spec *)
AddTarget ==
    /\ phase = "add" /\ unadded # <<>>
    /\ LET fun == Head(unadded)
           t == IF fun \in Specs THEN pkg.of[fun] ELSE None
       IN /\ targets' = targets \cup {fun}
          /\ function_specs' =
                IF t # None /\ Eligible(fun) /\ ~Taken(t)
                THEN {p \in function_specs : p[1] # fun /\ p[2] # t} \cup {<<fun, t>>}
                ELSE function_specs
          /\ errors' = IF t # None /\ Eligible(fun) /\ Taken(t) /\ fun \notin pkg.system
                       THEN errors \cup {<<"duplicate", fun>>} ELSE errors
    /\ unadded' = Tail(unadded)
    /\ UNCHANGED <<fixed, info, annotations, outputs, schedule, marks>>

Added ==
    /\ phase = "add" /\ unadded = <<>>
    /\ phase' = "start"
    /\ UNCHANGED <<fixed, unadded, holder, info, annotations, outputs, step, agenda, group,
                   todo, marks, errors>>

-----------------------------------------------------------------------------
(* run_with_hook *)

Running(p) == phase = "run" /\ Processors[step] = p
SingleRun == {"pure_callee", "mono"}

(* initialize of the global variable analysis: what each spec declares. *)
StartProcessor ==
    /\ phase = "start" /\ Processors[step] \notin SingleRun
    /\ agenda' = Components /\ phase' = "run"
    /\ ghost' = IF Processors[step] # "global_variable" THEN ghost
                ELSE [f \in Fns |-> IF f \in targets /\ IsSpec(f) THEN pkg.declares[f]
                                    ELSE ghost[f]]
    /\ UNCHANGED <<fixed, unadded, holder, info, impure, no_abort, det, unsettled, outputs,
                   step, group, todo, marks, errors>>

VisitComponent ==
    /\ phase = "run" /\ group = {}
    /\ \E c \in agenda :
          /\ Ready(c)
          /\ group' = c /\ todo' = c /\ agenda' = agenda \ {c}
    /\ UNCHANGED <<fixed, unadded, holder, info, annotations, outputs, phase, step, marks,
                   errors>>

(* Processing one function takes its data out of the holder. *)
Take(p, f) ==
    /\ Running(p) /\ f \in todo /\ busy = None
    /\ todo' = todo \ {f}
    /\ UNCHANGED <<fixed, unadded, holder, phase, step, agenda, group>>

(* scc_opt: only a component of two or more functions is reported as one. *)
InComponent == Cardinality(group) > 1

(* A component is visited again while an annotation of a member moved. *)
EndRound ==
    /\ phase = "run" /\ group # {} /\ todo = {} /\ busy = None
    /\ IF InComponent /\ group \cap unsettled # {}
       THEN todo' = group /\ UNCHANGED group
       ELSE group' = {} /\ UNCHANGED todo
    /\ UNCHANGED <<fixed, unadded, holder, info, annotations, outputs, phase, step, agenda,
                   marks, errors>>

(* The next processor, or the end of the pipeline; an error stops the run. *)
Advance ==
    IF errors' # {} THEN phase' = "stop" /\ UNCHANGED step
    ELSE IF step = Len(Processors) THEN phase' = "emit" /\ UNCHANGED step
    ELSE phase' = "start" /\ step' = step + 1

(* finalize; only verification_analysis has one: it removes unused functions. *)
EndProcessor ==
    /\ phase = "run" /\ group = {} /\ agenda = {}
    /\ LET used == {f \in targets : info[f].verified \/ info[f].inlined
                                    \/ info[f].essential \/ info[f].reachable}
       IN IF Processors[step] = "verification"
          THEN /\ targets' = used
               /\ function_specs' = {p \in function_specs : p[1] \notin targets \ used}
          ELSE UNCHANGED holder
    /\ UNCHANGED errors /\ Advance
    /\ UNCHANGED <<fixed, unadded, info, annotations, outputs, agenda, group, todo, marks>>

-----------------------------------------------------------------------------
(* verification_analysis: who is verified, inlined or merely reachable. *)

(* mark_callees_inlined: the callee's spec, and the callee, inlined or, *)
(* when a trusted contract hides its body, only reachable.              *)
CalleeMarks(f) ==
    UNION {LET s == SpecByFun(c)
               hidden == /\ s # None /\ ~IsVerifiedSpec(s) /\ s \notin pkg.omit
                         /\ c \notin pkg.pure \cup pure_callees
           IN {<<IF hidden THEN "reachable" ELSE "inlined", c>>}
              \cup (IF s # None THEN {<<"inlined", s>>} ELSE {})
           : c \in pkg.calls[f]}

ShouldVerify(f) ==
    \/ target.kind = "abort" /\ TargetNoAbortCheck(f)
    \/ /\ pkg.home[f] \notin pkg.libs
       /\ ~(target.kind = "abort" /\ TargetNoAbortCheck(f))
       /\ IF target.kind = "spec_no_abort" THEN IsFunctionSpec(f) /\ IsNoVerify(f)
          ELSE IsVerifiedSpec(f)

(* process and mark_verified *)
VerifyFunction(f) ==
    /\ Take("verification", f)
    /\ LET essential == f \in pkg.native /\ pkg.home[f] \in pkg.libs
           old == [info[f] EXCEPT !.essential = @ \/ essential]
       IN IF ShouldVerify(f) /\ ~old.verified
          THEN /\ info' = [info EXCEPT ![f] = [old EXCEPT !.verified = TRUE,
                                               !.inlined = TRUE, !.reachable = FALSE]]
               /\ busy' = f /\ pending' = CalleeMarks(f)
          ELSE info' = [info EXCEPT ![f] = old] /\ UNCHANGED marks
    /\ UNCHANGED <<annotations, outputs, errors>>

(* mark_inlined and mark_reachable: the marks spread to the callees. *)
MarkCallee ==
    /\ \E m \in pending :
          LET fun == m[2]
              here == fun \in targets /\ fun # busy
              inline == m[1] = "inlined" /\ here /\ ~info[fun].inlined
              reach == /\ m[1] = "reachable" /\ here
                       /\ ~info[fun].inlined /\ ~info[fun].reachable /\ ~info[fun].verified
          IN /\ info' = IF inline THEN [info EXCEPT ![fun].inlined = TRUE,
                                                    ![fun].reachable = FALSE]
                        ELSE IF reach THEN [info EXCEPT ![fun].reachable = TRUE]
                        ELSE info
             /\ pending' = (pending \ {m})
                           \cup (IF inline THEN CalleeMarks(fun) ELSE {})
                           \cup (IF reach THEN {<<"reachable", c>> : c \in pkg.calls[fun]}
                                 ELSE {})
    /\ UNCHANGED <<fixed, unadded, holder, annotations, outputs, schedule, busy, errors>>

PutBack ==
    /\ busy # None /\ pending = {}
    /\ busy' = None
    /\ UNCHANGED <<fixed, unadded, holder, info, annotations, outputs, schedule, pending,
                   errors>>

-----------------------------------------------------------------------------
(* recursion_analysis *)

Translated(f) == info[f].verified \/ info[f].inlined
ContractOf(caller, callee) ==
    LET s == CalleeSpec(caller, callee) IN IF s \in pkg.omit THEN None ELSE s

HasCycle(graph) == \E f \in DOMAIN graph : \E g \in graph[f] : Reaches(graph, g, f)

(* The recursion among `members` is cut: no cycle of inlined calls, and each *)
(* contract is used inside the execution of the function it describes.       *)
IsCutByContracts(members, scc) ==
    LET inlined == [f \in members |-> {c \in pkg.calls[f] \cap members :
                                            ContractOf(f, c) = None}]
        code == [f \in {g \in scc : ~IsSpec(g)} |-> pkg.calls[f]]
    IN /\ ~HasCycle(inlined)
       /\ \A f \in members : \A c \in pkg.calls[f] :
             /\ ContractOf(f, c) # None
             /\ c \in members \/ ContractOf(f, c) \in members
             => Reaches(code, c, f)

\* Mutant: a spec that cuts the recursion may be proved from itself.
NoCutSpecs(members, scc) == {}

ProvedCutSpecs(members, scc) ==
    {s \in pkg.proved : \E f \in members : \E c \in pkg.calls[f] :
        s = ContractOf(f, c) /\ (c \in scc \/ s \in scc)}

CheckRecursion(f) ==
    /\ Take("recursion", f)
    /\ LET scc == IF InComponent THEN group
                  ELSE IF f \in pkg.calls[f] THEN {f} ELSE {}
           members == {g \in scc : g = f \/ Translated(g)}
           cut == IsCutByContracts(members, scc)
           circular == cut /\ IsSpec(f) /\ ProvedCutSpecs(members, scc) # {}
       IN errors' = IF scc # {} /\ Translated(f) /\ (~cut \/ circular)
                    THEN errors \cup {<<"recursion", f>>} ELSE errors
    /\ UNCHANGED <<info, annotations, outputs, marks>>

-----------------------------------------------------------------------------
(* spec_global_variable_analysis *)

\* Mutant: a member of a recursive group never settles.
SettleNever(f, moved) == IF InComponent THEN unsettled \cup {f} ELSE unsettled \ {f}

(* Annotations::set_with_fixedpoint_check *)
Settle(f, moved) == IF InComponent /\ moved THEN unsettled \cup {f} ELSE unsettled \ {f}

VarsOf(i) == i.imm \cup i.mut

(* collect_spec_global_variable_info: a callee counts by its spec. *)
Collect(f) ==
    LET from == {IF CalleeSpec(f, c) = None THEN c ELSE CalleeSpec(f, c)
                    : c \in pkg.calls[f] \ {f}}
        known == {g \in from \ pkg.native : ghost[g] # None}
    IN IF info[f].reachable THEN NoVars
       ELSE [imm |-> pkg.uses[f].imm \cup UNION {ghost[g].imm : g \in known},
             mut |-> pkg.uses[f].mut \cup UNION {ghost[g].mut : g \in known}]

CollectVars(f) ==
    /\ Take("global_variable", f)
    /\ LET new == Collect(f)
           bad == VarsOf(new) \ VarsOf(ghost[f])
           late == (new.mut \cap VarsOf(ghost[f])) \ ghost[f].mut
       IN IF IsSpec(f)
          THEN /\ errors' = errors \cup {<<"undeclared", f>> : v \in bad}
                                   \cup {<<"immutable", f>> : v \in late}
               /\ UNCHANGED <<ghost, unsettled>>
          ELSE /\ ghost' = [ghost EXCEPT ![f] = new]
               /\ unsettled' = Settle(f, ghost[f] # new)
               /\ UNCHANGED errors
    /\ UNCHANGED <<info, impure, no_abort, det, outputs, marks>>

-----------------------------------------------------------------------------
(* spec_purity_analysis: computed once, and kept. *)

CallsNetwork(f) ==
    \E c \in pkg.calls[f] \ {FunBySpec(f)} :
        c \in pkg.network \/ (c \in targets /\ impure[c] = TRUE)

CheckPurity(f) ==
    /\ Take("purity", f)
    /\ LET first == impure[f] = None
           result == IF first THEN CallsNetwork(f) ELSE impure[f]
       IN /\ impure' = [impure EXCEPT ![f] = result]
          /\ unsettled' = Settle(f, first)
          /\ errors' = errors
                \cup (IF first /\ IsFunctionSpec(f) /\ result THEN {<<"network", f>>} ELSE {})
                \cup (IF first /\ IsFunctionSpec(f) /\ FunBySpec(f) \notin pkg.calls[f]
                      THEN {<<"calls_target", f>>} ELSE {})
    /\ UNCHANGED <<info, ghost, no_abort, det, outputs, marks>>


-----------------------------------------------------------------------------
(* no_abort_analysis *)

(* has_no_abort_spec: the spec of f lists no abort condition and means it. *)
HasNoAbortSpec(f) ==
    SpecByFun(f) # None /\ SpecByFun(f) \notin pkg.ignore \cup pkg.asserts

does_not_abort(callee, caller) ==
    \/ callee \in targets /\ info[callee].reachable
    \/ callee \in pkg.native /\ callee \notin pkg.aborts
    \/ /\ callee \notin pkg.native
       /\ \/ no_abort[callee] = TRUE
          \/ SpecByFun(callee) # caller /\ HasNoAbortSpec(callee)
          \/ AbortChecked(callee)

\* Mutant: only the function's own code is looked at.
CodeCannotAbort(f) == f \notin pkg.aborts

(* A callee hidden behind a trusted contract is not looked at. *)
CannotAbort(f) ==
    IF f \in pkg.native THEN f \notin pkg.aborts
    ELSE /\ \A c \in pkg.calls[f] :
               LET s == SpecByFun(c)
               IN \/ s # None /\ ~IsVerifiedSpec(s) /\ s \notin pkg.omit
                  \/ /\ c # f /\ ~(InComponent /\ c \in group)
                     /\ does_not_abort(c, f)
         /\ f \notin pkg.aborts

CheckAborts(f) ==
    /\ Take("no_abort", f)
    /\ no_abort' = IF info[f].reachable THEN no_abort
                   ELSE [no_abort EXCEPT ![f] = CannotAbort(f)]
    /\ UNCHANGED <<info, ghost, impure, det, unsettled, outputs, marks, errors>>

-----------------------------------------------------------------------------
(* deterministic_analysis: a callee without an answer yet is not one. *)

CheckDeterminism(f) ==
    /\ Take("deterministic", f)
    /\ det' = [det EXCEPT ![f] =
                  IF f \in pkg.native THEN f \in pkg.pure \/ f \notin pkg.random
                  ELSE \A c \in pkg.calls[f] : c # f /\ c \in targets /\ det[c] = TRUE]
    /\ UNCHANGED <<info, ghost, impure, no_abort, unsettled, outputs, marks, errors>>

-----------------------------------------------------------------------------
(* pure_callee_detection *)

PureClosure(seed) ==
    ReachedFrom([f \in Fns |-> pkg.calls[f] \ (pkg.native \cup pkg.pure)], seed)

DetectPureCallees ==
    /\ phase = "start" /\ Processors[step] = "pure_callee"
    /\ pure_callees' = PureClosure(targets \cap pkg.pure) \ pkg.pure
    /\ UNCHANGED errors /\ Advance
    /\ UNCHANGED <<fixed, unadded, holder, info, annotations, variants, coded, mono, agenda,
                   group, todo, marks>>

-----------------------------------------------------------------------------
(* spec_instrumentation: the verification variant, and whose code is kept. *)

Instrument(f) ==
    /\ Take("spec_instrumentation", f)
    /\ variants' = IF f \notin pkg.native /\ info[f].verified THEN variants \cup {f}
                   ELSE variants
    /\ coded' = IF f \in pkg.native \/ info[f].inlined \/ IsFunctionSpec(f)
                THEN coded \cup {f} ELSE coded
    /\ UNCHANGED <<info, annotations, pure_callees, mono, marks, errors>>

-----------------------------------------------------------------------------
(* mono_analysis: the functions instantiated for the backend. *)

(* The functions whose code the analysis reads because of a call in f. *)
Instantiates(f) ==
    UNION {LET s == SpecByFun(c)
               whole == \/ s = None /\ c \notin pkg.native
                        \/ s # None /\ (\/ s = f /\ IsVerifiedSpec(s)
                                        \/ s \in pkg.omit
                                        \/ c \in pkg.pure \cup pure_callees)
           IN (IF s # None THEN {s} ELSE {}) \cup (IF whole THEN {c} ELSE {})
           : c \in pkg.calls[f]}

\* Mutant: a function behind a contract is not instantiated.
MentionsNatives(f) == pkg.calls[f] \cap pkg.native

(* Declared through its contract, or native: named without being read. *)
Mentions(f) ==
    {c \in pkg.calls[f] : \/ c \in pkg.native
                          \/ SpecByFun(c) \notin {None, f}}

Instances ==
    LET roots == {f \in targets : f \in variants \/ (IsSpec(f) /\ info[f].inlined)}
        graph == [f \in (coded \cup variants) \ pkg.native |-> Instantiates(f)]
        read == ReachedFrom(graph, roots)
    IN read \cup UNION {Mentions(f) : f \in read \cap DOMAIN graph}

Monomorphize ==
    /\ phase = "start" /\ Processors[step] = "mono"
    /\ mono' = Instances
    /\ UNCHANGED errors /\ Advance
    /\ UNCHANGED <<fixed, unadded, holder, info, annotations, pure_callees, variants, coded,
                   agenda, group, todo, marks>>

-----------------------------------------------------------------------------
Pipeline ==
    \/ NextPass \/ AddTarget \/ Added \/ StartProcessor \/ VisitComponent \/ EndRound
    \/ EndProcessor \/ MarkCallee \/ PutBack \/ DetectPureCallees \/ Monomorphize
    \/ \E f \in todo :
          \/ VerifyFunction(f) \/ CheckRecursion(f) \/ CollectVars(f) \/ CheckPurity(f)
          \/ CheckAborts(f) \/ CheckDeterminism(f) \/ Instrument(f)
=============================================================================
