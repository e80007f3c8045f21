--------------------------- MODULE PackageTargets ---------------------------
(***************************************************************************)
(* package_targets.rs: what a run of the prover verifies.  PackageTargets  *)
(* visits every function of the model once and files it, by its            *)
(* attributes, into the sets the rest of the prover consults; a second     *)
(* pass checks the uninterpreted/interpreted parameters, `focus` demotes   *)
(* the other targets, and select_backend takes out what belongs to the     *)
(* other backend.                                                          *)
(*                                                                         *)
(* The code visits functions in the order of their ids.  Here any order is *)
(* possible, so that nothing proved depends on how ids were assigned.      *)
(***************************************************************************)
EXTENDS Naturals, FiniteSets

CONSTANTS Functions, Modules,
          ModuleOf,   \* the module of a function
          Structs,
          Sources,    \* the packages to be checked: attributes of everything
          Bad,        \* a path that resolves to nothing
          None

\* The attributes of a function, and what else of it decides:
\*   target    its module is a target and the filter admits it
\*   system    it lives in one of the prover's own specification modules
\*   spec, prove, focus, skip, ignore_abort, no_opaque    #[spec(..)]
\*   spec_only, axiom                                     #[spec_only(..)]
\*   no_abort, pure, uninterpreted                        #[ext(..)]
\*   asserts   its body calls `asserts`
\*   native    the model lets it be used as a function
Flags == {"target", "system", "spec", "prove", "focus", "skip", "ignore_abort",
          "no_opaque", "spec_only", "axiom", "no_abort", "pure", "uninterpreted",
          "asserts", "native"}

\* target_attr: #[spec(target = ..)]; named: the function that the name
\* without "_spec" denotes; inv: the role loop_inv or inv and its target, or
\* the struct that the name without "_inv" denotes.
Attributes ==
    [flags : SUBSET Flags,
     target_attr : Functions \cup {Bad, None}, named : Functions \cup {None},
     run_on : {"none", "local", "cloud", "invalid"},
     backend : {"none", "lean", "boogie", "both", "invalid"},
     uninterpreted : SUBSET (Functions \cup {Bad}),
     interpreted : SUBSET (Functions \cup {Bad}),
     inv : [kind : {"loop_inv"}, of : Functions \cup {Bad}]
             \cup [kind : {"inv"}, of : Structs \cup {Bad}] \cup {None},
     include : SUBSET (Functions \cup Modules \cup {Bad}),
     extra_bpl : SUBSET {"readable", "unreadable"}]

\* A module has include and extra_bpl only; ci is the --ci option.
ModuleAttributes ==
    [include : SUBSET (Functions \cup Modules \cup {Bad}),
     extra_bpl : SUBSET {"readable", "unreadable"}]

Source == [fun : [Functions -> Attributes], mod : [Modules -> ModuleAttributes],
           ci : BOOLEAN, backend : {"lean", "boogie"}]

ASSUME TargetsAssumption ==
    /\ ModuleOf \in [Functions -> Modules]
    /\ Sources \subseteq Source
    /\ IsFiniteSet(Functions) /\ Functions \cap Modules = {}
    /\ Bad \notin Functions \cup Modules \cup Structs
    /\ None \notin Functions \cup Modules \cup Structs \cup {Bad}

VARIABLES src,
          pc,      \* "collect", "uninterpreted", "focus", "select", "done"
          todo,    \* functions and modules still to be visited in this pass
          t,       \* the PackageTargets value
          diags    \* error diagnostics: [at, what]

vars == <<src, pc, todo, t, diags>>

Has(f, flag) == flag \in src.fun[f].flags
Specs == {f \in Functions : Has(f, "spec")}

Targets ==
    [target_specs : SUBSET Functions, no_verify_specs : SUBSET Functions,
     focus_specs : SUBSET Functions, scenario_specs : SUBSET Functions,
     skipped_specs : SUBSET Functions, system_specs : SUBSET Functions,
     ignore_aborts : SUBSET Functions, omit_opaque_specs : SUBSET Functions,
     all_specs : [Functions -> SUBSET Functions],
     spec_run_on : [Functions -> {"none", "local", "cloud"}],
     spec_backend : [Functions -> {"lean", "boogie", "both"}],
     abort_check_functions : SUBSET Functions, pure_functions : SUBSET Functions,
     target_no_abort_check_functions : SUBSET Functions,
     globally_uninterpreted : SUBSET Functions,
     backend_uninterpreted : SUBSET Functions,
     spec_uninterpreted : [Functions -> SUBSET Functions],
     spec_interpreted : [Functions -> SUBSET Functions],
     backend_excluded_specs : SUBSET Functions,
     axiom_functions : SUBSET Functions,
     loop_invariant_candidates : [Functions -> SUBSET Functions],
     all_datatypes_invs : [Structs -> SUBSET Functions],
     external : [Functions \cup Modules -> SUBSET (Functions \cup Modules)],
     extra_bpl : SUBSET (Functions \cup Modules)]

TypeOK ==
    /\ src \in Source
    /\ pc \in {"collect", "uninterpreted", "focus", "select", "done"}
    /\ todo \subseteq Functions \cup Modules
    /\ t \in Targets
    /\ diags \subseteq [at : Functions \cup Modules,
                        what : {"backend", "run_on", "focus_ci", "target",
                                "asserts", "inv", "include", "extra_bpl",
                                "pure", "uninterpreted", "interpreted"}]

Empty ==
    LET none == [f \in Functions |-> {}] IN
    [target_specs |-> {}, no_verify_specs |-> {}, focus_specs |-> {},
     scenario_specs |-> {}, skipped_specs |-> {}, system_specs |-> {},
     ignore_aborts |-> {}, omit_opaque_specs |-> {}, all_specs |-> none,
     spec_run_on |-> [f \in Functions |-> "none"],
     spec_backend |-> [f \in Functions |-> "both"],
     abort_check_functions |-> {}, pure_functions |-> {},
     target_no_abort_check_functions |-> {}, globally_uninterpreted |-> {},
     backend_uninterpreted |-> {}, spec_uninterpreted |-> none,
     spec_interpreted |-> none, backend_excluded_specs |-> {},
     axiom_functions |-> {}, loop_invariant_candidates |-> none,
     all_datatypes_invs |-> [s \in Structs |-> {}],
     external |-> [x \in Functions \cup Modules |-> {}], extra_bpl |-> {}]

Init ==
    /\ src \in Sources
    /\ pc = "collect"
    /\ todo = Functions \cup Modules
    /\ t = Empty
    /\ diags = {}

----------------------------------------------------------------------------
(* The visit of a function: each check maps the PackageTargets value and    *)
(* names the diagnostics it raises.                                         *)

\* f joins the set when the condition holds.
Join(set, f, condition) == IF condition THEN set \cup {f} ELSE set

collect_spec_backend(f, p) ==
    LET b == src.fun[f].backend IN
    IF b \in {"none", "invalid"} THEN p ELSE [p EXCEPT !.spec_backend[f] = b]

BackendDiags(f) == IF src.fun[f].backend = "invalid" THEN {"backend"} ELSE {}

\* One path that resolves to nothing drops the whole include list; an extra
\* file that cannot be read is left out and the others are kept.
realize_includes(x, include, extra, p) ==
    [p EXCEPT !.external[x] = IF Bad \in include THEN @
                              ELSE IF include = {} THEN @ ELSE include,
              !.extra_bpl = Join(@, x, "readable" \in extra)]

IncludeDiags(include, extra) ==
    (IF Bad \in include THEN {"include"} ELSE {})
      \cup (IF "unreadable" \in extra THEN {"extra_bpl"} ELSE {})

\* The parameters that are only recorded.
RecordParameters(f, p) ==
    [p EXCEPT !.system_specs = Join(@, f, Has(f, "system")),
              !.spec_run_on[f] = IF src.fun[f].run_on = "invalid" THEN @
                                 ELSE src.fun[f].run_on,
              !.omit_opaque_specs = Join(@, f, Has(f, "no_opaque")),
              !.ignore_aborts = Join(@, f, Has(f, "ignore_abort")),
              !.skipped_specs = Join(@, f, Has(f, "skip") /\ Has(f, "target"))]

\* Mutant: `skip` is recorded and the spec verified all the same.
VerifiesSkipped(f) == Has(f, "target") /\ (Has(f, "prove") \/ Has(f, "focus"))

Verifies(f) ==
    Has(f, "target") /\ ~Has(f, "skip") /\ (Has(f, "prove") \/ Has(f, "focus"))

\* --ci refuses a focused spec, and returns.
FocusRefused(f) == Verifies(f) /\ Has(f, "focus") /\ src.ci

ClassifySpec(f, p) ==
    IF Verifies(f)
    THEN [p EXCEPT !.target_specs = @ \cup {f},
                   !.focus_specs = Join(@, f, Has(f, "focus"))]
    ELSE [p EXCEPT !.no_verify_specs = @ \cup {f}]

\* The function a spec is about: its target parameter, else its name.
SpecTarget(f) ==
    IF src.fun[f].target_attr # None THEN src.fun[f].target_attr
                                     ELSE src.fun[f].named

IsScenario(f) ==
    SpecTarget(f) = None /\ (Has(f, "ignore_abort") \/ ~Has(f, "asserts"))

\* process_spec, or a scenario.  A spec is attached once, so process_spec's
\* "Duplicate spec function" is never raised.
AttachSpec(f, p) ==
    IF SpecTarget(f) \in Functions
    THEN [p EXCEPT !.all_specs[SpecTarget(f)] = @ \cup {f}]
    ELSE [p EXCEPT !.scenario_specs = Join(@, f, IsScenario(f))]

check_spec_scope(f, p) ==
    LET a == src.fun[f]
        q == RecordParameters(f, realize_includes(f, a.include, a.extra_bpl, p))
    IN  IF FocusRefused(f) THEN q ELSE AttachSpec(f, ClassifySpec(f, q))

SpecDiags(f) ==
    LET a == src.fun[f] IN
    IncludeDiags(a.include, a.extra_bpl)
      \cup (IF a.run_on = "invalid" THEN {"run_on"} ELSE {})
      \cup (IF FocusRefused(f) THEN {"focus_ci"}
            ELSE IF SpecTarget(f) = Bad THEN {"target"}
            ELSE IF SpecTarget(f) = None /\ ~IsScenario(f) THEN {"asserts"}
            ELSE {})

\* Only extra_bpl applies to a #[spec_only] function; then its role.
check_spec_only_scope(f, p) ==
    LET a == src.fun[f]
        q == realize_includes(f, {}, a.extra_bpl, p)
    IN  IF Has(f, "axiom") THEN [q EXCEPT !.axiom_functions = @ \cup {f}]
        ELSE IF a.inv = None \/ a.inv.of = Bad THEN q
        ELSE IF a.inv.kind = "loop_inv"
             THEN [q EXCEPT !.loop_invariant_candidates[a.inv.of] = @ \cup {f}]
             ELSE [q EXCEPT !.all_datatypes_invs[a.inv.of] = @ \cup {f}]

SpecOnlyDiags(f) ==
    LET a == src.fun[f] IN
    IncludeDiags({}, a.extra_bpl)
      \cup (IF ~Has(f, "axiom") /\ a.inv # None /\ a.inv.of = Bad
            THEN {"inv"} ELSE {})

check_abort_check_scope(f, p) ==
    [p EXCEPT
        !.abort_check_functions = Join(@, f, Has(f, "no_abort")),
        !.pure_functions = Join(@, f, Has(f, "pure")),
        !.target_no_abort_check_functions =
            Join(@, f, Has(f, "target") /\ (Has(f, "no_abort") \/ Has(f, "pure"))),
        !.globally_uninterpreted =
            Join(@, f, Has(f, "uninterpreted") /\ Has(f, "pure"))]

AbortScopeDiags(f) ==
    IF Has(f, "uninterpreted") /\ ~Has(f, "pure") THEN {"pure"} ELSE {}

Diagnose(x, whats) == diags' = diags \cup {[at |-> x, what |-> w] : w \in whats}

\* One iteration of the first pass.
VisitFunction(f) ==
    /\ pc = "collect" /\ f \in todo
    /\ LET p1 == collect_spec_backend(f, t)
           p2 == IF Has(f, "spec") THEN check_spec_scope(f, p1) ELSE p1
           p3 == IF Has(f, "spec_only") THEN check_spec_only_scope(f, p2) ELSE p2
       IN  t' = check_abort_check_scope(f, p3)
    /\ Diagnose(f, BackendDiags(f)
                     \cup (IF Has(f, "spec") THEN SpecDiags(f) ELSE {})
                     \cup (IF Has(f, "spec_only") THEN SpecOnlyDiags(f) ELSE {})
                     \cup AbortScopeDiags(f))
    /\ todo' = todo \ {f}
    /\ UNCHANGED <<src, pc>>

\* A module's own annotation, after its functions.
VisitModule(m) ==
    /\ pc = "collect" /\ m \in todo
    /\ \A f \in todo \cap Functions : ModuleOf[f] # m
    /\ LET a == src.mod[m] IN
       /\ t' = realize_includes(m, a.include, a.extra_bpl, t)
       /\ Diagnose(m, IncludeDiags(a.include, a.extra_bpl))
    /\ todo' = todo \ {m}
    /\ UNCHANGED <<src, pc>>

Collected == todo = {}

EndCollect ==
    /\ pc = "collect" /\ Collected
    /\ pc' = "uninterpreted"
    /\ todo' = Specs
    /\ UNCHANGED <<src, t, diags>>

----------------------------------------------------------------------------
(* The second pass, focus, and the choice of a backend. *)

MayBeUninterpreted(p) == p.pure_functions \cup {f \in Functions : Has(f, "native")}

\* check_uninterpreted_scope: a target that is refused is skipped.
CheckUninterpreted(f) ==
    /\ pc = "uninterpreted" /\ f \in todo
    /\ LET a == src.fun[f]
           u == a.uninterpreted \cap MayBeUninterpreted(t)
           i == a.interpreted \cap t.globally_uninterpreted
       IN  /\ t' = [t EXCEPT !.spec_uninterpreted[f] = u,
                             !.spec_interpreted[f] = i]
           /\ Diagnose(f, (IF a.uninterpreted # u THEN {"uninterpreted"} ELSE {})
                            \cup (IF a.interpreted # i THEN {"interpreted"} ELSE {}))
    /\ todo' = todo \ {f}
    /\ UNCHANGED <<src, pc>>

EndUninterpreted ==
    /\ pc = "uninterpreted" /\ todo = {}
    /\ pc' = "focus"
    /\ UNCHANGED <<src, todo, t, diags>>

\* Mutant: the demoted specs are dropped.
DropUnfocused(p) ==
    IF p.focus_specs = {} THEN p
    ELSE [p EXCEPT !.target_specs = p.focus_specs]

Demote(p) ==
    IF p.focus_specs = {} THEN p
    ELSE [p EXCEPT !.no_verify_specs = @ \cup (p.target_specs \ p.focus_specs),
                   !.target_specs = p.focus_specs]

Focus ==
    /\ pc = "focus"
    /\ pc' = "select"
    /\ t' = Demote(t)
    /\ UNCHANGED <<src, todo, diags>>

Includes(owner, backend) == owner \in {"both", backend}

\* Lean translates the Boogie specs too, as axioms.
Excluded(p, b) ==
    {f \in p.target_specs : /\ ~Includes(p.spec_backend[f], b)
                            /\ ~(b = "lean" /\ p.spec_backend[f] = "boogie")}

Foreign(p, b) ==
    IF b = "boogie"
    THEN {f \in p.pure_functions : ~Includes(p.spec_backend[f], b)}
    ELSE {}

select_backend(p, b) ==
    LET ex == Excluded(p, b)
        fo == Foreign(p, b)
    IN [p EXCEPT !.target_specs = @ \ ex,
                 !.focus_specs = @ \ ex,
                 !.target_no_abort_check_functions = @ \ (ex \cup fo),
                 !.no_verify_specs = @ \cup ex,
                 !.backend_excluded_specs = @ \cup ex,
                 !.backend_uninterpreted = @ \cup fo,
                 !.globally_uninterpreted = @ \cup fo]

SelectBackend ==
    /\ pc = "select"
    /\ pc' = "done"
    /\ t' = select_backend(t, src.backend)
    /\ UNCHANGED <<src, todo, diags>>

Done == pc = "done" /\ UNCHANGED vars

Next ==
    \/ \E f \in Functions : VisitFunction(f) \/ CheckUninterpreted(f)
    \/ \E m \in Modules : VisitModule(m)
    \/ EndCollect \/ EndUninterpreted \/ Focus \/ SelectBackend \/ Done

Spec == Init /\ [][Next]_vars

----------------------------------------------------------------------------
(* Queries. *)

is_spec(p, f) == f \in p.target_specs \cup p.no_verify_specs

----------------------------------------------------------------------------
(* Properties. *)

\* A spec is never both verified and left unverified, and when no error was
\* diagnosed it is one or the other, and belongs to exactly one function
\* or is a scenario.
SpecsFiled ==
    /\ t.target_specs \cap t.no_verify_specs = {}
    /\ pc = "done" /\ diags = {} =>
          /\ \A f \in Functions : is_spec(t, f) <=> f \in Specs
          /\ \A f \in Specs :
                Cardinality({g \in Functions : f \in t.all_specs[g]})
                  = IF f \in t.scenario_specs THEN 0 ELSE 1

\* What a run verifies: the specs of the package marked for it and not
\* skipped, the focused ones if there is one, less the other backend's.  The
\* order of the visit has no part in it.
VerifiedAsDeclared ==
    LET asked   == {f \in Specs : /\ {"target", "spec"} \subseteq src.fun[f].flags
                                  /\ src.fun[f].flags \cap {"prove", "focus"} # {}
                                  /\ "skip" \notin src.fun[f].flags}
        focused == {f \in asked : Has(f, "focus")}
        ours    == {f \in Functions : src.fun[f].backend \in
                       IF src.backend = "boogie"
                       THEN {"none", "invalid", "both", "boogie"}
                       ELSE {"none", "invalid", "both", "boogie", "lean"}}
    IN  pc = "done" /\ diags = {} =>
            t.target_specs = ours \cap (IF focused = {} THEN asked ELSE focused)
=============================================================================
