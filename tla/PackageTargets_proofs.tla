----------------------- MODULE PackageTargets_proofs -----------------------
(***************************************************************************)
(* What package_targets.rs files is determined by the attributes: whatever *)
(* the order in which functions and modules are visited, the sets that     *)
(* decide what is verified are, after each visit, those of the functions   *)
(* visited so far (Filed).  Both properties follow from Filed for all      *)
(* functions, and from what Focus and SelectBackend make of it.            *)
(***************************************************************************)
EXTENDS PackageTargets, FiniteSetTheorems, TLAPS

\* The specs of V that are attached to a function or a scenario: the others
\* are refused by --ci.
Accepted(V) == {f \in V \cap Specs : ~FocusRefused(f)}

ToVerify(V)    == {f \in Accepted(V) : Verifies(f)}
NotVerified(V) == {f \in V \cap Specs : ~Verifies(f)}
Focused(V)     == {f \in ToVerify(V) : Has(f, "focus")}

BackendOf(f) ==
    IF src.fun[f].backend \in {"none", "invalid"} THEN "both" ELSE src.fun[f].backend

\* What is filed of the functions of V, apart from the sets of targets.
AttachedOf(V) ==
    /\ \A g \in Functions : t.all_specs[g] = {f \in Accepted(V) : SpecTarget(f) = g}
    /\ t.scenario_specs =
          {f \in Accepted(V) : SpecTarget(f) \notin Functions /\ IsScenario(f)}
    /\ \A f \in Functions : t.spec_backend[f] = IF f \in V THEN BackendOf(f) ELSE "both"

Filed(V) ==
    /\ t.target_specs = ToVerify(V)
    /\ t.no_verify_specs = NotVerified(V)
    /\ t.focus_specs = Focused(V)
    /\ AttachedOf(V)

\* A spec that is refused, or whose target is unknown, was diagnosed.
Diagnosed(V) ==
    diags = {} => \A f \in V \cap Specs :
        /\ ~FocusRefused(f)
        /\ SpecTarget(f) # Bad
        /\ SpecTarget(f) = None => IsScenario(f)

Visited == IF pc = "collect" THEN Functions \ todo ELSE Functions

\* The targets that are left by `focus`.
Chosen == IF Focused(Functions) = {} THEN ToVerify(Functions) ELSE Focused(Functions)

Inv ==
    /\ TypeOK
    /\ Diagnosed(Visited)
    /\ pc \in {"collect", "uninterpreted", "focus"} => Filed(Visited)
    /\ pc = "select" =>
          /\ t.target_specs = Chosen
          /\ t.no_verify_specs = NotVerified(Functions) \cup (ToVerify(Functions) \ Chosen)
          /\ AttachedOf(Functions)
    /\ pc = "done" =>
          /\ t.target_specs = {f \in Chosen : Includes(BackendOf(f), src.backend)
                                 \/ (src.backend = "lean" /\ BackendOf(f) = "boogie")}
          /\ t.no_verify_specs = (Accepted(Functions) \cup NotVerified(Functions))
                                    \ t.target_specs
          /\ AttachedOf(Functions)

----------------------------------------------------------------------------
(* The operators on the PackageTargets value. *)

\* What the invariant looks at.
View(p) == <<p.target_specs, p.no_verify_specs, p.focus_specs, p.scenario_specs,
             p.all_specs, p.spec_backend>>

\* The attributes of a function that the checks read.
LEMMA AttributeTypes ==
    ASSUME src \in Source, NEW f \in Functions
    PROVE  /\ src.fun[f] \in Attributes
           /\ SpecTarget(f) \in Functions \cup {Bad, None}
           /\ BackendOf(f) \in {"lean", "boogie", "both"}
BY DEF Source, Attributes, SpecTarget, BackendOf

\* A set joined by a member stays a subset.
LEMMA JoinType ==
    ASSUME NEW S, NEW T \in SUBSET S, NEW x \in S, NEW condition
    PROVE  Join(T, x, condition) \in SUBSET S
BY DEF Join

(* The types of the fields, as names that are not expanded below. *)
FunctionSets == SUBSET Functions
Filings == [Functions -> SUBSET Functions]
Invariants == [Structs -> SUBSET Functions]
RunPlaces == [Functions -> {"none", "local", "cloud"}]
Backends == [Functions -> {"lean", "boogie", "both"}]
Exclusions == [Functions \cup Modules -> SUBSET (Functions \cup Modules)]
BplOwners == SUBSET (Functions \cup Modules)

LEMMA TargetsShape ==
    Targets = [target_specs : FunctionSets, no_verify_specs : FunctionSets,
               focus_specs : FunctionSets, scenario_specs : FunctionSets,
               skipped_specs : FunctionSets, system_specs : FunctionSets,
               ignore_aborts : FunctionSets, omit_opaque_specs : FunctionSets,
               all_specs : Filings, spec_run_on : RunPlaces, spec_backend : Backends,
               abort_check_functions : FunctionSets, pure_functions : FunctionSets,
               target_no_abort_check_functions : FunctionSets,
               globally_uninterpreted : FunctionSets,
               backend_uninterpreted : FunctionSets,
               spec_uninterpreted : Filings, spec_interpreted : Filings,
               backend_excluded_specs : FunctionSets, axiom_functions : FunctionSets,
               loop_invariant_candidates : Filings, all_datatypes_invs : Invariants,
               external : Exclusions, extra_bpl : BplOwners]
BY DEF Targets, FunctionSets, Filings, Invariants, RunPlaces, Backends, Exclusions,
       BplOwners

\* Replacing one of the sets of functions keeps the type.
LEMMA SetUpdates ==
    ASSUME NEW q \in Targets, NEW S \in SUBSET Functions
    PROVE  /\ [q EXCEPT !.target_specs = S] \in Targets
           /\ [q EXCEPT !.no_verify_specs = S] \in Targets
           /\ [q EXCEPT !.focus_specs = S] \in Targets
           /\ [q EXCEPT !.scenario_specs = S] \in Targets
           /\ [q EXCEPT !.skipped_specs = S] \in Targets
           /\ [q EXCEPT !.system_specs = S] \in Targets
           /\ [q EXCEPT !.ignore_aborts = S] \in Targets
           /\ [q EXCEPT !.omit_opaque_specs = S] \in Targets
           /\ [q EXCEPT !.abort_check_functions = S] \in Targets
           /\ [q EXCEPT !.pure_functions = S] \in Targets
           /\ [q EXCEPT !.target_no_abort_check_functions = S] \in Targets
           /\ [q EXCEPT !.globally_uninterpreted = S] \in Targets
           /\ [q EXCEPT !.backend_uninterpreted = S] \in Targets
           /\ [q EXCEPT !.backend_excluded_specs = S] \in Targets
           /\ [q EXCEPT !.axiom_functions = S] \in Targets
<1>1. S \in FunctionSets
  BY DEF FunctionSets
<1>2. /\ [q EXCEPT !.target_specs = S] \in Targets
      /\ [q EXCEPT !.no_verify_specs = S] \in Targets
      /\ [q EXCEPT !.focus_specs = S] \in Targets
  BY <1>1, TargetsShape
<1>3. /\ [q EXCEPT !.scenario_specs = S] \in Targets
      /\ [q EXCEPT !.skipped_specs = S] \in Targets
      /\ [q EXCEPT !.system_specs = S] \in Targets
  BY <1>1, TargetsShape
<1>4. /\ [q EXCEPT !.ignore_aborts = S] \in Targets
      /\ [q EXCEPT !.omit_opaque_specs = S] \in Targets
      /\ [q EXCEPT !.abort_check_functions = S] \in Targets
  BY <1>1, TargetsShape
<1>5. /\ [q EXCEPT !.pure_functions = S] \in Targets
      /\ [q EXCEPT !.target_no_abort_check_functions = S] \in Targets
      /\ [q EXCEPT !.globally_uninterpreted = S] \in Targets
  BY <1>1, TargetsShape
<1>6. /\ [q EXCEPT !.backend_uninterpreted = S] \in Targets
      /\ [q EXCEPT !.backend_excluded_specs = S] \in Targets
      /\ [q EXCEPT !.axiom_functions = S] \in Targets
  BY <1>1, TargetsShape
<1> QED
  BY <1>2, <1>3, <1>4, <1>5, <1>6

\* Replacing one of the maps keeps the type.
LEMMA MapUpdates ==
    ASSUME NEW q \in Targets, NEW F \in [Functions -> SUBSET Functions]
    PROVE  /\ [q EXCEPT !.all_specs = F] \in Targets
           /\ [q EXCEPT !.loop_invariant_candidates = F] \in Targets
<1>1. F \in Filings
  BY DEF Filings
<1> QED
  BY <1>1, TargetsShape

LEMMA InvariantUpdate ==
    ASSUME NEW q \in Targets, NEW D \in [Structs -> SUBSET Functions]
    PROVE  [q EXCEPT !.all_datatypes_invs = D] \in Targets
<1>1. D \in Invariants
  BY DEF Invariants
<1> QED
  BY <1>1, TargetsShape

LEMMA ExternalUpdates ==
    ASSUME NEW q \in Targets
    PROVE  /\ \A E \in [Functions \cup Modules -> SUBSET (Functions \cup Modules)] :
                 [q EXCEPT !.external = E] \in Targets
           /\ \A B \in SUBSET (Functions \cup Modules) : [q EXCEPT !.extra_bpl = B] \in Targets
           /\ \A R \in [Functions -> {"none", "local", "cloud"}] :
                 [q EXCEPT !.spec_run_on = R] \in Targets
<1>1. /\ Exclusions = [Functions \cup Modules -> SUBSET (Functions \cup Modules)]
      /\ BplOwners = SUBSET (Functions \cup Modules)
      /\ RunPlaces = [Functions -> {"none", "local", "cloud"}]
  BY DEF Exclusions, BplOwners, RunPlaces
<1>2. /\ \A E \in Exclusions : [q EXCEPT !.external = E] \in Targets
      /\ \A B \in BplOwners : [q EXCEPT !.extra_bpl = B] \in Targets
      /\ \A R \in RunPlaces : [q EXCEPT !.spec_run_on = R] \in Targets
  BY TargetsShape
<1> QED
  BY <1>1, <1>2

LEMMA BackendFiled ==
    ASSUME src \in Source, NEW f \in Functions, NEW p \in Targets
    PROVE  LET q == collect_spec_backend(f, p) IN
           /\ q \in Targets
           /\ q.spec_backend = IF src.fun[f].backend \in {"none", "invalid"}
                               THEN p.spec_backend
                               ELSE [p.spec_backend EXCEPT ![f] = src.fun[f].backend]
           /\ q.target_specs = p.target_specs /\ q.no_verify_specs = p.no_verify_specs
           /\ q.focus_specs = p.focus_specs /\ q.scenario_specs = p.scenario_specs
           /\ q.all_specs = p.all_specs
<1>1. src.fun[f].backend \in {"none", "lean", "boogie", "both", "invalid"}
  BY AttributeTypes DEF Attributes
<1> QED
  BY <1>1 DEF collect_spec_backend, Targets

LEMMA IncludesFiled ==
    ASSUME NEW x \in Functions \cup Modules,
           NEW include \in SUBSET (Functions \cup Modules \cup {Bad}),
           NEW extra, NEW p \in Targets
    PROVE  /\ realize_includes(x, include, extra, p) \in Targets
           /\ View(realize_includes(x, include, extra, p)) = View(p)
<1> DEFINE E == [p.external EXCEPT ![x] = IF Bad \in include THEN @
                                          ELSE IF include = {} THEN @ ELSE include]
           B == Join(p.extra_bpl, x, "readable" \in extra)
<1>1. E \in [Functions \cup Modules -> SUBSET (Functions \cup Modules)]
  BY DEF Targets
<1>2. B \in SUBSET (Functions \cup Modules)
  BY JoinType DEF Targets
<1>3. realize_includes(x, include, extra, p) = [p EXCEPT !.external = E, !.extra_bpl = B]
  BY DEF realize_includes, Targets
<1> HIDE DEF E, B
<1>4. realize_includes(x, include, extra, p) \in Targets
  <2>1. [p EXCEPT !.external = E] \in Targets
    BY <1>1, ExternalUpdates
  <2>2. \A q \in Targets : [q EXCEPT !.extra_bpl = B] \in Targets
    BY <1>2, ExternalUpdates
  <2> QED
    BY <1>3, <2>1, <2>2
<1> QED
  BY <1>3, <1>4 DEF Targets, View

LEMMA ParametersFiled ==
    ASSUME src \in Source, NEW f \in Functions, NEW p \in Targets
    PROVE  /\ RecordParameters(f, p) \in Targets
           /\ View(RecordParameters(f, p)) = View(p)
<1> DEFINE J1 == Join(p.system_specs, f, Has(f, "system"))
           J2 == Join(p.omit_opaque_specs, f, Has(f, "no_opaque"))
           J3 == Join(p.ignore_aborts, f, Has(f, "ignore_abort"))
           J4 == Join(p.skipped_specs, f, Has(f, "skip") /\ Has(f, "target"))
           R  == [p.spec_run_on EXCEPT ![f] = IF src.fun[f].run_on = "invalid" THEN @
                                              ELSE src.fun[f].run_on]
<1>1. src.fun[f].run_on \in {"none", "local", "cloud", "invalid"}
  BY AttributeTypes DEF Attributes
<1>2. /\ J1 \in SUBSET Functions /\ J2 \in SUBSET Functions
      /\ J3 \in SUBSET Functions /\ J4 \in SUBSET Functions
  BY JoinType DEF Targets
<1>3. R \in [Functions -> {"none", "local", "cloud"}]
  BY <1>1 DEF Targets
<1>4. RecordParameters(f, p) =
        [p EXCEPT !.system_specs = J1, !.spec_run_on = R, !.omit_opaque_specs = J2,
                  !.ignore_aborts = J3, !.skipped_specs = J4]
  BY DEF RecordParameters, Targets
<1> HIDE DEF J1, J2, J3, J4, R
<1>5. RecordParameters(f, p) \in Targets
  <2>1. \A q \in Targets : [q EXCEPT !.spec_run_on = R] \in Targets
    BY <1>3, ExternalUpdates
  <2>2. \A q \in Targets : /\ [q EXCEPT !.system_specs = J1] \in Targets
                            /\ [q EXCEPT !.omit_opaque_specs = J2] \in Targets
                            /\ [q EXCEPT !.ignore_aborts = J3] \in Targets
                            /\ [q EXCEPT !.skipped_specs = J4] \in Targets
    BY <1>2, SetUpdates
  <2> QED
    BY <1>4, <2>1, <2>2
<1> QED
  BY <1>4, <1>5 DEF Targets, View

LEMMA AbortScopeFiled ==
    ASSUME NEW f \in Functions, NEW p \in Targets
    PROVE  /\ check_abort_check_scope(f, p) \in Targets
           /\ View(check_abort_check_scope(f, p)) = View(p)
<1> DEFINE J1 == Join(p.abort_check_functions, f, Has(f, "no_abort"))
           J2 == Join(p.pure_functions, f, Has(f, "pure"))
           J3 == Join(p.target_no_abort_check_functions, f,
                      Has(f, "target") /\ (Has(f, "no_abort") \/ Has(f, "pure")))
           J4 == Join(p.globally_uninterpreted, f, Has(f, "uninterpreted") /\ Has(f, "pure"))
<1>1. /\ J1 \in SUBSET Functions /\ J2 \in SUBSET Functions
      /\ J3 \in SUBSET Functions /\ J4 \in SUBSET Functions
  BY JoinType DEF Targets
<1>2. check_abort_check_scope(f, p) =
        [p EXCEPT !.abort_check_functions = J1, !.pure_functions = J2,
                  !.target_no_abort_check_functions = J3, !.globally_uninterpreted = J4]
  BY DEF check_abort_check_scope, Targets
<1> HIDE DEF J1, J2, J3, J4
<1>3. check_abort_check_scope(f, p) \in Targets
  <2>1. \A q \in Targets :
           /\ [q EXCEPT !.abort_check_functions = J1] \in Targets
           /\ [q EXCEPT !.pure_functions = J2] \in Targets
           /\ [q EXCEPT !.target_no_abort_check_functions = J3] \in Targets
           /\ [q EXCEPT !.globally_uninterpreted = J4] \in Targets
    BY <1>1, SetUpdates
  <2> QED
    BY <1>2, <2>1
<1> QED
  BY <1>2, <1>3 DEF Targets, View

LEMMA SpecOnlyFiled ==
    ASSUME src \in Source, NEW f \in Functions, NEW p \in Targets
    PROVE  /\ check_spec_only_scope(f, p) \in Targets
           /\ View(check_spec_only_scope(f, p)) = View(p)
<1> DEFINE q == realize_includes(f, {}, src.fun[f].extra_bpl, p)
<1>1. q \in Targets /\ View(q) = View(p)
  BY IncludesFiled
<1> HIDE DEF q
<1>2. src.fun[f].inv \in [kind : {"loop_inv"}, of : Functions \cup {Bad}]
                           \cup [kind : {"inv"}, of : Structs \cup {Bad}] \cup {None}
  BY AttributeTypes DEF Attributes
<1>3. CASE Has(f, "axiom")
  <2> DEFINE S == q.axiom_functions \cup {f}
  <2>1. check_spec_only_scope(f, p) = [q EXCEPT !.axiom_functions = S]
    BY <1>3 DEF check_spec_only_scope, q
  <2>2. S \in SUBSET Functions
    BY <1>1 DEF Targets
  <2> HIDE DEF S
  <2>3. check_spec_only_scope(f, p) \in Targets
    BY <1>1, <2>1, <2>2, SetUpdates
  <2>4. View(check_spec_only_scope(f, p)) = View(q)
    BY <1>1, <2>1 DEF Targets, View
  <2> QED
    BY <1>1, <2>3, <2>4
<1>4. CASE ~Has(f, "axiom") /\ (src.fun[f].inv = None \/ src.fun[f].inv.of = Bad)
  BY <1>1, <1>4 DEF check_spec_only_scope, q
<1>5. CASE /\ ~Has(f, "axiom") /\ src.fun[f].inv # None /\ src.fun[f].inv.of # Bad
           /\ src.fun[f].inv.kind = "loop_inv"
  <2> DEFINE g == src.fun[f].inv.of
             L == [q.loop_invariant_candidates EXCEPT ![g] = @ \cup {f}]
  <2>1. g \in Functions
    BY <1>2, <1>5
  <2>2. L \in [Functions -> SUBSET Functions]
    BY <1>1, <2>1 DEF Targets
  <2>3. check_spec_only_scope(f, p) = [q EXCEPT !.loop_invariant_candidates = L]
    BY <1>5 DEF check_spec_only_scope, q
  <2> HIDE DEF L
  <2>4. check_spec_only_scope(f, p) \in Targets
    BY <1>1, <2>2, <2>3, MapUpdates
  <2>5. View(check_spec_only_scope(f, p)) = View(q)
    BY <1>1, <2>3 DEF Targets, View
  <2> QED
    BY <1>1, <2>4, <2>5
<1>6. CASE /\ ~Has(f, "axiom") /\ src.fun[f].inv # None /\ src.fun[f].inv.of # Bad
           /\ src.fun[f].inv.kind # "loop_inv"
  <2> DEFINE s == src.fun[f].inv.of
             L == [q.all_datatypes_invs EXCEPT ![s] = @ \cup {f}]
  <2>1. s \in Structs
    BY <1>2, <1>6
  <2>2. L \in [Structs -> SUBSET Functions]
    BY <1>1, <2>1 DEF Targets
  <2>3. check_spec_only_scope(f, p) = [q EXCEPT !.all_datatypes_invs = L]
    BY <1>6 DEF check_spec_only_scope, q
  <2> HIDE DEF L
  <2>4. check_spec_only_scope(f, p) \in Targets
    BY <1>1, <2>2, <2>3, InvariantUpdate
  <2>5. View(check_spec_only_scope(f, p)) = View(q)
    BY <1>1, <2>3 DEF Targets, View
  <2> QED
    BY <1>1, <2>4, <2>5
<1> QED
  BY <1>3, <1>4, <1>5, <1>6

\* What a spec adds to the sets of targets and to its function.
LEMMA SpecFiled ==
    ASSUME src \in Source, NEW f \in Functions, NEW p \in Targets
    PROVE  LET q == check_spec_scope(f, p) IN
           /\ q \in Targets
           /\ FocusRefused(f) => View(q) = View(p)
           /\ ~FocusRefused(f) =>
                /\ q.target_specs = IF Verifies(f) THEN p.target_specs \cup {f}
                                                   ELSE p.target_specs
                /\ q.focus_specs = IF Verifies(f) /\ Has(f, "focus")
                                   THEN p.focus_specs \cup {f} ELSE p.focus_specs
                /\ q.no_verify_specs = IF Verifies(f) THEN p.no_verify_specs
                                       ELSE p.no_verify_specs \cup {f}
                /\ q.scenario_specs = IF SpecTarget(f) \notin Functions /\ IsScenario(f)
                                      THEN p.scenario_specs \cup {f} ELSE p.scenario_specs
                /\ q.all_specs = IF SpecTarget(f) \in Functions
                                 THEN [p.all_specs EXCEPT ![SpecTarget(f)] = @ \cup {f}]
                                 ELSE p.all_specs
                /\ q.spec_backend = p.spec_backend
<1> DEFINE a  == src.fun[f]
           p1 == realize_includes(f, a.include, a.extra_bpl, p)
           p2 == RecordParameters(f, p1)
           p3 == ClassifySpec(f, p2)
           p4 == AttachSpec(f, p3)
<1>1. p1 \in Targets /\ View(p1) = View(p)
  <2>1. a.include \in SUBSET (Functions \cup Modules \cup {Bad})
    BY AttributeTypes DEF Attributes
  <2> QED
    BY <2>1, IncludesFiled
<1>2. p2 \in Targets /\ View(p2) = View(p)
  <2> HIDE DEF p1
  <2> QED BY <1>1, ParametersFiled
<1>3. check_spec_scope(f, p) = IF FocusRefused(f) THEN p2 ELSE p4
  BY DEF check_spec_scope
<1> HIDE DEF a, p1, p2
<1>4. /\ p3 \in Targets
      /\ p3.target_specs = IF Verifies(f) THEN p2.target_specs \cup {f} ELSE p2.target_specs
      /\ p3.focus_specs = IF Verifies(f) /\ Has(f, "focus")
                          THEN p2.focus_specs \cup {f} ELSE p2.focus_specs
      /\ p3.no_verify_specs = IF Verifies(f) THEN p2.no_verify_specs
                              ELSE p2.no_verify_specs \cup {f}
      /\ p3.scenario_specs = p2.scenario_specs
      /\ p3.all_specs = p2.all_specs /\ p3.spec_backend = p2.spec_backend
  <2>1. CASE Verifies(f)
    <3> DEFINE T == p2.target_specs \cup {f}
               F == Join(p2.focus_specs, f, Has(f, "focus"))
    <3>1. T \in SUBSET Functions /\ F \in SUBSET Functions
      BY <1>2, JoinType DEF Targets
    <3>2. p3 = [p2 EXCEPT !.target_specs = T, !.focus_specs = F]
      BY <1>2, <2>1 DEF ClassifySpec, Targets
    <3>3. p3 \in Targets
      <4> HIDE DEF T, F, p3
      <4> QED BY <1>2, <3>1, <3>2, SetUpdates
    <3> QED
      BY <1>2, <2>1, <3>2, <3>3 DEF Targets, Join
  <2>2. CASE ~Verifies(f)
    <3> DEFINE N == p2.no_verify_specs \cup {f}
    <3>1. N \in SUBSET Functions
      BY <1>2 DEF Targets
    <3>2. p3 = [p2 EXCEPT !.no_verify_specs = N]
      BY <1>2, <2>2 DEF ClassifySpec, Targets
    <3>3. p3 \in Targets
      BY <1>2, <3>1, <3>2, SetUpdates
    <3> QED
      BY <1>2, <2>2, <3>2, <3>3 DEF Targets
  <2> QED
    BY <2>1, <2>2
<1> HIDE DEF p3
<1>5. /\ p4 \in Targets
      /\ p4.target_specs = p3.target_specs /\ p4.focus_specs = p3.focus_specs
      /\ p4.no_verify_specs = p3.no_verify_specs /\ p4.spec_backend = p3.spec_backend
      /\ p4.scenario_specs = IF SpecTarget(f) \notin Functions /\ IsScenario(f)
                             THEN p3.scenario_specs \cup {f} ELSE p3.scenario_specs
      /\ p4.all_specs = IF SpecTarget(f) \in Functions
                        THEN [p3.all_specs EXCEPT ![SpecTarget(f)] = @ \cup {f}]
                        ELSE p3.all_specs
  <2>1. CASE SpecTarget(f) \in Functions
    <3> DEFINE A == [p3.all_specs EXCEPT ![SpecTarget(f)] = @ \cup {f}]
    <3>1. A \in [Functions -> SUBSET Functions]
      BY <1>4, <2>1 DEF Targets
    <3>2. p4 = [p3 EXCEPT !.all_specs = A]
      BY <1>4, <2>1 DEF AttachSpec, Targets
    <3> HIDE DEF A, p4
    <3>3. p4 \in Targets
      BY <1>4, <3>1, <3>2, MapUpdates
    <3>4. /\ p4.target_specs = p3.target_specs /\ p4.focus_specs = p3.focus_specs
          /\ p4.no_verify_specs = p3.no_verify_specs /\ p4.spec_backend = p3.spec_backend
          /\ p4.scenario_specs = p3.scenario_specs /\ p4.all_specs = A
      BY <1>4, <3>2 DEF Targets
    <3> QED
      BY <2>1, <3>3, <3>4 DEF A
  <2>2. CASE SpecTarget(f) \notin Functions
    <3> DEFINE S == Join(p3.scenario_specs, f, IsScenario(f))
    <3>1. S \in SUBSET Functions
      BY <1>4, JoinType DEF Targets
    <3>2. p4 = [p3 EXCEPT !.scenario_specs = S]
      BY <1>4, <2>2 DEF AttachSpec, Targets
    <3> HIDE DEF S, p4
    <3>3. p4 \in Targets
      BY <1>4, <3>1, <3>2, SetUpdates
    <3>4. /\ p4.target_specs = p3.target_specs /\ p4.focus_specs = p3.focus_specs
          /\ p4.no_verify_specs = p3.no_verify_specs /\ p4.spec_backend = p3.spec_backend
          /\ p4.scenario_specs = S /\ p4.all_specs = p3.all_specs
      BY <1>4, <3>2 DEF Targets
    <3> QED
      BY <2>2, <3>3, <3>4 DEF S, Join
  <2> QED
    BY <2>1, <2>2
<1> HIDE DEF p4
<1> QED
  BY <1>2, <1>3, <1>4, <1>5 DEF View

----------------------------------------------------------------------------
(* The steps. *)

\* The declared sets depend on the source only, which never changes.
LEMMA SourceFixed ==
    ASSUME src' = src
    PROVE  /\ Specs' = Specs
           /\ \A f : /\ FocusRefused(f)' <=> FocusRefused(f)
                     /\ Verifies(f)' <=> Verifies(f)
                     /\ IsScenario(f)' <=> IsScenario(f)
                     /\ SpecTarget(f)' = SpecTarget(f)
                     /\ BackendOf(f)' = BackendOf(f)
           /\ \A V : /\ Accepted(V)' = Accepted(V) /\ ToVerify(V)' = ToVerify(V)
                     /\ NotVerified(V)' = NotVerified(V) /\ Focused(V)' = Focused(V)
           /\ Chosen' = Chosen
<1>1. \A f, x : Has(f, x)' <=> Has(f, x)
  BY DEF Has
<1>2. Specs' = Specs
  BY DEF Specs, Has
<1>3. \A f : /\ FocusRefused(f)' <=> FocusRefused(f)
             /\ Verifies(f)' <=> Verifies(f)
             /\ IsScenario(f)' <=> IsScenario(f)
             /\ SpecTarget(f)' = SpecTarget(f) /\ BackendOf(f)' = BackendOf(f)
  BY DEF FocusRefused, Verifies, IsScenario, SpecTarget, BackendOf, Has
<1>4. \A V : /\ Accepted(V)' = Accepted(V) /\ ToVerify(V)' = ToVerify(V)
             /\ NotVerified(V)' = NotVerified(V) /\ Focused(V)' = Focused(V)
  BY <1>2 DEF Accepted, ToVerify, NotVerified, Focused, FocusRefused, Verifies, Has
<1>5. Chosen' = Chosen
  BY <1>4 DEF Chosen
<1> QED
  BY <1>2, <1>3, <1>4, <1>5

\* The attachments, given what the step does to the three fields.
LEMMA AttachedKept ==
    ASSUME NEW V, src' = src, AttachedOf(V), t'.all_specs = t.all_specs,
           t'.scenario_specs = t.scenario_specs, t'.spec_backend = t.spec_backend
    PROVE  AttachedOf(V)'
BY SourceFixed DEF AttachedOf

\* Diagnostics are kept, so that they are still there at the end.
LEMMA DiagnosedKept ==
    ASSUME NEW V, src' = src, Diagnosed(V), diags \subseteq diags'
    PROVE  Diagnosed(V)'
BY SourceFixed DEF Diagnosed

\* The visit of a function files it, in addition to those visited before.
LEMMA FunctionFiled ==
    ASSUME TypeOK, NEW f \in Functions, Filed(Functions \ todo), VisitFunction(f)
    PROVE  t' \in Targets /\ Filed(Functions \ todo)'
<1> DEFINE p1 == collect_spec_backend(f, t)
           p2 == IF Has(f, "spec") THEN check_spec_scope(f, p1) ELSE p1
           p3 == IF Has(f, "spec_only") THEN check_spec_only_scope(f, p2) ELSE p2
           p4 == check_abort_check_scope(f, p3)
           files == f \in Specs /\ ~FocusRefused(f)
           V == Functions \ todo
           W == Functions \ todo'
<1>0. /\ src \in Source /\ src' = src /\ t \in Targets /\ pc = "collect"
      /\ f \in todo /\ todo' = todo \ {f} /\ t' = p4
      /\ Has(f, "spec") <=> f \in Specs
  BY DEF TypeOK, VisitFunction, Specs
<1>1. /\ p1 \in Targets
      /\ p1.spec_backend = IF src.fun[f].backend \in {"none", "invalid"}
                           THEN t.spec_backend
                           ELSE [t.spec_backend EXCEPT ![f] = src.fun[f].backend]
      /\ p1.target_specs = t.target_specs /\ p1.no_verify_specs = t.no_verify_specs
      /\ p1.focus_specs = t.focus_specs /\ p1.scenario_specs = t.scenario_specs
      /\ p1.all_specs = t.all_specs
  BY <1>0, BackendFiled
<1> HIDE DEF p1
<1>2. /\ p2 \in Targets
      /\ p2.spec_backend = p1.spec_backend
      /\ p2.target_specs = IF files /\ Verifies(f) THEN t.target_specs \cup {f}
                           ELSE t.target_specs
      /\ p2.focus_specs = IF files /\ Verifies(f) /\ Has(f, "focus")
                          THEN t.focus_specs \cup {f} ELSE t.focus_specs
      /\ p2.no_verify_specs = IF files /\ ~Verifies(f) THEN t.no_verify_specs \cup {f}
                              ELSE t.no_verify_specs
      /\ p2.scenario_specs = IF files /\ SpecTarget(f) \notin Functions /\ IsScenario(f)
                             THEN t.scenario_specs \cup {f} ELSE t.scenario_specs
      /\ p2.all_specs = IF files /\ SpecTarget(f) \in Functions
                        THEN [t.all_specs EXCEPT ![SpecTarget(f)] = @ \cup {f}]
                        ELSE t.all_specs
  <2>1. CASE ~Has(f, "spec")
    BY <1>0, <1>1, <2>1
  <2>2. CASE Has(f, "spec")
    <3>1. p2 = check_spec_scope(f, p1)
      BY <2>2
    <3> HIDE DEF p2
    <3>2. CASE FocusRefused(f)
      <4>1. p2 \in Targets /\ View(p2) = View(p1)
        BY <1>0, <1>1, <3>1, <3>2, SpecFiled
      <4> QED
        BY <1>1, <3>2, <4>1 DEF View
    <3>3. CASE ~FocusRefused(f)
      <4>1. /\ p2 \in Targets
            /\ p2.target_specs = IF Verifies(f) THEN p1.target_specs \cup {f}
                                 ELSE p1.target_specs
            /\ p2.focus_specs = IF Verifies(f) /\ Has(f, "focus")
                                THEN p1.focus_specs \cup {f} ELSE p1.focus_specs
            /\ p2.no_verify_specs = IF Verifies(f) THEN p1.no_verify_specs
                                    ELSE p1.no_verify_specs \cup {f}
            /\ p2.scenario_specs = IF SpecTarget(f) \notin Functions /\ IsScenario(f)
                                   THEN p1.scenario_specs \cup {f} ELSE p1.scenario_specs
            /\ p2.all_specs = IF SpecTarget(f) \in Functions
                              THEN [p1.all_specs EXCEPT ![SpecTarget(f)] = @ \cup {f}]
                              ELSE p1.all_specs
            /\ p2.spec_backend = p1.spec_backend
        BY <1>0, <1>1, <3>1, <3>3, SpecFiled
      <4>2. files
        BY <1>0, <2>2, <3>3
      <4> HIDE DEF files
      <4> QED
        BY <1>1, <4>1, <4>2
    <3> QED
      BY <3>2, <3>3
  <2> QED
    BY <2>1, <2>2
<1> HIDE DEF p2
<1>3. p3 \in Targets /\ View(p3) = View(p2)
  BY <1>0, <1>2, SpecOnlyFiled
<1> HIDE DEF p3
<1>4. p4 \in Targets /\ View(p4) = View(p2)
  BY <1>3, AbortScopeFiled
<1> HIDE DEF p4
<1>5. /\ t'.target_specs = p2.target_specs /\ t'.no_verify_specs = p2.no_verify_specs
      /\ t'.focus_specs = p2.focus_specs /\ t'.scenario_specs = p2.scenario_specs
      /\ t'.all_specs = p2.all_specs /\ t'.spec_backend = p1.spec_backend
  BY <1>0, <1>2, <1>4 DEF View
<1>6. W = V \cup {f} /\ f \notin V
  BY <1>0
<1>7. /\ ToVerify(W) = IF files /\ Verifies(f) THEN ToVerify(V) \cup {f} ELSE ToVerify(V)
      /\ Focused(W) = IF files /\ Verifies(f) /\ Has(f, "focus")
                      THEN Focused(V) \cup {f} ELSE Focused(V)
      /\ Accepted(W) = IF files THEN Accepted(V) \cup {f} ELSE Accepted(V)
      /\ NotVerified(W) = IF files /\ ~Verifies(f) THEN NotVerified(V) \cup {f}
                          ELSE NotVerified(V)
  <2>1. FocusRefused(f) => Verifies(f)
    BY DEF FocusRefused
  <2> HIDE DEF V, W
  <2>2. Accepted(W) = IF files THEN Accepted(V) \cup {f} ELSE Accepted(V)
    BY <1>6 DEF Accepted
  <2>3. ToVerify(W) = IF files /\ Verifies(f) THEN ToVerify(V) \cup {f} ELSE ToVerify(V)
    BY <2>2 DEF ToVerify
  <2>4. Focused(W) = IF files /\ Verifies(f) /\ Has(f, "focus")
                     THEN Focused(V) \cup {f} ELSE Focused(V)
    BY <2>3 DEF Focused
  <2>5. NotVerified(W) = IF files /\ ~Verifies(f) THEN NotVerified(V) \cup {f}
                         ELSE NotVerified(V)
    BY <1>6, <2>1 DEF NotVerified
  <2> QED
    BY <2>2, <2>3, <2>4, <2>5
<1>8. /\ t'.target_specs = ToVerify(W) /\ t'.no_verify_specs = NotVerified(W)
      /\ t'.focus_specs = Focused(W)
  BY <1>2, <1>5, <1>7 DEF Filed
<1>9. \A g \in Functions : t'.all_specs[g] = {h \in Accepted(W) : SpecTarget(h) = g}
  <2>1. t.all_specs \in [Functions -> SUBSET Functions]
    BY <1>0 DEF Targets
  <2>2. \A g \in Functions : t.all_specs[g] = {h \in Accepted(V) : SpecTarget(h) = g}
    BY DEF Filed, AttachedOf
  <2>3. Accepted(W) = IF files THEN Accepted(V) \cup {f} ELSE Accepted(V)
    BY <1>7
  <2> HIDE DEF V, W
  <2>4. CASE files
    <3> HIDE DEF files
    <3> QED
      BY <1>2, <1>5, <2>1, <2>2, <2>3, <2>4
  <2>5. CASE ~files
    <3> HIDE DEF files
    <3> QED
      BY <1>2, <1>5, <2>2, <2>3, <2>5
  <2> QED
    BY <2>4, <2>5
<1>10. t'.scenario_specs = {h \in Accepted(W) : SpecTarget(h) \notin Functions /\ IsScenario(h)}
  <2>1. t.scenario_specs = {h \in Accepted(V) : SpecTarget(h) \notin Functions /\ IsScenario(h)}
    BY DEF Filed, AttachedOf
  <2>2. Accepted(W) = IF files THEN Accepted(V) \cup {f} ELSE Accepted(V)
    BY <1>7
  <2> HIDE DEF V, W, files
  <2> QED
    BY <1>2, <1>5, <2>1, <2>2
<1>11. \A h \in Functions : t'.spec_backend[h] = IF h \in W THEN BackendOf(h) ELSE "both"
  <2>1. \A h \in Functions : t.spec_backend[h] = IF h \in V THEN BackendOf(h) ELSE "both"
    BY DEF Filed, AttachedOf
  <2>2. t.spec_backend \in [Functions -> {"lean", "boogie", "both"}]
    BY <1>0 DEF Targets
  <2> HIDE DEF V, W
  <2> QED
    BY <1>1, <1>5, <1>6, <2>1, <2>2 DEF BackendOf
<1> HIDE DEF files, V
<1>12. AttachedOf(Functions \ todo)'
  <2>1. /\ Accepted(Functions \ todo)' = Accepted(W)
        /\ \A h : SpecTarget(h)' = SpecTarget(h) /\ (IsScenario(h)' <=> IsScenario(h))
        /\ \A h : BackendOf(h)' = BackendOf(h)
    BY <1>0, SourceFixed
  <2>2. \A g \in Functions :
           t'.all_specs[g] = {h \in Accepted(Functions \ todo)' : SpecTarget(h)' = g}
    BY <1>9, <2>1
  <2>3. t'.scenario_specs = {h \in Accepted(Functions \ todo)' :
                                SpecTarget(h)' \notin Functions /\ IsScenario(h)'}
    BY <1>10, <2>1
  <2>4. \A h \in Functions :
           t'.spec_backend[h] = IF h \in (Functions \ todo)' THEN BackendOf(h)' ELSE "both"
    BY <1>11, <2>1
  <2> QED
    BY <2>2, <2>3, <2>4 DEF AttachedOf
<1>13. Filed(Functions \ todo)'
  BY <1>0, <1>8, <1>12, SourceFixed DEF Filed
<1> QED
  BY <1>0, <1>4, <1>13

\* A step's diagnostics are diagnostics.
LEMMA DiagnoseType ==
    ASSUME TypeOK, NEW x \in Functions \cup Modules,
           NEW whats \in SUBSET {"backend", "run_on", "focus_ci", "target", "asserts",
                                 "inv", "include", "extra_bpl", "pure", "uninterpreted",
                                 "interpreted"},
           Diagnose(x, whats)
    PROVE  /\ diags \subseteq diags'
           /\ whats # {} => diags' # {}
           /\ diags' \subseteq [at : Functions \cup Modules,
                                what : {"backend", "run_on", "focus_ci", "target",
                                        "asserts", "inv", "include", "extra_bpl",
                                        "pure", "uninterpreted", "interpreted"}]
<1>1. diags' = diags \cup {[at |-> x, what |-> w] : w \in whats}
  BY DEF Diagnose
<1>2. whats # {} => diags' # {}
  <2> SUFFICES ASSUME NEW w \in whats PROVE diags' # {}
    OBVIOUS
  <2>1. [at |-> x, what |-> w] \in diags'
    BY <1>1
  <2> QED BY <2>1
<1>3. diags \subseteq diags'
  BY <1>1
<1> QED
  BY <1>1, <1>2, <1>3 DEF TypeOK

\* The visit of a function diagnoses it if it is refused.
LEMMA FunctionDiagnosed ==
    ASSUME TypeOK, NEW f \in Functions, Diagnosed(Functions \ todo), VisitFunction(f)
    PROVE  Diagnosed(Functions \ todo)' /\ diags' \subseteq
             [at : Functions \cup Modules,
              what : {"backend", "run_on", "focus_ci", "target", "asserts", "inv",
                      "include", "extra_bpl", "pure", "uninterpreted", "interpreted"}]
<1> DEFINE D == BackendDiags(f)
                  \cup (IF Has(f, "spec") THEN SpecDiags(f) ELSE {})
                  \cup (IF Has(f, "spec_only") THEN SpecOnlyDiags(f) ELSE {})
                  \cup AbortScopeDiags(f)
<1>1. D \in SUBSET {"backend", "run_on", "focus_ci", "target", "asserts", "inv",
                    "include", "extra_bpl", "pure", "uninterpreted", "interpreted"}
  BY DEF BackendDiags, SpecDiags, SpecOnlyDiags, AbortScopeDiags, IncludeDiags
<1>2. src' = src /\ todo' = todo \ {f} /\ f \in todo /\ Diagnose(f, D)
  BY DEF VisitFunction
<1>3. ASSUME f \in Specs, D = {}
      PROVE  ~FocusRefused(f) /\ SpecTarget(f) # Bad /\ (SpecTarget(f) = None => IsScenario(f))
  BY <1>3 DEF SpecDiags, Specs
<1> HIDE DEF D
<1>4. diags \subseteq diags' /\ (D # {} => diags' # {})
  BY <1>1, <1>2, DiagnoseType
<1>5. \A g \in Functions \ todo' : g = f \/ g \in Functions \ todo
  BY <1>2
<1>6. Diagnosed(Functions \ todo)'
  <2> SUFFICES ASSUME diags' = {}, NEW g \in (Functions \ todo') \cap Specs
               PROVE  /\ ~FocusRefused(g) /\ SpecTarget(g) # Bad
                      /\ SpecTarget(g) = None => IsScenario(g)
    BY <1>2, SourceFixed DEF Diagnosed
  <2>1. CASE g = f
    BY <1>3, <1>4, <2>1
  <2>2. CASE g \in Functions \ todo
    BY <1>4, <2>2 DEF Diagnosed
  <2> QED
    BY <1>5, <2>1, <2>2
<1> QED
  BY <1>1, <1>2, <1>6, DiagnoseType

\* A module's own annotation touches none of the sets of specs.
LEMMA ModuleStep ==
    ASSUME Inv, NEW m \in Modules, VisitModule(m)
    PROVE  Inv'
<1> DEFINE a == src.mod[m]
<1>0. /\ TypeOK /\ pc = "collect" /\ pc' = pc /\ src' = src /\ src \in Source
      /\ Diagnosed(Functions \ todo) /\ Filed(Functions \ todo)
      /\ todo' = todo \ {m} /\ Functions \ todo' = Functions \ todo
  BY TargetsAssumption DEF Inv, Visited, VisitModule, TypeOK
<1>1. a.include \in SUBSET (Functions \cup Modules \cup {Bad})
  BY <1>0 DEF Source, ModuleAttributes
<1>2. /\ t' = realize_includes(m, a.include, a.extra_bpl, t)
      /\ Diagnose(m, IncludeDiags(a.include, a.extra_bpl))
  BY DEF VisitModule
<1> HIDE DEF a
<1>3. t' \in Targets /\ View(t') = View(t)
  BY <1>0, <1>1, <1>2, IncludesFiled DEF TypeOK
<1>4. TypeOK' /\ diags \subseteq diags'
  <2>1. IncludeDiags(a.include, a.extra_bpl) \in SUBSET {"include", "extra_bpl"}
    BY DEF IncludeDiags
  <2> HIDE DEF a
  <2>2. diags \subseteq diags' /\ diags' \subseteq
             [at : Functions \cup Modules,
              what : {"backend", "run_on", "focus_ci", "target", "asserts", "inv",
                      "include", "extra_bpl", "pure", "uninterpreted", "interpreted"}]
    BY <1>0, <1>2, <2>1, DiagnoseType
  <2> QED
    BY <1>0, <1>3, <2>2 DEF TypeOK
<1>5. Filed(Functions \ todo)'
  <2>1. /\ t'.target_specs = t.target_specs /\ t'.no_verify_specs = t.no_verify_specs
        /\ t'.focus_specs = t.focus_specs /\ t'.scenario_specs = t.scenario_specs
        /\ t'.all_specs = t.all_specs /\ t'.spec_backend = t.spec_backend
    BY <1>3 DEF View
  <2> QED
    BY <1>0, <2>1, AttachedKept, SourceFixed DEF Filed
<1>6. Diagnosed(Functions \ todo)'
  BY <1>0, <1>4, DiagnosedKept
<1> QED
  BY <1>0, <1>4, <1>5, <1>6 DEF Inv, Visited

\* The second pass touches the parameters of the specs only.
LEMMA UninterpretedStep ==
    ASSUME Inv, NEW f \in Functions, CheckUninterpreted(f)
    PROVE  Inv'
<1> DEFINE u == src.fun[f].uninterpreted \cap MayBeUninterpreted(t)
           i == src.fun[f].interpreted \cap t.globally_uninterpreted
           U == [t.spec_uninterpreted EXCEPT ![f] = u]
           I == [t.spec_interpreted EXCEPT ![f] = i]
           D == (IF src.fun[f].uninterpreted # u THEN {"uninterpreted"} ELSE {})
                  \cup (IF src.fun[f].interpreted # i THEN {"interpreted"} ELSE {})
<1>0. /\ TypeOK /\ pc = "uninterpreted" /\ pc' = pc /\ src' = src
      /\ src \in Source /\ t \in Targets /\ todo' = todo \ {f}
      /\ Diagnosed(Functions) /\ Filed(Functions)
      /\ t' = [t EXCEPT !.spec_uninterpreted = U, !.spec_interpreted = I]
      /\ Diagnose(f, D)
  BY DEF Inv, Visited, CheckUninterpreted, TypeOK
<1>1. u \in SUBSET Functions /\ i \in SUBSET Functions
  BY <1>0 DEF Targets, MayBeUninterpreted
<1>2. U \in [Functions -> SUBSET Functions] /\ I \in [Functions -> SUBSET Functions]
  <2> HIDE DEF u, i
  <2> QED BY <1>0, <1>1 DEF Targets
<1>3. D \in SUBSET {"uninterpreted", "interpreted"}
  OBVIOUS
<1> HIDE DEF u, i, U, I, D
<1>4. t' \in Targets
  <2>1. [t EXCEPT !.spec_uninterpreted = U] \in Targets
    BY <1>0, <1>2 DEF Targets
  <2>2. \A q \in Targets : [q EXCEPT !.spec_interpreted = I] \in Targets
    BY <1>2 DEF Targets
  <2> QED
    BY <1>0, <2>1, <2>2
<1>5. /\ t'.target_specs = t.target_specs /\ t'.no_verify_specs = t.no_verify_specs
      /\ t'.focus_specs = t.focus_specs /\ t'.scenario_specs = t.scenario_specs
      /\ t'.all_specs = t.all_specs /\ t'.spec_backend = t.spec_backend
  BY <1>0 DEF Targets
<1>6. diags \subseteq diags' /\ TypeOK'
  <2>1. diags \subseteq diags' /\ diags' \subseteq
             [at : Functions \cup Modules,
              what : {"backend", "run_on", "focus_ci", "target", "asserts", "inv",
                      "include", "extra_bpl", "pure", "uninterpreted", "interpreted"}]
    BY <1>0, <1>3, DiagnoseType
  <2> QED
    BY <1>0, <1>4, <2>1 DEF TypeOK
<1>7. Filed(Functions)'
  BY <1>0, <1>5, AttachedKept, SourceFixed DEF Filed
<1>8. Diagnosed(Functions)'
  BY <1>0, <1>6, DiagnosedKept
<1> QED
  BY <1>0, <1>6, <1>7, <1>8 DEF Inv, Visited

\* focus leaves the focused specs, if there is one.
LEMMA FocusStep ==
    ASSUME Inv, Focus
    PROVE  Inv'
<1>0. /\ TypeOK /\ pc = "focus" /\ pc' = "select" /\ src' = src /\ t \in Targets
      /\ todo' = todo /\ diags' = diags
      /\ Diagnosed(Functions) /\ Filed(Functions) /\ t' = Demote(t)
  BY DEF Inv, Visited, Focus, TypeOK
<1>1. /\ t' \in Targets
      /\ t'.target_specs = Chosen
      /\ t'.no_verify_specs = NotVerified(Functions) \cup (ToVerify(Functions) \ Chosen)
      /\ t'.scenario_specs = t.scenario_specs
      /\ t'.all_specs = t.all_specs /\ t'.spec_backend = t.spec_backend
  <2>1. CASE t.focus_specs = {}
    <3>1. t' = t
      BY <1>0, <2>1 DEF Demote
    <3>2. Chosen = ToVerify(Functions)
      BY <1>0, <2>1 DEF Chosen, Filed
    <3> QED
      BY <1>0, <3>1, <3>2 DEF Filed
  <2>2. CASE t.focus_specs # {}
    <3> DEFINE N == t.no_verify_specs \cup (t.target_specs \ t.focus_specs)
               F == t.focus_specs
    <3>1. N \in SUBSET Functions /\ F \in SUBSET Functions
      BY <1>0 DEF Targets
    <3>2. t' = [t EXCEPT !.no_verify_specs = N, !.target_specs = F]
      BY <1>0, <2>2 DEF Demote, Targets
    <3>3. Chosen = Focused(Functions) /\ Focused(Functions) = F
      BY <1>0, <2>2 DEF Chosen, Filed
    <3>4. N = NotVerified(Functions) \cup (ToVerify(Functions) \ Chosen)
      BY <1>0, <3>3 DEF Filed
    <3> HIDE DEF N, F
    <3>5. t' \in Targets
      <4>1. /\ [t EXCEPT !.no_verify_specs = N] \in Targets
            /\ \A q \in Targets : [q EXCEPT !.target_specs = F] \in Targets
        BY <1>0, <3>1, SetUpdates
      <4> QED BY <3>2, <4>1
    <3> QED
      BY <1>0, <3>2, <3>3, <3>4, <3>5 DEF Targets
  <2> QED
    BY <2>1, <2>2
<1>2. AttachedOf(Functions)' /\ Diagnosed(Functions)'
  BY <1>0, <1>1, AttachedKept, DiagnosedKept DEF Filed
<1>3. TypeOK'
  BY <1>0, <1>1 DEF TypeOK
<1>4. /\ Chosen' = Chosen /\ ToVerify(Functions)' = ToVerify(Functions)
      /\ NotVerified(Functions)' = NotVerified(Functions)
  BY <1>0, SourceFixed
<1> QED
  BY <1>0, <1>1, <1>2, <1>3, <1>4 DEF Inv, Visited

\* select_backend demotes the other backend's specs.
LEMMA SelectStep ==
    ASSUME Inv, SelectBackend
    PROVE  Inv'
<1> DEFINE b  == src.backend
           ex == Excluded(t, b)
           fo == Foreign(t, b)
           Mine(f) == Includes(BackendOf(f), b) \/ (b = "lean" /\ BackendOf(f) = "boogie")
           T1 == t.target_specs \ ex
           T2 == t.focus_specs \ ex
           T3 == t.target_no_abort_check_functions \ (ex \cup fo)
           T4 == t.no_verify_specs \cup ex
           T5 == t.backend_excluded_specs \cup ex
           T6 == t.backend_uninterpreted \cup fo
           T7 == t.globally_uninterpreted \cup fo
<1>0. /\ TypeOK /\ pc = "select" /\ pc' = "done" /\ src' = src /\ t \in Targets
      /\ todo' = todo /\ diags' = diags /\ Diagnosed(Functions)
      /\ t.target_specs = Chosen
      /\ t.no_verify_specs = NotVerified(Functions) \cup (ToVerify(Functions) \ Chosen)
      /\ AttachedOf(Functions) /\ t' = select_backend(t, b)
  BY DEF Inv, Visited, SelectBackend, TypeOK
<1>1. t' = [t EXCEPT !.target_specs = T1, !.focus_specs = T2,
                     !.target_no_abort_check_functions = T3, !.no_verify_specs = T4,
                     !.backend_excluded_specs = T5, !.backend_uninterpreted = T6,
                     !.globally_uninterpreted = T7]
  BY <1>0 DEF select_backend, Targets
<1>2. ex \in SUBSET Functions /\ fo \in SUBSET Functions
  BY <1>0 DEF Excluded, Foreign, Targets
<1>3. \A f \in Functions : t.spec_backend[f] = BackendOf(f)
  BY <1>0 DEF AttachedOf
<1>4. ex = {f \in Chosen : ~Mine(f)}
  <2>1. Chosen \subseteq Functions
    BY <1>0 DEF Targets
  <2>2. ex = {f \in Chosen : /\ ~Includes(t.spec_backend[f], b)
                             /\ ~(b = "lean" /\ t.spec_backend[f] = "boogie")}
    BY <1>0 DEF Excluded
  <2>3. \A f \in Chosen : t.spec_backend[f] = BackendOf(f)
    BY <1>3, <2>1
  <2>4. \A f \in Chosen : ~Mine(f) <=> /\ ~Includes(t.spec_backend[f], b)
                                       /\ ~(b = "lean" /\ t.spec_backend[f] = "boogie")
    BY <2>3
  <2> HIDE DEF ex, b, Mine
  <2> QED
    BY <2>2, <2>4
<1> HIDE DEF b, ex, fo
<1>5. /\ T1 \in SUBSET Functions /\ T2 \in SUBSET Functions /\ T3 \in SUBSET Functions
      /\ T4 \in SUBSET Functions /\ T5 \in SUBSET Functions /\ T6 \in SUBSET Functions
      /\ T7 \in SUBSET Functions
  BY <1>0, <1>2 DEF Targets
<1>6. T1 = {f \in Chosen : Mine(f)}
  BY <1>0, <1>4
<1>7. T4 = (Accepted(Functions) \cup NotVerified(Functions)) \ T1
  <2>1. Chosen \subseteq ToVerify(Functions)
    BY DEF Chosen, Focused
  <2>2. ToVerify(Functions) \cap NotVerified(Functions) = {}
    BY DEF ToVerify, NotVerified
  <2>3. Accepted(Functions) \cup NotVerified(Functions)
          = ToVerify(Functions) \cup NotVerified(Functions)
    BY DEF ToVerify, NotVerified, Accepted
  <2>4. T4 = NotVerified(Functions) \cup (ToVerify(Functions) \ Chosen)
               \cup {f \in Chosen : ~Mine(f)}
    BY <1>0, <1>4
  <2> HIDE DEF Mine, T1, T4
  <2> QED
    BY <1>6, <2>1, <2>2, <2>3, <2>4
<1>8. AttachedOf(Functions)' /\ Diagnosed(Functions)'
  <2>1. /\ t'.scenario_specs = t.scenario_specs /\ t'.all_specs = t.all_specs
        /\ t'.spec_backend = t.spec_backend
    <3> HIDE DEF T1, T2, T3, T4, T5, T6, T7
    <3> QED BY <1>0, <1>1 DEF Targets
  <2> QED
    BY <1>0, <2>1, AttachedKept, DiagnosedKept
<1>9. t' \in Targets /\ t'.target_specs = T1 /\ t'.no_verify_specs = T4
  <2> HIDE DEF T1, T2, T3, T4, T5, T6, T7
  <2>1. /\ [t EXCEPT !.target_specs = T1] \in Targets
        /\ \A q \in Targets :
              /\ [q EXCEPT !.focus_specs = T2] \in Targets
              /\ [q EXCEPT !.target_no_abort_check_functions = T3] \in Targets
              /\ [q EXCEPT !.no_verify_specs = T4] \in Targets
              /\ [q EXCEPT !.backend_excluded_specs = T5] \in Targets
              /\ [q EXCEPT !.backend_uninterpreted = T6] \in Targets
              /\ [q EXCEPT !.globally_uninterpreted = T7] \in Targets
    BY <1>0, <1>5, SetUpdates
  <2>2. t' \in Targets
    BY <1>1, <2>1
  <2>3. t'.target_specs = T1 /\ t'.no_verify_specs = T4
    BY <1>0, <1>1 DEF Targets
  <2> QED
    BY <2>2, <2>3
<1>10. TypeOK'
  BY <1>0, <1>9 DEF TypeOK
<1>11. /\ Chosen' = Chosen /\ Accepted(Functions)' = Accepted(Functions)
       /\ NotVerified(Functions)' = NotVerified(Functions)
       /\ \A f : BackendOf(f)' = BackendOf(f)
  BY <1>0, SourceFixed
<1>12. t'.target_specs = {f \in Chosen' : Includes(BackendOf(f)', src'.backend)
                             \/ (src'.backend = "lean" /\ BackendOf(f)' = "boogie")}
  BY <1>0, <1>6, <1>9, <1>11 DEF b
<1> HIDE DEF T1, T4
<1> QED
  BY <1>0, <1>7, <1>8, <1>9, <1>10, <1>11, <1>12 DEF Inv, Visited

\* The first state: nothing is visited and nothing is filed.
LEMMA InitInv == Init => Inv
<1> SUFFICES ASSUME Init PROVE Inv
  OBVIOUS
<1>1. t \in Targets
  BY DEF Init, Empty, Targets
<1>2. TypeOK
  BY <1>1, TargetsAssumption DEF Init, TypeOK
<1>3. Functions \ todo = {}
  BY DEF Init
<1>4. Filed({})
  BY DEF Init, Empty, Filed, AttachedOf, ToVerify, NotVerified, Focused, Accepted
<1>5. Diagnosed({})
  BY DEF Diagnosed
<1> QED
  BY <1>2, <1>3, <1>4, <1>5 DEF Inv, Visited, Init

\* Every step keeps the invariant.
LEMMA StepInv == Inv /\ [Next]_vars => Inv'
<1> SUFFICES ASSUME Inv, [Next]_vars PROVE Inv'
  OBVIOUS
<1>1. ASSUME NEW f \in Functions, VisitFunction(f) PROVE Inv'
  <2>1. /\ TypeOK /\ pc = "collect" /\ pc' = pc /\ src' = src /\ todo' = todo \ {f}
        /\ Diagnosed(Functions \ todo) /\ Filed(Functions \ todo)
    BY <1>1 DEF Inv, Visited, VisitFunction
  <2>2. t' \in Targets /\ Filed(Functions \ todo)'
    BY <1>1, <2>1, FunctionFiled
  <2>3. Diagnosed(Functions \ todo)' /\ diags' \subseteq
             [at : Functions \cup Modules,
              what : {"backend", "run_on", "focus_ci", "target", "asserts", "inv",
                      "include", "extra_bpl", "pure", "uninterpreted", "interpreted"}]
    BY <1>1, <2>1, FunctionDiagnosed
  <2>4. TypeOK'
    BY <2>1, <2>2, <2>3 DEF TypeOK
  <2> QED
    BY <2>1, <2>2, <2>3, <2>4 DEF Inv, Visited
<1>2. ASSUME NEW f \in Functions, CheckUninterpreted(f) PROVE Inv'
  BY <1>2, UninterpretedStep
<1>3. ASSUME NEW m \in Modules, VisitModule(m) PROVE Inv'
  BY <1>3, ModuleStep
<1>4. CASE EndCollect \/ EndUninterpreted
  <2>1. /\ src' = src /\ t' = t /\ diags' = diags /\ TypeOK
        /\ pc \in {"collect", "uninterpreted"} /\ pc' \in {"uninterpreted", "focus"}
        /\ Diagnosed(Functions) /\ Filed(Functions)
    <3>1. pc = "collect" => Functions \ todo = Functions
      BY <1>4 DEF EndCollect, EndUninterpreted, Collected
    <3> QED
      BY <1>4, <3>1 DEF EndCollect, EndUninterpreted, Inv, Visited
  <2>2. TypeOK'
    BY <1>4, <2>1 DEF EndCollect, EndUninterpreted, TypeOK, Specs
  <2>3. Filed(Functions)' /\ Diagnosed(Functions)'
    BY <2>1, AttachedKept, DiagnosedKept, SourceFixed DEF Filed
  <2> QED
    BY <2>1, <2>2, <2>3 DEF Inv, Visited
<1>5. CASE Focus
  BY <1>5, FocusStep
<1>6. CASE SelectBackend
  BY <1>6, SelectStep
<1>7. CASE UNCHANGED vars
  <2>1. src' = src /\ t' = t /\ diags' = diags /\ pc' = pc /\ todo' = todo
    BY <1>7 DEF vars
  <2>2. TypeOK'
    BY <2>1 DEF Inv, TypeOK
  <2>3. PICK V : V = Visited
    OBVIOUS
  <2>4. Visited' = V
    BY <2>1, <2>3 DEF Visited
  <2>5. Diagnosed(V)'
    BY <2>1, <2>3, DiagnosedKept DEF Inv
  <2>6. \A W : AttachedOf(W) => AttachedOf(W)'
    BY <2>1, AttachedKept
  <2>7. \A W : Filed(W) => Filed(W)'
    BY <2>1, <2>6, SourceFixed DEF Filed
  <2>8. pc' \in {"collect", "uninterpreted", "focus"} => Filed(V)'
    BY <2>1, <2>3, <2>7 DEF Inv
  <2>9. /\ Chosen' = Chosen /\ Accepted(Functions)' = Accepted(Functions)
        /\ NotVerified(Functions)' = NotVerified(Functions)
        /\ ToVerify(Functions)' = ToVerify(Functions)
        /\ \A f : BackendOf(f)' = BackendOf(f)
    BY <2>1, SourceFixed
  <2>10. (pc = "select" => /\ t.target_specs = Chosen
                           /\ t.no_verify_specs = NotVerified(Functions)
                                                    \cup (ToVerify(Functions) \ Chosen)
                           /\ AttachedOf(Functions))'
    BY <2>1, <2>6, <2>9 DEF Inv
  <2>11. (pc = "done" =>
            /\ t.target_specs = {f \in Chosen : Includes(BackendOf(f), src.backend)
                                   \/ (src.backend = "lean" /\ BackendOf(f) = "boogie")}
            /\ t.no_verify_specs = (Accepted(Functions) \cup NotVerified(Functions))
                                      \ t.target_specs
            /\ AttachedOf(Functions))'
    BY <2>1, <2>6, <2>9 DEF Inv
  <2> QED
    BY <2>2, <2>4, <2>5, <2>8, <2>10, <2>11 DEF Inv
<1> QED
  BY <1>1, <1>2, <1>3, <1>4, <1>5, <1>6, <1>7 DEF Next, Done

----------------------------------------------------------------------------
\* The invariant holds throughout.
LEMMA Invariance == Spec => []Inv
BY InitInv, StepInv, PTL DEF Spec

\* The sets and tables of PackageTargets are well formed after every visit.
THEOREM TypeCorrect == Spec => []TypeOK
BY Invariance, PTL DEF Inv

\* No spec is both verified and left unverified; without a diagnostic every spec
\* is one or the other and belongs to exactly one function or is a scenario
\* (check_spec_scope, process_spec, select_backend).
THEOREM SpecsAreFiled == Spec => []SpecsFiled
<1>1. Inv => SpecsFiled
  <2> SUFFICES ASSUME Inv PROVE SpecsFiled
    OBVIOUS
  <2>1. t.target_specs \cap t.no_verify_specs = {}
    <3>1. Chosen \subseteq ToVerify(Functions)
      BY DEF Chosen, Focused
    <3>2. \A V : ToVerify(V) \cap NotVerified(V) = {}
      BY DEF ToVerify, NotVerified
    <3>3. CASE pc \in {"collect", "uninterpreted", "focus"}
      BY <3>2, <3>3 DEF Inv, Filed
    <3>4. CASE pc = "select"
      BY <3>1, <3>2, <3>4 DEF Inv
    <3>5. CASE pc = "done"
      BY <3>5 DEF Inv
    <3> QED
      BY <3>3, <3>4, <3>5 DEF Inv, TypeOK
  <2> SUFFICES ASSUME pc = "done", diags = {}
               PROVE  /\ \A f \in Functions : is_spec(t, f) <=> f \in Specs
                      /\ \A f \in Specs :
                            Cardinality({g \in Functions : f \in t.all_specs[g]})
                              = IF f \in t.scenario_specs THEN 0 ELSE 1
    BY <2>1 DEF SpecsFiled
  <2>2. /\ src \in Source /\ AttachedOf(Functions) /\ Diagnosed(Functions)
        /\ t.no_verify_specs = (Accepted(Functions) \cup NotVerified(Functions))
                                  \ t.target_specs
        /\ t.target_specs \subseteq Chosen
    BY DEF Inv, Visited, TypeOK
  <2>3. Accepted(Functions) = Specs /\ Specs \subseteq Functions
    BY <2>2 DEF Diagnosed, Accepted, Specs
  <2>4. Chosen \subseteq Specs /\ NotVerified(Functions) \subseteq Specs
    BY <2>3 DEF Chosen, Focused, ToVerify, NotVerified
  <2>5. \A f \in Functions : is_spec(t, f) <=> f \in Specs
    BY <2>2, <2>3, <2>4 DEF is_spec
  <2>6. ASSUME NEW f \in Specs
        PROVE  Cardinality({g \in Functions : f \in t.all_specs[g]})
                 = IF f \in t.scenario_specs THEN 0 ELSE 1
    <3>1. {g \in Functions : f \in t.all_specs[g]} = {g \in Functions : SpecTarget(f) = g}
      BY <2>2, <2>3 DEF AttachedOf
    <3>2. f \in t.scenario_specs <=> SpecTarget(f) \notin Functions /\ IsScenario(f)
      BY <2>2, <2>3 DEF AttachedOf
    <3>3. SpecTarget(f) \in Functions \cup {None} /\ (SpecTarget(f) = None => IsScenario(f))
      BY <2>2, <2>3, AttributeTypes DEF Diagnosed
    <3>4. CASE SpecTarget(f) \in Functions
      <4>1. {g \in Functions : f \in t.all_specs[g]} = {SpecTarget(f)}
        BY <3>1, <3>4
      <4> QED
        BY <3>2, <3>4, <4>1, FS_Singleton
    <3>5. CASE SpecTarget(f) \notin Functions
      <4>1. {g \in Functions : f \in t.all_specs[g]} = {}
        BY <3>1, <3>5
      <4> QED
        BY <3>2, <3>3, <3>5, <4>1, FS_EmptySet
    <3> QED
      BY <3>4, <3>5
  <2> QED
    BY <2>5, <2>6
<1> QED
  BY Invariance, <1>1, PTL

\* What a run verifies is declared by the attributes, the option and the backend;
\* the order in which functions and modules are visited has no part in it
\* (PackageTargets::new, the focus pass, select_backend).
THEOREM VerifiedIsDeclared == Spec => []VerifiedAsDeclared
<1>1. Inv => VerifiedAsDeclared
  <2> DEFINE asked   == {f \in Specs : /\ {"target", "spec"} \subseteq src.fun[f].flags
                                       /\ src.fun[f].flags \cap {"prove", "focus"} # {}
                                       /\ "skip" \notin src.fun[f].flags}
             focused == {f \in asked : Has(f, "focus")}
             ours    == {f \in Functions : src.fun[f].backend \in
                            IF src.backend = "boogie"
                            THEN {"none", "invalid", "both", "boogie"}
                            ELSE {"none", "invalid", "both", "boogie", "lean"}}
  <2> SUFFICES ASSUME Inv, pc = "done", diags = {}
               PROVE  t.target_specs = ours \cap (IF focused = {} THEN asked ELSE focused)
    BY DEF VerifiedAsDeclared
  <2>1. /\ src \in Source /\ Diagnosed(Functions)
        /\ t.target_specs = {f \in Chosen : Includes(BackendOf(f), src.backend)
                               \/ (src.backend = "lean" /\ BackendOf(f) = "boogie")}
    BY DEF Inv, Visited, TypeOK
  <2>2. Accepted(Functions) = Specs /\ Specs \subseteq Functions
    BY <2>1 DEF Diagnosed, Accepted, Specs
  <2>3. ToVerify(Functions) = asked
    BY <2>2 DEF ToVerify, Verifies, Has, Specs
  <2>4. Focused(Functions) = focused
    BY <2>3 DEF Focused
  <2> HIDE DEF asked, focused
  <2>5. Chosen = IF focused = {} THEN asked ELSE focused
    BY <2>3, <2>4 DEF Chosen
  <2>6. Chosen \subseteq Functions
    BY <2>2, <2>3, <2>4, <2>5 DEF ToVerify, Focused
  <2>7. \A f \in Functions :
           f \in ours <=> \/ Includes(BackendOf(f), src.backend)
                          \/ (src.backend = "lean" /\ BackendOf(f) = "boogie")
    <3>1. src.backend \in {"lean", "boogie"}
      BY <2>1 DEF Source
    <3>2. \A f \in Functions :
             src.fun[f].backend \in {"none", "lean", "boogie", "both", "invalid"}
      BY <2>1, AttributeTypes DEF Attributes
    <3>3. CASE src.backend = "boogie"
      BY <3>2, <3>3 DEF Includes, BackendOf
    <3>4. CASE src.backend = "lean"
      BY <3>2, <3>4 DEF Includes, BackendOf
    <3> QED
      BY <3>1, <3>3, <3>4
  <2> HIDE DEF ours
  <2>8. ours \subseteq Functions
    BY DEF ours
  <2>9. t.target_specs = ours \cap Chosen
    BY <2>1, <2>6, <2>7, <2>8
  <2> QED
    BY <2>5, <2>9
<1> QED
  BY Invariance, <1>1, PTL
=============================================================================
