--------------------------- MODULE BackendMixing ---------------------------
(***************************************************************************)
(* check_backend_mixing of package_targets.rs: for one target spec, the    *)
(* two worklist searches of the call graph that find what the spec needs   *)
(* from another backend.                                                   *)
(*                                                                         *)
(*   foreign_condition_deps  from the spec's body without its target:      *)
(*                           functions owned elsewhere (an error each);    *)
(*   foreign_summary_deps    from the target's body: functions whose spec  *)
(*                           is excluded here (a warning each).            *)
(*                                                                         *)
(* The code pops the last element of a Vec; here the queue is a set and    *)
(* any element may be next, so that no property depends on the order in    *)
(* which get_called_functions lists the callees.  Popping a second copy of *)
(* an element does nothing in the code, its qid being in `seen`.           *)
(***************************************************************************)
EXTENDS Naturals, FiniteSets

CONSTANTS Functions,
          Programs,   \* the programs and target specs to be checked
          None

\* spec: the target spec being checked; target: find_target_spec(spec);
\* specs: is_spec; foreign: backend_for(f) does not include the backend of
\* this run; excluded: backend_excluded_specs; all_specs: the specs attached
\* to a function.
Program ==
    [calls : [Functions -> SUBSET Functions], spec : Functions,
     target : Functions \cup {None}, specs : SUBSET Functions,
     foreign : SUBSET Functions, excluded : SUBSET Functions,
     all_specs : [Functions -> SUBSET Functions], system : BOOLEAN]

ASSUME MixingAssumption == Programs \subseteq Program /\ None \notin Functions

VARIABLES prog,
          pc,        \* "start", "condition", "summary", "done"
          queue, seen,
          foreign,   \* what the current search has found
          errors,    \* functions reported with an error
          warnings   \* (function, spec) pairs reported with a warning

vars == <<prog, pc, queue, seen, foreign, errors, warnings>>

Pairs == Functions \X Functions

TypeOK ==
    /\ prog \in Program
    /\ pc \in {"start", "condition", "summary", "done"}
    /\ queue \in SUBSET Functions /\ seen \in SUBSET Functions
    /\ foreign \in (SUBSET Functions) \cup (SUBSET Pairs)
    /\ errors \in SUBSET Functions /\ warnings \in SUBSET Pairs

Init ==
    /\ prog \in Programs
    /\ pc = "start"
    /\ queue = {} /\ seen = {} /\ foreign = {}
    /\ errors = {} /\ warnings = {}

\* System specs are not checked.
Start ==
    /\ pc = "start"
    /\ IF prog.system
       THEN pc' = "done" /\ UNCHANGED queue
       ELSE pc' = "condition" /\ queue' = prog.calls[prog.spec]
    /\ UNCHANGED <<prog, seen, foreign, errors, warnings>>

----------------------------------------------------------------------------
(* foreign_condition_deps. *)

\* Mutant: only the target is passed over, specs are searched.
SkipTarget(q) == q = prog.target

Skip(q) == q = prog.target \/ q \in prog.specs

\* Nothing is searched behind a foreign function.
Callees(q) == IF q \in prog.foreign THEN {} ELSE prog.calls[q]

\* Mutant: `seen` is checked and never extended.
PopConditionUnseen(q) ==
    /\ pc = "condition" /\ q \in queue
    /\ IF Skip(q) \/ q \in seen
       THEN queue' = queue \ {q} /\ UNCHANGED foreign
       ELSE /\ foreign' = IF q \in prog.foreign THEN foreign \cup {q}
                                                ELSE foreign
            /\ queue' = (queue \ {q}) \cup Callees(q)
    /\ UNCHANGED <<prog, pc, seen, errors, warnings>>

PopCondition(q) ==
    /\ pc = "condition" /\ q \in queue
    /\ IF Skip(q) \/ q \in seen
       THEN queue' = queue \ {q} /\ UNCHANGED <<seen, foreign>>
       ELSE /\ seen' = seen \cup {q}
            /\ foreign' = IF q \in prog.foreign THEN foreign \cup {q}
                                                ELSE foreign
            /\ queue' = (queue \ {q}) \cup Callees(q)
    /\ UNCHANGED <<prog, pc, errors, warnings>>

\* The errors, then the search for warnings if the spec has a target.
EndCondition ==
    /\ pc = "condition" /\ queue = {}
    /\ errors' = foreign
    /\ seen' = {} /\ foreign' = {}
    /\ IF prog.target = None
       THEN pc' = "done" /\ UNCHANGED queue
       ELSE pc' = "summary" /\ queue' = prog.calls[prog.target]
    /\ UNCHANGED <<prog, warnings>>

----------------------------------------------------------------------------
(* foreign_summary_deps. *)

\* Mutant: the body of a function with a spec is searched like any other.
Body(q) == prog.calls[q]

\* A function with a spec is not descended into.
SummaryCallees(q) == IF prog.all_specs[q] # {} THEN {} ELSE prog.calls[q]

Summaries(q) == {<<q, s>> : s \in prog.all_specs[q] \cap prog.excluded}

PopSummary(q) ==
    /\ pc = "summary" /\ q \in queue
    /\ IF q \in seen
       THEN queue' = queue \ {q} /\ UNCHANGED <<seen, foreign>>
       ELSE /\ seen' = seen \cup {q}
            /\ foreign' = foreign \cup Summaries(q)
            /\ queue' = (queue \ {q}) \cup SummaryCallees(q)
    /\ UNCHANGED <<prog, pc, errors, warnings>>

EndSummary ==
    /\ pc = "summary" /\ queue = {}
    /\ warnings' = foreign
    /\ pc' = "done"
    /\ UNCHANGED <<prog, queue, seen, foreign, errors>>

Step ==
    \/ Start \/ EndCondition \/ EndSummary
    \/ \E q \in Functions : PopCondition(q) \/ PopSummary(q)

Done == pc = "done" /\ UNCHANGED vars

Next == Step \/ Done

Spec == Init /\ [][Next]_vars

\* The searches are loops of one thread.
FairSpec == Spec /\ WF_vars(Step)

----------------------------------------------------------------------------
(* Properties. *)

Visible(fs) == {f \in fs : f # prog.target /\ f \notin prog.specs}

\* S holds everything the conditions of the spec reach: what the spec calls
\* and, with a function that is not foreign, what that calls; the target and
\* specs are passed over.
ConditionClosed(S) ==
    /\ Visible(prog.calls[prog.spec]) \subseteq S
    /\ \A f \in S \ prog.foreign : Visible(prog.calls[f]) \subseteq S

\* S holds everything the target reaches without entering a function that
\* has a spec.
SummaryClosed(S) ==
    /\ prog.calls[prog.target] \subseteq S
    /\ \A f \in S : prog.all_specs[f] = {} => prog.calls[f] \subseteq S

\* The least closed set, for either notion.
ReachedByCondition ==
    {f \in Functions : \A S \in SUBSET Functions : ConditionClosed(S) => f \in S}
ReachedBySummary ==
    {f \in Functions : \A S \in SUBSET Functions : SummaryClosed(S) => f \in S}

\* The errors of check_backend_mixing name exactly the foreign functions that
\* the spec's conditions reach, whatever the order of the search.
ErrorsExact ==
    pc \in {"summary", "done"} /\ ~prog.system =>
        errors = ReachedByCondition \cap prog.foreign

\* Its warnings name exactly the reached functions with an excluded spec.
WarningsExact ==
    pc = "done" /\ ~prog.system /\ prog.target # None =>
        warnings = {p \in Pairs : /\ p[1] \in ReachedBySummary
                                  /\ p[2] \in prog.all_specs[p[1]]
                                  /\ p[2] \in prog.excluded}

\* check_backend_mixing reports exactly what its two searches are to find.
ReportsExact == ErrorsExact /\ WarningsExact

\* The search ends, on recursive programs too.
SearchEnds == <>(pc = "done")
=============================================================================
