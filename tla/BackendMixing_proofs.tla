------------------------ MODULE BackendMixing_proofs ------------------------
(***************************************************************************)
(* The searches of check_backend_mixing are exact for every program and    *)
(* every order in which the worklist is popped.                            *)
(*                                                                         *)
(* The argument is the one of every worklist search.  What has been seen   *)
(* or is queued lies in every closed set (the search reports nothing that  *)
(* is not reached), and the callees of what has been seen are seen or      *)
(* queued, so that `seen` is itself closed when the queue is empty (it     *)
(* reports everything that is).                                            *)
(***************************************************************************)
EXTENDS BackendMixing, TLAPS

Marked(S) == {p \in Pairs : /\ p[1] \in S
                            /\ p[2] \in prog.all_specs[p[1]]
                            /\ p[2] \in prog.excluded}

\* The search of the conditions.
ConditionInv ==
    /\ ~prog.system
    /\ \A S \in SUBSET Functions :
          ConditionClosed(S) => seen \subseteq S /\ Visible(queue) \subseteq S
    /\ seen = Visible(seen)
    /\ Visible(prog.calls[prog.spec]) \subseteq seen \cup queue
    /\ \A f \in seen \ prog.foreign :
          Visible(prog.calls[f]) \subseteq seen \cup queue
    /\ foreign = seen \cap prog.foreign

\* The search of the target's body.
SummaryInv ==
    /\ prog.target # None
    /\ \A S \in SUBSET Functions :
          SummaryClosed(S) => seen \subseteq S /\ queue \subseteq S
    /\ prog.calls[prog.target] \subseteq seen \cup queue
    /\ \A f \in seen :
          prog.all_specs[f] = {} => prog.calls[f] \subseteq seen \cup queue
    /\ foreign = Marked(seen)

Inv ==
    /\ TypeOK
    /\ pc = "start" => queue = {} /\ seen = {} /\ foreign = {}
    /\ pc = "condition" => ConditionInv
    /\ pc = "summary" => SummaryInv
    /\ ErrorsExact
    /\ WarningsExact

\* An empty queue makes `seen` the least closed set.
LEMMA ConditionSearched ==
    ASSUME TypeOK, ConditionInv, queue = {}
    PROVE  seen = ReachedByCondition
<1>1. ConditionClosed(seen)
  BY DEF ConditionInv, ConditionClosed, Visible
<1>2. seen \in SUBSET Functions
  BY DEF TypeOK
<1>3. QED
  BY <1>1, <1>2 DEF ConditionInv, ReachedByCondition

\* The same of the summary search.
LEMMA SummarySearched ==
    ASSUME TypeOK, SummaryInv, queue = {}
    PROVE  seen = ReachedBySummary
<1>1. SummaryClosed(seen)
  BY DEF SummaryInv, SummaryClosed
<1>2. seen \in SUBSET Functions
  BY DEF TypeOK
<1>3. QED
  BY <1>1, <1>2 DEF SummaryInv, ReachedBySummary

\* One pop of the condition search keeps its invariant.
LEMMA PopConditionStep ==
    ASSUME TypeOK, ConditionInv, NEW q \in Functions, PopCondition(q)
    PROVE  ConditionInv'
<1> USE DEF PopCondition
<1>0. /\ prog' = prog /\ q \in queue
      /\ prog.calls \in [Functions -> SUBSET Functions]
      /\ seen \subseteq Functions /\ queue \subseteq Functions
  BY DEF TypeOK, Program
<1>1. CASE Skip(q) \/ q \in seen
  <2>1. queue' = queue \ {q} /\ seen' = seen /\ foreign' = foreign
    BY <1>1
  <2>2. q \in Visible(Functions) => q \in seen
    BY <1>1 DEF Skip, Visible
  <2>3. \A fs \in SUBSET Functions :
           Visible(fs) \subseteq seen \cup queue => Visible(fs) \subseteq seen \cup queue'
    BY <2>1, <2>2 DEF Visible
  <2>4. \A f \in seen : prog.calls[f] \in SUBSET Functions
    BY <1>0
  <2>5. prog.calls[prog.spec] \in SUBSET Functions
    BY DEF TypeOK, Program
  <2>6. \A S : ConditionClosed(S)' <=> ConditionClosed(S)
    BY <1>0 DEF ConditionClosed, Visible
  <2> QED
    BY <1>0, <2>1, <2>3, <2>4, <2>5, <2>6 DEF ConditionInv, Visible
<1>2. CASE ~(Skip(q) \/ q \in seen)
  <2>1. /\ queue' = (queue \ {q}) \cup Callees(q)
        /\ seen' = seen \cup {q}
        /\ foreign' = seen' \cap prog.foreign
    BY <1>2 DEF ConditionInv
  <2>2. q \in Visible(queue) /\ seen \cup queue \subseteq seen' \cup queue'
    BY <1>0, <1>2, <2>1 DEF Skip, Visible
  <2>3. \A S \in SUBSET Functions : ConditionClosed(S)' =>
           seen' \subseteq S /\ Visible(queue)' \subseteq S
    <3> SUFFICES ASSUME NEW S \in SUBSET Functions, ConditionClosed(S)'
                 PROVE  seen' \subseteq S /\ Visible(queue)' \subseteq S
      OBVIOUS
    <3>1. ConditionClosed(S)
      BY <1>0 DEF ConditionClosed, Visible
    <3>2. seen \subseteq S /\ Visible(queue) \subseteq S /\ q \in S
      BY <3>1, <2>2 DEF ConditionInv
    <3>3. Visible(Callees(q)) \subseteq S
      BY <3>1, <3>2 DEF ConditionClosed, Callees, Visible
    <3> QED
      BY <1>0, <2>1, <3>2, <3>3 DEF Visible
  <2>4. seen' = Visible(seen)'
    BY <1>0, <2>1, <2>2 DEF ConditionInv, Visible
  <2>5. Visible(prog.calls[prog.spec])' \subseteq (seen \cup queue)'
    BY <1>0, <2>2 DEF ConditionInv, Visible
  <2>6. \A f \in (seen \ prog.foreign)' :
           Visible(prog.calls[f])' \subseteq (seen \cup queue)'
    <3> SUFFICES ASSUME NEW f \in (seen \ prog.foreign)'
                 PROVE  Visible(prog.calls[f])' \subseteq (seen \cup queue)'
      OBVIOUS
    <3>1. CASE f = q
      BY <1>0, <2>1, <3>1 DEF Callees, Visible
    <3>2. CASE f \in seen \ prog.foreign
      BY <1>0, <2>2, <3>2 DEF ConditionInv, Visible
    <3> QED
      BY <1>0, <2>1, <3>1, <3>2
  <2> QED
    BY <1>0, <2>1, <2>3, <2>4, <2>5, <2>6 DEF ConditionInv
<1> QED
  BY <1>1, <1>2

\* One pop of the summary search keeps its invariant.
LEMMA PopSummaryStep ==
    ASSUME TypeOK, SummaryInv, NEW q \in Functions, PopSummary(q)
    PROVE  SummaryInv'
<1> USE DEF PopSummary
<1>0. /\ prog' = prog /\ q \in queue
      /\ prog.calls \in [Functions -> SUBSET Functions]
      /\ prog.all_specs \in [Functions -> SUBSET Functions]
      /\ seen \subseteq Functions /\ queue \subseteq Functions
  BY DEF TypeOK, Program
<1>1. \A S : SummaryClosed(S)' <=> SummaryClosed(S)
  BY <1>0 DEF SummaryClosed
<1>2. CASE q \in seen
  <2>1. queue' = queue \ {q} /\ seen' = seen /\ foreign' = foreign
    BY <1>2
  <2> QED
    BY <1>0, <1>1, <1>2, <2>1 DEF SummaryInv, Marked
<1>3. CASE q \notin seen
  <2>1. /\ queue' = (queue \ {q}) \cup SummaryCallees(q)
        /\ seen' = seen \cup {q}
        /\ foreign' = foreign \cup Summaries(q)
    BY <1>3
  <2>2. seen \cup queue \subseteq seen' \cup queue'
    BY <2>1
  <2>3. \A S \in SUBSET Functions : SummaryClosed(S)' =>
           seen' \subseteq S /\ queue' \subseteq S
    <3> SUFFICES ASSUME NEW S \in SUBSET Functions, SummaryClosed(S)'
                 PROVE  seen' \subseteq S /\ queue' \subseteq S
      OBVIOUS
    <3>1. SummaryClosed(S)
      BY <1>1
    <3>2. seen \subseteq S /\ queue \subseteq S /\ q \in S
      BY <1>0, <3>1 DEF SummaryInv
    <3>3. SummaryCallees(q) \subseteq S
      BY <3>1, <3>2 DEF SummaryClosed, SummaryCallees
    <3> QED
      BY <2>1, <3>2, <3>3
  <2>4. prog.calls[prog.target]' \subseteq (seen \cup queue)'
    BY <1>0, <2>2 DEF SummaryInv
  <2>5. \A f \in seen' : prog.all_specs[f]' = {} =>
           prog.calls[f]' \subseteq (seen \cup queue)'
    BY <1>0, <2>1, <2>2 DEF SummaryInv, SummaryCallees
  <2>6. foreign' = Marked(seen)'
    <3>1. Summaries(q) = {p \in Pairs : /\ p[1] = q
                                        /\ p[2] \in prog.all_specs[p[1]]
                                        /\ p[2] \in prog.excluded}
      BY <1>0 DEF Summaries, Pairs
    <3> QED
      BY <1>0, <2>1, <3>1 DEF SummaryInv, Marked
  <2> QED
    BY <1>0, <2>1, <2>3, <2>4, <2>5, <2>6 DEF SummaryInv
<1> QED
  BY <1>2, <1>3

\* Every step keeps the types.
LEMMA TypeStep ==
    ASSUME Inv, [Next]_vars
    PROVE  TypeOK'
<1> USE DEF TypeOK
<1>0. /\ prog.calls \in [Functions -> SUBSET Functions]
      /\ prog.spec \in Functions /\ prog.target \in Functions \cup {None}
  BY DEF Inv, Program
<1>1. CASE Start
  BY <1>0, <1>1 DEF Inv, Start
<1>2. ASSUME NEW q \in Functions, PopCondition(q)
      PROVE  TypeOK'
  <2>1. foreign' \in SUBSET Functions
    BY <1>2 DEF Inv, PopCondition, ConditionInv
  <2> QED
    BY <1>0, <1>2, <2>1 DEF Inv, PopCondition, Callees
<1>3. CASE EndCondition
  BY <1>0, <1>3 DEF Inv, EndCondition, ConditionInv
<1>4. ASSUME NEW q \in Functions, PopSummary(q)
      PROVE  TypeOK'
  <2>1. foreign' \in SUBSET Pairs
    BY <1>4 DEF Inv, PopSummary, SummaryInv, Marked, Summaries, Pairs, Program
  <2> QED
    <3>1. SummaryCallees(q) \in SUBSET Functions
      BY <1>0 DEF Inv, SummaryCallees
    <3>2. queue' \in SUBSET Functions /\ seen' \in SUBSET Functions
      BY <1>4, <3>1 DEF Inv, PopSummary
    <3>3. /\ prog' \in Program /\ pc' \in {"start", "condition", "summary", "done"}
          /\ errors' \in SUBSET Functions /\ warnings' \in SUBSET Pairs
      BY <1>4 DEF Inv, PopSummary
    <3>4. foreign' \in (SUBSET Functions) \cup (SUBSET Pairs)
      BY <2>1
    <3> QED
      BY <3>2, <3>3, <3>4
<1>5. CASE EndSummary
  BY <1>5 DEF Inv, EndSummary, SummaryInv, Marked
<1>6. CASE UNCHANGED vars
  BY <1>6 DEF Inv, vars
<1> QED
  BY <1>1, <1>2, <1>3, <1>4, <1>5, <1>6 DEF Next, Step, Done

\* The reference sets depend on the program only.
LEMMA ReferenceStable ==
    ASSUME prog' = prog
    PROVE  /\ ReachedByCondition' = ReachedByCondition
           /\ ReachedBySummary' = ReachedBySummary
BY DEF ReachedByCondition, ReachedBySummary, ConditionClosed, SummaryClosed,
       Visible

\* Before the check starts.
LEMMA InitInv ==
    ASSUME Init
    PROVE  Inv
BY MixingAssumption DEF Init, Inv, TypeOK, ErrorsExact, WarningsExact

\* Every step of the check preserves the invariant.
LEMMA NextInv ==
    ASSUME Inv, [Next]_vars
    PROVE  Inv'
<1>0. TypeOK' /\ TypeOK
  BY TypeStep DEF Inv
<1>1. CASE Start
  <2>1. prog' = prog
    BY <1>1 DEF Start
  <2>2. pc' = "condition" => ConditionInv'
    BY <1>1, <2>1 DEF Start, Inv, ConditionInv, ConditionClosed, Visible
  <2> QED
    BY <1>0, <1>1, <2>2 DEF Start, Inv, ErrorsExact, WarningsExact
<1>2. ASSUME NEW q \in Functions, PopCondition(q)
      PROVE  Inv'
  <2>1. ConditionInv'
    BY <1>0, <1>2, PopConditionStep DEF Inv, PopCondition
  <2> QED
    BY <1>0, <1>2, <2>1 DEF Inv, PopCondition, ErrorsExact, WarningsExact
<1>3. CASE EndCondition
  <2>1. prog' = prog /\ pc = "condition" /\ ConditionInv
    BY <1>3 DEF EndCondition, Inv
  <2>2. errors' = (ReachedByCondition \cap prog.foreign)'
    BY <1>0, <1>3, <2>1, ConditionSearched, ReferenceStable
       DEF EndCondition, ConditionInv
  <2>3. pc' = "summary" => SummaryInv'
    BY <1>3, <2>1
       DEF EndCondition, SummaryInv, SummaryClosed, Marked
  <2> QED
    BY <1>0, <1>3, <2>1, <2>2, <2>3
       DEF Inv, EndCondition, ErrorsExact, WarningsExact
<1>4. ASSUME NEW q \in Functions, PopSummary(q)
      PROVE  Inv'
  <2>1. SummaryInv'
    BY <1>0, <1>4, PopSummaryStep DEF Inv, PopSummary
  <2>2. ErrorsExact'
    BY <1>4, ReferenceStable DEF Inv, PopSummary, ErrorsExact
  <2> QED
    BY <1>0, <1>4, <2>1, <2>2 DEF Inv, PopSummary, WarningsExact
<1>5. CASE EndSummary
  <2>1. prog' = prog /\ pc = "summary" /\ SummaryInv /\ pc' = "done"
    BY <1>5 DEF EndSummary, Inv
  <2>2. warnings' = Marked(ReachedBySummary)'
    BY <1>0, <1>5, <2>1, SummarySearched, ReferenceStable
       DEF EndSummary, SummaryInv, Marked
  <2>3. ErrorsExact'
    BY <1>5, <2>1, ReferenceStable DEF Inv, EndSummary, ErrorsExact
  <2> QED
    BY <1>0, <2>1, <2>2, <2>3 DEF Inv, WarningsExact, Marked
<1>6. CASE UNCHANGED vars
  <2>1. ErrorsExact' /\ WarningsExact'
    BY <1>6, ReferenceStable DEF Inv, vars, ErrorsExact, WarningsExact, Pairs
  <2> QED
    BY <1>0, <1>6, <2>1
       DEF Inv, vars, ConditionInv, SummaryInv, ConditionClosed, SummaryClosed,
           Visible, Marked
<1> QED
  BY <1>1, <1>2, <1>3, <1>4, <1>5, <1>6 DEF Next, Step, Done

\* The invariant of both searches holds throughout check_backend_mixing.
THEOREM Invariance == Spec => []Inv
<1>1. Init => Inv
  BY InitInv
<1>2. Inv /\ [Next]_vars => Inv'
  BY NextInv
<1>3. QED
  BY <1>1, <1>2, PTL DEF Spec

\* check_backend_mixing reports an error for exactly the foreign functions the
\* spec's conditions reach.
THEOREM ErrorsAreExact == Spec => []ErrorsExact
<1>1. Inv => ErrorsExact
  BY DEF Inv
<1>2. QED
  BY <1>1, Invariance, PTL

\* It warns of exactly the reached functions whose spec is excluded here.
THEOREM WarningsAreExact == Spec => []WarningsExact
<1>1. Inv => WarningsExact
  BY DEF Inv
<1>2. QED
  BY <1>1, Invariance, PTL

\* For every call graph, and whatever the order in which the two worklists are
\* emptied, the reports of check_backend_mixing are the least closed sets.
THEOREM ReportsAreExact == Spec => []ReportsExact
<1>1. Inv => ReportsExact
  BY DEF Inv, ReportsExact
<1>2. QED
  BY <1>1, Invariance, PTL
=============================================================================
