-------------------------- MODULE BoogieUnits_proofs --------------------------
(***************************************************************************)
(* For every package: the specs of a pass are filed so that no user spec   *)
(* is displaced (SpecStands), and every spec the run is asked to prove has *)
(* its goals written once the run is accepted (EverySpecProved).           *)
(*                                                                         *)
(* The argument follows a spec s through the pass that is about it         *)
(* (PassFor).  That pass is ahead, is the current one, or has written the  *)
(* goals.  Within the pass: s, once added, stands for its function or is   *)
(* reported; a report stops the run at the end of the first processor; the *)
(* first processor visits every function, so it marks s verified; the      *)
(* eighth, spec_instrumentation, visits s too and makes its verification   *)
(* variant; and from the variant the translator writes the goals.          *)
(*                                                                         *)
(* The second half is about the abort checks (NoAbortChecked): what the    *)
(* search ReachedFrom computes, and how the marks and the answers of the   *)
(* abort pass make the functions that can abort unnoticed a set without a  *)
(* marked function (AbortInv).                                             *)
(***************************************************************************)
EXTENDS BoogieUnits, FiniteSetTheorems, WellFoundedInduction, TLAPS

Kinds == {"abort", "spec_no_abort", "function", "module"}
Modes == {"Check", "Assume", "SpecNoAbortCheck"}
Phases == {"next", "add", "start", "run", "emit", "stop"}
Marks == [verified : BOOLEAN, inlined : BOOLEAN, essential : BOOLEAN, reachable : BOOLEAN]
Passes(p) == [kind : Kinds, id : Fns \cup p.modules \cup {None}, modes : SUBSET Modes,
              only : BOOLEAN]

TypeOK ==
    /\ pkg \in Packages
    /\ passes \in Seq(Passes(pkg))
    /\ phase \in Phases /\ step \in 1..9
    /\ targets \subseteq Fns
    /\ unadded \in Seq(Fns)
    /\ info \in [Fns -> Marks]

\* The user specs of the function t that the pass may use.
Own(t) == {s \in Specs \ pkg.system : pkg.of[s] = t /\ Eligible(s)}

\* A function has one spec, eligible and its own.
HolderOK ==
    /\ \A p \in function_specs :
          \E s \in Specs : p = <<s, pkg.of[s]>> /\ pkg.of[s] \in Code /\ Eligible(s)
    /\ \A p, q \in function_specs : p[2] = q[2] => p = q

Stands(s) == <<s, pkg.of[s]>> \in function_specs

\* The user specs of S are filed: some user spec stands, s itself or s is reported.
FiledIn(S) ==
    \A t \in Code : \A s \in Own(t) \cap S :
        /\ Stands(s) \/ <<"duplicate", s>> \in errors
        /\ \E r \in Own(t) : Stands(r)

Unvisited(f) == f \in todo \/ \E c \in agenda : f \in c

-----------------------------------------------------------------------------
(* The specs the run is asked about, their passes and their goals. *)

Asked == {x \in Specs \ pkg.system : /\ pkg.of[x] \notin pkg.native \cup {None}
                                     /\ pkg.home[x] \notin pkg.libs}

PassFor(s) ==
    IF s \notin pkg.proved
    THEN [kind |-> "spec_no_abort", id |-> pkg.home[s], modes |-> {"SpecNoAbortCheck"},
          only |-> TRUE]
    ELSE IF pkg.file_mode = "function"
    THEN [kind |-> "function", id |-> s, modes |-> {"Check", "Assume", "SpecNoAbortCheck"},
          only |-> FALSE]
    ELSE [kind |-> "module", id |-> pkg.home[s], modes |-> {"Check", "Assume"},
          only |-> FALSE]

GoalsWritten(s) ==
    /\ s \in pkg.proved =>
          <<IF s \in pkg.ignore THEN "Assume" ELSE "Check", <<"verify", s>>>> \in proofs
    /\ s \in pkg.proved \cap pkg.asserts => <<"Assume", <<"verify", s>>>> \in proofs
    /\ s \in pkg.proved /\ pkg.file_mode = "function" =>
          <<"SpecNoAbortCheck", <<"sna", s>>>> \in proofs
    /\ s \notin pkg.proved => <<"SpecNoAbortCheck", <<"sna", s>>>> \in proofs

\* The specs the current pass is about.
Subject == {s \in Asked : target = PassFor(s)}

-----------------------------------------------------------------------------
(* Where the pass is, and what holds there. *)

Adding ==
    phase = "add" =>
        /\ step = 1 /\ HolderOK
        /\ \A f \in Fns : f \in targets \/ \E i \in DOMAIN unadded : unadded[i] = f
        /\ FiledIn(targets)

Filed ==
    phase \in {"start", "run"} /\ step = 1 => HolderOK /\ targets = Fns /\ FiledIn(Specs)

Verifying ==
    phase = "run" /\ step = 1 =>
        \A s \in Subject : Stands(s) => Unvisited(s) \/ info[s].verified

Verified ==
    phase \in {"start", "run", "emit"} /\ step > 1 =>
        /\ HolderOK
        /\ \A s \in Subject : Stands(s) /\ s \in targets /\ info[s].verified

Instrumenting ==
    phase = "run" /\ step = 8 => \A s \in Subject : Unvisited(s) \/ s \in variants

Instrumented ==
    phase \in {"start", "run", "emit"} /\ step > 8 => Subject \subseteq variants

Schedule ==
    /\ group = {} => todo = {}
    /\ phase = "emit" => step = 9

Planned ==
    phase # "stop" => \A s \in Asked :
        \/ GoalsWritten(s)
        \/ \E i \in DOMAIN passes : passes[i] = PassFor(s)
        \/ s \in Subject /\ phase # "next"

Inv ==
    /\ TypeOK /\ Schedule
    /\ Adding /\ Filed /\ Verifying /\ Verified /\ Instrumenting /\ Instrumented
    /\ Planned

-----------------------------------------------------------------------------
(* The passes. *)

AbortCheck == [kind |-> "abort", id |-> None, modes |-> {"Check"}, only |-> FALSE]

Enumerates(q, S, k, modes, only) ==
    \A x \in S : \E i \in DOMAIN q :
        q[i] = [kind |-> k, id |-> x, modes |-> modes, only |-> only]

\* SeqOf enumerates its set (process_specs, one pass for each of a set of targets).
LEMMA SeqOfEnumerates ==
    ASSUME NEW S, IsFiniteSet(S), NEW k, NEW modes, NEW only, NEW P,
           \A x \in S : [kind |-> k, id |-> x, modes |-> modes, only |-> only] \in P
    PROVE  /\ SeqOf(S, k, modes, only) \in Seq(P)
           /\ Enumerates(SeqOf(S, k, modes, only), S, k, modes, only)
<1> DEFINE n == Cardinality(S)
           Onto(q) == {q[i] : i \in 1..n} = S
           sq == CHOOSE q \in [1..n -> S] : Onto(q)
<1>1. n \in Nat /\ ExistsBijection(1..n, S)
  BY FS_CardinalityType
<1>2. \E q \in [1..n -> S] : Onto(q)
  <2>1. PICK q \in Bijection(1..n, S) : TRUE
    BY <1>1 DEF ExistsBijection
  <2>2. q \in [1..n -> S] /\ \A x \in S : \E i \in 1..n : q[i] = x
    BY <2>1 DEF Bijection, Surjection, Injection
  <2>3. Onto(q)
    BY <2>2
  <2> QED
    BY <2>2, <2>3
<1>3. sq \in [1..n -> S] /\ Onto(sq)
  BY <1>2
<1>4. SeqOf(S, k, modes, only) =
         [i \in 1..n |-> [kind |-> k, id |-> sq[i], modes |-> modes, only |-> only]]
  BY DEF SeqOf
<1> HIDE DEF n, sq
<1>5. DOMAIN SeqOf(S, k, modes, only) = 1..n
  BY <1>4
<1>6. \A x \in S : \E i \in 1..n : sq[i] = x
  BY <1>3
<1>7. SeqOf(S, k, modes, only) \in [1..n -> P]
  BY <1>3, <1>4
<1>8. SeqOf(S, k, modes, only) \in Seq(P)
  BY <1>1, <1>7
<1>9. ASSUME NEW x \in S
      PROVE  \E i \in DOMAIN SeqOf(S, k, modes, only) : SeqOf(S, k, modes, only)[i]
                    = [kind |-> k, id |-> x, modes |-> modes, only |-> only]
  <2>1. PICK i \in 1..n : sq[i] = x
    BY <1>6
  <2> QED
    BY <2>1, <1>4, <1>5
<1> QED
  BY <1>8, <1>9 DEF Enumerates

\* Every spec the run is asked about has its pass, and the abort checks have theirs
\* (run_prover).
LEMMA PassIsPlanned ==
    ASSUME pkg \in Packages
    PROVE  /\ PassesOf(pkg) \in Seq(Passes(pkg))
           /\ \E i \in DOMAIN PassesOf(pkg) : PassesOf(pkg)[i] = AbortCheck
           /\ \A s \in Specs \ pkg.system :
                 \E i \in DOMAIN PassesOf(pkg) : PassesOf(pkg)[i] = PassFor(s)
<1> DEFINE trusted == {pkg.home[s] : s \in Specs \ (pkg.proved \cup pkg.system)}
           proving == {pkg.home[s] : s \in pkg.proved}
           A == SeqOf(trusted, "spec_no_abort", {"SpecNoAbortCheck"}, TRUE)
           B == <<AbortCheck>>
           C == SeqOf(pkg.proved, "function", {"Check", "Assume", "SpecNoAbortCheck"}, FALSE)
           D == SeqOf(proving, "module", {"Check", "Assume"}, FALSE)
           E == SeqOf(proving, "spec_no_abort", {"SpecNoAbortCheck"}, FALSE)
           T == IF pkg.file_mode = "function" THEN C ELSE D \o E
<1>1. PackageOK(pkg)
  BY PackagesOK
<1>2. /\ pkg.proved \subseteq Specs /\ pkg.home \in [Fns -> pkg.modules]
      /\ IsFiniteSet(pkg.modules)
  BY <1>1 DEF PackageOK
<1>3. trusted \subseteq pkg.modules /\ proving \subseteq pkg.modules
  BY <1>2 DEF Fns
<1>4. IsFiniteSet(trusted) /\ IsFiniteSet(proving) /\ IsFiniteSet(pkg.proved)
  BY <1>2, <1>3, FS_Subset, NamesOK
<1>5. PassesOf(pkg) = A \o B \o T
  BY DEF PassesOf, AbortCheck
<1>6. A \in Seq(Passes(pkg)) /\ \A x \in trusted : \E i \in DOMAIN A : A[i] =
         [kind |-> "spec_no_abort", id |-> x, modes |-> {"SpecNoAbortCheck"}, only |-> TRUE]
  <2>1. \A x \in trusted : [kind |-> "spec_no_abort", id |-> x, modes |-> {"SpecNoAbortCheck"},
           only |-> TRUE] \in Passes(pkg)
    BY <1>3 DEF Passes, Kinds, Modes
  <2>2. A \in Seq(Passes(pkg))
    BY <2>1, <1>4, SeqOfEnumerates
  <2>3. Enumerates(A, trusted, "spec_no_abort", {"SpecNoAbortCheck"}, TRUE)
    BY <2>1, <1>4, SeqOfEnumerates
  <2> QED
    BY <2>2, <2>3 DEF Enumerates
<1>7. C \in Seq(Passes(pkg)) /\ \A x \in pkg.proved : \E i \in DOMAIN C : C[i] =
         [kind |-> "function", id |-> x, modes |-> {"Check", "Assume", "SpecNoAbortCheck"},
          only |-> FALSE]
  <2>1. \A x \in pkg.proved : [kind |-> "function", id |-> x, modes |-> {"Check", "Assume", "SpecNoAbortCheck"},
           only |-> FALSE] \in Passes(pkg)
    BY <1>2 DEF Passes, Kinds, Modes, Fns
  <2>2. C \in Seq(Passes(pkg))
    BY <2>1, <1>4, SeqOfEnumerates
  <2>3. Enumerates(C, pkg.proved, "function", {"Check", "Assume", "SpecNoAbortCheck"}, FALSE)
    BY <2>1, <1>4, SeqOfEnumerates
  <2> QED
    BY <2>2, <2>3 DEF Enumerates
<1>8. D \in Seq(Passes(pkg)) /\ \A x \in proving : \E i \in DOMAIN D : D[i] =
         [kind |-> "module", id |-> x, modes |-> {"Check", "Assume"}, only |-> FALSE]
  <2>1. \A x \in proving : [kind |-> "module", id |-> x, modes |-> {"Check", "Assume"},
           only |-> FALSE] \in Passes(pkg)
    BY <1>3 DEF Passes, Kinds, Modes
  <2>2. D \in Seq(Passes(pkg))
    BY <2>1, <1>4, SeqOfEnumerates
  <2>3. Enumerates(D, proving, "module", {"Check", "Assume"}, FALSE)
    BY <2>1, <1>4, SeqOfEnumerates
  <2> QED
    BY <2>2, <2>3 DEF Enumerates
<1>9. E \in Seq(Passes(pkg))
  <2>1. \A x \in proving : [kind |-> "spec_no_abort", id |-> x, modes |-> {"SpecNoAbortCheck"},
           only |-> FALSE] \in Passes(pkg)
    BY <1>3 DEF Passes, Kinds, Modes
  <2> QED
    BY <2>1, <1>4, SeqOfEnumerates
<1>10. B \in Seq(Passes(pkg)) /\ Len(B) = 1 /\ B[1] = AbortCheck
  BY DEF Passes, Kinds, Modes, AbortCheck
<1>11. \A s \in Specs \ (pkg.proved \cup pkg.system) : pkg.home[s] \in trusted
  OBVIOUS
<1>12. \A s \in pkg.proved : pkg.home[s] \in proving
  OBVIOUS
<1> HIDE DEF A, B, C, D, E, trusted, proving
<1>13. T \in Seq(Passes(pkg)) /\ A \o B \in Seq(Passes(pkg))
  BY <1>6, <1>7, <1>8, <1>9, <1>10
<1>14. \A s \in Specs \ pkg.system : s \notin pkg.proved =>
          \E i \in DOMAIN A : A[i] = PassFor(s)
  BY <1>6, <1>11 DEF PassFor
<1>15. \A s \in pkg.proved : \E i \in DOMAIN T : T[i] = PassFor(s)
  <2> SUFFICES ASSUME NEW s \in pkg.proved PROVE \E i \in DOMAIN T : T[i] = PassFor(s)
    OBVIOUS
  <2>1. CASE pkg.file_mode = "function"
    BY <2>1, <1>7 DEF PassFor
  <2>2. CASE pkg.file_mode # "function"
    <3>1. PICK i \in DOMAIN D : D[i] = PassFor(s)
      BY <2>2, <1>8, <1>12 DEF PassFor
    <3>2. i \in DOMAIN (D \o E) /\ (D \o E)[i] = D[i]
      BY <1>8, <1>9
    <3> QED
      BY <2>2, <3>1, <3>2
  <2> QED
    BY <2>1, <2>2
<1> HIDE DEF T
<1>16. ASSUME NEW s \in Specs \ pkg.system
       PROVE  \E i \in DOMAIN (A \o B \o T) : (A \o B \o T)[i] = PassFor(s)
  <2>1. CASE s \notin pkg.proved
    <3>1. PICK i \in DOMAIN A : A[i] = PassFor(s)
      BY <2>1, <1>14, <1>16
    <3>2. i \in DOMAIN (A \o B \o T) /\ (A \o B \o T)[i] = A[i]
      BY <1>6, <1>10, <1>13
    <3> QED
      BY <3>1, <3>2
  <2>2. CASE s \in pkg.proved
    <3>1. PICK i \in DOMAIN T : T[i] = PassFor(s)
      BY <2>2, <1>15
    <3>2. LET j == Len(A \o B) + i
          IN  j \in DOMAIN (A \o B \o T) /\ (A \o B \o T)[j] = T[i]
      BY <1>13
    <3> QED
      BY <3>1, <3>2
  <2> QED
    BY <2>1, <2>2
<1>17. Len(A) + 1 \in DOMAIN (A \o B \o T) /\ (A \o B \o T)[Len(A) + 1] = B[1]
  <2> DEFINE j == Len(A) + 1
  <2>1. j \in 1..Len(A \o B) /\ (A \o B)[j] = B[1]
    BY <1>6, <1>10
  <2> HIDE DEF j
  <2>2. j \in DOMAIN (A \o B \o T) /\ (A \o B \o T)[j] = (A \o B)[j]
    BY <1>13, <2>1
  <2> QED
    BY <2>1, <2>2 DEF j
<1>18. \E i \in DOMAIN PassesOf(pkg) : PassesOf(pkg)[i] = AbortCheck
  BY <1>5, <1>10, <1>17
<1> QED
  BY <1>5, <1>13, <1>16, <1>18

-----------------------------------------------------------------------------
(* What the parts of the invariant depend on. *)

LEMMA SameContext ==
    ASSUME pkg' = pkg, target' = target
    PROVE  /\ Asked' = Asked /\ Subject' = Subject
           /\ \A s : PassFor(s)' = PassFor(s) /\ (Eligible(s)' <=> Eligible(s))
           /\ \A t : Own(t)' = Own(t)
<1>1. Asked' = Asked
  BY DEF Asked
<1>2. \A s : PassFor(s)' = PassFor(s)
  BY DEF PassFor
<1>3. \A s : Eligible(s)' <=> Eligible(s)
  BY DEF Eligible
<1>4. \A t : Own(t)' = Own(t)
  BY <1>3 DEF Own
<1> QED
  BY <1>1, <1>2, <1>3, <1>4 DEF Subject

LEMMA SameHolder ==
    ASSUME pkg' = pkg, target' = target, function_specs' = function_specs
    PROVE  /\ HolderOK' <=> HolderOK
           /\ \A s : Stands(s)' <=> Stands(s)
<1>1. \A s : Eligible(s)' <=> Eligible(s)
  BY SameContext
<1>2. \A s : Stands(s)' <=> Stands(s)
  BY DEF Stands
<1>3. HolderOK' <=> HolderOK
  BY <1>1 DEF HolderOK
<1> QED
  BY <1>2, <1>3

\* A filed spec stays filed while the holder is left alone.
LEMMA FiledStays ==
    ASSUME pkg' = pkg, target' = target, function_specs' = function_specs,
           errors \subseteq errors', NEW S, FiledIn(S)
    PROVE  \A t \in Code : \A s \in Own(t)' \cap S :
              /\ Stands(s)' \/ <<"duplicate", s>> \in errors'
              /\ \E r \in Own(t)' : Stands(r)'
BY SameContext, SameHolder DEF FiledIn

\* A step that leaves the holder and its place in the pipeline alone, and forgets no
\* function still to be visited.
LEMMA VisitKeepsInv ==
    ASSUME Inv, UNCHANGED <<fixed, unadded, holder, phase, step, proofs>>,
           errors \subseteq errors', variants \subseteq variants',
           info' \in [Fns -> Marks],
           \A f \in Fns : info[f].verified => info'[f].verified,
           group' = {} => todo' = {},
           step = 1 => \A s \in Subject : Stands(s) /\ Unvisited(s) =>
                          Unvisited(s)' \/ info'[s].verified,
           step = 8 => \A s \in Subject : Unvisited(s) => Unvisited(s)' \/ s \in variants'
    PROVE  Inv'
<1> USE DEF fixed, holder
<1>1. TypeOK'
  BY DEF Inv, TypeOK
<1>2. Schedule'
  BY DEF Inv, Schedule
<1>3. /\ Asked' = Asked /\ Subject' = Subject
      /\ \A s : PassFor(s)' = PassFor(s)
      /\ HolderOK' <=> HolderOK
      /\ \A s : Stands(s)' <=> Stands(s)
  BY SameContext, SameHolder
<1>4. \A s \in Subject : s \in Fns
  BY DEF Subject, Asked, Fns
<1>5. FiledIn(targets) => FiledIn(targets)'
  BY FiledStays DEF FiledIn
<1>6. FiledIn(Specs) => FiledIn(Specs)'
  BY FiledStays DEF FiledIn
<1>7. Adding'
  BY <1>3, <1>5 DEF Inv, Adding
<1>8. Filed'
  BY <1>3, <1>6 DEF Inv, Filed
<1>9. Verifying'
  BY <1>3, <1>4 DEF Inv, Verifying
<1>10. Verified'
  BY <1>3, <1>4 DEF Inv, Verified
<1>11. Instrumenting'
  BY <1>3 DEF Inv, Instrumenting
<1>12. Instrumented'
  BY <1>3 DEF Inv, Instrumented
<1>13. \A s : GoalsWritten(s) => GoalsWritten(s)'
  BY DEF GoalsWritten
<1>14. Planned'
  BY <1>3, <1>13 DEF Inv, Planned
<1> QED
  BY <1>1, <1>2, <1>7, <1>8, <1>9, <1>10, <1>11, <1>12, <1>14 DEF Inv

LEMMA InitInv == BInit => Inv
<1> SUFFICES ASSUME BInit PROVE Inv
  OBVIOUS
<1> USE DEF BInit, Init
<1>1. TypeOK
  BY PassIsPlanned DEF TypeOK, Phases, Marks, Unmarked
<1>2. Planned
  BY PassIsPlanned DEF Planned, Asked
<1> QED
  BY <1>1, <1>2 DEF Inv, Schedule, Adding, Filed, Verifying, Verified, Instrumenting,
                    Instrumented

-----------------------------------------------------------------------------
(* Filing the specs (add_target, process_spec). *)

LEMMA PackageTypes ==
    ASSUME pkg \in Packages
    PROVE  /\ \A s \in Specs : pkg.of[s] \in Code \cup {None}
           /\ pkg.order \in Seq(Fns)
           /\ \A f \in Fns : \E i \in DOMAIN pkg.order : pkg.order[i] = f
           /\ pkg.native \subseteq Code /\ pkg.proved \subseteq Specs
           /\ None \notin Fns /\ Code \subseteq Fns /\ Specs \subseteq Fns
           /\ Code \cap Specs = {}
<1>1. PackageOK(pkg)
  BY PackagesOK
<1> QED
  BY <1>1, NamesOK DEF PackageOK, Fns

\* The bimap read from the function's side.
LEMMA SpecOfFunction ==
    ASSUME pkg \in Packages, HolderOK, NEW t
    PROVE  /\ \A s \in Specs : Stands(s) /\ pkg.of[s] = t => SpecByFun(t) = s
           /\ SpecByFun(t) # None =>
                 /\ SpecByFun(t) \in Specs /\ pkg.of[SpecByFun(t)] = t /\ t \in Code
                 /\ Eligible(SpecByFun(t)) /\ Stands(SpecByFun(t))
<1> DEFINE At(p) == p[2] = t
           q == CHOOSE p \in function_specs : At(p)
<1>1. ASSUME NEW s \in Specs, Stands(s), pkg.of[s] = t
      PROVE  SpecByFun(t) = s
  <2> DEFINE p == <<s, pkg.of[s]>>
  <2>1. p \in function_specs /\ At(p)
    BY <1>1 DEF Stands
  <2>2. q \in function_specs /\ At(q)
    BY <2>1
  <2>3. q = p
    BY <2>1, <2>2 DEF HolderOK
  <2>4. SpecByFun(t) = q[1]
    BY <2>1 DEF SpecByFun
  <2> HIDE DEF q
  <2>5. q[1] = s
    BY <2>3
  <2> QED
    BY <2>4, <2>5
<1>2. ASSUME SpecByFun(t) # None
      PROVE  /\ SpecByFun(t) \in Specs /\ pkg.of[SpecByFun(t)] = t /\ t \in Code
             /\ Eligible(SpecByFun(t)) /\ Stands(SpecByFun(t))
  <2>1. \E p \in function_specs : At(p)
    BY <1>2 DEF SpecByFun
  <2>2. q \in function_specs /\ At(q)
    BY <2>1
  <2>3. SpecByFun(t) = q[1]
    BY <2>1 DEF SpecByFun
  <2> HIDE DEF q
  <2>4. PICK s \in Specs : q = <<s, pkg.of[s]>> /\ pkg.of[s] \in Code /\ Eligible(s)
    BY <2>2 DEF HolderOK
  <2>5. SpecByFun(t) = s /\ pkg.of[s] = t
    BY <2>2, <2>3, <2>4
  <2> QED
    BY <2>2, <2>4, <2>5 DEF Stands
<1> QED
  BY <1>1, <1>2

\* The bimap read from the spec's side.
LEMMA FunctionOfSpec ==
    ASSUME pkg \in Packages, HolderOK, NEW s \in Specs, Stands(s)
    PROVE  IsFunctionSpec(s) /\ IsSpec(s) /\ FunBySpec(s) = pkg.of[s]
<1> DEFINE At(p) == p[1] = s
           q == CHOOSE p \in function_specs : At(p)
           p0 == <<s, pkg.of[s]>>
<1>1. p0 \in function_specs /\ At(p0)
  BY DEF Stands
<1>2. IsFunctionSpec(s) /\ IsSpec(s)
  BY <1>1 DEF IsFunctionSpec, IsSpec
<1>3. q \in function_specs /\ At(q)
  BY <1>1
<1>4. FunBySpec(s) = q[2]
  BY <1>2 DEF FunBySpec
<1> HIDE DEF q
<1>5. PICK r \in Specs : q = <<r, pkg.of[r]>>
  BY <1>3 DEF HolderOK
<1>6. r = s
  BY <1>3, <1>5
<1> QED
  BY <1>2, <1>4, <1>5, <1>6

\* The filing of one spec keeps the user specs filed.
LEMMA AddKeepsFiled ==
    ASSUME Inv, AddTarget
    PROVE  HolderOK' /\ FiledIn(targets)'
<1> DEFINE fun == Head(unadded)
           t == IF fun \in Specs THEN pkg.of[fun] ELSE None
           files == t # None /\ Eligible(fun) /\ ~Taken(t)
<1>1. /\ phase = "add" /\ unadded # <<>>
      /\ targets' = targets \cup {fun}
      /\ function_specs' =
            IF files THEN {p \in function_specs : p[1] # fun /\ p[2] # t} \cup {<<fun, t>>}
            ELSE function_specs
      /\ errors' = IF t # None /\ Eligible(fun) /\ Taken(t) /\ fun \notin pkg.system
                   THEN errors \cup {<<"duplicate", fun>>} ELSE errors
      /\ pkg' = pkg /\ target' = target
  BY DEF AddTarget, fixed
<1>2. fun \in Fns /\ pkg \in Packages
  BY <1>1 DEF Inv, TypeOK
<1>3. HolderOK /\ FiledIn(targets)
  BY <1>1 DEF Inv, Adding
<1>4. t # None => fun \in Specs /\ t = pkg.of[fun] /\ t \in Code
  BY <1>2, PackageTypes
<1>5. errors \subseteq errors'
  BY <1>1
<1> HIDE DEF fun, t
<1>6. CASE files
  <2>1. function_specs' = {p \in function_specs : p[1] # fun /\ p[2] # t} \cup {<<fun, t>>}
    BY <1>1, <1>6
  <2>2. fun \in Specs /\ t = pkg.of[fun] /\ t \in Code /\ Eligible(fun)
    BY <1>4, <1>6
  <2>3. ASSUME NEW s \in Specs, Stands(s), pkg.of[s] # t
        PROVE  Stands(s)'
    <3>1. s # fun
      BY <2>2, <2>3
    <3> QED
      BY <1>1, <2>1, <2>3, <3>1 DEF Stands
  <2>4. \A p \in function_specs' :
           \E s \in Specs : p = <<s, pkg.of[s]>> /\ pkg.of[s] \in Code /\ Eligible(s)
    BY <1>3, <2>1, <2>2 DEF HolderOK
  <2>5. ASSUME NEW p \in function_specs', NEW q \in function_specs', p[2] = q[2]
        PROVE  p = q
    <3>1. CASE p \in function_specs /\ q \in function_specs
      BY <1>3, <2>5, <3>1 DEF HolderOK
    <3>2. CASE p = <<fun, t>>
      BY <2>1, <2>5, <3>2
    <3>3. CASE q = <<fun, t>>
      BY <2>1, <2>5, <3>3
    <3> QED
      BY <2>1, <3>1, <3>2, <3>3
  <2>6. HolderOK'
    BY <1>1, <2>4, <2>5, SameContext DEF HolderOK
  <2>7. ASSUME NEW u \in Code, NEW s \in Own(u), s \in targets \cup {fun}
        PROVE  /\ Stands(s)' \/ <<"duplicate", s>> \in errors'
               /\ \E r \in Own(u) : Stands(r)'
    <3>1. s \in Specs \ pkg.system /\ pkg.of[s] = u /\ Eligible(s)
      BY DEF Own
    <3>2. CASE u # t
      <4>1. s \in targets
        BY <2>2, <2>7, <3>1, <3>2
      <4>2. PICK r \in Own(u) : Stands(r)
        BY <1>3, <4>1 DEF FiledIn
      <4>3. r \in Specs /\ pkg.of[r] = u
        BY DEF Own
      <4>4. Stands(s) \/ <<"duplicate", s>> \in errors
        BY <1>3, <4>1 DEF FiledIn
      <4>5. Stands(r)'
        BY <2>3, <3>2, <4>2, <4>3
      <4>6. Stands(s)' \/ <<"duplicate", s>> \in errors'
        BY <1>5, <2>3, <3>1, <3>2, <4>4
      <4> QED
        BY <4>5, <4>6
    <3>3. CASE u = t
      <4>1. s = fun
        <5> SUFFICES ASSUME s # fun PROVE FALSE
          OBVIOUS
        <5>1. s \in targets
          BY <2>7
        <5>2. PICK r \in Own(u) : Stands(r)
          BY <1>3, <5>1 DEF FiledIn
        <5>3. r \in Specs \ pkg.system /\ pkg.of[r] = t
          BY <3>3 DEF Own
        <5>4. SpecByFun(t) = r /\ r # None
          BY <1>2, <1>3, <5>2, <5>3, SpecOfFunction, PackageTypes
        <5> QED
          BY <1>6, <5>3, <5>4 DEF Taken
      <4>2. Stands(s)'
        BY <1>1, <2>1, <2>2, <4>1 DEF Stands
      <4> QED
        BY <4>2
    <3> QED
      BY <3>2, <3>3
  <2>8. \A u : Own(u)' = Own(u)
    BY <1>1, SameContext
  <2>9. FiledIn(targets)'
    BY <1>1, <2>7, <2>8 DEF FiledIn
  <2> QED
    BY <2>6, <2>9
<1>7. CASE ~files
  <2>1. function_specs' = function_specs
    BY <1>1, <1>7
  <2>2. HolderOK' /\ \A s : Stands(s)' <=> Stands(s)
    BY <1>1, <1>3, <2>1, SameHolder
  <2>3. ASSUME NEW u \in Code, NEW s \in Own(u), s \in targets \cup {fun}
        PROVE  /\ Stands(s)' \/ <<"duplicate", s>> \in errors'
               /\ \E r \in Own(u) : Stands(r)'
    <3>1. CASE s \in targets
      <4>1. Stands(s) \/ <<"duplicate", s>> \in errors
        BY <1>3, <3>1 DEF FiledIn
      <4>2. \E r \in Own(u) : Stands(r)
        BY <1>3, <3>1 DEF FiledIn
      <4> QED
        BY <1>5, <2>2, <4>1, <4>2
    <3>2. CASE s = fun
      <4>1. fun \in Specs \ pkg.system /\ pkg.of[fun] = u /\ Eligible(fun)
        BY <3>2 DEF Own
      <4>2. t = u /\ t # None
        BY <1>2, <4>1, PackageTypes DEF t
      <4>3. Taken(t)
        BY <1>7, <4>1, <4>2
      <4>4. <<"duplicate", fun>> \in errors'
        BY <1>1, <4>1, <4>2, <4>3
      <4>5. SpecByFun(t) # None /\ SpecByFun(t) \notin pkg.system
        BY <4>3 DEF Taken
      <4>6. SpecByFun(t) \in Own(u) /\ Stands(SpecByFun(t))
        BY <1>2, <1>3, <4>2, <4>5, SpecOfFunction DEF Own
      <4> QED
        BY <2>2, <3>2, <4>4, <4>6
    <3> QED
      BY <2>3, <3>1, <3>2
  <2>4. \A u : Own(u)' = Own(u)
    BY <1>1, SameContext
  <2>5. FiledIn(targets)'
    BY <1>1, <2>3, <2>4 DEF FiledIn
  <2> QED
    BY <2>2, <2>5
<1> QED
  BY <1>6, <1>7

-----------------------------------------------------------------------------
(* The steps of a pass. *)

LEMMA ProcessorNames ==
    /\ Len(Processors) = 9
    /\ Processors[1] = "verification" /\ Processors[8] = "spec_instrumentation"
    /\ \A i \in 1..9 : /\ Processors[i] = "verification" => i = 1
                       /\ Processors[i] = "spec_instrumentation" => i = 8
                       /\ Processors[i] = "no_abort" => i = 5
                       /\ Processors[i] = "pure_callee" => i = 7
                       /\ Processors[i] = "mono" => i = 9
                       /\ Processors[i] \in {"recursion", "global_variable", "purity",
                                             "no_abort", "deterministic"} => i \in 2..6
BY DEF Processors

LEMMA NextPassKeepsInv == Inv /\ NextPass /\ UNCHANGED backend => Inv'
<1> SUFFICES ASSUME Inv, NextPass, UNCHANGED backend PROVE Inv'
  OBVIOUS
<1> USE DEF NextPass, FreshHolder, backend
<1>1. pkg \in Packages /\ passes \in Seq(Passes(pkg)) /\ passes # <<>>
  BY DEF Inv, TypeOK
<1>2. TypeOK'
  BY <1>1, PackageTypes DEF TypeOK, Phases, Marks, Unmarked
<1>3. HolderOK'
  BY DEF HolderOK
<1>4. FiledIn(targets)'
  BY DEF FiledIn
<1>5. Adding'
  BY <1>1, <1>3, <1>4, PackageTypes DEF Adding
<1>6. Schedule'
  BY DEF Schedule
<1>7. Filed' /\ Verifying' /\ Verified' /\ Instrumenting' /\ Instrumented'
  BY DEF Filed, Verifying, Verified, Instrumenting, Instrumented
<1>8. Asked' = Asked /\ \A s : PassFor(s)' = PassFor(s) /\ (GoalsWritten(s) => GoalsWritten(s)')
  BY DEF Asked, PassFor, GoalsWritten
<1>9. ASSUME NEW s \in Asked
      PROVE  \/ GoalsWritten(s)'
             \/ \E i \in DOMAIN passes' : passes'[i] = PassFor(s)
             \/ target' = PassFor(s)
  <2>1. GoalsWritten(s) \/ \E i \in DOMAIN passes : passes[i] = PassFor(s)
    BY DEF Inv, Planned
  <2>2. CASE GoalsWritten(s)
    BY <2>2, <1>8
  <2>3. ASSUME NEW i \in DOMAIN passes, passes[i] = PassFor(s)
        PROVE  (\E j \in DOMAIN passes' : passes'[j] = PassFor(s)) \/ target' = PassFor(s)
    <3>1. CASE i = 1
      BY <1>1, <2>3, <3>1
    <3>2. CASE i # 1
      <4>1. i - 1 \in DOMAIN Tail(passes) /\ Tail(passes)[i - 1] = passes[i]
        BY <1>1, <3>2
      <4> QED
        BY <2>3, <4>1
    <3> QED
      BY <3>1, <3>2
  <2> QED
    BY <2>1, <2>2, <2>3
<1>10. Planned'
  BY <1>8, <1>9 DEF Planned, Subject
<1> QED
  BY <1>2, <1>5, <1>6, <1>7, <1>10 DEF Inv

LEMMA AddTargetKeepsInv == Inv /\ AddTarget /\ UNCHANGED backend => Inv'
<1> SUFFICES ASSUME Inv, AddTarget, UNCHANGED backend PROVE Inv'
  OBVIOUS
<1> USE DEF AddTarget, fixed, schedule, annotations, outputs, marks, backend
<1>1. unadded \in Seq(Fns) /\ unadded # <<>> /\ phase = "add" /\ phase' = "add" /\ step' = step
  BY DEF Inv, TypeOK
<1>2. Head(unadded) \in Fns /\ Tail(unadded) \in Seq(Fns)
  BY <1>1
<1>3. TypeOK'
  BY <1>2 DEF Inv, TypeOK
<1>4. \A f \in Fns : f \in targets' \/ \E i \in DOMAIN unadded' : unadded'[i] = f
  <2> SUFFICES ASSUME NEW f \in Fns, f \notin targets'
               PROVE  \E i \in DOMAIN unadded' : unadded'[i] = f
    OBVIOUS
  <2>1. PICK i \in DOMAIN unadded : unadded[i] = f
    BY <1>1 DEF Inv, Adding
  <2>2. i # 1
    BY <1>1, <2>1
  <2>3. i - 1 \in DOMAIN Tail(unadded) /\ Tail(unadded)[i - 1] = unadded[i]
    BY <1>1, <2>2
  <2> QED
    BY <2>1, <2>3
<1>5. HolderOK' /\ FiledIn(targets)'
  BY AddKeepsFiled
<1>6. Adding'
  BY <1>1, <1>4, <1>5 DEF Inv, Adding
<1>7. Schedule'
  BY <1>1 DEF Inv, Schedule
<1>8. Filed' /\ Verifying' /\ Verified' /\ Instrumenting' /\ Instrumented'
  BY <1>1 DEF Filed, Verifying, Verified, Instrumenting, Instrumented
<1>9. Asked' = Asked /\ Subject' = Subject /\ \A s : PassFor(s)' = PassFor(s)
  BY SameContext
<1>10. \A s : GoalsWritten(s)' <=> GoalsWritten(s)
  BY DEF GoalsWritten
<1>11. Planned'
  BY <1>1, <1>9, <1>10 DEF Inv, Planned
<1> QED
  BY <1>3, <1>6, <1>7, <1>8, <1>11 DEF Inv

\* Planned across a step within a pass.
LEMMA PlanKept ==
    ASSUME Inv, UNCHANGED <<fixed, proofs>>, phase # "next", phase # "stop", phase' # "next"
    PROVE  Planned'
<1> USE DEF fixed
<1>1. Asked' = Asked /\ Subject' = Subject /\ \A s : PassFor(s)' = PassFor(s)
  BY SameContext
<1>2. \A s : GoalsWritten(s)' <=> GoalsWritten(s)
  BY DEF GoalsWritten
<1> QED
  BY <1>1, <1>2 DEF Inv, Planned

LEMMA AddedKeepsInv == Inv /\ Added /\ UNCHANGED backend => Inv'
<1> SUFFICES ASSUME Inv, Added, UNCHANGED backend PROVE Inv'
  OBVIOUS
<1> USE DEF Added, fixed, holder, annotations, outputs, marks, backend
<1>1. step = 1 /\ HolderOK /\ targets = Fns /\ FiledIn(targets)
  <2>1. DOMAIN unadded = {} /\ targets \subseteq Fns
    BY DEF Inv, TypeOK
  <2> QED
    BY <2>1 DEF Inv, Adding
<1>2. TypeOK' /\ Schedule'
  BY <1>1 DEF Inv, TypeOK, Phases, Schedule
<1>3. HolderOK'
  BY <1>1, SameHolder
<1>4. FiledIn(Specs)
  BY <1>1 DEF FiledIn, Fns
<1>5. FiledIn(Specs)'
  BY <1>4, FiledStays DEF FiledIn
<1>6. Filed'
  BY <1>1, <1>3, <1>5 DEF Filed
<1>7. Adding' /\ Verifying' /\ Verified' /\ Instrumenting' /\ Instrumented'
  BY <1>1 DEF Adding, Verifying, Verified, Instrumenting, Instrumented
<1>8. Planned'
  BY PlanKept
<1> QED
  BY <1>2, <1>6, <1>7, <1>8 DEF Inv

\* A processor visits the component of every function.
LEMMA AllUnvisited == StartProcessor => \A f \in targets : Unvisited(f)'
<1> SUFFICES ASSUME StartProcessor, NEW f \in targets PROVE Unvisited(f)'
  OBVIOUS
<1>1. Component(CallGraph, f) \in Components
  BY DEF Components
<1>2. f \in Component(CallGraph, f)
  BY DEF Component
<1>3. \E c \in agenda' : f \in c
  BY <1>1, <1>2 DEF StartProcessor
<1> QED
  BY <1>3 DEF Unvisited

LEMMA StartKeepsInv == Inv /\ StartProcessor /\ UNCHANGED backend => Inv'
<1> SUFFICES ASSUME Inv, StartProcessor, UNCHANGED backend PROVE Inv'
  OBVIOUS
<1> USE DEF StartProcessor, fixed, holder, outputs, marks, backend
<1>1. \A f \in targets : Unvisited(f)'
  BY AllUnvisited
<1>2. TypeOK' /\ Schedule'
  BY DEF Inv, TypeOK, Phases, Schedule
<1>3. /\ Subject' = Subject
      /\ HolderOK' <=> HolderOK
      /\ \A s : Stands(s)' <=> Stands(s)
  BY SameContext, SameHolder
<1>4. FiledIn(Specs) => FiledIn(Specs)'
  BY FiledStays DEF FiledIn
<1>5. Filed'
  BY <1>3, <1>4 DEF Inv, Filed
<1>6. \A s \in Subject : s \in Fns
  BY DEF Subject, Asked, Fns
<1>7. Verifying'
  BY <1>1, <1>3, <1>6 DEF Inv, Filed, Verifying
<1>8. Verified'
  BY <1>3 DEF Inv, Verified
<1>9. Instrumenting'
  BY <1>1, <1>3 DEF Inv, Verified, Instrumenting
<1>10. Instrumented' /\ Adding'
  BY <1>3 DEF Inv, Instrumented, Adding
<1>11. Planned'
  BY PlanKept
<1> QED
  BY <1>2, <1>5, <1>7, <1>8, <1>9, <1>10, <1>11 DEF Inv

-----------------------------------------------------------------------------
(* Visits of functions. *)

\* What the pass of a spec asks of it (verification_analysis, in_target).
LEMMA SubjectIsVerified ==
    ASSUME pkg \in Packages, NEW s \in Subject
    PROVE  /\ s \in Specs \ pkg.system /\ pkg.of[s] \in Code \ pkg.native
           /\ Eligible(s) /\ target.kind # "abort"
           /\ target.only <=> s \notin pkg.proved
           /\ HolderOK /\ Stands(s) =>
                 /\ ShouldVerify(s)
                 /\ IsVerifiedSpec(s) <=> s \in pkg.proved
                 /\ IsNoVerify(s) <=> s \notin pkg.proved
<1>1. /\ s \in Specs \ pkg.system /\ pkg.of[s] \notin pkg.native \cup {None}
      /\ pkg.home[s] \notin pkg.libs /\ target = PassFor(s)
  BY DEF Subject, Asked
<1>2. pkg.of[s] \in Code
  BY <1>1, PackageTypes
<1>3. CASE s \notin pkg.proved
  <2>1. target.kind = "spec_no_abort" /\ target.id = pkg.home[s] /\ target.only
    BY <1>1, <1>3 DEF PassFor
  <2>2. Eligible(s)
    BY <2>1 DEF Eligible
  <2>3. ASSUME HolderOK, Stands(s)
        PROVE  ShouldVerify(s) /\ IsNoVerify(s) /\ ~IsVerifiedSpec(s)
    <3>1. IsFunctionSpec(s) /\ IsSpec(s)
      BY <1>1, <2>3, FunctionOfSpec
    <3> QED
      BY <1>1, <1>3, <2>1, <3>1 DEF ShouldVerify, IsNoVerify, IsVerifiedSpec
  <2> QED
    BY <1>1, <1>2, <1>3, <2>1, <2>2, <2>3
<1>4. CASE s \in pkg.proved
  <2>1. /\ target.only = FALSE
        /\ \/ target.kind = "function" /\ target.id = s
           \/ target.kind = "module" /\ target.id = pkg.home[s]
    BY <1>1, <1>4 DEF PassFor
  <2>2. Eligible(s)
    BY <2>1 DEF Eligible
  <2>3. in_target(s)
    BY <2>1 DEF in_target
  <2>4. ASSUME HolderOK, Stands(s)
        PROVE  ShouldVerify(s) /\ ~IsNoVerify(s) /\ IsVerifiedSpec(s)
    <3>1. IsSpec(s)
      BY <1>1, <2>4, FunctionOfSpec
    <3> QED
      BY <1>1, <1>4, <2>1, <2>3, <3>1 DEF ShouldVerify, IsNoVerify, IsVerifiedSpec
  <2> QED
    BY <1>1, <1>2, <1>4, <2>1, <2>2, <2>4
<1> QED
  BY <1>3, <1>4

LEMMA VerifyFunctionKeepsInv ==
    ASSUME Inv, NEW f \in todo, VerifyFunction(f), UNCHANGED backend
    PROVE  Inv'
<1> USE DEF VerifyFunction, Take, fixed, holder, marks, annotations, outputs, backend
<1>1. step = 1 /\ phase = "run"
  BY ProcessorNames DEF Running, Inv, TypeOK
<1>2. pkg \in Packages /\ info \in [Fns -> Marks] /\ HolderOK
  BY <1>1 DEF Inv, TypeOK, Filed
<1> DEFINE old == [info[f] EXCEPT !.essential =
                      @ \/ (f \in pkg.native /\ pkg.home[f] \in pkg.libs)]
           new == [old EXCEPT !.verified = TRUE, !.inlined = TRUE, !.reachable = FALSE]
<1>3. info' = IF ShouldVerify(f) /\ ~old.verified THEN [info EXCEPT ![f] = new]
              ELSE [info EXCEPT ![f] = old]
  OBVIOUS
<1>4. ASSUME f \in Fns
      PROVE  /\ old \in Marks /\ new \in Marks
             /\ old.verified = info[f].verified /\ new.verified
  <2>1. info[f] \in Marks
    BY <1>2, <1>4
  <2>2. old \in Marks /\ old.verified = info[f].verified
    BY <2>1 DEF Marks
  <2>3. ASSUME NEW m \in Marks
        PROVE  LET n == [m EXCEPT !.verified = TRUE, !.inlined = TRUE, !.reachable = FALSE]
               IN  n \in Marks /\ n.verified
    BY DEF Marks
  <2> QED
    BY <2>2, <2>3
<1> HIDE DEF old, new
<1>5. info' \in [Fns -> Marks]
  BY <1>2, <1>3, <1>4
<1>6. \A x \in Fns : info[x].verified => info'[x].verified
  BY <1>2, <1>3, <1>4
<1>7. f \in Fns /\ ShouldVerify(f) => info'[f].verified
  BY <1>2, <1>3, <1>4
<1>8. todo' = todo \ {f} /\ agenda' = agenda /\ group' = group
  OBVIOUS
<1>9. ASSUME NEW s \in Subject, Stands(s), Unvisited(s)
      PROVE  Unvisited(s)' \/ info'[s].verified
  <2>1. s \in Fns /\ ShouldVerify(s)
    BY <1>2, <1>9, SubjectIsVerified DEF Fns
  <2> QED
    BY <1>7, <1>8, <1>9, <2>1 DEF Unvisited
<1>10. group' = {} => todo' = {}
  BY <1>8 DEF Inv, Schedule
<1> QED
  BY <1>1, <1>5, <1>6, <1>9, <1>10, VisitKeepsInv

LEMMA InstrumentKeepsInv ==
    ASSUME Inv, NEW f \in todo, Instrument(f), UNCHANGED backend
    PROVE  Inv'
<1> USE DEF Instrument, Take, fixed, holder, marks, annotations, outputs, backend
<1>1. step = 8 /\ phase = "run"
  BY ProcessorNames DEF Running, Inv, TypeOK
<1>2. pkg \in Packages /\ info \in [Fns -> Marks]
  BY DEF Inv, TypeOK
<1>3. todo' = todo \ {f} /\ agenda' = agenda /\ group' = group
  OBVIOUS
<1>4. ASSUME NEW s \in Subject, Unvisited(s)
      PROVE  Unvisited(s)' \/ s \in variants'
  <2>1. info[s].verified
    BY <1>1 DEF Inv, Verified
  <2>2. s \notin pkg.native
    BY <1>2, PackageTypes, SubjectIsVerified
  <2> QED
    BY <1>3, <1>4, <2>1, <2>2 DEF Unvisited
<1>5. group' = {} => todo' = {}
  BY <1>3 DEF Inv, Schedule
<1> QED
  BY <1>1, <1>2, <1>4, <1>5, VisitKeepsInv

\* The processors between the first and the eighth annotate and report.
LEMMA AnnotateKeepsInv ==
    ASSUME Inv, NEW f \in todo, UNCHANGED backend,
           CheckRecursion(f) \/ CollectVars(f) \/ CheckPurity(f) \/ CheckAborts(f)
              \/ CheckDeterminism(f)
    PROVE  Inv'
<1> USE DEF Take, fixed, holder, marks, annotations, outputs, backend
<1>1. /\ step # 1 /\ step # 8
      /\ UNCHANGED <<fixed, unadded, holder, phase, step, info, variants, group>>
      /\ todo' = todo \ {f} /\ errors \subseteq errors'
  <2>1. CASE CheckRecursion(f)
    BY <2>1, ProcessorNames DEF CheckRecursion, Running, Inv, TypeOK
  <2>2. CASE CollectVars(f)
    BY <2>2, ProcessorNames DEF CollectVars, Running, Inv, TypeOK
  <2>3. CASE CheckPurity(f)
    BY <2>3, ProcessorNames DEF CheckPurity, Running, Inv, TypeOK
  <2>4. CASE CheckAborts(f)
    BY <2>4, ProcessorNames DEF CheckAborts, Running, Inv, TypeOK
  <2>5. CASE CheckDeterminism(f)
    BY <2>5, ProcessorNames DEF CheckDeterminism, Running, Inv, TypeOK
  <2> QED
    BY <2>1, <2>2, <2>3, <2>4, <2>5
<1>2. info \in [Fns -> Marks]
  BY DEF Inv, TypeOK
<1>3. group' = {} => todo' = {}
  BY <1>1 DEF Inv, Schedule
<1> QED
  BY <1>1, <1>2, <1>3, VisitKeepsInv

\* Marks spread to callees, components are opened, repeated and closed.
LEMMA TraversalKeepsInv ==
    ASSUME Inv, UNCHANGED backend, VisitComponent \/ EndRound \/ MarkCallee \/ PutBack
    PROVE  Inv'
<1> USE DEF fixed, holder, marks, annotations, outputs, schedule, backend
<1>1. info \in [Fns -> Marks] /\ targets \subseteq Fns /\ (group = {} => todo = {})
  BY DEF Inv, TypeOK, Schedule
<1>2. CASE VisitComponent
  <2>1. PICK c \in agenda : group' = c /\ todo' = c /\ agenda' = agenda \ {c}
    BY <1>2 DEF VisitComponent
  <2>2. todo = {}
    BY <1>1, <1>2 DEF VisitComponent
  <2>3. \A s : Unvisited(s) => Unvisited(s)'
    BY <2>1, <2>2 DEF Unvisited
  <2> QED
    BY <1>1, <1>2, <2>1, <2>3, VisitKeepsInv DEF VisitComponent
<1>3. CASE EndRound
  <2>1. \A s : Unvisited(s) => Unvisited(s)'
    BY <1>3 DEF EndRound, Unvisited
  <2>2. group' = {} => todo' = {}
    BY <1>3 DEF EndRound
  <2> QED
    BY <1>1, <1>3, <2>1, <2>2, VisitKeepsInv DEF EndRound
<1>4. CASE MarkCallee
  <2>1. PICK m \in pending :
           \/ m[2] \in targets /\ info' = [info EXCEPT ![m[2]].inlined = TRUE,
                                                       ![m[2]].reachable = FALSE]
           \/ m[2] \in targets /\ info' = [info EXCEPT ![m[2]].reachable = TRUE]
           \/ info' = info
    BY <1>4 DEF MarkCallee
  <2>2. info' \in [Fns -> Marks]
    <3>1. CASE m[2] \in targets /\ info' = [info EXCEPT ![m[2]].inlined = TRUE,
                                                        ![m[2]].reachable = FALSE]
      <4> DEFINE one == [info EXCEPT ![m[2]].inlined = TRUE]
      <4>1. one \in [Fns -> Marks]
        BY <1>1, <3>1 DEF Marks
      <4>2. info' = [one EXCEPT ![m[2]].reachable = FALSE]
        BY <3>1
      <4> HIDE DEF one
      <4> QED
        BY <1>1, <3>1, <4>1, <4>2 DEF Marks
    <3>2. CASE m[2] \in targets /\ info' = [info EXCEPT ![m[2]].reachable = TRUE]
      BY <1>1, <3>2 DEF Marks
    <3>3. CASE info' = info
      BY <1>1, <3>3
    <3> QED
      BY <2>1, <3>1, <3>2, <3>3
  <2>3. \A f \in Fns : info[f].verified => info'[f].verified
    BY <1>1, <2>1 DEF Marks
  <2>4. UNCHANGED <<unadded, holder, fixed, phase, step, proofs, variants, errors, agenda,
                    group, todo>>
    BY <1>4 DEF MarkCallee
  <2>5. \A s : Unvisited(s) <=> Unvisited(s)'
    BY <2>4 DEF Unvisited
  <2> QED
    BY <1>1, <2>2, <2>3, <2>4, <2>5, VisitKeepsInv
<1>5. CASE PutBack
  <2>1. \A s : Unvisited(s) <=> Unvisited(s)'
    BY <1>5 DEF PutBack, Unvisited
  <2> QED
    BY <1>1, <1>5, <2>1, VisitKeepsInv DEF PutBack
<1> QED
  BY <1>2, <1>3, <1>4, <1>5

-----------------------------------------------------------------------------
(* Ends of processors, and the translator. *)

\* The first processor ends with the specs of the pass standing, verified and kept.
LEMMA EndProcessorKeepsInv == Inv /\ EndProcessor /\ UNCHANGED backend => Inv'
<1> SUFFICES ASSUME Inv, EndProcessor, UNCHANGED backend PROVE Inv'
  OBVIOUS
<1> USE DEF fixed, holder, annotations, outputs, marks, backend
<1>1. /\ phase = "run" /\ \A s : ~Unvisited(s)
      /\ pkg \in Packages /\ targets \subseteq Fns /\ step \in 1..9
      /\ UNCHANGED <<fixed, unadded, info, variants, proofs, group, todo, errors>>
  BY DEF EndProcessor, Inv, TypeOK, Schedule, Unvisited
<1>2. \/ phase' = "stop" /\ step' = step
      \/ phase' = "emit" /\ step' = step /\ step = 9 /\ errors = {}
      \/ phase' = "start" /\ step' = step + 1 /\ step # 9 /\ errors = {}
  BY <1>1, ProcessorNames DEF EndProcessor, Advance
<1>3. /\ targets' \subseteq targets
      /\ step # 1 => UNCHANGED <<targets, function_specs>>
  BY <1>1, ProcessorNames DEF EndProcessor
<1>4. TypeOK' /\ Schedule' /\ Adding' /\ Filed' /\ Verifying' /\ Instrumenting'
  <2>1. TypeOK'
    BY <1>1, <1>2, <1>3 DEF Inv, TypeOK, Phases
  <2> QED
    BY <2>1, <1>1, <1>2 DEF Inv, Schedule, Adding, Filed, Verifying, Instrumenting
<1>5. Subject' = Subject
  BY <1>1, SameContext
<1>6. Instrumented'
  BY <1>1, <1>2, <1>5 DEF Inv, Instrumenting, Instrumented
<1>7. Planned'
  BY <1>1, <1>2, PlanKept
<1>8. CASE step = 1 /\ phase' = "start"
  <2> DEFINE used == {f \in targets : info[f].verified \/ info[f].inlined
                                      \/ info[f].essential \/ info[f].reachable}
  <2>1. /\ targets' = used
        /\ function_specs' = {p \in function_specs : p[1] \notin targets \ used}
    BY <1>8, ProcessorNames DEF EndProcessor
  <2>2. HolderOK /\ targets = Fns /\ FiledIn(Specs)
    BY <1>1, <1>8 DEF Inv, Filed
  <2>3. HolderOK'
    BY <1>1, <2>1, <2>2, SameContext DEF HolderOK
  <2>4. ASSUME NEW s \in Subject
        PROVE  Stands(s)' /\ s \in targets' /\ info'[s].verified
    <3>1. s \in Specs /\ s \in Own(pkg.of[s]) /\ pkg.of[s] \in Code
      BY <1>1, SubjectIsVerified DEF Own
    <3>2. Stands(s)
      BY <1>2, <1>8, <2>2, <3>1 DEF FiledIn
    <3>3. info[s].verified
      BY <1>1, <1>8, <3>2 DEF Inv, Verifying
    <3>4. s \in used
      BY <2>2, <3>1, <3>3 DEF Fns
    <3> QED
      BY <1>1, <2>1, <3>2, <3>3, <3>4 DEF Stands
  <2>5. Verified'
    BY <1>5, <2>3, <2>4 DEF Verified
  <2> QED
    BY <1>4, <1>6, <1>7, <2>5 DEF Inv
<1>9. CASE ~(step = 1 /\ phase' = "start")
  <2>1. CASE phase' = "stop"
    BY <1>4, <1>6, <1>7, <2>1 DEF Inv, Verified
  <2>2. CASE phase' # "stop"
    <3>1. step > 1 /\ UNCHANGED <<targets, function_specs>>
      BY <1>1, <1>2, <1>3, <1>9, <2>2
    <3>2. HolderOK' <=> HolderOK
      BY <1>1, <3>1, SameHolder
    <3>3. \A s : Stands(s)' <=> Stands(s)
      BY <1>1, <3>1, SameHolder
    <3>4. Verified'
      BY <1>1, <1>5, <3>1, <3>2, <3>3 DEF Inv, Verified
    <3> QED
      BY <1>4, <1>6, <1>7, <3>4 DEF Inv
  <2> QED
    BY <2>1, <2>2
<1> QED
  BY <1>8, <1>9

\* The processors that run once.
LEMMA SingleRunKeepsInv ==
    ASSUME Inv, UNCHANGED backend, DetectPureCallees \/ Monomorphize
    PROVE  Inv'
<1> USE DEF fixed, holder, annotations, marks, backend
<1>1. /\ phase = "start" /\ step \in {7, 9}
      /\ UNCHANGED <<fixed, unadded, holder, info, variants, proofs, group, todo, errors>>
      /\ Advance
  <2>1. CASE DetectPureCallees
    BY <2>1, ProcessorNames DEF DetectPureCallees, Inv, TypeOK
  <2>2. CASE Monomorphize
    BY <2>2, ProcessorNames DEF Monomorphize, Inv, TypeOK
  <2> QED
    BY <2>1, <2>2
<1>2. \/ phase' = "stop" /\ step' = step
      \/ phase' = "emit" /\ step' = 9 /\ step = 9
      \/ phase' = "start" /\ step' = 8
  BY <1>1, ProcessorNames DEF Advance
<1>3. TypeOK' /\ Schedule' /\ Adding' /\ Filed' /\ Verifying' /\ Instrumenting'
  BY <1>1, <1>2 DEF Inv, TypeOK, Phases, Schedule, Adding, Filed, Verifying, Instrumenting
<1>4. Subject' = Subject /\ (HolderOK' <=> HolderOK) /\ \A s : Stands(s)' <=> Stands(s)
  BY <1>1, SameContext, SameHolder
<1>5. Verified' /\ Instrumented'
  BY <1>1, <1>2, <1>4 DEF Inv, Verified, Instrumented
<1>6. Planned'
  BY <1>1, <1>2, PlanKept
<1> QED
  BY <1>3, <1>5, <1>6 DEF Inv

\* A unit of a spec is in the text of the pass (translate_spec).
LEMMA UnitIsWritten ==
    ASSUME pkg \in Packages, HolderOK, NEW s \in Subject, Stands(s), NEW style, NEW m,
           style \in StylesOf(s), IsWritten(s, style, m)
    PROVE  UnitName(s, style) \in Names(TextOf(m))
<1> DEFINE u == SpecUnit(s, style, m)
<1>1. s \in Specs /\ s \notin pkg.native /\ s \in Fns /\ target.kind # "abort" /\ IsSpec(s)
  BY SubjectIsVerified, PackageTypes, FunctionOfSpec DEF Fns
<1>2. u \in SpecUnits(s, StylesOf(s), m)
  BY DEF SpecUnits
<1>3. u.name = UnitName(s, style)
  BY DEF SpecUnit
<1> HIDE DEF u
<1>4. SpecUnits(s, StylesOf(s), m) \subseteq UnitsOf(s, m)
  BY <1>1 DEF UnitsOf
<1>5. UnitsOf(s, m) \subseteq TextOf(m)
  BY <1>1 DEF TextOf
<1> QED
  BY <1>2, <1>3, <1>4, <1>5 DEF Names

\* The goals of a spec are written from its variant, mode by mode.
LEMMA GoalsOfSubject ==
    ASSUME pkg \in Packages, HolderOK, NEW s \in Subject, Stands(s), s \in variants
    PROVE  /\ s \in pkg.proved /\ s \notin pkg.ignore =>
                 <<"verify", s>> \in Names(TextOf("Check"))
           /\ s \in pkg.proved /\ s \in pkg.ignore \cup pkg.asserts =>
                 <<"verify", s>> \in Names(TextOf("Assume"))
           /\ <<"sna", s>> \in Names(TextOf("SpecNoAbortCheck"))
<1>1. /\ pkg.of[s] # None /\ FunBySpec(s) \notin pkg.native
      /\ IsVerifiedSpec(s) <=> s \in pkg.proved
      /\ IsNoVerify(s) <=> s \notin pkg.proved
      /\ target.only <=> s \notin pkg.proved
  BY SubjectIsVerified, FunctionOfSpec, PackageTypes
<1>2. s \notin Scenarios
  BY <1>1 DEF Scenarios
<1>3. UnitName(s, "Default") = <<"verify", s>> /\ UnitName(s, "SpecNoAbortCheck") = <<"sna", s>>
  BY DEF UnitName
<1>4. "SpecNoAbortCheck" \in StylesOf(s)
  BY <1>1, <1>2 DEF StylesOf
<1>5. IsWritten(s, "SpecNoAbortCheck", "SpecNoAbortCheck")
  BY DEF IsWritten, ModeAllows, HasCode
<1>6. ASSUME s \in pkg.proved
      PROVE  "Default" \in StylesOf(s)
  BY <1>1, <1>2, <1>6 DEF StylesOf
<1>7. ASSUME s \in pkg.proved, s \notin pkg.ignore
      PROVE  IsWritten(s, "Default", "Check")
  BY <1>1, <1>7 DEF IsWritten, ModeAllows, HasCode
<1>8. ASSUME s \in pkg.proved, s \in pkg.ignore \cup pkg.asserts
      PROVE  IsWritten(s, "Default", "Assume")
  BY <1>1, <1>8 DEF IsWritten, ModeAllows, HasCode
<1> QED
  BY <1>3, <1>4, <1>5, <1>6, <1>7, <1>8, UnitIsWritten

LEMMA EmitKeepsInv == Inv /\ Emit => Inv'
<1> SUFFICES ASSUME Inv, Emit PROVE Inv'
  OBVIOUS
<1> USE DEF Emit, fixed, holder, annotations, outputs, marks
<1>1. /\ pkg \in Packages /\ HolderOK /\ step = 9
      /\ \A s \in Subject : Stands(s) /\ s \in variants
  BY DEF Inv, TypeOK, Schedule, Verified, Instrumented
<1>2. Asked' = Asked /\ \A s : PassFor(s)' = PassFor(s)
  BY SameContext
<1>3. proofs \subseteq proofs'
  OBVIOUS
<1>4. ASSUME NEW m \in target.modes, NEW n \in Names(TextOf(m)), n[1] \in Goals
      PROVE  <<m, n>> \in proofs'
  <2>1. text'[m] = TextOf(m)
    BY <1>4
  <2> QED
    BY <1>4, <2>1
<1>5. \A s : GoalsWritten(s) => GoalsWritten(s)'
  BY <1>3 DEF GoalsWritten
<1>6. ASSUME NEW s \in Subject
      PROVE  GoalsWritten(s)'
  <2>1. /\ target = PassFor(s) /\ pkg' = pkg
    BY DEF Subject
  <2>2. <<"verify", s>>[1] \in Goals /\ <<"sna", s>>[1] \in Goals
    BY DEF Goals
  <2>3. /\ s \in pkg.proved /\ s \notin pkg.ignore => <<"Check", <<"verify", s>>>> \in proofs'
        /\ s \in pkg.proved /\ s \in pkg.ignore \cup pkg.asserts =>
              <<"Assume", <<"verify", s>>>> \in proofs'
    <3>1. s \in pkg.proved => "Check" \in target.modes /\ "Assume" \in target.modes
      BY <2>1 DEF PassFor
    <3> QED
      BY <1>1, <1>4, <2>2, <3>1, GoalsOfSubject
  <2>4. s \notin pkg.proved \/ pkg.file_mode = "function" =>
           <<"SpecNoAbortCheck", <<"sna", s>>>> \in proofs'
    <3>1. s \notin pkg.proved \/ pkg.file_mode = "function" =>
             "SpecNoAbortCheck" \in target.modes
      BY <2>1 DEF PassFor
    <3> QED
      BY <1>1, <1>4, <2>2, <3>1, GoalsOfSubject
  <2> QED
    BY <2>1, <2>3, <2>4 DEF GoalsWritten
<1>7. Planned'
  BY <1>2, <1>5, <1>6 DEF Inv, Planned
<1>8. TypeOK' /\ Schedule'
  BY DEF Inv, TypeOK, Phases, Schedule
<1>9. Adding' /\ Filed' /\ Verifying' /\ Verified' /\ Instrumenting' /\ Instrumented'
  BY DEF Adding, Filed, Verifying, Verified, Instrumenting, Instrumented
<1> QED
  BY <1>7, <1>8, <1>9 DEF Inv

-----------------------------------------------------------------------------
LEMMA NextInv == Inv /\ [BNext \/ Done]_allvars => Inv'
<1> SUFFICES ASSUME Inv, [BNext \/ Done]_allvars PROVE Inv'
  OBVIOUS
<1>1. CASE Pipeline /\ UNCHANGED backend
  <2>1. CASE \E f \in todo :
               \/ VerifyFunction(f) \/ CheckRecursion(f) \/ CollectVars(f) \/ CheckPurity(f)
               \/ CheckAborts(f) \/ CheckDeterminism(f) \/ Instrument(f)
    BY <1>1, <2>1, VerifyFunctionKeepsInv, InstrumentKeepsInv, AnnotateKeepsInv
  <2> QED
    BY <1>1, <2>1, NextPassKeepsInv, AddTargetKeepsInv, AddedKeepsInv, StartKeepsInv,
       EndProcessorKeepsInv, TraversalKeepsInv, SingleRunKeepsInv DEF Pipeline
<1>2. CASE Emit
  BY <1>2, EmitKeepsInv
<1>3. CASE UNCHANGED allvars
  <2>1. \A s : Unvisited(s)' <=> Unvisited(s)
    BY <1>3 DEF allvars, vars, Unvisited
  <2>2. info \in [Fns -> Marks] /\ (group = {} => todo = {})
    BY DEF Inv, TypeOK, Schedule
  <2> QED
    BY <1>3, <2>1, <2>2, VisitKeepsInv DEF allvars, vars, backend, fixed, holder
<1> QED
  BY <1>1, <1>2, <1>3 DEF BNext, Done

\* The steps of the pass keep every spec on its way from being filed to its goals.
THEOREM SpecsAreFollowed == BSpec => []Inv
<1>1. BInit => Inv
  BY InitInv
<1>2. Inv /\ [BNext \/ Done]_allvars => Inv'
  BY NextInv
<1> QED
  BY <1>1, <1>2, PTL DEF BSpec

\* process_spec: whatever the order in which specs are met, a user spec the pass may
\* use stands for its function, and where there are two, one is reported.
THEOREM SpecsStand == BSpec => []SpecStands
<1>1. Inv => SpecStands
  <2> SUFFICES ASSUME Inv, phase = "start", step = 1, NEW t \in Code
               PROVE  /\ Own(t) # {} => SpecByFun(t) \in Own(t)
                      /\ Cardinality(Own(t)) > 1 =>
                            \E s \in Own(t) : <<"duplicate", s>> \in errors
    BY DEF SpecStands, Own
  <2>1. pkg \in Packages /\ HolderOK /\ FiledIn(Specs) /\ Own(t) \subseteq Specs
    BY DEF Inv, TypeOK, Filed, Own
  <2>2. \A r \in Own(t) : Stands(r) => SpecByFun(t) = r
    BY <2>1, SpecOfFunction DEF Own
  <2>3. ASSUME Own(t) # {}
        PROVE  SpecByFun(t) \in Own(t)
    BY <2>1, <2>2, <2>3 DEF FiledIn
  <2>4. ASSUME Cardinality(Own(t)) > 1
        PROVE  \E s \in Own(t) : <<"duplicate", s>> \in errors
    <3>1. IsFiniteSet(Own(t))
      BY <2>1, FS_Subset, NamesOK
    <3>2. Own(t) # {} /\ \A x : Own(t) # {x}
      <4>1. Own(t) # {}
        BY <2>4, FS_EmptySet
      <4>2. ASSUME NEW x, Own(t) = {x} PROVE FALSE
        <5>1. Cardinality(Own(t)) = 1
          BY <4>2, FS_Singleton, Zenon
        <5> QED
          BY <2>4, <5>1
      <4> QED
        BY <4>1, <4>2
    <3>3. PICK s \in Own(t) : s # SpecByFun(t)
      BY <3>2
    <3> QED
      BY <2>1, <2>2, <3>3 DEF FiledIn
  <2> QED
    BY <2>3, <2>4
<1> QED
  BY <1>1, SpecsAreFollowed, PTL

\* run_prover, verification_analysis, spec_instrumentation and translate_spec
\* together: once the run is accepted, the goals of every spec it was asked about have
\* been written, in each mode the attributes of the spec call for.
THEOREM SpecsAreProved == BSpec => []EverySpecProved
<1>1. Inv => EverySpecProved
  <2> SUFFICES ASSUME Inv, Accepted, NEW s \in Asked PROVE GoalsWritten(s)
    BY DEF EverySpecProved, Asked, GoalsWritten
  <2> QED
    BY DEF Accepted, Inv, Planned
<1> QED
  BY <1>1, SpecsAreFollowed, PTL

-----------------------------------------------------------------------------
(* What ReachedFrom computes.  Its recursion is over the numbers, and the    *)
(* facts about it follow from a least counterexample.                        *)

\* The least of a set of numbers.
LEMMA LeastNumber ==
    ASSUME NEW T \in SUBSET Nat, T # {}
    PROVE  \E x \in T : \A y \in T : x <= y
<1> DEFINE R == {ss \in Nat \X Nat : ss[1] < ss[2]}
<1>0. OpToRel(<, Nat) = R
  BY DEF OpToRel
<1>1. IsWellFoundedOn(R, Nat)
  BY <1>0, NatLessThanWellFounded
<1>2. PICK x \in T : \A y \in T : ~(<<y, x>> \in R)
  <2> HIDE DEF R
  <2> QED
    BY <1>1, WFMin
<1>3. ASSUME NEW y \in T PROVE x <= y
  <2>1. x \in Nat /\ y \in Nat /\ <<y, x>> \in Nat \X Nat
    OBVIOUS
  <2>2. ~(y < x)
    BY <1>2, <2>1
  <2> QED
    BY <2>1, <2>2
<1> QED
  BY <1>3

\* One layer of the search, all of them, and the first n of them.
Grown(graph, r) == r \cup UNION {graph[x] : x \in r \cap DOMAIN graph}
IsLayers(graph, S, R) == R = [n \in Nat |-> IF n = 0 THEN S ELSE Grown(graph, R[n - 1])]
Layers(graph, S) == CHOOSE R : IsLayers(graph, S, R)
IsStart(graph, S, g, n) == g = [i \in 0..n |-> IF i = 0 THEN S ELSE Grown(graph, g[i - 1])]

\* The first n layers exist, and any two of them agree: the recursion has a solution.
LEMMA StartsExist ==
    ASSUME NEW graph, NEW S, NEW n \in Nat
    PROVE  \E g : IsStart(graph, S, g, n)
<1> DEFINE T == {k \in Nat : ~\E g : IsStart(graph, S, g, k)}
<1> SUFFICES ASSUME T # {} PROVE FALSE
  OBVIOUS
<1>1. PICK k \in T : \A j \in T : k <= j
  <2> HIDE DEF T
  <2> QED
    BY LeastNumber, T \in SUBSET Nat DEF T
<1>2. CASE k = 0
  <2>1. IsStart(graph, S, [i \in 0..0 |-> S], 0)
    BY DEF IsStart
  <2> QED
    BY <1>1, <1>2, <2>1
<1>3. CASE k # 0
  <2>1. k \in Nat /\ k - 1 \in Nat /\ k - 1 \notin T
    BY <1>1, <1>3
  <2>2. PICK g : IsStart(graph, S, g, k - 1)
    BY <2>1
  <2> DEFINE h == [i \in 0..k |-> IF i = k THEN Grown(graph, g[k - 1]) ELSE g[i]]
  <2>3. \A i \in 0..(k - 1) : g[i] = IF i = 0 THEN S ELSE Grown(graph, g[i - 1])
    BY <2>2 DEF IsStart
  <2>4. ASSUME NEW i \in 0..k PROVE h[i] = IF i = 0 THEN S ELSE Grown(graph, h[i - 1])
    <3>1. CASE i = 0
      BY <1>3, <2>1, <2>3, <3>1
    <3>2. CASE i # 0 /\ i # k
      <4>1. i \in 0..(k - 1) /\ i - 1 \in 0..k /\ i - 1 # k
        BY <2>1, <3>2
      <4>2. h[i] = g[i] /\ h[i - 1] = g[i - 1]
        BY <3>2, <4>1
      <4> HIDE DEF h
      <4> QED
        BY <2>3, <3>2, <4>1, <4>2
    <3>3. CASE i = k
      <4>1. i - 1 \in 0..k /\ i - 1 # k
        BY <2>1, <3>3, <1>3
      <4>2. h[i] = Grown(graph, g[k - 1]) /\ h[i - 1] = g[k - 1]
        BY <3>3, <4>1
      <4> HIDE DEF h
      <4> QED
        BY <3>3, <4>2, <1>3
    <3> QED
      BY <3>1, <3>2, <3>3
  <2>5. IsStart(graph, S, h, k)
    <3>1. h = [i \in 0..k |-> h[i]]
      OBVIOUS
    <3> HIDE DEF h
    <3> QED
      BY <2>4, <3>1 DEF IsStart
  <2> QED
    BY <1>1, <2>5
<1> QED
  BY <1>2, <1>3

LEMMA StartsAgree ==
    ASSUME NEW graph, NEW S, NEW n \in Nat, NEW m \in Nat, NEW g, NEW h,
           IsStart(graph, S, g, n), IsStart(graph, S, h, m), NEW i \in Nat, i <= n, i <= m
    PROVE  g[i] = h[i]
<1> DEFINE T == {k \in Nat : k <= n /\ k <= m /\ g[k] # h[k]}
<1> SUFFICES ASSUME T # {} PROVE FALSE
  OBVIOUS
<1>1. PICK k \in T : \A j \in T : k <= j
  <2> HIDE DEF T
  <2> QED
    BY LeastNumber, T \in SUBSET Nat DEF T
<1>2. /\ g[k] = IF k = 0 THEN S ELSE Grown(graph, g[k - 1])
      /\ h[k] = IF k = 0 THEN S ELSE Grown(graph, h[k - 1])
  BY DEF IsStart
<1>3. k # 0 => k - 1 \in Nat /\ k - 1 \notin T /\ k - 1 <= n /\ k - 1 <= m
  BY <1>1
<1> QED
  BY <1>2, <1>3

\* The layers of the search: the recursive function of ReachedFrom is defined.
LEMMA LayersDef ==
    ASSUME NEW graph, NEW S
    PROVE  /\ Layers(graph, S)[0] = S
           /\ \A n \in Nat : Layers(graph, S)[n + 1] = Grown(graph, Layers(graph, S)[n])
           /\ ReachedFrom(graph, S) = Layers(graph, S)[Cardinality(DOMAIN graph)]
<1> DEFINE G(n) == CHOOSE g : IsStart(graph, S, g, n)
           F == [n \in Nat |-> G(n)[n]]
<1>1. \A n \in Nat : IsStart(graph, S, G(n), n)
  BY StartsExist
<1>2. F[0] = S
  <2>1. IsStart(graph, S, G(0), 0)
    BY <1>1
  <2> HIDE DEF G
  <2>2. G(0)[0] = S
    BY <2>1 DEF IsStart
  <2> QED
    BY <2>2
<1>3. ASSUME NEW n \in Nat PROVE F[n + 1] = Grown(graph, F[n])
  <2> HIDE DEF G
  <2>1. IsStart(graph, S, G(n), n) /\ IsStart(graph, S, G(n + 1), n + 1)
    BY <1>1
  <2>2. G(n + 1)[n + 1] = Grown(graph, G(n + 1)[n])
    BY <2>1 DEF IsStart
  <2>3. G(n + 1)[n] = G(n)[n]
    BY <2>1, StartsAgree
  <2> QED
    BY <2>2, <2>3
<1>4. IsLayers(graph, S, F)
  <2>1. F = [n \in Nat |-> F[n]]
    OBVIOUS
  <2> HIDE DEF F
  <2>2. \A n \in Nat : F[n] = IF n = 0 THEN S ELSE Grown(graph, F[n - 1])
    <3> SUFFICES ASSUME NEW n \in Nat, n # 0 PROVE F[n] = Grown(graph, F[n - 1])
      BY <1>2
    <3>1. n - 1 \in Nat /\ (n - 1) + 1 = n
      OBVIOUS
    <3> QED
      BY <1>3, <3>1
  <2> QED
    BY <2>1, <2>2 DEF IsLayers
<1>5. IsLayers(graph, S, Layers(graph, S))
  BY <1>4 DEF Layers
<1> DEFINE L == Layers(graph, S)
<1> HIDE DEF L, F, G
<1>6. L = [n \in Nat |-> IF n = 0 THEN S ELSE Grown(graph, L[n - 1])]
  BY <1>5 DEF IsLayers, L
<1>7. L[0] = S
  BY <1>6
<1>8. \A n \in Nat : L[n + 1] = Grown(graph, L[n])
  BY <1>6
<1>9. ReachedFrom(graph, S) = L[Cardinality(DOMAIN graph)]
  BY DEF ReachedFrom, Layers, IsLayers, Grown, L
<1> QED
  BY <1>7, <1>8, <1>9 DEF L

IsClosedUnder(graph, T) == \A x \in T \cap DOMAIN graph : graph[x] \subseteq T

\* The search stays within every closed set that contains its start, and grows.
LEMMA LayersWithin ==
    ASSUME NEW graph, NEW S, NEW T, S \subseteq T, IsClosedUnder(graph, T), NEW n \in Nat
    PROVE  Layers(graph, S)[n] \subseteq T
<1> DEFINE L == Layers(graph, S)
           B == {k \in Nat : ~(L[k] \subseteq T)}
<1>1. L[0] = S /\ \A k \in Nat : L[k + 1] = Grown(graph, L[k])
  BY LayersDef
<1> HIDE DEF L
<1> SUFFICES ASSUME B # {} PROVE FALSE
  BY DEF L
<1>2. PICK k \in B : \A j \in B : k <= j
  <2> HIDE DEF B
  <2> QED
    BY LeastNumber, B \in SUBSET Nat DEF B
<1>3. k # 0
  BY <1>1, <1>2
<1>4. k - 1 \in Nat /\ k - 1 \notin B /\ (k - 1) + 1 = k
  BY <1>2, <1>3
<1>5. L[k] = Grown(graph, L[k - 1]) /\ L[k - 1] \subseteq T
  BY <1>1, <1>4
<1>6. L[k] \subseteq T
  BY <1>5 DEF Grown, IsClosedUnder
<1> QED
  BY <1>6

\* It ends with a set that is closed: a step that adds no node of the graph is the last.
LEMMA LayersEnd ==
    ASSUME NEW graph, NEW S, IsFiniteSet(DOMAIN graph)
    PROVE  IsClosedUnder(graph, Layers(graph, S)[Cardinality(DOMAIN graph)])
<1> DEFINE L == Layers(graph, S)
           D == DOMAIN graph
           N == Cardinality(D)
           K(n) == Cardinality(L[n] \cap D)
<1>1. \A n \in Nat : L[n + 1] = Grown(graph, L[n])
  BY LayersDef
<1> HIDE DEF L
<1>2. N \in Nat /\ IsFiniteSet(D)
  BY FS_CardinalityType
<1>3. \A n : IsFiniteSet(L[n] \cap D) /\ K(n) \in Nat /\ K(n) <= N
  <2> SUFFICES ASSUME NEW n PROVE IsFiniteSet(L[n] \cap D) /\ K(n) \in Nat /\ K(n) <= N
    OBVIOUS
  <2>1. L[n] \cap D \subseteq D
    OBVIOUS
  <2> QED
    BY <1>2, <2>1, FS_Subset, FS_CardinalityType
<1> SUFFICES ASSUME ~IsClosedUnder(graph, L[N]) PROVE FALSE
  BY DEF L
<1>4. \A n \in Nat : n <= N => ~IsClosedUnder(graph, L[n])
  <2> DEFINE B == {k \in Nat : k <= N /\ IsClosedUnder(graph, L[N - k])}
  <2> SUFFICES ASSUME B # {} PROVE FALSE
    <3> SUFFICES ASSUME NEW n \in Nat, n <= N, IsClosedUnder(graph, L[n]) PROVE B # {}
      OBVIOUS
    <3>1. N - n \in Nat /\ N - n <= N /\ N - (N - n) = n
      BY <1>2
    <3> QED
      BY <3>1
  <2>1. PICK k \in B : \A j \in B : k <= j
    <3> HIDE DEF B
    <3> QED
      BY LeastNumber, B \in SUBSET Nat DEF B
  <2>2. k # 0
    BY <1>2, <2>1
  <2>3. k - 1 \in Nat /\ k - 1 \notin B /\ N - k \in Nat /\ N - (k - 1) = (N - k) + 1
    BY <1>2, <2>1, <2>2
  <2>4. L[(N - k) + 1] = Grown(graph, L[N - k]) /\ IsClosedUnder(graph, L[N - k])
    BY <1>1, <2>1, <2>3
  <2>5. L[(N - k) + 1] = L[N - k]
    BY <2>4 DEF Grown, IsClosedUnder
  <2>6. IsClosedUnder(graph, L[N - (k - 1)]) /\ k - 1 <= N
    BY <1>2, <2>3, <2>4, <2>5
  <2> QED
    BY <2>3, <2>6
<1>5. ASSUME NEW n \in Nat, n + 1 <= N PROVE K(n) + 1 <= K(n + 1)
  <2>1. L[n + 1] = Grown(graph, L[n]) /\ n + 1 \in Nat
    BY <1>1
  <2>2. L[n] \cap D \subseteq L[n + 1] \cap D
    BY <2>1 DEF Grown
  <2>3. L[n] \cap D # L[n + 1] \cap D
    BY <1>4, <1>5, <2>1 DEF Grown, IsClosedUnder
  <2>4. K(n) <= K(n + 1) /\ K(n) # K(n + 1)
    BY <1>3, <2>2, <2>3, FS_Subset
  <2>5. K(n) \in Nat /\ K(n + 1) \in Nat
    BY <1>3
  <2> HIDE DEF K
  <2> QED
    BY <2>4, <2>5
<1>6. K(0) # 0
  <2>1. ~IsClosedUnder(graph, L[0])
    BY <1>2, <1>4
  <2>2. L[0] \cap D # {}
    BY <2>1 DEF IsClosedUnder
  <2> QED
    BY <1>3, <2>2, FS_EmptySet
<1>7. \A n \in Nat : K(n) \in Nat /\ K(n) <= N
  BY <1>3
<1> HIDE DEF K, N
<1>8. \A n \in Nat : n <= N => n + 1 <= K(n)
  <2> DEFINE B == {n \in Nat : n <= N /\ ~(n + 1 <= K(n))}
  <2> SUFFICES ASSUME B # {} PROVE FALSE
    OBVIOUS
  <2>1. PICK n \in B : \A j \in B : n <= j
    <3> HIDE DEF B
    <3> QED
      BY LeastNumber, B \in SUBSET Nat DEF B
  <2>2. n # 0
    BY <1>6, <1>7, <2>1
  <2>3. n - 1 \in Nat /\ n - 1 \notin B /\ (n - 1) + 1 = n /\ n <= N
    BY <2>1, <2>2
  <2>4. n <= K(n - 1)
    BY <1>2, <2>3
  <2>5. K(n - 1) + 1 <= K(n)
    BY <1>5, <2>3
  <2> QED
    BY <1>7, <2>1, <2>3, <2>4, <2>5
<1> QED
  BY <1>2, <1>7, <1>8

LEMMA LayersGrow ==
    ASSUME NEW graph, NEW S, NEW n \in Nat
    PROVE  S \subseteq Layers(graph, S)[n]
<1> DEFINE L == Layers(graph, S)
           B == {k \in Nat : ~(S \subseteq L[k])}
<1>1. L[0] = S /\ \A k \in Nat : L[k + 1] = Grown(graph, L[k])
  BY LayersDef
<1> HIDE DEF L
<1> SUFFICES ASSUME B # {} PROVE FALSE
  BY DEF L
<1>2. PICK k \in B : \A j \in B : k <= j
  <2> HIDE DEF B
  <2> QED
    BY LeastNumber, B \in SUBSET Nat DEF B
<1>3. k # 0
  BY <1>1, <1>2
<1>4. k - 1 \in Nat /\ k - 1 \notin B /\ (k - 1) + 1 = k
  BY <1>2, <1>3
<1>5. L[k] = Grown(graph, L[k - 1]) /\ S \subseteq L[k - 1]
  BY <1>1, <1>4
<1> QED
  BY <1>2, <1>5 DEF Grown

\* What ReachedFrom computes: the least set that contains S and is closed under the
\* edges of the graph.
LEMMA Reached ==
    ASSUME NEW graph, NEW S, IsFiniteSet(DOMAIN graph)
    PROVE  /\ S \subseteq ReachedFrom(graph, S)
           /\ IsClosedUnder(graph, ReachedFrom(graph, S))
           /\ \A T : S \subseteq T /\ IsClosedUnder(graph, T) =>
                 ReachedFrom(graph, S) \subseteq T
<1>1. Cardinality(DOMAIN graph) \in Nat
  BY FS_CardinalityType
<1>2. ReachedFrom(graph, S) = Layers(graph, S)[Cardinality(DOMAIN graph)]
  BY LayersDef
<1> QED
  BY <1>1, <1>2, LayersGrow, LayersWithin, LayersEnd

-----------------------------------------------------------------------------
(* The abort pass: from the marks of the first processor and the answers of *)
(* the fifth to the goals.                                                  *)

InAbortCheck == target = AbortCheck /\ phase \in {"add", "start", "run", "emit"}

\* A system spec says that the function does not abort, or hides its aborts.
Promised == {pkg.of[s] : s \in Promising \cup Hiding}

\* The function the first processor has taken out is one it verifies.
Taking ==
    /\ pending # {} => busy # None
    /\ busy # None => /\ phase = "run" /\ step = 1 /\ group # {}
                      /\ busy \in Fns /\ info[busy].inlined
    /\ phase # "run" => group = {} /\ agenda = {}
    /\ phase = "add" => step = 1

\* A component waits for its callees; what is left to visit is in the holder.
Visiting ==
    phase = "run" =>
        /\ todo \subseteq group /\ group \subseteq targets
        /\ \A d \in agenda : d \subseteq targets
        /\ \A f \in group : \A g \in CallGraph[f] \ group : \A d \in agenda : g \notin d

MarksOK ==
    \A f \in Fns : /\ info[f].verified => info[f].inlined
                   /\ info[f].inlined => ~info[f].reachable
                   /\ info[f].essential => f \in pkg.native

\* The mark spreads from a function that is inlined to the ones it calls.
MarksSpread ==
    InAbortCheck => \A f \in Fns : info[f].inlined => \A c \in pkg.calls[f] :
        c \in Promised \/ info[c].inlined \/ <<"inlined", c>> \in pending

\* The first processor reaches every function marked no_abort, and keeps it.
CheckedKept ==
    InAbortCheck =>
        /\ phase = "run" /\ step = 1 =>
              \A f \in Code : TargetNoAbortCheck(f) => Unvisited(f) \/ info[f].verified
        /\ step > 1 =>
              /\ \A f \in Fns : info[f].inlined => f \in targets
              /\ \A f \in Code : TargetNoAbortCheck(f) => f \in targets
              /\ \A f \in targets \ pkg.native : info[f].inlined \/ info[f].reachable

\* The analysis is done with f.
Answered(f) == step > 5 \/ (f \notin group /\ \A d \in agenda : f \notin d)

\* Why a call of c does not abort unnoticed.
Excused(c) ==
    \/ c \in Promised
    \/ c \in pkg.native \ pkg.aborts
    \/ c \notin pkg.native /\ AbortChecked(c)
    \/ c \notin pkg.native /\ no_abort[c] = TRUE /\ Answered(c)

\* The answer TRUE is right, given the answers it was computed from.
AnswersRight ==
    InAbortCheck =>
        /\ DOMAIN no_abort = Fns
        /\ step < 5 \/ (step = 5 /\ phase # "run") => \A f \in Code : no_abort[f] # TRUE
        /\ \A f \in Code \ pkg.native : no_abort[f] = TRUE =>
              f \notin pkg.aborts /\ \A c \in pkg.calls[f] : Excused(c)

\* Where an abort can still come from unnoticed.
Open == Code \ ({f \in Code : <<"Check", <<"nac", f>>>> \in proofs} \cup Promised)

\* The functions that may abort unnoticed are among K, and none of them is marked.
Certifies(K) ==
    /\ pkg.aborts \cap Open \subseteq K
    /\ \A f \in K : \A c \in Open : f \in pkg.calls[c] => c \in K
    /\ \A f \in K : ~TargetNoAbortCheck(f)

Checked ==
    phase # "stop" =>
        \/ \E i \in DOMAIN passes : passes[i] = AbortCheck
        \/ InAbortCheck
        \/ \E K \in SUBSET Code : Certifies(K)

AbortInv ==
    /\ Taking /\ Visiting /\ MarksOK /\ MarksSpread /\ CheckedKept /\ AnswersRight
    /\ Checked

-----------------------------------------------------------------------------
(* What the pass rests on. *)

\* Only system specs are filed, none is proved here, and one that says nothing of
\* aborts, or that hides the body, is believed (process_spec, is_verified_spec).
LEMMA SystemSpecs ==
    ASSUME pkg \in Packages, HolderOK, target = AbortCheck
    PROVE  /\ \A s \in Specs : ~IsVerifiedSpec(s)
           /\ \A f \in Code : ~IsSpec(f) /\ (ShouldVerify(f) <=> TargetNoAbortCheck(f))
           /\ \A c : SpecByFun(c) # None =>
                 /\ SpecByFun(c) \in Specs
                 /\ SpecByFun(c) \notin pkg.asserts \cup pkg.ignore => c \in Promised
                 /\ SpecByFun(c) \notin pkg.omit => c \in Promised
<1>1. target.kind = "abort"
  BY DEF AbortCheck
<1>2. pkg.checked \subseteq Code
  BY PackagesOK DEF PackageOK
<1>3. \A s \in Specs : ~IsVerifiedSpec(s)
  BY <1>1, <1>2, NamesOK DEF IsVerifiedSpec, IsNoVerify, in_target
<1>4. \A f \in Code : ~IsSpec(f)
  BY NamesOK DEF IsSpec, HolderOK, Scenarios
<1>5. \A f \in Code : ShouldVerify(f) <=> TargetNoAbortCheck(f)
  BY <1>1, <1>4 DEF ShouldVerify, IsVerifiedSpec
<1>6. ASSUME NEW c, SpecByFun(c) # None
      PROVE  /\ SpecByFun(c) \in Specs
             /\ SpecByFun(c) \notin pkg.asserts \cup pkg.ignore => c \in Promised
             /\ SpecByFun(c) \notin pkg.omit => c \in Promised
  <2>1. SpecByFun(c) \in Specs /\ pkg.of[SpecByFun(c)] = c /\ Eligible(SpecByFun(c))
    BY <1>6, SpecOfFunction
  <2>2. SpecByFun(c) \in pkg.system
    BY <1>1, <2>1 DEF Eligible
  <2> QED
    BY <1>2, <2>1, <2>2 DEF Promised, Promising, Hiding
<1> QED
  BY <1>3, <1>4, <1>5, <1>6

LEMMA PackageFacts ==
    ASSUME pkg \in Packages
    PROVE  /\ pkg.calls \in [Fns -> SUBSET Code]
           /\ pkg.native \subseteq Code /\ pkg.aborts \subseteq Code
           /\ pkg.checked \subseteq Code /\ pkg.pure \subseteq Code
BY PackagesOK DEF PackageOK

\* A visit that leaves the marks and the answers alone.
LEMMA QuietVisit ==
    ASSUME AbortInv, todo' \subseteq todo, todo' = todo \/ step # 1,
           UNCHANGED <<fixed, holder, phase, step, info, marks, no_abort, proofs, group, agenda>>
    PROVE  AbortInv'
<1> USE DEF fixed, holder, marks
<1>1. Taking'
  BY DEF AbortInv, Taking
<1>2. CallGraph' = CallGraph
  BY DEF CallGraph, CalleeSpec, SpecByFun
<1>3. Visiting'
  BY <1>2 DEF AbortInv, Visiting
<1>4. MarksOK'
  BY DEF AbortInv, MarksOK
<1>5. Promised' = Promised /\ (InAbortCheck' <=> InAbortCheck)
  BY DEF Promised, Promising, Hiding, InAbortCheck, AbortCheck
<1>6. MarksSpread'
  BY <1>5 DEF AbortInv, MarksSpread
<1>7. \A f : TargetNoAbortCheck(f)' <=> TargetNoAbortCheck(f)
  BY DEF TargetNoAbortCheck, AbortChecked
<1>8. CheckedKept'
  BY <1>5, <1>7 DEF AbortInv, CheckedKept, Unvisited
<1>9. \A c : Excused(c)' <=> Excused(c)
  BY <1>5 DEF Excused, Answered, AbortChecked
<1>10. AnswersRight'
  BY <1>5, <1>9 DEF AbortInv, AnswersRight
<1>11. Open' = Open
  BY <1>5 DEF Open
<1>12. \A K : Certifies(K)' <=> Certifies(K)
  BY <1>7, <1>11 DEF Certifies
<1>13. Checked'
  BY <1>5, <1>12 DEF AbortInv, Checked, AbortCheck
<1> QED
  BY <1>1, <1>3, <1>4, <1>6, <1>8, <1>10, <1>13 DEF AbortInv

LEMMA MarksStay ==
    ASSUME AbortInv, UNCHANGED <<pkg, info, pending>>, InAbortCheck' => InAbortCheck
    PROVE  MarksOK' /\ MarksSpread'
<1>1. Promised' = Promised
  BY DEF Promised, Promising, Hiding
<1>2. MarksOK'
  BY DEF AbortInv, MarksOK
<1>3. MarksSpread'
  BY <1>1 DEF AbortInv, MarksSpread
<1> QED
  BY <1>2, <1>3

LEMMA AnswersStay ==
    ASSUME AbortInv, UNCHANGED <<pkg, no_abort>>, InAbortCheck' => InAbortCheck,
           \/ \A f \in Code : no_abort[f] # TRUE
           \/ /\ step' < 5 \/ (step' = 5 /\ phase' # "run") =>
                     step < 5 \/ (step = 5 /\ phase # "run")
              /\ \A c : Answered(c) => Answered(c)'
    PROVE  AnswersRight'
<1>1. Promised' = Promised
  BY DEF Promised, Promising, Hiding
<1>2. CASE \A f \in Code : no_abort[f] # TRUE
  BY <1>2 DEF AbortInv, AnswersRight
<1>3. CASE /\ step' < 5 \/ (step' = 5 /\ phase' # "run") =>
                 step < 5 \/ (step = 5 /\ phase # "run")
           /\ \A c : Answered(c) => Answered(c)'
  <2>1. \A c : Excused(c) => Excused(c)'
    BY <1>1, <1>3 DEF Excused, AbortChecked
  <2> QED
    BY <1>3, <2>1 DEF AbortInv, AnswersRight
<1> QED
  BY <1>2, <1>3

LEMMA CheckedStays ==
    ASSUME AbortInv, UNCHANGED <<pkg, target, passes, proofs>>, phase # "stop",
           InAbortCheck => InAbortCheck' \/ phase' = "stop"
    PROVE  Checked'
<1>1. Promised' = Promised
  BY DEF Promised, Promising, Hiding
<1>2. Open' = Open
  BY <1>1 DEF Open
<1>3. \A K : Certifies(K)' <=> Certifies(K)
  BY <1>2 DEF Certifies, TargetNoAbortCheck, AbortChecked
<1>4. AbortCheck' = AbortCheck
  BY DEF AbortCheck
<1> QED
  BY <1>3, <1>4 DEF AbortInv, Checked

-----------------------------------------------------------------------------
(* The steps between the visits. *)

LEMMA NextPassKeepsAbortInv == Inv /\ AbortInv /\ NextPass /\ UNCHANGED backend => AbortInv'
<1> SUFFICES ASSUME Inv, AbortInv, NextPass, UNCHANGED backend PROVE AbortInv'
  OBVIOUS
<1> USE DEF NextPass, FreshHolder, backend
<1>1. pkg \in Packages /\ passes \in Seq(Passes(pkg)) /\ passes # <<>>
  BY DEF Inv, TypeOK
<1>2. Taking' /\ Visiting'
  BY DEF Taking, Visiting
<1>3. \A f \in Fns : info'[f] = Unmarked
  OBVIOUS
<1>4. MarksOK' /\ MarksSpread' /\ CheckedKept'
  BY <1>3 DEF MarksOK, MarksSpread, CheckedKept, Unmarked
<1>5. AnswersRight'
  <2>1. \A f \in Code : no_abort'[f] # TRUE
    BY NamesOK DEF Fns
  <2>2. DOMAIN no_abort' = Fns
    OBVIOUS
  <2> QED
    BY <2>1, <2>2 DEF AnswersRight
<1>6. Checked'
  <2>1. \/ \E i \in DOMAIN passes : passes[i] = AbortCheck
        \/ \E K \in SUBSET Code : Certifies(K)
    BY DEF AbortInv, Checked, InAbortCheck
  <2>2. ASSUME NEW i \in DOMAIN passes, passes[i] = AbortCheck
        PROVE  (\E j \in DOMAIN passes' : passes'[j] = AbortCheck) \/ InAbortCheck'
    <3>1. CASE i = 1
      BY <1>1, <2>2, <3>1 DEF InAbortCheck, AbortCheck
    <3>2. CASE i # 1
      <4>1. i - 1 \in DOMAIN Tail(passes) /\ Tail(passes)[i - 1] = passes[i]
        BY <1>1, <3>2
      <4> QED
        BY <2>2, <4>1
    <3> QED
      BY <3>1, <3>2
  <2>3. ASSUME NEW K \in SUBSET Code, Certifies(K)
        PROVE  Certifies(K)'
    <3>1. Open' = Open
      BY DEF Open, Promised, Promising, Hiding
    <3> QED
      BY <2>3, <3>1 DEF Certifies, TargetNoAbortCheck, AbortChecked
  <2>4. AbortCheck' = AbortCheck
    BY DEF AbortCheck
  <2> QED
    BY <2>1, <2>2, <2>3, <2>4 DEF Checked
<1> QED
  BY <1>2, <1>4, <1>5, <1>6 DEF AbortInv

\* The holder is filled: nothing is marked yet.
LEMMA AddKeepsAbortInv ==
    ASSUME Inv, AbortInv, UNCHANGED backend, AddTarget \/ Added
    PROVE  AbortInv'
<1> USE DEF fixed, holder, annotations, outputs, marks, backend, schedule
<1>1. /\ phase = "add" /\ phase' \in {"add", "start"} /\ step' = step
      /\ UNCHANGED <<pkg, target, passes, proofs, info, marks, no_abort, agenda, group>>
  BY DEF AddTarget, Added
<1>2. step = 1
  BY <1>1 DEF AbortInv, Taking
<1>3. InAbortCheck <=> InAbortCheck'
  BY <1>1 DEF InAbortCheck, AbortCheck
<1>4. Taking' /\ Visiting' /\ CheckedKept'
  BY <1>1, <1>2 DEF AbortInv, Taking, Visiting, CheckedKept
<1>5. AnswersRight'
  <2>1. \A c : Answered(c) => Answered(c)'
    BY <1>1 DEF Answered
  <2> QED
    BY <1>1, <1>2, <1>3, <2>1, AnswersStay
<1>6. Checked'
  BY <1>1, <1>3, CheckedStays
<1> QED
  BY <1>1, <1>3, <1>4, <1>5, <1>6, MarksStay DEF AbortInv

LEMMA StartKeepsAbortInv ==
    Inv /\ AbortInv /\ StartProcessor /\ UNCHANGED backend => AbortInv'
<1> SUFFICES ASSUME Inv, AbortInv, StartProcessor, UNCHANGED backend PROVE AbortInv'
  OBVIOUS
<1> USE DEF StartProcessor, fixed, holder, outputs, marks, backend
<1>1. /\ phase = "start" /\ phase' = "run" /\ step \in 1..9 /\ targets \subseteq Fns
      /\ UNCHANGED <<pkg, target, passes, proofs, info, marks, no_abort, group, step, targets>>
      /\ group = {} /\ todo = {}
  BY DEF Inv, TypeOK, AbortInv, Taking, Schedule
<1>2. InAbortCheck <=> InAbortCheck'
  BY <1>1 DEF InAbortCheck, AbortCheck
<1>3. \A d \in agenda' : d \subseteq targets
  BY DEF Components, Component, CallGraph
<1>4. Taking' /\ Visiting'
  BY <1>1, <1>3 DEF AbortInv, Taking, Visiting
<1>5. CheckedKept'
  <2>1. \A f : TargetNoAbortCheck(f)' <=> TargetNoAbortCheck(f)
    BY DEF TargetNoAbortCheck, AbortChecked
  <2>2. step = 1 => \A f \in Code : Unvisited(f)'
    BY <1>1, AllUnvisited DEF Inv, Filed, Fns
  <2> QED
    BY <1>1, <1>2, <2>1, <2>2 DEF AbortInv, CheckedKept
<1>6. AnswersRight'
  <2>1. CASE InAbortCheck /\ step <= 5
    <3>1. step < 5 \/ (step = 5 /\ phase # "run")
      BY <1>1, <2>1
    <3>2. \A f \in Code : no_abort[f] # TRUE
      BY <2>1, <3>1 DEF AbortInv, AnswersRight
    <3> QED
      BY <1>1, <1>2, <3>2, AnswersStay
  <2>2. CASE InAbortCheck /\ step > 5
    <3>1. \A c : Answered(c)'
      BY <1>1, <2>2 DEF Answered
    <3> QED
      BY <1>1, <1>2, <2>2, <3>1, AnswersStay
  <2>3. CASE ~InAbortCheck
    BY <1>2, <2>3 DEF AnswersRight
  <2> QED
    BY <1>1, <2>1, <2>2, <2>3
<1>7. Checked'
  BY <1>1, <1>2, CheckedStays
<1> QED
  BY <1>1, <1>2, <1>4, <1>5, <1>6, <1>7, MarksStay DEF AbortInv

\* A component is opened once none of its callees is still to come, and closed.
LEMMA TurnKeepsAbortInv ==
    ASSUME Inv, AbortInv, UNCHANGED backend, VisitComponent \/ EndRound
    PROVE  AbortInv'
<1> USE DEF fixed, holder, annotations, outputs, marks, backend
<1>1. /\ phase = "run" /\ phase' = "run"
      /\ UNCHANGED <<pkg, target, passes, proofs, info, marks, no_abort, step, targets,
                     function_specs>>
  BY DEF VisitComponent, EndRound
<1>2. InAbortCheck <=> InAbortCheck'
  BY <1>1 DEF InAbortCheck, AbortCheck
<1>3. CallGraph' = CallGraph
  BY <1>1 DEF CallGraph, CalleeSpec, SpecByFun
<1>4. \A f : TargetNoAbortCheck(f)' <=> TargetNoAbortCheck(f)
  BY <1>1 DEF TargetNoAbortCheck, AbortChecked
<1>5. MarksOK' /\ MarksSpread' /\ Checked'
  BY <1>1, <1>2, MarksStay, CheckedStays
<1>6. CASE VisitComponent
  <2>1. PICK c \in agenda : /\ group = {} /\ Ready(c)
                            /\ group' = c /\ todo' = c /\ agenda' = agenda \ {c}
    BY <1>6 DEF VisitComponent
  <2>2. Taking'
    BY <1>1, <2>1 DEF AbortInv, Taking
  <2>3. c \subseteq targets /\ \A d \in agenda : d \subseteq targets
    BY <1>1, <2>1 DEF AbortInv, Visiting
  <2>4. \A f \in c : \A g \in CallGraph[f] \ c : \A d \in agenda : g \notin d
    BY <2>1 DEF Ready
  <2>5. Visiting'
    BY <1>1, <1>3, <2>1, <2>3, <2>4 DEF Visiting
  <2>6. \A f : Answered(f) => Answered(f)'
    BY <1>1, <2>1 DEF Answered
  <2>7. todo = {}
    BY <2>1 DEF Inv, Schedule
  <2>8. \A f : Unvisited(f) => Unvisited(f)'
    BY <2>1, <2>7 DEF Unvisited
  <2>9. CheckedKept'
    BY <1>1, <1>2, <1>4, <2>8 DEF AbortInv, CheckedKept
  <2>10. AnswersRight'
    BY <1>1, <1>2, <2>6, AnswersStay
  <2> QED
    BY <1>5, <2>2, <2>5, <2>9, <2>10 DEF AbortInv
<1>7. CASE EndRound
  <2>1. /\ agenda' = agenda /\ busy = None /\ todo = {}
        /\ \/ group' = group /\ todo' = group
           \/ group' = {} /\ todo' = {}
    BY <1>7 DEF EndRound
  <2>2. Taking'
    BY <1>1, <2>1 DEF AbortInv, Taking
  <2>3. Visiting'
    BY <1>1, <1>3, <2>1 DEF AbortInv, Visiting
  <2>4. \A f : Answered(f) => Answered(f)'
    BY <1>1, <2>1 DEF Answered
  <2>5. \A f : Unvisited(f) => Unvisited(f)'
    BY <2>1 DEF Unvisited
  <2>6. CheckedKept'
    BY <1>1, <1>2, <1>4, <2>5 DEF AbortInv, CheckedKept
  <2>7. AnswersRight'
    BY <1>1, <1>2, <2>4, AnswersStay
  <2> QED
    BY <1>5, <2>2, <2>3, <2>6, <2>7 DEF AbortInv
<1> QED
  BY <1>6, <1>7

\* What the first processor removes is neither marked no_abort nor inlined.
LEMMA EndProcessorKeepsAbortInv ==
    Inv /\ AbortInv /\ EndProcessor /\ UNCHANGED backend => AbortInv'
<1> SUFFICES ASSUME Inv, AbortInv, EndProcessor, UNCHANGED backend PROVE AbortInv'
  OBVIOUS
<1> USE DEF fixed, holder, annotations, outputs, marks, backend
<1>1. /\ phase = "run" /\ group = {} /\ agenda = {} /\ step \in 1..9
      /\ UNCHANGED <<pkg, target, passes, proofs, info, marks, no_abort, group, agenda>>
  BY DEF EndProcessor, Inv, TypeOK
<1>2. \A s : ~Unvisited(s)
  BY <1>1 DEF Inv, Schedule, Unvisited
<1>3. \/ phase' = "stop" /\ step' = step
      \/ phase' = "emit" /\ step' = step /\ step = 9
      \/ phase' = "start" /\ step' = step + 1 /\ step # 9
  BY <1>1, ProcessorNames DEF EndProcessor, Advance
<1>4. (InAbortCheck' => InAbortCheck) /\ (InAbortCheck => InAbortCheck' \/ phase' = "stop")
  BY <1>1, <1>3 DEF InAbortCheck, AbortCheck
<1>5. MarksOK' /\ MarksSpread' /\ Checked'
  BY <1>1, <1>4, MarksStay, CheckedStays
<1>6. Taking' /\ Visiting'
  BY <1>1, <1>3 DEF AbortInv, Taking, Visiting
<1>7. AnswersRight'
  <2>1. \A f : Answered(f)'
    BY <1>1 DEF Answered
  <2>2. CASE phase' = "stop"
    BY <2>2 DEF AnswersRight, InAbortCheck
  <2>3. CASE phase' # "stop"
    <3>1. step' < 5 \/ (step' = 5 /\ phase' # "run") =>
             step < 5 \/ (step = 5 /\ phase # "run")
      BY <1>1, <1>3, <2>3
    <3>2. UNCHANGED <<pkg, no_abort>> /\ \A c : Answered(c) => Answered(c)'
      BY <1>1, <2>1
    <3> QED
      BY <1>4, <3>1, <3>2, AnswersStay
  <2> QED
    BY <2>2, <2>3
<1>8. CheckedKept'
  <2> SUFFICES ASSUME InAbortCheck' PROVE CheckedKept'
    BY DEF CheckedKept
  <2>1. InAbortCheck /\ phase' # "run" /\ step' > 1
    BY <1>1, <1>3, <1>4 DEF InAbortCheck
  <2>2. \A f : TargetNoAbortCheck(f)' <=> TargetNoAbortCheck(f)
    BY <1>1 DEF TargetNoAbortCheck, AbortChecked
  <2>3. CASE step = 1
    <3> DEFINE used == {f \in targets : info[f].verified \/ info[f].inlined
                                        \/ info[f].essential \/ info[f].reachable}
    <3>1. targets' = used
      BY <2>3, ProcessorNames DEF EndProcessor
    <3>2. targets = Fns
      BY <1>1, <2>3 DEF Inv, Filed
    <3>3. \A f \in Code : TargetNoAbortCheck(f) => info[f].verified
      BY <1>1, <1>2, <2>1, <2>3 DEF AbortInv, CheckedKept
    <3>4. \A f \in used \ pkg.native : info[f].inlined \/ info[f].reachable
      BY <3>2 DEF AbortInv, MarksOK
    <3> QED
      BY <1>1, <2>1, <2>2, <3>1, <3>2, <3>3, <3>4 DEF CheckedKept, Fns
  <2>4. CASE step # 1
    <3>1. targets' = targets
      BY <1>1, <2>4, ProcessorNames DEF EndProcessor
    <3> QED
      BY <1>1, <2>1, <2>2, <2>4, <3>1 DEF AbortInv, CheckedKept
  <2> QED
    BY <2>3, <2>4
<1> QED
  BY <1>5, <1>6, <1>7, <1>8 DEF AbortInv

LEMMA SingleRunKeepsAbortInv ==
    ASSUME Inv, AbortInv, UNCHANGED backend, DetectPureCallees \/ Monomorphize
    PROVE  AbortInv'
<1> USE DEF fixed, holder, annotations, marks, backend
<1>1. /\ phase = "start" /\ step \in {7, 9}
      /\ UNCHANGED <<pkg, target, passes, proofs, info, marks, no_abort, group, agenda, targets>>
      /\ Advance
  <2>1. CASE DetectPureCallees
    BY <2>1, ProcessorNames DEF DetectPureCallees, Inv, TypeOK
  <2>2. CASE Monomorphize
    BY <2>2, ProcessorNames DEF Monomorphize, Inv, TypeOK
  <2> QED
    BY <2>1, <2>2
<1>2. step' \in {7, 8, 9} /\ phase' \in {"stop", "emit", "start"}
  BY <1>1, ProcessorNames DEF Advance
<1>3. (InAbortCheck' => InAbortCheck) /\ (InAbortCheck => InAbortCheck' \/ phase' = "stop")
  BY <1>1, <1>2 DEF InAbortCheck, AbortCheck
<1>4. MarksOK' /\ MarksSpread' /\ Checked'
  BY <1>1, <1>3, MarksStay, CheckedStays
<1>5. Taking' /\ Visiting'
  BY <1>1, <1>2 DEF AbortInv, Taking, Visiting
<1>6. AnswersRight'
  <2>1. \A c : Answered(c) => Answered(c)'
    BY <1>2 DEF Answered
  <2>2. ~(step' < 5 \/ (step' = 5 /\ phase' # "run"))
    BY <1>2
  <2> QED
    BY <1>1, <1>3, <2>1, <2>2, AnswersStay
<1>7. CheckedKept'
  <2>1. \A f : TargetNoAbortCheck(f)' <=> TargetNoAbortCheck(f)
    BY <1>1 DEF TargetNoAbortCheck, AbortChecked
  <2> QED
    BY <1>1, <1>2, <1>3, <2>1 DEF AbortInv, CheckedKept
<1> QED
  BY <1>4, <1>5, <1>6, <1>7 DEF AbortInv

-----------------------------------------------------------------------------
(* The marks of the first processor. *)

\* What spreads from a function: every callee is promised or marked inlined.
LEMMA CalleesAreMarked ==
    ASSUME pkg \in Packages, HolderOK, target = AbortCheck, NEW f, NEW c \in pkg.calls[f]
    PROVE  c \in Promised \/ <<"inlined", c>> \in CalleeMarks(f)
<1> DEFINE s == SpecByFun(c)
           hidden == /\ s # None /\ ~IsVerifiedSpec(s) /\ s \notin pkg.omit
                     /\ c \notin pkg.pure \cup pure_callees
           marked == {<<IF hidden THEN "reachable" ELSE "inlined", c>>}
                        \cup (IF s # None THEN {<<"inlined", s>>} ELSE {})
<1>1. marked \subseteq CalleeMarks(f)
  BY DEF CalleeMarks
<1>2. hidden => c \in Promised
  BY SystemSpecs
<1>3. ~hidden => <<"inlined", c>> \in marked
  OBVIOUS
<1> QED
  BY <1>1, <1>2, <1>3

\* The marks are made one by one; a function already inlined needs none.
LEMMA MarkCalleeKeepsAbortInv ==
    Inv /\ AbortInv /\ MarkCallee /\ UNCHANGED backend => AbortInv'
<1> SUFFICES ASSUME Inv, AbortInv, MarkCallee, UNCHANGED backend PROVE AbortInv'
  OBVIOUS
<1> USE DEF fixed, holder, annotations, outputs, schedule, backend
<1>1. /\ pkg \in Packages /\ info \in [Fns -> Marks] /\ targets \subseteq Fns
      /\ UNCHANGED <<pkg, target, passes, proofs, no_abort, phase, step, agenda, group, todo,
                     busy, targets, function_specs>>
  BY DEF Inv, TypeOK, MarkCallee
<1>2. /\ pending # {} /\ busy # None /\ phase = "run" /\ step = 1
      /\ busy \in Fns /\ info[busy].inlined
  BY DEF MarkCallee, AbortInv, Taking
<1>3. HolderOK /\ targets = Fns
  BY <1>2 DEF Inv, Filed
<1>4. PICK m \in pending :
         LET fun == m[2]
             here == fun \in targets /\ fun # busy
             inline == m[1] = "inlined" /\ here /\ ~info[fun].inlined
             reach == /\ m[1] = "reachable" /\ here
                      /\ ~info[fun].inlined /\ ~info[fun].reachable /\ ~info[fun].verified
         IN /\ info' = IF inline THEN [info EXCEPT ![fun].inlined = TRUE,
                                                   ![fun].reachable = FALSE]
                       ELSE IF reach THEN [info EXCEPT ![fun].reachable = TRUE]
                       ELSE info
            /\ pending' = (pending \ {m})
                          \cup (IF inline THEN CalleeMarks(fun) ELSE {})
                          \cup (IF reach THEN {<<"reachable", c>> : c \in pkg.calls[fun]}
                                ELSE {})
  BY DEF MarkCallee
<1> DEFINE fun == m[2]
           inline == m[1] = "inlined" /\ fun \in targets /\ fun # busy /\ ~info[fun].inlined
<1>5. \A f \in Fns :
         /\ info'[f].verified = info[f].verified
         /\ info'[f].essential = info[f].essential
         /\ info'[f].inlined = (info[f].inlined \/ (inline /\ f = fun))
         /\ info'[f].inlined => ~info'[f].reachable
  <2> SUFFICES ASSUME NEW f \in Fns
               PROVE  /\ info'[f].verified = info[f].verified
                      /\ info'[f].essential = info[f].essential
                      /\ info'[f].inlined = (info[f].inlined \/ (inline /\ f = fun))
                      /\ info'[f].inlined => ~info'[f].reachable
    OBVIOUS
  <2>1. info[f] \in Marks /\ (info[f].inlined => ~info[f].reachable)
    BY <1>1 DEF AbortInv, MarksOK
  <2>2. CASE inline
    <3> DEFINE one == [info EXCEPT ![fun].inlined = TRUE]
    <3>1. info' = [one EXCEPT ![fun].reachable = FALSE]
      BY <1>4, <2>2
    <3>2. /\ one \in [Fns -> Marks] /\ fun \in Fns
          /\ one[f].verified = info[f].verified /\ one[f].essential = info[f].essential
          /\ one[f].inlined = (info[f].inlined \/ f = fun)
          /\ f # fun => one[f] = info[f]
      BY <1>1, <2>1, <2>2 DEF Marks
    <3> HIDE DEF one
    <3>3. f # fun => info'[f] = one[f]
      BY <3>1, <3>2
    <3>4. f = fun => info'[f] = [one[f] EXCEPT !.reachable = FALSE]
      BY <3>1, <3>2
    <3>5. one[f] \in Marks
      BY <3>2
    <3>6. CASE f = fun
      BY <2>1, <2>2, <3>2, <3>4, <3>5, <3>6 DEF Marks
    <3>7. CASE f # fun
      BY <2>1, <2>2, <3>2, <3>3, <3>7
    <3> QED
      BY <3>6, <3>7
  <2>3. CASE ~inline
    <3>1. \/ info' = info
          \/ info' = [info EXCEPT ![fun].reachable = TRUE] /\ ~info[fun].inlined
      BY <1>4, <2>3
    <3> QED
      BY <1>1, <2>1, <2>3, <3>1 DEF Marks
  <2> QED
    BY <2>2, <2>3
<1>6. MarksOK'
  BY <1>1, <1>5 DEF AbortInv, MarksOK
<1>7. Taking'
  <2>1. info'[busy].inlined
    BY <1>2, <1>5
  <2> QED
    BY <1>1, <1>2, <2>1 DEF AbortInv, Taking
<1>8. CallGraph' = CallGraph
  BY <1>1 DEF CallGraph, CalleeSpec, SpecByFun
<1>9. Visiting'
  BY <1>1, <1>8 DEF AbortInv, Visiting
<1>10. (InAbortCheck' <=> InAbortCheck) /\ Promised' = Promised
  BY <1>1 DEF InAbortCheck, AbortCheck, Promised, Promising, Hiding
<1>11. MarksSpread'
  <2> SUFFICES ASSUME InAbortCheck, NEW f \in Fns, info'[f].inlined, NEW c \in pkg.calls[f]
               PROVE  c \in Promised \/ info'[c].inlined \/ <<"inlined", c>> \in pending'
    BY <1>1, <1>10 DEF MarksSpread
  <2>1. c \in Code /\ c \in Fns /\ target = AbortCheck
    BY <1>1, PackageFacts DEF Fns, InAbortCheck
  <2>2. CASE info[f].inlined
    <3>1. c \in Promised \/ info[c].inlined \/ <<"inlined", c>> \in pending
      BY <2>2 DEF AbortInv, MarksSpread
    <3>2. info[c].inlined => info'[c].inlined
      BY <1>5, <2>1
    <3>3. ASSUME <<"inlined", c>> \in pending, <<"inlined", c>> \notin pending'
          PROVE  info'[c].inlined
      <4>1. m = <<"inlined", c>>
        BY <1>4, <3>3
      <4>2. fun = c /\ m[1] = "inlined"
        BY <4>1
      <4>3. inline \/ info[c].inlined
        BY <1>2, <1>3, <2>1, <4>2
      <4> QED
        BY <1>5, <2>1, <4>2, <4>3
    <3> QED
      BY <3>1, <3>2, <3>3
  <2>3. CASE ~info[f].inlined
    <3>1. inline /\ f = fun
      BY <1>5, <2>3
    <3>2. CalleeMarks(fun) \subseteq pending'
      BY <1>4, <3>1
    <3> QED
      BY <1>1, <1>3, <2>1, <3>1, <3>2, CalleesAreMarked
  <2> QED
    BY <2>2, <2>3
<1>12. CheckedKept'
  <2>1. \A f : /\ TargetNoAbortCheck(f)' <=> TargetNoAbortCheck(f)
               /\ Unvisited(f)' <=> Unvisited(f)
    BY <1>1 DEF TargetNoAbortCheck, AbortChecked, Unvisited
  <2> QED
    BY <1>1, <1>2, <1>5, <1>10, <2>1 DEF AbortInv, CheckedKept, Fns
<1>13. AnswersRight'
  <2>1. \A c : Answered(c) => Answered(c)'
    BY <1>1 DEF Answered
  <2> QED
    BY <1>1, <1>10, <2>1, AnswersStay
<1>14. Checked'
  BY <1>1, <1>2, <1>10, CheckedStays
<1> QED
  BY <1>6, <1>7, <1>9, <1>11, <1>12, <1>13, <1>14 DEF AbortInv

LEMMA PutBackKeepsAbortInv == Inv /\ AbortInv /\ PutBack /\ UNCHANGED backend => AbortInv'
<1> SUFFICES ASSUME Inv, AbortInv, PutBack, UNCHANGED backend PROVE AbortInv'
  OBVIOUS
<1> USE DEF PutBack, fixed, holder, annotations, outputs, schedule, backend
<1>1. Taking'
  BY DEF AbortInv, Taking
<1>2. CallGraph' = CallGraph
  BY DEF CallGraph, CalleeSpec, SpecByFun
<1>3. Visiting'
  BY <1>2 DEF AbortInv, Visiting
<1>4. (InAbortCheck' <=> InAbortCheck) /\ phase # "stop"
  BY DEF InAbortCheck, AbortCheck, AbortInv, Taking
<1>5. CheckedKept'
  <2>1. \A f : /\ TargetNoAbortCheck(f)' <=> TargetNoAbortCheck(f)
               /\ Unvisited(f)' <=> Unvisited(f)
    BY DEF TargetNoAbortCheck, AbortChecked, Unvisited
  <2> QED
    BY <1>4, <2>1 DEF AbortInv, CheckedKept
<1>6. AnswersRight'
  <2>1. \A c : Answered(c) => Answered(c)'
    BY DEF Answered
  <2> QED
    BY <1>4, <2>1, AnswersStay
<1>7. MarksOK' /\ MarksSpread' /\ Checked'
  BY <1>4, MarksStay, CheckedStays
<1> QED
  BY <1>1, <1>3, <1>5, <1>6, <1>7 DEF AbortInv

\* The first processor marks the functions it verifies, and what they call.
LEMMA VerifyFunctionKeepsAbortInv ==
    ASSUME Inv, AbortInv, NEW f \in todo, VerifyFunction(f), UNCHANGED backend
    PROVE  AbortInv'
<1> USE DEF Take, fixed, holder, marks, annotations, outputs, backend
<1>1. /\ phase = "run" /\ step = 1 /\ busy = None /\ todo' = todo \ {f}
      /\ UNCHANGED <<pkg, target, passes, proofs, no_abort, phase, step, agenda, group,
                     targets, function_specs>>
  BY ProcessorNames DEF VerifyFunction, Running, Inv, TypeOK
<1>2. /\ pkg \in Packages /\ info \in [Fns -> Marks] /\ HolderOK /\ targets = Fns
      /\ pending = {} /\ f \in group /\ f \in Fns
  BY <1>1 DEF Inv, TypeOK, Filed, AbortInv, Taking, Visiting
<1> DEFINE essential == f \in pkg.native /\ pkg.home[f] \in pkg.libs
           old == [info[f] EXCEPT !.essential = @ \/ essential]
           new == [old EXCEPT !.verified = TRUE, !.inlined = TRUE, !.reachable = FALSE]
           verifies == ShouldVerify(f) /\ ~old.verified
<1>3. IF verifies
      THEN info' = [info EXCEPT ![f] = new] /\ busy' = f /\ pending' = CalleeMarks(f)
      ELSE info' = [info EXCEPT ![f] = old] /\ busy' = busy /\ pending' = pending
  BY DEF VerifyFunction
<1>4. /\ old \in Marks /\ new \in Marks
      /\ old.verified = info[f].verified /\ old.inlined = info[f].inlined
      /\ old.reachable = info[f].reachable /\ old.essential = (info[f].essential \/ essential)
      /\ new.verified /\ new.inlined /\ ~new.reachable /\ new.essential = old.essential
  <2>1. info[f] \in Marks
    BY <1>2
  <2>2. /\ old \in Marks
        /\ old.verified = info[f].verified /\ old.inlined = info[f].inlined
        /\ old.reachable = info[f].reachable
        /\ old.essential = (info[f].essential \/ essential)
    BY <2>1 DEF Marks
  <2>3. ASSUME NEW m \in Marks
        PROVE  LET n == [m EXCEPT !.verified = TRUE, !.inlined = TRUE, !.reachable = FALSE]
               IN  n \in Marks /\ n.verified /\ n.inlined /\ ~n.reachable
                   /\ n.essential = m.essential
    BY DEF Marks
  <2> QED
    BY <2>2, <2>3
<1> HIDE DEF old, new, essential
<1>5. /\ \A x \in Fns : x # f => info'[x] = info[x]
      /\ info'[f] = IF verifies THEN new ELSE old
  BY <1>2, <1>3
<1>6. MarksOK'
  <2>1. essential => f \in pkg.native
    BY DEF essential
  <2>2. \A x \in Fns : /\ info'[x].verified => info'[x].inlined
                       /\ info'[x].inlined => ~info'[x].reachable
                       /\ info'[x].essential => x \in pkg.native
    BY <1>2, <1>4, <1>5, <2>1 DEF AbortInv, MarksOK
  <2> QED
    BY <1>1, <2>2 DEF MarksOK
<1>7. Taking'
  <2>1. CASE verifies
    <3>1. busy' = f /\ info'[f].inlined
      BY <1>3, <1>4, <1>5, <2>1
    <3>2. f # None /\ group # {}
      BY <1>2, NamesOK
    <3> QED
      BY <1>1, <1>2, <3>1, <3>2 DEF Taking
  <2>2. CASE ~verifies
    BY <1>1, <1>2, <1>3, <2>2 DEF Taking
  <2> QED
    BY <2>1, <2>2
<1>8. CallGraph' = CallGraph
  BY <1>1 DEF CallGraph, CalleeSpec, SpecByFun
<1>9. Visiting'
  BY <1>1, <1>8 DEF AbortInv, Visiting
<1>10. (InAbortCheck' <=> InAbortCheck) /\ Promised' = Promised
  BY <1>1 DEF InAbortCheck, AbortCheck, Promised, Promising, Hiding
<1>11. MarksSpread'
  <2> SUFFICES ASSUME InAbortCheck, NEW x \in Fns, info'[x].inlined, NEW c \in pkg.calls[x]
               PROVE  c \in Promised \/ info'[c].inlined \/ <<"inlined", c>> \in pending'
    BY <1>1, <1>10 DEF MarksSpread
  <2>1. c \in Fns /\ target = AbortCheck
    BY <1>2, PackageFacts DEF Fns, InAbortCheck
  <2>2. CASE info[x].inlined
    <3>1. c \in Promised \/ info[c].inlined
      BY <1>2, <2>2 DEF AbortInv, MarksSpread
    <3> QED
      BY <1>4, <1>5, <2>1, <3>1
  <2>3. CASE ~info[x].inlined
    <3>1. x = f /\ verifies
      BY <1>4, <1>5, <2>3
    <3> QED
      BY <1>2, <1>3, <2>1, <3>1, CalleesAreMarked
  <2> QED
    BY <2>2, <2>3
<1>12. CheckedKept'
  <2> SUFFICES ASSUME InAbortCheck, NEW x \in Code, TargetNoAbortCheck(x)
               PROVE  Unvisited(x)' \/ info'[x].verified
    BY <1>1, <1>10 DEF CheckedKept, TargetNoAbortCheck, AbortChecked
  <2>1. x \in Fns /\ target = AbortCheck
    BY DEF Fns, InAbortCheck
  <2>2. Unvisited(x) \/ info[x].verified
    BY <1>1 DEF AbortInv, CheckedKept
  <2>3. CASE x = f
    <3>1. ShouldVerify(f)
      BY <1>2, <2>1, <2>3, SystemSpecs
    <3> QED
      BY <1>4, <1>5, <2>3, <3>1
  <2>4. CASE x # f
    <3>1. Unvisited(x) => Unvisited(x)'
      BY <1>1, <2>4 DEF Unvisited
    <3> QED
      BY <1>5, <2>1, <2>2, <2>4, <3>1
  <2> QED
    BY <2>3, <2>4
<1>13. AnswersRight'
  <2>1. \A c : Answered(c) => Answered(c)'
    BY <1>1 DEF Answered
  <2> QED
    BY <1>1, <1>10, <2>1, AnswersStay
<1>14. Checked'
  BY <1>1, <1>10, CheckedStays
<1> QED
  BY <1>6, <1>7, <1>9, <1>11, <1>12, <1>13, <1>14 DEF AbortInv

-----------------------------------------------------------------------------
(* The answers of no_abort_analysis. *)

\* A function that is found not to abort is not one that aborts, and each of its calls
\* is excused: by a promise, by a mark, or by an answer that is final.
LEMMA CannotAbortIsRight ==
    ASSUME Inv, AbortInv, InAbortCheck, phase = "run", step = 5, NEW f \in group,
           f \in Code \ pkg.native, ~info[f].reachable, CannotAbort(f)
    PROVE  f \notin pkg.aborts /\ \A c \in pkg.calls[f] : Excused(c)
<1>1. pkg \in Packages /\ HolderOK /\ target = AbortCheck /\ f \in targets
      /\ targets \subseteq Fns
  BY DEF Inv, TypeOK, Verified, InAbortCheck, AbortInv, Visiting
<1>2. info[f].inlined
  BY <1>1 DEF AbortInv, CheckedKept
<1>3. f \notin pkg.aborts
  BY DEF CannotAbort
<1> SUFFICES ASSUME NEW c \in pkg.calls[f], c \notin Promised PROVE Excused(c)
  BY <1>3 DEF Excused
<1>4. c \in Fns /\ f \in Fns
  BY <1>1, PackageFacts DEF Fns
<1>5. pending = {}
  BY DEF AbortInv, Taking
<1>6. info[c].inlined /\ c \in targets
  BY <1>2, <1>4, <1>5 DEF AbortInv, MarksSpread, CheckedKept
<1>7. SpecByFun(c) # None => /\ SpecByFun(c) \in pkg.omit
                             /\ SpecByFun(c) \in pkg.asserts \cup pkg.ignore
  BY <1>1, SystemSpecs
<1>8. c # f /\ ~(InComponent /\ c \in group) /\ does_not_abort(c, f)
  BY <1>7 DEF CannotAbort
<1>9. c \notin group
  <2> SUFFICES ASSUME c \in group PROVE InComponent
    BY <1>8
  <2>1. IsFiniteSet(group) /\ Cardinality(group) \in Nat
    <3>1. group \subseteq Fns /\ IsFiniteSet(Fns)
      BY <1>1, NamesOK, FS_Union DEF AbortInv, Visiting, Fns
    <3> QED
      BY <3>1, FS_Subset, FS_CardinalityType
  <2>2. /\ IsFiniteSet(group \ {f}) /\ c \in group \ {f}
        /\ Cardinality(group \ {f}) = Cardinality(group) - 1
    BY <1>8, <2>1, FS_RemoveElement
  <2>3. Cardinality(group \ {f}) # 0
    BY <2>2, FS_EmptySet
  <2>4. Cardinality(group) > 1
    BY <2>1, <2>2, <2>3, FS_CardinalityType
  <2> QED
    BY <2>4 DEF InComponent
<1>10. Answered(c)
  <2>1. c \in CallGraph[f] \ group
    BY <1>1, <1>6, <1>9 DEF CallGraph
  <2> QED
    BY <1>9, <2>1 DEF AbortInv, Visiting, Answered
<1>11. ~info[c].reachable
  BY <1>4, <1>6 DEF AbortInv, MarksOK
<1>12. ~HasNoAbortSpec(c)
  BY <1>7 DEF HasNoAbortSpec
<1> QED
  BY <1>8, <1>10, <1>11, <1>12 DEF does_not_abort, Excused

LEMMA CheckAbortsKeepsAbortInv ==
    ASSUME Inv, AbortInv, NEW f \in todo, CheckAborts(f), UNCHANGED backend
    PROVE  AbortInv'
<1> USE DEF Take, fixed, holder, marks, annotations, outputs, backend
<1>1. /\ phase = "run" /\ step = 5 /\ todo' = todo \ {f} /\ f \in group
      /\ UNCHANGED <<pkg, target, passes, proofs, info, busy, pending, phase, step, agenda,
                     group, targets, function_specs>>
  BY ProcessorNames DEF CheckAborts, Running, Inv, TypeOK, AbortInv, Visiting
<1>2. CallGraph' = CallGraph
  BY <1>1 DEF CallGraph, CalleeSpec, SpecByFun
<1>3. Taking' /\ Visiting'
  BY <1>1, <1>2 DEF AbortInv, Taking, Visiting
<1>4. (InAbortCheck' <=> InAbortCheck) /\ Promised' = Promised
  BY <1>1 DEF InAbortCheck, AbortCheck, Promised, Promising, Hiding
<1>5. MarksOK' /\ MarksSpread' /\ Checked'
  BY <1>1, <1>4, MarksStay, CheckedStays
<1>6. CheckedKept'
  BY <1>1, <1>4 DEF AbortInv, CheckedKept, TargetNoAbortCheck, AbortChecked
<1>7. AnswersRight'
  <2> SUFFICES ASSUME InAbortCheck PROVE AnswersRight'
    BY <1>4 DEF AnswersRight
  <2>1. DOMAIN no_abort = Fns
    BY DEF AbortInv, AnswersRight
  <2>2. /\ DOMAIN no_abort' = Fns
        /\ \A x \in Fns : x # f => no_abort'[x] = no_abort[x]
        /\ f \in Fns => \/ no_abort'[f] = no_abort[f]
                        \/ ~info[f].reachable /\ no_abort'[f] = CannotAbort(f)
    BY <2>1 DEF CheckAborts
  <2>3. \A c \in Fns : Excused(c) => Excused(c)'
    <3> SUFFICES ASSUME NEW c \in Fns, Excused(c) PROVE Excused(c)'
      OBVIOUS
    <3>1. Answered(c) => c # f /\ Answered(c)'
      BY <1>1 DEF Answered
    <3> QED
      BY <1>1, <1>4, <2>2, <3>1 DEF Excused, AbortChecked
  <2>4. ASSUME NEW x \in Code \ pkg.native, no_abort'[x] = TRUE
        PROVE  x \notin pkg.aborts /\ \A c \in pkg.calls[x] : Excused(c)
    <3>1. x \in Fns
      BY DEF Fns
    <3>2. CASE no_abort[x] = TRUE
      BY <3>2 DEF AbortInv, AnswersRight
    <3>3. CASE no_abort[x] # TRUE
      <4>1. x = f /\ ~info[f].reachable /\ CannotAbort(f)
        BY <2>2, <2>4, <3>1, <3>3
      <4> QED
        BY <1>1, <4>1, CannotAbortIsRight
    <3> QED
      BY <3>2, <3>3
  <2>5. \A x \in Code \ pkg.native : pkg.calls[x] \subseteq Fns
    BY PackageFacts DEF Inv, TypeOK, Fns
  <2>6. \A x \in Code \ pkg.native : no_abort'[x] = TRUE =>
           x \notin pkg.aborts /\ \A c \in pkg.calls[x] : Excused(c)'
    BY <2>3, <2>4, <2>5
  <2> QED
    BY <1>1, <2>2, <2>6 DEF AnswersRight
<1> QED
  BY <1>3, <1>5, <1>6, <1>7 DEF AbortInv

\* The other processors leave the marks and the answers alone.
LEMMA OtherVisitsKeepAbortInv ==
    ASSUME Inv, AbortInv, NEW f \in todo, UNCHANGED backend,
           CheckRecursion(f) \/ CollectVars(f) \/ CheckPurity(f) \/ CheckDeterminism(f)
              \/ Instrument(f)
    PROVE  AbortInv'
<1> USE DEF Take, fixed, holder, marks, annotations, outputs, backend
<1>1. /\ step # 1 /\ todo' = todo \ {f}
      /\ UNCHANGED <<fixed, holder, phase, step, info, marks, no_abort, proofs, group, agenda>>
  <2>1. CASE CheckRecursion(f)
    BY <2>1, ProcessorNames DEF CheckRecursion, Running, Inv, TypeOK
  <2>2. CASE CollectVars(f)
    BY <2>2, ProcessorNames DEF CollectVars, Running, Inv, TypeOK
  <2>3. CASE CheckPurity(f)
    BY <2>3, ProcessorNames DEF CheckPurity, Running, Inv, TypeOK
  <2>4. CASE CheckDeterminism(f)
    BY <2>4, ProcessorNames DEF CheckDeterminism, Running, Inv, TypeOK
  <2>5. CASE Instrument(f)
    BY <2>5, ProcessorNames DEF Instrument, Running, Inv, TypeOK
  <2> QED
    BY <2>1, <2>2, <2>3, <2>4, <2>5
<1> QED
  BY <1>1, QuietVisit

-----------------------------------------------------------------------------
(* The goals of the pass. *)

\* A marked function that is not found safe becomes a goal (generate_boogie).
LEMMA GoalsOfAbortCheck ==
    ASSUME Inv, AbortInv, Emit, target = AbortCheck, NEW f \in Code \ pkg.native,
           TargetNoAbortCheck(f), no_abort[f] # TRUE
    PROVE  <<"Check", <<"nac", f>>>> \in proofs'
<1>1. phase = "emit" /\ step = 9
  BY DEF Emit, Inv, Schedule
<1>2. InAbortCheck /\ target.kind = "abort" /\ target.modes = {"Check"}
  BY <1>1 DEF InAbortCheck, AbortCheck
<1>3. NeedsAbortCheck(f)
  <2>1. f \in targets
    BY <1>1, <1>2 DEF AbortInv, CheckedKept
  <2> QED
    BY <2>1 DEF NeedsAbortCheck
<1> DEFINE u == [name |-> <<"nac", f>>, calls |-> Others(f)]
<1>4. u \in UnitsOf(f, "Check")
  <2> DEFINE more == IF info[f].inlined /\ f \in mono
                     THEN {[name |-> <<"plain", f>>, calls |-> Others(f)]} ELSE {}
  <2>1. f \notin pkg.native /\ target.kind = "abort" /\ NeedsAbortCheck(f) /\ ~IsSpec(f)
    BY <1>1, <1>2, <1>3, SystemSpecs DEF Inv, TypeOK, Verified
  <2>2. UnitsOf(f, "Check") = PureUnits(f) \cup ({u} \cup more)
    BY <2>1 DEF UnitsOf
  <2> QED
    BY <2>2
<1>5. u \in TextOf("Check")
  BY <1>2, <1>3, <1>4 DEF TextOf, Fns
<1>6. u.name = <<"nac", f>>
  OBVIOUS
<1> HIDE DEF u
<1>7. <<"nac", f>> \in Names(text'["Check"])
  BY <1>2, <1>5, <1>6 DEF Emit, Names
<1>8. <<"nac", f>>[1] \in Goals
  BY DEF Goals
<1> QED
  BY <1>2, <1>7, <1>8 DEF Emit

\* The goals only grow, and with them the functions an abort cannot pass.
LEMMA CertificateStays ==
    ASSUME pkg' = pkg, proofs \subseteq proofs', NEW K, Certifies(K)
    PROVE  Certifies(K)'
<1>1. Open' \subseteq Open
  BY DEF Open, Promised, Promising, Hiding
<1> QED
  BY <1>1 DEF Certifies, TargetNoAbortCheck, AbortChecked

\* After the pass, what may abort unnoticed is closed under callers and has no mark.
LEMMA AbortCheckCertifies ==
    ASSUME Inv, AbortInv, Emit, target = AbortCheck
    PROVE  \E K \in SUBSET Code : Certifies(K)'
<1> DEFINE marked == pkg.checked \cup pkg.pure
<1>1. /\ pkg \in Packages /\ pkg' = pkg /\ phase = "emit" /\ step = 9 /\ InAbortCheck
  BY DEF Emit, Inv, TypeOK, Schedule, fixed, InAbortCheck
<1>2. /\ \A f \in pkg.native : /\ pkg.calls[f] = {}
                               /\ f \in marked \cap pkg.aborts => pkg.home[f] \in pkg.libs
      /\ \E safe \in SUBSET (Code \ pkg.aborts) :
            /\ \A f \in marked \ pkg.native : pkg.home[f] \in pkg.libs => f \in safe
            /\ \A f \in safe : pkg.calls[f] \subseteq safe
  BY <1>1, LibrariesAssumption DEF LibrariesOK
<1>3. PICK safe \in SUBSET (Code \ pkg.aborts) :
          /\ \A f \in marked \ pkg.native : pkg.home[f] \in pkg.libs => f \in safe
          /\ \A f \in safe : pkg.calls[f] \subseteq safe
  BY <1>2
<1>4. \A f : AbortChecked(f) <=> f \in marked
  BY DEF AbortChecked
<1>5. \A f : TargetNoAbortCheck(f) <=> f \in marked /\ pkg.home[f] \notin pkg.libs
  BY <1>4 DEF TargetNoAbortCheck
<1> HIDE DEF marked
<1> DEFINE sound == (pkg.native \ pkg.aborts) \cup safe
                    \cup {f \in Code \ pkg.native : TargetNoAbortCheck(f) \/ no_abort[f] = TRUE}
           K == Open' \ sound
<1>6. Open' \subseteq Code /\ Open' \cap Promised = {}
  BY <1>1 DEF Open, Promised, Promising, Hiding
<1>7. ASSUME NEW f \in Open', f \notin pkg.native, TargetNoAbortCheck(f)
      PROVE  no_abort[f] = TRUE
  <2>1. <<"Check", <<"nac", f>>>> \notin proofs'
    BY <1>7 DEF Open
  <2> QED
    BY <1>6, <1>7, <2>1, GoalsOfAbortCheck
<1>8. \A f \in Code \ pkg.native : no_abort[f] = TRUE =>
         f \notin pkg.aborts /\ \A c \in pkg.calls[f] : Excused(c)
  BY <1>1 DEF AbortInv, AnswersRight
<1>9. ASSUME NEW f \in pkg.aborts, f \in Open'
      PROVE  f \in K
  BY <1>6, <1>7, <1>8, <1>9
<1>10. ASSUME NEW f \in K, NEW c \in Open', f \in pkg.calls[c]
       PROVE  c \in K
  <2> SUFFICES ASSUME c \in sound PROVE FALSE
    OBVIOUS
  <2>1. f \in Open' /\ f \notin sound /\ f \in Code /\ c \in Code /\ f \notin Promised
    BY <1>6
  <2>2. c \notin pkg.native /\ c \notin safe
    BY <1>2, <1>3, <1>10, <2>1
  <2>3. no_abort[c] = TRUE
    BY <1>7, <2>2
  <2>4. Excused(f)
    BY <1>8, <1>10, <2>1, <2>2, <2>3
  <2>5. f \notin pkg.native /\ f \in marked
    BY <1>4, <2>1, <2>4 DEF Excused
  <2> QED
    BY <1>3, <1>5, <2>1, <2>5
<1>11. ASSUME NEW f \in K, TargetNoAbortCheck(f)
       PROVE  FALSE
  BY <1>2, <1>5, <1>6, <1>11
<1>12. PICK k \in SUBSET Code : k = K
  BY <1>6
<1>13. /\ \A f \in pkg.aborts : f \in Open' => f \in k
       /\ \A f \in k : \A c \in Open' : f \in pkg.calls[c] => c \in k
       /\ \A f \in k : ~TargetNoAbortCheck(f)
  BY <1>9, <1>10, <1>11, <1>12
<1> HIDE DEF K
<1>14. Certifies(k)'
  BY <1>1, <1>13 DEF Certifies, TargetNoAbortCheck, AbortChecked
<1> QED
  BY <1>14

LEMMA EmitKeepsAbortInv == Inv /\ AbortInv /\ Emit => AbortInv'
<1> SUFFICES ASSUME Inv, AbortInv, Emit PROVE AbortInv'
  OBVIOUS
<1> USE DEF fixed, holder, annotations, outputs, marks
<1>1. /\ phase = "emit" /\ phase' = "next" /\ proofs \subseteq proofs'
      /\ UNCHANGED <<pkg, target, passes, info, marks, step, agenda, group>>
  BY DEF Emit
<1>2. ~InAbortCheck'
  BY <1>1 DEF InAbortCheck
<1>3. Taking' /\ Visiting' /\ CheckedKept' /\ AnswersRight'
  BY <1>1, <1>2 DEF AbortInv, Taking, Visiting, CheckedKept, AnswersRight
<1>4. MarksOK' /\ MarksSpread'
  BY <1>1, <1>2, MarksStay
<1>5. Checked'
  <2>1. AbortCheck' = AbortCheck
    BY DEF AbortCheck
  <2>2. CASE InAbortCheck
    BY <2>2, AbortCheckCertifies DEF Checked, InAbortCheck
  <2>3. CASE ~InAbortCheck
    BY <1>1, <2>1, <2>3, CertificateStays DEF AbortInv, Checked
  <2> QED
    BY <2>2, <2>3
<1> QED
  BY <1>3, <1>4, <1>5 DEF AbortInv

LEMMA InitAbortInv == BInit => AbortInv
<1> SUFFICES ASSUME BInit PROVE AbortInv
  OBVIOUS
<1>1. ~InAbortCheck /\ Taking /\ Visiting
  BY DEF BInit, Init, InAbortCheck, Taking, Visiting
<1>2. MarksOK
  BY DEF BInit, Init, MarksOK, Unmarked
<1>3. Checked
  BY PassIsPlanned DEF BInit, Init, Checked
<1> QED
  BY <1>1, <1>2, <1>3 DEF AbortInv, MarksSpread, CheckedKept, AnswersRight

LEMMA NextAbortInv == Inv /\ AbortInv /\ [BNext \/ Done]_allvars => AbortInv'
<1> SUFFICES ASSUME Inv, AbortInv, [BNext \/ Done]_allvars PROVE AbortInv'
  OBVIOUS
<1>1. CASE Pipeline /\ UNCHANGED backend
  <2>1. CASE \E f \in todo :
               \/ VerifyFunction(f) \/ CheckRecursion(f) \/ CollectVars(f) \/ CheckPurity(f)
               \/ CheckAborts(f) \/ CheckDeterminism(f) \/ Instrument(f)
    BY <1>1, <2>1, VerifyFunctionKeepsAbortInv, CheckAbortsKeepsAbortInv,
       OtherVisitsKeepAbortInv
  <2> QED
    BY <1>1, <2>1, NextPassKeepsAbortInv, AddKeepsAbortInv, StartKeepsAbortInv,
       TurnKeepsAbortInv, EndProcessorKeepsAbortInv, MarkCalleeKeepsAbortInv,
       PutBackKeepsAbortInv, SingleRunKeepsAbortInv DEF Pipeline
<1>2. CASE Emit
  BY <1>2, EmitKeepsAbortInv
<1>3. CASE UNCHANGED allvars
  BY <1>3, QuietVisit DEF allvars, vars, backend, fixed, holder, marks
<1> QED
  BY <1>1, <1>2, <1>3 DEF BNext, Done

\* verification_analysis, no_abort_analysis and generate_boogie together: in an accepted
\* run no function marked no_abort or pure may abort without a goal on the way that
\* fails, whatever the call graph, its recursion and the order of the visits.
THEOREM AbortsAreChecked == BSpec => []NoAbortChecked
<1>1. BInit => Inv /\ AbortInv
  BY InitInv, InitAbortInv
<1>2. Inv /\ AbortInv /\ [BNext \/ Done]_allvars => (Inv /\ AbortInv)'
  BY NextInv, NextAbortInv
<1>3. Inv /\ AbortInv => NoAbortChecked
  <2> SUFFICES ASSUME Inv, AbortInv, Accepted, NEW f \in ReachesUnnoticed(Promising \cup Hiding)
               PROVE  ~TargetNoAbortCheck(f)
    BY DEF NoAbortChecked
  <2>1. PICK K \in SUBSET Code : Certifies(K)
    BY DEF AbortInv, Checked, Accepted, InAbortCheck
  <2> DEFINE graph == [x \in Open |-> {c \in Open : x \in pkg.calls[c]}]
  <2>2. ReachesUnnoticed(Promising \cup Hiding) = ReachedFrom(graph, pkg.aborts \cap Open)
    BY DEF ReachesUnnoticed, Open, Promised, Promising, Hiding
  <2>3. DOMAIN graph = Open /\ IsFiniteSet(Open)
    BY NamesOK, FS_Subset DEF Open
  <2>4. pkg.aborts \cap Open \subseteq K
    BY <2>1 DEF Certifies
  <2>5. IsClosedUnder(graph, K)
    BY <2>1 DEF Certifies, IsClosedUnder
  <2> HIDE DEF graph
  <2>6. ReachesUnnoticed(Promising \cup Hiding) \subseteq K
    BY <2>2, <2>3, <2>4, <2>5, Reached
  <2> QED
    BY <2>1, <2>6 DEF Certifies
<1> QED
  BY <1>1, <1>2, <1>3, PTL DEF BSpec
=============================================================================
