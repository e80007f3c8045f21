-------------------------- MODULE LeanTests_proofs --------------------------
(***************************************************************************)
(* The proof that LeanTests implements TestReport.  The verdict on a test   *)
(* is a function of what its driver printed: the first part shows that the  *)
(* runner reads it as the test deserves, and that no code it is given fails *)
(* to decode.  The second shows, as an inductive invariant, that the driver *)
(* was the test's own; the last that each step is one of TestReport.        *)
(***************************************************************************)
EXTENDS LeanTests, WellFoundedInduction, TLAPS

LEMMA MinExists ==
  ASSUME NEW S, S \subseteq Nat, S # {}
  PROVE  Min(S) \in S
<1>1. PICK x \in S : \A y \in S : <<y, x>> \notin OpToRel(<, Nat)
  BY NatLessThanWellFounded, WFMin
<1>2. \A y \in S : <<y, x>> \in OpToRel(<, Nat) <=> y < x
  BY DEF OpToRel
<1>3. \A y \in S : ~(y < x)
  BY <1>1, <1>2
<1>4. \A y \in S : x =< y
  BY <1>3
<1> QED
  BY <1>4 DEF Min

LEMMA Assumed ==
  ASSUME pkg \in Packages
  PROVE  PoolsOK(pkg.pools) /\ \A t \in Tests : TestOK(TestOf(t), pkg.pools)
BY PackagesAssumption DEF Tests, TestOf

LEMMA Shapes ==
  /\ Ok # Failure
  /\ \A c, m : /\ Abort(c, m) # Ok /\ Abort(c, m) # Failure
               /\ Abort(c, m)[1] = "abort" /\ Abort(c, m)[2] = c /\ Abort(c, m)[3] = m
BY DEF Abort, Ok, Failure

LEMMA Singleton == \A x : <<x>> # <<>> /\ <<x>>[1] = x
OBVIOUS

LEMMA AbortNotOk ==
  ASSUME NEW c, NEW m
  PROVE  Abort(c, m) # Ok
BY Shapes

LEMMA AlignShape ==
  ASSUME NEW c, NEW m, NEW e
  PROVE  \E sub, loc :
            /\ align_abort_with_expected(c, m, e) = <<"ABORTED", sub, sanitize_clever_location(sub, loc)>>
            /\ align_abort_with_expected(c, m, e) # Ok
            /\ align_abort_with_expected(c, m, e)[1] = "ABORTED"
            /\ align_abort_with_expected(c, m, e)[2] = sub
            /\ align_abort_with_expected(c, m, e)[3] = sanitize_clever_location(sub, loc)
<1> DEFINE loc == IF e[1] = "Error" THEN e[4] ELSE m
           sub == CASE e[1] = "Coded" -> SubStatusFor(e[2], c, loc)
                    [] e[1] = "Error" /\ e[3] # <<>> -> SubStatusFor(e[3][1], c, loc)
                    [] OTHER -> c
<1>1. align_abort_with_expected(c, m, e) = <<"ABORTED", sub, sanitize_clever_location(sub, loc)>>
  BY DEF align_abort_with_expected
<1> HIDE DEF sub, loc
<1>2. <<"ABORTED", sub, sanitize_clever_location(sub, loc)>> # Ok
  BY DEF Ok
<1> QED
  BY <1>1, <1>2

LEMMA ResultOk ==
  ASSUME NEW t, NEW v
  PROVE  (verdict_to_vm_result(t, v) = Ok) <=> (v = Ok)
<1>1. CASE v = Failure
  BY <1>1, Shapes DEF verdict_to_vm_result, Ok
<1>2. CASE v = Ok
  BY <1>2, Shapes DEF verdict_to_vm_result
<1>3. CASE v # Failure /\ v # Ok
  BY <1>3, AlignShape DEF verdict_to_vm_result
<1> QED
  BY <1>1, <1>2, <1>3

LEMMA NoConversionPanics ==
  ASSUME pkg \in Packages, NEW t, NEW v
  PROVE  ~ConversionPanics(verdict_to_vm_result(t, v))
<1> DEFINE res == verdict_to_vm_result(t, v)
<1>1. CASE v = Failure
  <2>1. res[1] = "INVARIANT_VIOLATION"
    BY <1>1, Shapes DEF verdict_to_vm_result
  <2> QED
    BY <2>1 DEF ConversionPanics
<1>2. CASE v = Ok
  <2>1. res[1] = "ok"
    BY <1>2, Shapes DEF verdict_to_vm_result, Ok
  <2> QED
    BY <2>1 DEF ConversionPanics
<1>3. CASE v # Failure /\ v # Ok
  <2>1. PICK sub, loc : res[2] = sub /\ res[3] = sanitize_clever_location(sub, loc)
    BY <1>3, AlignShape DEF verdict_to_vm_result
  <2>2. <<>> \notin DOMAIN pkg.pools
    BY Assumed DEF PoolsOK
  <2> HIDE DEF res
  <2>3. ~ConversionPanics(res)
    BY <2>1, <2>2 DEF ConversionPanics, Decoded, sanitize_clever_location
  <2> QED
    BY <2>3 DEF res
<1> QED
  BY <1>1, <1>2, <1>3

-----------------------------------------------------------------------------
(* What a driver that nothing disturbs prints, the runner reads as the test *)
(* deserves.                                                                *)

LEMMA OwnShape ==
  ASSUME pkg \in Packages, NEW t \in Tests, TestOf(t).result # Ok
  PROVE  /\ TestOf(t).result[2] \in {"plain", "clever"} \X Nat
         /\ TestOf(t).result[3] \in DOMAIN pkg.pools
         /\ TestOf(t).result = Abort(TestOf(t).result[2], TestOf(t).result[3])
         /\ OwnResult(t) = <<"ABORTED", TestOf(t).result[2], TestOf(t).result[3]>>
         /\ OwnResult(t) # Ok
         /\ Printed(TestOf(t)) = Abort(TestOf(t).result[2], IF TestOf(t).named THEN TestOf(t).result[3] ELSE <<>>)
         /\ Printed(TestOf(t)) # Ok /\ Printed(TestOf(t)) # Failure
<1> DEFINE c == TestOf(t).result[2]
           m == TestOf(t).result[3]
<1>1. TestOf(t).result = Abort(c, m) /\ c \in {"plain", "clever"} \X Nat /\ m \in DOMAIN pkg.pools
  BY Assumed DEF TestOK
<1>2. OwnResult(t) = <<"ABORTED", c, m>>
  BY DEF OwnResult
<1> HIDE DEF c, m
<1>3. <<"ABORTED", c, m>> # Ok
  BY DEF Ok
<1>4. Printed(TestOf(t)) = Abort(c, IF TestOf(t).named THEN m ELSE <<>>)
  BY <1>1, Shapes DEF Printed
<1>5. Printed(TestOf(t)) # Ok /\ Printed(TestOf(t)) # Failure
  BY <1>4, Shapes
<1> QED
  BY <1>1, <1>2, <1>3, <1>4, <1>5 DEF c, m

\* The constant that is looked up by its name is read back as that name.
LEMMA NameFound ==
  ASSUME pkg \in Packages, NEW m \in DOMAIN pkg.pools, NEW n, NEW c,
         NEW i \in DOMAIN pkg.pools[m], pkg.pools[m][i] = <<"str", n>>,
         NEW sub, sub = resolve_constant_name(m, n, c)
  PROVE  /\ sanitize_clever_location(sub, m) = m
         /\ TypeOf(<<"ABORTED", sub, m>>) = <<"ConstantName", n>>
<1> DEFINE at == {j \in DOMAIN pkg.pools[m] : pkg.pools[m][j] = <<"str", n>>}
           k  == Min(at)
<1>1. /\ pkg.pools[m] \in Seq(({"str"} \X STRING) \cup ({"num"} \X Nat))
      /\ Len(pkg.pools[m]) <= NoIndex
  BY Assumed DEF PoolsOK
<1>2. DOMAIN pkg.pools[m] = 1..Len(pkg.pools[m]) /\ Len(pkg.pools[m]) \in Nat
  BY <1>1
<1>3. at \subseteq Nat /\ at # {}
  BY <1>2
<1>4. k \in at
  BY <1>3, MinExists
<1>5. k \in 1..Len(pkg.pools[m]) /\ pkg.pools[m][k] = <<"str", n>>
  BY <1>4, <1>2
<1>6. sub = <<"clever", k - 1>>
  BY <1>3 DEF resolve_constant_name
<1> HIDE DEF k, at
<1>7. sub[1] = "clever" /\ sub[2] = k - 1 /\ sub[2] # NoIndex /\ sub[2] < Len(pkg.pools[m]) /\ sub[2] + 1 = k
  BY <1>1, <1>2, <1>5, <1>6 DEF NoIndex
<1>8. PoolEntry(m, sub[2]) = {<<"str", n>>}
  BY <1>5, <1>7 DEF PoolEntry
<1>9. sanitize_clever_location(sub, m) = m
  BY <1>8 DEF sanitize_clever_location, IsName
<1>10. Decoded(<<"ABORTED", sub, m>>)
  BY <1>7 DEF Decoded
<1>11. TypeOf(<<"ABORTED", sub, m>>) = <<"ConstantName", n>>
  BY <1>10, <1>7, <1>5 DEF TypeOf
<1> QED
  BY <1>9, <1>11

LEMMA TupleFields ==
  ASSUME NEW c, NEW m
  PROVE  LET x == <<"ABORTED", c, m>> IN x[1] = "ABORTED" /\ x[2] = c /\ x[3] = m
OBVIOUS

\* A constant name is expected and was the reason of the abort.
LEMMA OwnName ==
  ASSUME pkg \in Packages, NEW t \in Tests, TestOf(t).result # Ok,
         ~ConversionPanics(OwnResult(t)), NEW type, TypeOf(OwnResult(t)) = type
  PROVE  \/ /\ type = <<"Code", TestOf(t).result[2]>>
            /\ ~Decoded(OwnResult(t))
         \/ \E n : /\ type = <<"ConstantName", n>>
                  /\ \E i \in DOMAIN pkg.pools[TestOf(t).result[3]] :
                        pkg.pools[TestOf(t).result[3]][i] = <<"str", n>>
<1> DEFINE c == TestOf(t).result[2]
           m == TestOf(t).result[3]
<1>1. OwnResult(t) = <<"ABORTED", c, m>> /\ c \in {"plain", "clever"} \X Nat /\ m \in DOMAIN pkg.pools
  BY OwnShape
<1> HIDE DEF c, m
<1>2. CASE ~Decoded(OwnResult(t))
  BY <1>1, <1>2 DEF TypeOf, c
<1>3. CASE Decoded(OwnResult(t))
  <2>1. PICK e \in PoolEntry(m, c[2]) : IsName(e)
    BY <1>1, <1>3 DEF ConversionPanics
  <2>2. c[2] < Len(pkg.pools[m]) /\ e = pkg.pools[m][c[2] + 1]
    BY <2>1 DEF PoolEntry
  <2>3. pkg.pools[m] \in Seq(({"str"} \X STRING) \cup ({"num"} \X Nat))
    BY <1>1, Assumed DEF PoolsOK
  <2>4. c[2] \in Nat
    BY <1>1
  <2>5. c[2] + 1 \in DOMAIN pkg.pools[m]
    BY <2>2, <2>3, <2>4
  <2>6. e \in ({"str"} \X STRING) \cup ({"num"} \X Nat)
    BY <2>2, <2>3, <2>5
  <2>7. e = <<"str", e[2]>>
    BY <2>1, <2>6 DEF IsName
  <2>8. type = <<"ConstantName", e[2]>>
    BY <1>1, <1>3, <2>2 DEF TypeOf
  <2> QED
    BY <2>2, <2>5, <2>7, <2>8 DEF m
<1> QED
  BY <1>2, <1>3

\* An abort that is expected by its type at a location is reported there, as
\* that type.
LEMMA AlignedType ==
  ASSUME pkg \in Packages, NEW t \in Tests, TestOf(t).result # Ok,
         ~ConversionPanics(OwnResult(t)), NEW type, TypeOf(OwnResult(t)) = type, ErrorTypeOK(type)
  PROVE  LET m == TestOf(t).result[3]
             sub == SubStatusFor(type, TestOf(t).result[2], m)
         IN  /\ sanitize_clever_location(sub, m) = m
             /\ TypeOf(<<"ABORTED", sub, m>>) = type
<1> DEFINE c == TestOf(t).result[2]
           m == TestOf(t).result[3]
           sub == SubStatusFor(type, c, m)
<1>1. m \in DOMAIN pkg.pools
  BY OwnShape
<1>2. CASE type = <<"Code", c>>
  <2>1. c[1] = "plain" /\ sub = c
    BY <1>2 DEF ErrorTypeOK, SubStatusFor
  <2> HIDE DEF sub, c, m
  <2>2. sanitize_clever_location(sub, m) = m
    BY <2>1 DEF sanitize_clever_location
  <2>3. ~Decoded(<<"ABORTED", sub, m>>)
    BY <2>1 DEF Decoded
  <2>4. TypeOf(<<"ABORTED", sub, m>>) = type
    BY <2>1, <2>3, <1>2 DEF TypeOf
  <2> QED
    BY <2>2, <2>4 DEF sub, c, m
<1>3. CASE type # <<"Code", c>>
  <2>1. PICK n : /\ type = <<"ConstantName", n>>
                 /\ \E i \in DOMAIN pkg.pools[m] : pkg.pools[m][i] = <<"str", n>>
    BY <1>3, OwnName
  <2>2. sub = resolve_constant_name(m, n, c)
    BY <2>1 DEF SubStatusFor
  <2> HIDE DEF sub, c, m
  <2> QED
    BY <1>1, <2>1, <2>2, NameFound DEF sub, c, m
<1> QED
  BY <1>2, <1>3

LEMMA DeservedPasses ==
  ASSUME pkg \in Packages, NEW t \in Tests, Located(t), Deserved(t)
  PROVE  Passes(TestOf(t).expected, verdict_to_vm_result(t, Printed(TestOf(t))))
<1> DEFINE e   == TestOf(t).expected
           r   == TestOf(t).result
           v   == Printed(TestOf(t))
           res == verdict_to_vm_result(t, v)
<1>1. ~ConversionPanics(OwnResult(t)) /\ Passes(e, OwnResult(t))
  BY DEF Deserved
<1>2. CASE r = Ok
  <2>1. v = Ok /\ OwnResult(t) = Ok
    BY <1>2 DEF Printed, OwnResult
  <2>2. res = Ok
    BY <2>1, ResultOk
  <2> QED
    BY <1>1, <2>1, <2>2
<1>3. CASE r # Ok
  <2> DEFINE c == r[2]
             m == r[3]
             p == reframe_module_id(TestOf(t).module, IF TestOf(t).named THEN m ELSE <<>>)
  <2>1. /\ OwnResult(t) = <<"ABORTED", c, m>> /\ OwnResult(t) # Ok /\ m \in DOMAIN pkg.pools
        /\ v = Abort(c, IF TestOf(t).named THEN m ELSE <<>>) /\ v # Ok /\ v # Failure
    BY <1>3, OwnShape
  <2>2. res = align_abort_with_expected(c, p, e)
    BY <2>1, Shapes DEF verdict_to_vm_result
  <2>3. res # Ok
    BY <2>1, ResultOk
  <2>4. e[1] \in {"None", "Expected", "Coded", "Error"}
    BY Assumed DEF TestOK
  <2>5. CASE e[1] = "None"
    BY <1>1, <2>1, <2>5 DEF Passes
  <2>6. CASE e[1] = "Expected"
    BY <2>3, <2>6 DEF Passes
  <2>7. CASE e[1] = "Coded"
    <3>1. TypeOf(OwnResult(t)) = e[2] /\ ErrorTypeOK(e[2])
      BY <1>1, <2>7, Assumed DEF Passes, TestOK
    <3>2. e[2][1] = "ConstantName" => p = m
      BY <1>3, <2>7 DEF Located
    <3>3. SubStatusFor(e[2], c, p) = SubStatusFor(e[2], c, m)
      BY <3>1, <3>2 DEF ErrorTypeOK, SubStatusFor
    <3> DEFINE sub == SubStatusFor(e[2], c, p)
    <3>4. res = <<"ABORTED", sub, sanitize_clever_location(sub, p)>>
      BY <2>2, <2>7 DEF align_abort_with_expected
    <3>5. sanitize_clever_location(sub, m) = m /\ TypeOf(<<"ABORTED", sub, m>>) = e[2]
      BY <1>1, <1>3, <3>1, <3>3, AlignedType
    <3>6. TypeOf(res) = e[2]
      <4>1. CASE e[2][1] = "ConstantName"
        BY <3>2, <3>4, <3>5, <4>1
      <4>2. CASE e[2][1] = "Code"
        <5>1. sub = e[2][2] /\ sub[1] = "plain"
          BY <3>1, <4>2 DEF ErrorTypeOK, SubStatusFor
        <5> HIDE DEF sub, res, e, p, m, c
        <5>2. ~Decoded(res) /\ ~Decoded(<<"ABORTED", sub, m>>)
          BY <3>4, <5>1 DEF Decoded
        <5> QED
          BY <3>4, <3>5, <5>2 DEF TypeOf
      <4> QED
        BY <3>1, <4>1, <4>2 DEF ErrorTypeOK
    <3> HIDE DEF res, e, sub
    <3>7. res[1] = "ABORTED"
      BY <3>4
    <3>8. Passes(e, res)
      BY <2>3, <2>7, <3>6, <3>7 DEF Passes
    <3> QED
      BY <3>8 DEF res, e
  <2>8. CASE e[1] = "Error"
    <3> DEFINE sub == IF e[3] # <<>> THEN SubStatusFor(e[3][1], c, m) ELSE c
    <3>1. e[2] = "ABORTED" /\ e[4] = m /\ (e[3] = <<>> \/ TypeOf(OwnResult(t)) = e[3][1])
      BY <1>1, <2>1, <2>8 DEF Passes
    <3>2. res = <<"ABORTED", sub, sanitize_clever_location(sub, m)>>
      BY <2>2, <2>8, <3>1 DEF align_abort_with_expected
    <3>3. sanitize_clever_location(sub, m) = m /\ (e[3] = <<>> \/ TypeOf(<<"ABORTED", sub, m>>) = e[3][1])
      <4>1. CASE e[3] = <<>>
        <5>1. sub = c
          BY <4>1
        <5> HIDE DEF sub, c, m
        <5>2. c[1] = "clever" /\ c[2] # NoIndex => \E x \in PoolEntry(m, c[2]) : IsName(x)
          BY <1>1, <2>1 DEF ConversionPanics, Decoded
        <5> QED
          BY <4>1, <5>1, <5>2 DEF sanitize_clever_location
      <4>2. CASE e[3] # <<>>
        <5>1. ErrorTypeOK(e[3][1])
          BY <2>8, <4>2, Assumed DEF TestOK
        <5>2. sub = SubStatusFor(e[3][1], c, m)
          BY <4>2
        <5> QED
          BY <1>1, <1>3, <3>1, <4>2, <5>1, <5>2, AlignedType
      <4> QED
        BY <4>1, <4>2
    <3> HIDE DEF res, e, sub, m, c
    <3>4. res = <<"ABORTED", sub, m>>
      BY <3>2, <3>3
    <3>5. res[1] = "ABORTED" /\ res[3] = m /\ (e[3] = <<>> \/ TypeOf(res) = e[3][1])
      BY <3>3, <3>4
    <3>6. Passes(e, res)
      BY <2>3, <2>8, <3>1, <3>5 DEF Passes
    <3> QED
      BY <3>6 DEF res, e
  <2> QED
    BY <2>4, <2>5, <2>6, <2>7, <2>8
<1> QED
  BY <1>2, <1>3

-----------------------------------------------------------------------------
(* The inductive invariant: how far the main thread is, what each worker    *)
(* holds, and that no two workers share a test or a driver.                 *)

Steps       == {"idle", "write", "spawn", "poll", "join", "join killed"}
Given       == Tests \cup {None}
DriverTexts == {<<>>} \cup {<<TestAbortsRef(t)>> : t \in Tests}
Outputs     == {<<>>} \cup {<<[json |-> j, marker |-> m]>> :
                               j \in {<<>>} \cup {<<Printed(TestOf(t))>> : t \in Tests}, m \in {<<>>, <<Marker>>}}
WorkerStates == [pc : Steps, test : Given, seq : Nat, lake : BOOLEAN, lean : BOOLEAN,
                 driver : DriverTexts, out : Outputs]

Evidences == {"printed", "marker", "late", "nothing"}

Typed ==
    /\ pkg \in Packages
    /\ phase \in {"emit", "build", "plan", "lookup", "check", "run", "done"}
    /\ seq \in Nat /\ DOMAIN drivers \subseteq Nat
    /\ worker \in [Workers -> WorkerStates]
    /\ report \in [Tests -> {None, "left out", "passed", "failed"}]
    /\ evidence \in [Tests -> {None} \cup Evidences]
    /\ exit \in {"running", "ok", "failed"}

\* The main thread: before the lookup nothing is reported, after it what is not
\* planned is listed.
Staged ==
    /\ exit = "running" <=> phase # "done"
    /\ phase \in {"emit", "build", "plan", "lookup"} => \A t \in Tests : report[t] = None
    /\ phase \in {"emit", "build", "plan", "lookup", "check"} => \A w \in Workers : worker[w].pc = "idle"
    /\ phase \in {"build", "plan", "lookup", "check", "run"} => ~pkg.generate_only
    /\ phase \in {"plan", "lookup", "check", "run"} => built = pkg.builds
    /\ phase = "lookup" => plan = Tests
    /\ phase \in {"check", "run"} =>
         /\ plan = {t \in Tests : HasAborts(t)}
         /\ lookup = [t \in plan |-> TestAbortsRef(t)]
         /\ \A t \in Tests : report[t] = "left out" <=> t \notin plan
    /\ phase = "check" => \A t \in plan : report[t] = None
    /\ phase = "run" => ~pkg.type_check_only

\* What a worker holds belongs to its test.
Busy(r) == r.pc # "idle" =>
    /\ r.test \in plan /\ report[r.test] = None
    /\ r.seq \in Nat /\ r.seq < seq
    /\ r.pc \in {"write", "spawn"} => r.driver = <<>> /\ ~r.lean
    /\ r.pc # "write" => r.seq \in DOMAIN drivers /\ drivers[r.seq] = TestAbortsRef(r.test)
    /\ r.driver = <<>> \/ r.driver = <<TestAbortsRef(r.test)>>
    /\ r.lean => r.driver # <<>>
    /\ (r.pc = "poll" /\ ~r.lake) \/ r.pc = "join" => r.driver # <<>> /\ ~r.lean
    /\ r.pc \in {"poll", "join"} /\ r.driver # <<>> /\ ~r.lean =>
         r.out = <<Output(TestAbortsRef(r.test))>> /\ ~Hangs(TestAbortsRef(r.test))
    /\ r.pc = "join killed" => pkg.timeout

Working == phase = "run" => \A w \in Workers : Busy(worker[w])

Apart == phase = "run" =>
    \A v, w \in Workers : v # w /\ worker[v].pc # "idle" /\ worker[w].pc # "idle" =>
        worker[v].test # worker[w].test /\ worker[v].seq # worker[w].seq

Inv == Typed /\ Staged /\ Working /\ Apart

LEMMA InitInv == Init => Inv
<1> SUFFICES ASSUME Init PROVE Inv
  OBVIOUS
<1>1. "idle" \in Steps /\ None \in Given /\ <<>> \in DriverTexts /\ <<>> \in Outputs
  BY DEF Steps, Given, DriverTexts, Outputs
<1>2. Idle \in WorkerStates /\ Idle.pc = "idle"
  BY <1>1 DEF WorkerStates, Idle
<1>3. \A w \in Workers : worker[w] = Idle
  BY DEF Init
<1>4. Typed
  BY <1>2, <1>3 DEF Init, Typed, None
<1>5. Staged
  BY <1>2, <1>3 DEF Init, Staged
<1> QED
  BY <1>4, <1>5 DEF Init, Inv, Working, Apart

LEMMA PackageFixed ==
  ASSUME UNCHANGED pkg
  PROVE  /\ Tests' = Tests
         /\ \A t : TestOf(t)' = TestOf(t) /\ HasAborts(t)' = HasAborts(t) /\ TestAbortsRef(t)' = TestAbortsRef(t)
         /\ WorkerStates' = WorkerStates
BY DEF Tests, TestOf, HasAborts, TestAbortsRef, WorkerStates, Steps, Given, DriverTexts, Outputs, Printed, Marker

LEMMA OutputFixed ==
  ASSUME UNCHANGED <<pkg, built>>
  PROVE  \A r : Output(r)' = Output(r) /\ Hangs(r)' = Hangs(r)
BY DEF Output, Hangs, Compiles, TestOf, Printed, Marker

LEMMA MainInv ==
  ASSUME Inv, Main
  PROVE  Inv'
<1> USE DEF Inv
<1>1. pkg' = pkg /\ worker' = worker /\ seq' = seq /\ drivers' = drivers /\ evidence' = evidence
  BY DEF Main, Emit, Build, Plan, Lookup, Check, Report, Quiet
<1>2. /\ Tests' = Tests /\ WorkerStates' = WorkerStates
      /\ \A t : HasAborts(t)' = HasAborts(t) /\ TestAbortsRef(t)' = TestAbortsRef(t)
  BY <1>1, PackageFixed
<1>3. CASE Emit
  <2>1. Typed'
    BY <1>1, <1>2, <1>3 DEF Typed, Emit, End
  <2>2. Staged'
    BY <1>1, <1>2, <1>3 DEF Staged, Emit, End
  <2>3. phase' # "run"
    BY <1>3 DEF Emit, End
  <2> QED
    BY <2>1, <2>2, <2>3 DEF Working, Apart
<1>4. CASE Build
  <2>1. Typed'
    BY <1>1, <1>2, <1>4 DEF Typed, Build
  <2>2. Staged'
    BY <1>1, <1>2, <1>4 DEF Staged, Build
  <2> QED
    BY <1>4, <2>1, <2>2 DEF Working, Apart, Build
<1>5. CASE Plan
  <2>1. Typed'
    BY <1>1, <1>2, <1>5 DEF Typed, Plan, End
  <2>2. Staged'
    BY <1>1, <1>2, <1>5 DEF Staged, Plan, End
  <2>3. phase' # "run"
    BY <1>5 DEF Plan, End
  <2> QED
    BY <2>1, <2>2, <2>3 DEF Working, Apart
<1>6. CASE Lookup
  <2>1. plan = Tests
    BY <1>6 DEF Staged, Lookup
  <2>2. plan' = {t \in Tests : HasAborts(t)}
    BY <1>6, <2>1 DEF Lookup
  <2>3. lookup' = [t \in plan' |-> TestAbortsRef(t)]
    BY <1>6, <2>1 DEF Lookup
  <2>4. report' = [t \in Tests |-> IF HasAborts(t) THEN None ELSE "left out"]
    BY <1>6 DEF Lookup
  <2>5. Typed'
    BY <1>1, <1>2, <1>6, <2>4 DEF Typed, Lookup
  <2>6. Staged'
    BY <1>1, <1>2, <1>6, <2>2, <2>3, <2>4 DEF Staged, Lookup, None
  <2> QED
    BY <1>6, <2>5, <2>6 DEF Working, Apart, Lookup
<1>7. CASE Check
  <2>1. Typed'
    BY <1>1, <1>2, <1>7 DEF Typed, Check, End
  <2>2. Staged'
    BY <1>1, <1>2, <1>7 DEF Staged, Check, End
  <2>3. \A w \in Workers : worker'[w].pc = "idle"
    BY <1>1, <1>7 DEF Staged, Check
  <2> QED
    BY <2>1, <2>2, <2>3 DEF Working, Apart, Busy
<1>8. CASE Report
  <2>1. Typed'
    BY <1>1, <1>2, <1>8 DEF Typed, Report, End
  <2>2. Staged'
    BY <1>1, <1>2, <1>8 DEF Staged, Report, End
  <2> QED
    BY <1>8, <2>1, <2>2 DEF Working, Apart, Report, End
<1> QED
  BY <1>3, <1>4, <1>5, <1>6, <1>7, <1>8 DEF Main

LEMMA OutputTyped ==
  ASSUME NEW t \in Tests
  PROVE  <<Output(TestAbortsRef(t))>> \in Outputs /\ <<TestAbortsRef(t)>> \in DriverTexts
<1>1. TestAbortsRef(t).test = t
  BY DEF TestAbortsRef
<1> DEFINE J == {<<>>} \cup {<<Printed(TestOf(u))>> : u \in Tests}
           M == {<<>>, <<Marker>>}
           j == IF TestOf(t).lean = "marks" THEN <<>> ELSE <<Printed(TestOf(t))>>
           m == IF TestOf(t).lean = "prints" THEN <<>> ELSE <<Marker>>
<1>2. j \in J /\ m \in M /\ <<>> \in J /\ <<>> \in M
  OBVIOUS
<1>3. \/ Output(TestAbortsRef(t)) = [json |-> <<>>, marker |-> <<>>]
      \/ Output(TestAbortsRef(t)) = [json |-> j, marker |-> m]
  BY <1>1 DEF Output
<1>4. Outputs = {<<>>} \cup {<<[json |-> jj, marker |-> mm]>> : jj \in J, mm \in M}
  BY DEF Outputs
<1> HIDE DEF J, M, j, m
<1>5. <<Output(TestAbortsRef(t))>> \in Outputs
  BY <1>2, <1>3, <1>4
<1> QED
  BY <1>5 DEF DriverTexts

LEMMA SetWorker ==
  ASSUME Typed, NEW w \in Workers, NEW STATE r, r \in WorkerStates, Set(w, r), UNCHANGED pkg
  PROVE  /\ (worker \in [Workers -> WorkerStates])'
         /\ worker'[w] = r
         /\ \A v \in Workers \ {w} : worker'[v] = worker[v]
BY PackageFixed DEF Typed, Set

\* A step of a worker that goes on with its test.
LEMMA WorkerMoves ==
  ASSUME Inv, NEW w \in Workers, StillRunning,
         (worker \in [Workers -> WorkerStates])',
         \A v \in Workers \ {w} : worker'[v] = worker[v],
         Busy(worker[w])',
         \A v \in Workers \ {w} : worker[v].pc # "idle" =>
             worker[v].test # worker'[w].test /\ worker[v].seq # worker'[w].seq,
         seq' \in Nat, seq <= seq', DOMAIN drivers' \subseteq Nat,
         \A n \in DOMAIN drivers : n # worker'[w].seq => n \in DOMAIN drivers' /\ drivers'[n] = drivers[n]
  PROVE  Inv'
<1> USE DEF Inv
<1>1. phase = "run" /\ phase' = "run" /\ pkg' = pkg /\ built' = built /\ plan' = plan /\ lookup' = lookup
      /\ report' = report /\ evidence' = evidence /\ exit' = exit
  BY DEF StillRunning
<1>2. /\ Tests' = Tests /\ WorkerStates' = WorkerStates
      /\ \A t : HasAborts(t)' = HasAborts(t) /\ TestAbortsRef(t)' = TestAbortsRef(t)
  BY <1>1, PackageFixed
<1>3. \A r : Output(r)' = Output(r) /\ Hangs(r)' = Hangs(r)
  BY <1>1, OutputFixed
<1>5. Typed'
  BY <1>1, <1>2 DEF Typed
<1>6. Staged'
  BY <1>1, <1>2 DEF Staged
<1>7. Working'
  <2>1. ASSUME NEW v \in Workers, v # w, worker[v].pc # "idle"
        PROVE  Busy(worker[v])'
    <3>1. worker'[v] = worker[v] /\ Busy(worker[v])
      BY <1>1, <2>1 DEF Working
    <3>2. worker[v].seq \in Nat /\ worker[v].seq < seq /\ seq \in Nat
      BY <2>1, <3>1 DEF Busy, Typed
    <3>3. worker[v].seq < seq'
      BY <3>2
    <3>4. worker[v].seq \in DOMAIN drivers => worker[v].seq \in DOMAIN drivers' /\ drivers'[worker[v].seq] = drivers[worker[v].seq]
      BY <2>1
    <3> QED
      BY <1>1, <1>2, <1>3, <3>1, <3>2, <3>3, <3>4 DEF Busy
  <2>2. ASSUME NEW v \in Workers, v # w, worker[v].pc = "idle"
        PROVE  Busy(worker[v])'
    <3>1. worker'[v].pc = "idle"
      BY <2>2
    <3> QED
      BY <3>1 DEF Busy
  <2>3. \A v \in Workers : Busy(worker[v])'
    BY <2>1, <2>2
  <2> QED
    BY <2>3 DEF Working
<1>8. Apart'
  BY <1>1 DEF Apart
<1> QED
  BY <1>5, <1>6, <1>7, <1>8

\* The facts that every step of a worker needs.
LEMMA StepFacts ==
  ASSUME Inv, NEW w \in Workers, StillRunning
  PROVE  /\ phase = "run" /\ pkg' = pkg /\ built' = built /\ plan' = plan /\ lookup' = lookup /\ report' = report
         /\ \A t : TestAbortsRef(t)' = TestAbortsRef(t)
         /\ \A r : Output(r)' = Output(r) /\ Hangs(r)' = Hangs(r)
         /\ Typed /\ worker[w] \in WorkerStates /\ Busy(worker[w])
         /\ plan \subseteq Tests /\ \A t \in plan : lookup[t] = TestAbortsRef(t)
BY PackageFixed, OutputFixed DEF StillRunning, Inv, Typed, Working, Staged

LEMMA TakeInv ==
  ASSUME Inv, NEW w \in Workers, NEW t \in plan, Take(w, t)
  PROVE  Inv'
<1> DEFINE r == [Idle EXCEPT !.pc = "write", !.test = t, !.seq = seq]
<1>1. StillRunning /\ Set(w, r) /\ seq' = seq + 1 /\ drivers' = drivers /\ t \notin Running /\ report[t] = None
  BY DEF Take
<1>2. seq \in Nat /\ DOMAIN drivers \subseteq Nat
  BY DEF Inv, Typed
<1>3. seq' \in Nat /\ seq <= seq' /\ seq < seq'
  BY <1>1, <1>2
<1>4. /\ Idle \in WorkerStates /\ Idle.lean = FALSE /\ Idle.driver = <<>>
      /\ "write" \in Steps /\ t \in Given
  <2>1. "idle" \in Steps /\ None \in Given /\ <<>> \in DriverTexts /\ <<>> \in Outputs
    BY DEF Steps, Given, DriverTexts, Outputs
  <2>2. t \in Tests
    BY <1>1, StepFacts
  <2> QED
    BY <2>1, <2>2 DEF WorkerStates, Idle, Steps, Given
<1>5. r \in WorkerStates /\ r.pc = "write" /\ r.test = t /\ r.seq = seq /\ r.driver = <<>> /\ r.lean = FALSE
  <2> HIDE DEF Idle
  <2> QED
    BY <1>2, <1>4 DEF WorkerStates
<1> HIDE DEF r
<1>6. (worker \in [Workers -> WorkerStates])' /\ worker'[w] = r /\ \A v \in Workers \ {w} : worker'[v] = worker[v]
  BY <1>1, <1>5, StepFacts, SetWorker
<1>7. \A v \in Workers \ {w} : worker[v].pc # "idle" => worker[v].test # t /\ worker[v].seq # seq
  <2> SUFFICES ASSUME NEW v \in Workers, worker[v].pc # "idle"
               PROVE  worker[v].test # t /\ worker[v].seq # seq
    OBVIOUS
  <2>1. worker[v].test \in Running
    BY DEF Running
  <2>2. worker[v].seq \in Nat /\ worker[v].seq < seq
    BY <1>1, StepFacts DEF Busy
  <2>3. worker[v].seq # seq
    BY <1>2, <2>2
  <2> QED
    BY <1>1, <2>1, <2>3
<1>8. Busy(worker[w])'
  BY <1>1, <1>2, <1>3, <1>5, <1>6, StepFacts DEF Busy
<1> QED
  BY <1>1, <1>2, <1>3, <1>5, <1>6, <1>7, <1>8, WorkerMoves

LEMMA WriteInv ==
  ASSUME Inv, NEW w \in Workers, Write(w)
  PROVE  Inv'
<1> DEFINE o == worker[w]
           r == [o EXCEPT !.pc = "spawn"]
<1>1. StillRunning /\ o.pc = "write" /\ Set(w, r) /\ seq' = seq
      /\ drivers' = [n \in DOMAIN drivers \cup {o.seq} |-> IF n = o.seq THEN lookup[o.test] ELSE drivers[n]]
  BY DEF Write, Doing
<1>2. /\ o \in WorkerStates /\ Busy(o)
      /\ pkg' = pkg /\ plan' = plan /\ report' = report /\ \A t : TestAbortsRef(t)' = TestAbortsRef(t)
  BY <1>1, StepFacts
<1>3. lookup[o.test] = TestAbortsRef(o.test)
  BY <1>1, <1>2, StepFacts DEF Busy
<1>4. "spawn" \in Steps
  BY DEF Steps
<1> HIDE DEF o
<1>5. /\ r \in WorkerStates /\ r.pc = "spawn" /\ r.test = o.test /\ r.seq = o.seq
      /\ r.driver = o.driver /\ r.lean = o.lean /\ r.lake = o.lake /\ r.out = o.out
  BY <1>2, <1>4 DEF WorkerStates
<1> HIDE DEF r
<1>6. (worker \in [Workers -> WorkerStates])' /\ worker'[w] = r /\ \A v \in Workers \ {w} : worker'[v] = worker[v]
  BY <1>1, <1>5, StepFacts, SetWorker
<1>7. \A v \in Workers \ {w} : worker[v].pc # "idle" => worker[v].test # o.test /\ worker[v].seq # o.seq
  BY <1>1 DEF Inv, Apart, StillRunning, o
<1>8. seq \in Nat /\ DOMAIN drivers \subseteq Nat /\ o.seq \in Nat
  BY <1>1, <1>2 DEF Inv, Typed, Busy
<1>9. seq' \in Nat /\ seq <= seq' /\ DOMAIN drivers' \subseteq Nat
  BY <1>1, <1>8
<1>10. o.seq \in DOMAIN drivers' /\ drivers'[o.seq] = TestAbortsRef(o.test)
  BY <1>1, <1>3
<1>11. \A n \in DOMAIN drivers : n # o.seq => n \in DOMAIN drivers' /\ drivers'[n] = drivers[n]
  BY <1>1
<1>12. Busy(worker[w])'
  BY <1>1, <1>2, <1>5, <1>6, <1>10 DEF Busy
<1>13. worker'[w].test = o.test /\ worker'[w].seq = o.seq
  BY <1>5, <1>6
<1>14. /\ \A v \in Workers \ {w} : worker[v].pc # "idle" =>
              worker[v].test # worker'[w].test /\ worker[v].seq # worker'[w].seq
       /\ \A n \in DOMAIN drivers :
              n # worker'[w].seq => n \in DOMAIN drivers' /\ drivers'[n] = drivers[n]
  BY <1>7, <1>11, <1>13
<1>15. StillRunning
  BY <1>1
<1> QED
  BY <1>6, <1>9, <1>12, <1>14, <1>15, WorkerMoves

\* The steps that change only the worker's record.
LEMMA GoesOn ==
  ASSUME Inv, NEW w \in Workers, StillRunning, UNCHANGED <<seq, drivers>>, worker[w].pc # "idle",
         NEW STATE r, Set(w, r), r \in WorkerStates,
         r.test = worker[w].test, r.seq = worker[w].seq, Busy(r)
  PROVE  Inv'
<1>1. (worker \in [Workers -> WorkerStates])' /\ worker'[w] = r /\ \A v \in Workers \ {w} : worker'[v] = worker[v]
  BY StepFacts, SetWorker
<1>2. Busy(worker[w])'
  <2>1. /\ \A t : TestAbortsRef(t)' = TestAbortsRef(t)
        /\ \A q : Output(q)' = Output(q) /\ Hangs(q)' = Hangs(q)
        /\ UNCHANGED <<plan, report, seq, drivers, pkg>>
    BY StepFacts
  <2> QED
    BY <1>1, <2>1 DEF Busy
<1>3. \A v \in Workers \ {w} : worker[v].pc # "idle" =>
             worker[v].test # worker'[w].test /\ worker[v].seq # worker'[w].seq
  BY <1>1 DEF Inv, Apart, StillRunning
<1>4. seq' = seq /\ seq \in Nat /\ DOMAIN drivers' \subseteq Nat /\ drivers' = drivers
  BY DEF Inv, Typed
<1>5. seq' \in Nat /\ seq <= seq'
  BY <1>4
<1> QED
  BY <1>1, <1>2, <1>3, <1>4, <1>5, WorkerMoves

LEMMA RecordSteps ==
  ASSUME Inv, NEW w \in Workers,
         Spawn(w) \/ LakeStartsLean(w) \/ LeanEnds(w) \/ LakeEnds(w) \/ Exited(w) \/ Expire(w)
  PROVE  Inv'
<1> DEFINE o == worker[w]
<1>1. StillRunning /\ UNCHANGED <<seq, drivers>>
  BY DEF Spawn, LakeStartsLean, LeanEnds, LakeEnds, Exited, Expire
<1>2. o \in WorkerStates /\ Busy(o) /\ plan \subseteq Tests
  BY <1>1, StepFacts
<1>3. {"poll", "join", "join killed"} \subseteq Steps
  BY DEF Steps
<1>4. CASE Spawn(w)
  <2> DEFINE r == [o EXCEPT !.pc = "poll", !.lake = TRUE]
  <2>1. o.pc = "spawn" /\ Set(w, r)
    BY <1>4 DEF Spawn, Doing
  <2> HIDE DEF o
  <2>2. /\ r \in WorkerStates /\ r.pc = "poll" /\ r.test = o.test /\ r.seq = o.seq
        /\ r.driver = o.driver /\ r.lean = o.lean /\ r.lake = TRUE /\ r.out = o.out
    BY <1>2, <1>3 DEF WorkerStates
  <2> HIDE DEF r
  <2>3. Busy(r)
    BY <1>2, <2>1, <2>2 DEF Busy
  <2> QED
    BY <1>1, <2>1, <2>2, <2>3, GoesOn DEF o
<1>5. CASE LakeStartsLean(w)
  <2> DEFINE d == <<drivers[o.seq]>>
             r == [o EXCEPT !.lean = TRUE, !.driver = d]
  <2>1. o.pc = "poll" /\ o.lake /\ Set(w, r)
    BY <1>5 DEF LakeStartsLean, Doing
  <2>2. o.test \in Tests /\ d = <<TestAbortsRef(o.test)>>
    BY <1>2, <2>1 DEF Busy
  <2>3. d \in DriverTexts /\ d # <<>>
    BY <2>2, OutputTyped
  <2> HIDE DEF o, d
  <2>4. /\ r \in WorkerStates /\ r.pc = o.pc /\ r.test = o.test /\ r.seq = o.seq
        /\ r.driver = d /\ r.lean = TRUE /\ r.lake = o.lake /\ r.out = o.out
    BY <1>2, <2>3 DEF WorkerStates
  <2> HIDE DEF r
  <2>5. Busy(r)
    BY <1>2, <2>1, <2>2, <2>3, <2>4 DEF Busy
  <2> QED
    BY <1>1, <2>1, <2>4, <2>5, GoesOn DEF o
<1>6. CASE LeanEnds(w)
  <2> DEFINE x == <<Output(o.driver[1])>>
             r == [o EXCEPT !.lean = FALSE, !.out = x]
  <2>1. o.pc \in {"poll", "join", "join killed"} /\ o.lean /\ Set(w, r) /\ ~Hangs(o.driver[1])
    BY <1>6 DEF LeanEnds, Alive
  <2>0. o.test \in Tests /\ o.driver = <<TestAbortsRef(o.test)>>
    BY <1>2, <2>1 DEF Busy
  <2>2. /\ o.test \in Tests /\ o.driver = <<TestAbortsRef(o.test)>>
        /\ ~Hangs(TestAbortsRef(o.test))
    <3> HIDE DEF o
    <3>1. o.driver[1] = TestAbortsRef(o.test)
      BY <2>0, Singleton
    <3> QED
      BY <2>0, <2>1, <3>1
  <2>3. x = <<Output(TestAbortsRef(o.test))>> /\ x \in Outputs
    BY <2>2, OutputTyped
  <2> HIDE DEF o, x
  <2>4. /\ r \in WorkerStates /\ r.pc = o.pc /\ r.test = o.test /\ r.seq = o.seq
        /\ r.driver = o.driver /\ r.lean = FALSE /\ r.lake = o.lake /\ r.out = x
    BY <1>2, <2>3 DEF WorkerStates
  <2> HIDE DEF r
  <2>5. Busy(r)
    BY <1>2, <2>1, <2>2, <2>3, <2>4 DEF Busy
  <2> QED
    BY <1>1, <2>1, <2>4, <2>5, GoesOn DEF o
<1>7. CASE LakeEnds(w)
  <2> DEFINE r == [o EXCEPT !.lake = FALSE]
  <2>1. o.pc = "poll" /\ ~o.lean /\ o.driver # <<>> /\ Set(w, r)
    BY <1>7 DEF LakeEnds, Doing
  <2> HIDE DEF o
  <2>2. /\ r \in WorkerStates /\ r.pc = o.pc /\ r.test = o.test /\ r.seq = o.seq
        /\ r.driver = o.driver /\ r.lean = o.lean /\ r.lake = FALSE /\ r.out = o.out
    BY <1>2 DEF WorkerStates
  <2> HIDE DEF r
  <2>3. Busy(r)
    BY <1>2, <2>1, <2>2 DEF Busy
  <2> QED
    BY <1>1, <2>1, <2>2, <2>3, GoesOn DEF o
<1>8. CASE Exited(w)
  <2> DEFINE r == [o EXCEPT !.pc = "join"]
  <2>1. o.pc = "poll" /\ ~o.lake /\ Set(w, r)
    BY <1>8 DEF Exited, Doing
  <2> HIDE DEF o
  <2>2. /\ r \in WorkerStates /\ r.pc = "join" /\ r.test = o.test /\ r.seq = o.seq
        /\ r.driver = o.driver /\ r.lean = o.lean /\ r.lake = o.lake /\ r.out = o.out
    BY <1>2, <1>3 DEF WorkerStates
  <2> HIDE DEF r
  <2>3. Busy(r)
    BY <1>2, <2>1, <2>2 DEF Busy
  <2> QED
    BY <1>1, <2>1, <2>2, <2>3, GoesOn DEF o
<1>9. CASE Expire(w)
  <2> DEFINE r == [o EXCEPT !.pc = "join killed", !.lake = FALSE, !.lean = FALSE]
  <2>1. o.pc = "poll" /\ pkg.timeout /\ Set(w, r)
    BY <1>9 DEF Expire, Doing
  <2> HIDE DEF o
  <2>2. /\ r \in WorkerStates /\ r.pc = "join killed" /\ r.test = o.test /\ r.seq = o.seq
        /\ r.driver = o.driver /\ r.lean = FALSE /\ r.lake = FALSE /\ r.out = o.out
    BY <1>2, <1>3 DEF WorkerStates
  <2> HIDE DEF r
  <2>3. Busy(r)
    BY <1>2, <2>1, <2>2 DEF Busy
  <2> QED
    BY <1>1, <2>1, <2>2, <2>3, GoesOn DEF o
<1> QED
  BY <1>4, <1>5, <1>6, <1>7, <1>8, <1>9

-----------------------------------------------------------------------------
(* The verdict on a test is about its own driver, and is justified. *)

LEMMA VerdictIsOwn ==
  ASSUME Inv, NEW w \in Workers, phase = "run",
         worker[w].pc \in {"join", "join killed"}, ~worker[w].lean,
         NEW t, t = worker[w].test
  PROVE  /\ t \in Tests /\ t \in plan /\ report[t] = None
         /\ EvidenceOf(w) \in Evidence(t)
         /\ EvidenceOf(w) = "printed" => VerdictOf(w) = Printed(TestOf(t))
         /\ EvidenceOf(w) = "nothing" => VerdictOf(w) = Failure
         /\ EvidenceOf(w) \in {"marker", "late"} => VerdictOf(w) # Ok /\ VerdictOf(w) # Failure
<1>1. t \in plan /\ t \in Tests /\ report[t] = None /\ pkg \in Packages /\ built = pkg.builds
  BY DEF Inv, Typed, Working, Staged, Busy
<1>2. CASE worker[w].pc = "join killed"
  <2>1. VerdictOf(w) = Abort(<<"plain", 0>>, TestOf(t).module)
    BY <1>2 DEF VerdictOf
  <2>2. EvidenceOf(w) = "late" /\ pkg.timeout
    BY <1>2 DEF Inv, Working, Busy, EvidenceOf
  <2>3. VerdictOf(w) # Ok /\ VerdictOf(w) # Failure
    <3>1. \A c, m : Abort(c, m) # Ok /\ Abort(c, m) # Failure
      BY Shapes
    <3> QED
      BY <2>1, <3>1
  <2> QED
    BY <1>1, <2>2, <2>3 DEF Evidence
<1>3. CASE worker[w].pc = "join"
  <2> DEFINE out == Output(TestAbortsRef(t))
  <2>1. worker[w].out = <<out>> /\ ~Hangs(TestAbortsRef(t))
    BY <1>3 DEF Inv, Working, Busy
  <2>2. /\ VerdictOf(w) = IF out.json # <<>> THEN out.json[1] ELSE IF out.marker # <<>> THEN out.marker[1] ELSE Failure
        /\ EvidenceOf(w) = IF out.json # <<>> THEN "printed" ELSE IF out.marker # <<>> THEN "marker" ELSE "nothing"
    <3> HIDE DEF out
    <3> QED
      BY <1>3, <2>1 DEF VerdictOf, EvidenceOf
  <2>3. TestAbortsRef(t).test = t /\ TestAbortsRef(t).args = TestOf(t).params
    BY DEF TestAbortsRef
  <2>4. Compiles(TestAbortsRef(t)) <=>
           /\ {"Prelude", "package"} \subseteq pkg.builds /\ TestOf(t).lean # "broken"
           /\ "world" \in Range(TestOf(t).params) => "Generated" \in pkg.builds
    BY <1>1, <2>3 DEF Compiles
  <2>5. CASE ~Compiles(TestAbortsRef(t))
    <3>1. out.json = <<>> /\ out.marker = <<>>
      BY <2>5 DEF Output
    <3>2. VerdictOf(w) = Failure /\ EvidenceOf(w) = "nothing"
      <4> HIDE DEF out
      <4> QED
        BY <2>2, <3>1
    <3>3. "nothing" \in Evidence(t)
      BY <2>4, <2>5 DEF Evidence
    <3> QED
      BY <1>1, <3>2, <3>3
  <2>6. CASE Compiles(TestAbortsRef(t)) /\ TestOf(t).lean = "marks"
    <3>1. out.json = <<>> /\ out.marker = <<Marker>>
      BY <2>3, <2>6 DEF Output
    <3>2. VerdictOf(w) = Marker /\ EvidenceOf(w) = "marker"
      <4> HIDE DEF out
      <4>1. out.marker # <<>> /\ out.marker[1] = Marker
        BY <3>1, Singleton
      <4> QED
        BY <2>2, <3>1, <4>1
    <3>3. "marker" \in Evidence(t)
      BY <2>4, <2>6 DEF Evidence
    <3>4. Marker # Ok /\ Marker # Failure
      BY Shapes DEF Marker
    <3> QED
      BY <1>1, <3>2, <3>3, <3>4
  <2>7. CASE Compiles(TestAbortsRef(t)) /\ TestOf(t).lean # "marks"
    <3>1. out.json = <<Printed(TestOf(t))>>
      BY <2>3, <2>7 DEF Output
    <3>2. VerdictOf(w) = Printed(TestOf(t)) /\ EvidenceOf(w) = "printed"
      <4> HIDE DEF out
      <4>1. out.json # <<>> /\ out.json[1] = Printed(TestOf(t))
        BY <3>1, Singleton
      <4> QED
        BY <2>2, <4>1
    <3>3. TestOf(t).lean \in {"prints", "prints and marks"}
      <4>1. TestOf(t).lean \in {"prints", "prints and marks", "marks", "broken", "hangs"}
        BY <1>1, Assumed DEF TestOK
      <4>2. TestOf(t).lean # "hangs"
        BY <2>1, <2>3, <2>7 DEF Hangs
      <4> QED
        BY <2>4, <2>7, <4>1, <4>2
    <3>4. "printed" \in Evidence(t)
      BY <2>4, <2>7, <3>3 DEF Evidence
    <3> QED
      BY <1>1, <3>2, <3>4
  <2> QED
    BY <2>5, <2>6, <2>7
<1> QED
  BY <1>2, <1>3

\* The status under which a verdict comes to the runner.
Carries(res, v) ==
    /\ v = Ok => res = Ok
    /\ v = Failure => res # Ok /\ res[1] = "INVARIANT_VIOLATION"
    /\ v # Ok /\ v # Failure => res # Ok /\ res[1] = "ABORTED"

LEMMA ResultStatus ==
  ASSUME NEW t, NEW v
  PROVE  Carries(verdict_to_vm_result(t, v), v)
<1>1. CASE v = Failure
  BY <1>1, Shapes DEF Carries, verdict_to_vm_result, Ok
<1>2. CASE v = Ok
  BY <1>2, Shapes DEF Carries, verdict_to_vm_result
<1>3. CASE v # Failure /\ v # Ok
  BY <1>3, AlignShape DEF Carries, verdict_to_vm_result
<1> QED
  BY <1>1, <1>2, <1>3

LEMMA VerdictJustified ==
  ASSUME Inv, NEW w \in Workers, phase = "run",
         worker[w].pc \in {"join", "join killed"}, ~worker[w].lean,
         NEW t, t = worker[w].test
  PROVE  LET res == verdict_to_vm_result(t, VerdictOf(w))
         IN  (IF Passes(TestOf(t).expected, res) THEN "passed" ELSE "failed") \in Justified(t, EvidenceOf(w))
<1> DEFINE res == verdict_to_vm_result(t, VerdictOf(w))
           e   == EvidenceOf(w)
           a   == TestOf(t).expected
<1>1. /\ t \in Tests /\ pkg \in Packages /\ e \in Evidence(t)
      /\ e = "printed" => VerdictOf(w) = Printed(TestOf(t))
      /\ e = "nothing" => VerdictOf(w) = Failure
      /\ e \in {"marker", "late"} => VerdictOf(w) # Ok /\ VerdictOf(w) # Failure
  BY VerdictIsOwn DEF Inv, Typed
<1>2. e \in {"printed", "marker", "late", "nothing"}
  BY <1>1 DEF Evidence
<1>3. a[1] \in {"None", "Expected", "Coded", "Error"}
  BY <1>1, Assumed DEF TestOK
<1>4. Carries(res, VerdictOf(w))
  <2>1. \A v : Carries(verdict_to_vm_result(t, v), v)
    BY ResultStatus
  <2> QED
    BY <2>1
<1>5. /\ Printed(TestOf(t)) = Ok <=> TestOf(t).result = Ok
      /\ Printed(TestOf(t)) # Failure
  BY <1>1, OwnShape, Shapes DEF Printed
<1>6. /\ res = Ok <=> e = "printed" /\ TestOf(t).result = Ok
      /\ res # Ok => res[1] = IF e = "nothing" THEN "INVARIANT_VIOLATION" ELSE "ABORTED"
  <2> HIDE DEF res, e
  <2> QED
    BY <1>1, <1>2, <1>4, <1>5, Shapes DEF Carries
<1>7. ASSUME Passes(a, res) PROVE MayPass(t, e)
  <2>1. CASE a[1] = "None"
    <3>1. res = Ok
      BY <1>7, <2>1 DEF Passes
    <3> QED
      BY <1>6, <2>1, <3>1 DEF MayPass
  <2>2. CASE a[1] = "Expected"
    <3>1. res # Ok
      BY <1>7, <2>2 DEF Passes
    <3> QED
      BY <1>6, <2>2, <3>1 DEF MayPass
  <2>3. CASE a[1] = "Coded"
    <3>1. res # Ok /\ res[1] = "ABORTED"
      BY <1>7, <2>3 DEF Passes
    <3> QED
      BY <1>6, <2>3, <3>1 DEF MayPass
  <2>4. CASE a[1] = "Error"
    <3>1. res # Ok /\ res[1] = a[2]
      BY <1>7, <2>4 DEF Passes
    <3> QED
      BY <1>6, <2>4, <3>1 DEF MayPass
  <2> QED
    BY <1>3, <2>1, <2>2, <2>3, <2>4
<1>8. ASSUME ~Passes(a, res) PROVE MayFail(t, e)
  <2>1. CASE e = "printed"
    <3>1. ~(Deserved(t) /\ Located(t))
      BY <1>1, <1>8, <2>1, DeservedPasses
    <3> QED
      BY <2>1, <3>1 DEF MayFail
  <2>2. CASE e # "printed"
    <3>1. res # Ok
      BY <1>6, <2>2
    <3>2. a[1] # "Expected"
      <4> HIDE DEF res, a
      <4> QED
        BY <1>8, <3>1 DEF Passes
    <3> QED
      BY <2>2, <3>2 DEF MayFail
  <2> QED
    BY <2>1, <2>2
<1> HIDE DEF res, e, a
<1>9. (IF Passes(a, res) THEN "passed" ELSE "failed") \in Justified(t, e)
  BY <1>7, <1>8 DEF Justified
<1> QED
  BY <1>9 DEF res, e, a

LEMMA JudgeStep ==
  ASSUME Inv, NEW w \in Workers, Judge(w)
  PROVE  /\ Inv'
         /\ phase = "run" /\ worker[w].test \in Tests /\ report[worker[w].test] = None
         /\ UNCHANGED <<pkg, exit>>
         /\ \E e \in Evidence(worker[w].test), v \in {"passed", "failed"} :
               /\ v \in Justified(worker[w].test, e)
               /\ report' = [report EXCEPT ![worker[w].test] = v]
               /\ evidence' = [evidence EXCEPT ![worker[w].test] = e]
<1> DEFINE t   == worker[w].test
           res == verdict_to_vm_result(t, VerdictOf(w))
           v   == IF Passes(TestOf(t).expected, res) THEN "passed" ELSE "failed"
           e   == EvidenceOf(w)
<1>1. phase = "run" /\ worker[w].pc \in {"join", "join killed"} /\ ~worker[w].lean
  BY DEF Judge
<1>2. t \in Tests /\ t \in plan /\ report[t] = None
  BY <1>1, VerdictIsOwn
<1>3. v \in Justified(t, e) /\ e \in Evidence(t)
  BY <1>1, VerdictJustified, VerdictIsOwn
<1>4. ~ConversionPanics(res)
  BY NoConversionPanics DEF Inv, Typed
<1>5. /\ report' = [report EXCEPT ![t] = v] /\ evidence' = [evidence EXCEPT ![t] = e] /\ Set(w, Idle)
      /\ UNCHANGED <<phase, exit, pkg, built, plan, lookup, seq, drivers>>
  BY <1>4 DEF Judge
<1>6. Idle \in WorkerStates /\ Idle.pc = "idle"
  <2>1. "idle" \in Steps /\ None \in Given /\ <<>> \in DriverTexts /\ <<>> \in Outputs
    BY DEF Steps, Given, DriverTexts, Outputs
  <2> QED
    BY <2>1 DEF WorkerStates, Idle
<1>7. (worker \in [Workers -> WorkerStates])' /\ worker'[w] = Idle /\ \A u \in Workers \ {w} : worker'[u] = worker[u]
  BY <1>5, <1>6, SetWorker DEF Inv
<1>8. /\ Tests' = Tests /\ WorkerStates' = WorkerStates
      /\ \A u : HasAborts(u)' = HasAborts(u) /\ TestAbortsRef(u)' = TestAbortsRef(u)
  BY <1>5, PackageFixed
<1>9. \A r : Output(r)' = Output(r) /\ Hangs(r)' = Hangs(r)
  BY <1>5, OutputFixed
<1>10. v \in {"passed", "failed"}
  OBVIOUS
<1>20. e \in Evidences
  BY <1>3 DEF Evidence, Evidences
<1> HIDE DEF v, t, res, e
<1>21. evidence' \in [Tests -> {None} \cup Evidences]
  BY <1>5, <1>20 DEF Inv, Typed
<1>11. report' \in [Tests -> {None, "left out", "passed", "failed"}]
  BY <1>5, <1>10 DEF Inv, Typed
<1>12. \A u \in Tests : u # t => report'[u] = report[u]
  BY <1>5 DEF Inv, Typed
<1>13. report'[t] = v /\ report[t] # "left out"
  BY <1>2, <1>5 DEF Inv, Typed, None
<1>14. Typed'
  BY <1>5, <1>7, <1>8, <1>11, <1>21 DEF Inv, Typed
<1>15. \A u \in Tests : report'[u] = "left out" <=> u \notin plan
  BY <1>1, <1>2, <1>10, <1>12, <1>13 DEF Inv, Staged
<1>16. Staged'
  BY <1>1, <1>5, <1>8, <1>15 DEF Inv, Staged
<1>17. Working'
  <2>1. ASSUME NEW u \in Workers, u # w, worker[u].pc # "idle"
        PROVE  Busy(worker[u])'
    <3>1. worker'[u] = worker[u] /\ Busy(worker[u])
      BY <1>1, <1>7, <2>1 DEF Inv, Working
    <3>2. worker[u].test # t /\ worker[u].test \in Tests
      BY <1>1, <2>1, <3>1 DEF Inv, Apart, Busy, Staged, t
    <3>3. report'[worker[u].test] = report[worker[u].test]
      BY <1>12, <3>2
    <3> QED
      BY <1>5, <1>8, <1>9, <3>1, <3>3 DEF Busy
  <2>2. ASSUME NEW u \in Workers, worker'[u].pc = "idle"
        PROVE  Busy(worker[u])'
    BY <2>2 DEF Busy
  <2>3. \A u \in Workers : Busy(worker[u])'
    BY <1>6, <1>7, <2>1, <2>2
  <2> QED
    BY <2>3 DEF Working
<1>18. Apart'
  <2> SUFFICES ASSUME NEW x \in Workers, NEW u \in Workers, x # u,
                      worker'[x].pc # "idle", worker'[u].pc # "idle"
               PROVE  worker'[x].test # worker'[u].test /\ worker'[x].seq # worker'[u].seq
    BY DEF Apart
  <2>1. x # w /\ u # w
    BY <1>6, <1>7
  <2>2. worker'[x] = worker[x] /\ worker'[u] = worker[u]
    BY <1>7, <2>1
  <2> QED
    BY <1>1, <2>2 DEF Inv, Apart
<1>19. Inv'
  BY <1>14, <1>16, <1>17, <1>18 DEF Inv
<1> QED
  BY <1>1, <1>2, <1>3, <1>5, <1>10, <1>19 DEF t

LEMMA NextInv ==
  ASSUME Inv, [Next]_vars
  PROVE  Inv'
<1>1. CASE UNCHANGED vars
  <2>1. UNCHANGED <<pkg, built>>
    BY <1>1 DEF vars
  <2>2. /\ Tests' = Tests /\ WorkerStates' = WorkerStates
        /\ \A u : HasAborts(u)' = HasAborts(u) /\ TestAbortsRef(u)' = TestAbortsRef(u)
        /\ \A r : Output(r)' = Output(r) /\ Hangs(r)' = Hangs(r)
    BY <2>1, PackageFixed, OutputFixed
  <2>3. Typed' /\ Staged' /\ Apart'
    BY <1>1, <2>2 DEF Inv, Typed, Staged, Apart, vars
  <2>4. Working'
    BY <1>1, <2>2 DEF Inv, Working, Busy, vars
  <2> QED
    BY <2>3, <2>4 DEF Inv
<1>2. CASE Main
  BY <1>2, MainInv
<1>3. ASSUME NEW w \in Workers, WorkerStep(w) PROVE Inv'
  <2>1. CASE \E t \in plan : Take(w, t)
    BY <2>1, TakeInv
  <2>2. CASE Write(w)
    BY <2>2, WriteInv
  <2>3. CASE Spawn(w) \/ Exited(w) \/ Expire(w)
    BY <2>3, RecordSteps
  <2>4. CASE Judge(w)
    BY <2>4, JudgeStep
  <2> QED
    BY <1>3, <2>1, <2>2, <2>3, <2>4 DEF WorkerStep
<1>4. ASSUME NEW w \in Workers, Processes(w) PROVE Inv'
  BY <1>4, RecordSteps DEF Processes
<1> QED
  BY <1>1, <1>2, <1>3, <1>4 DEF Next, LeanRunsOn, Finished

-----------------------------------------------------------------------------
(* The refinement: each step is a step of TestReport, or changes nothing    *)
(* that it sees.                                                            *)

Seen  == [t \in Reported |-> report[t]]
Known == [t \in Reported |-> evidence[t]]

LEMMA ContractFixed ==
  ASSUME UNCHANGED <<pkg>>
  PROVE  Contract' = Contract /\ Reported' = Reported
BY DEF Contract, Reported, Tests, TestOf, HasAborts, Justified, Evidence, MayPass, MayFail, Located, Deserved, OwnResult, ConversionPanics,
       Decoded, PoolEntry, IsName, Passes, TypeOf, reframe_module_id

LEMMA ReportedTests ==
  /\ Reported \subseteq Tests
  /\ DOMAIN Contract = Reported
  /\ ~pkg.generate_only /\ ~pkg.type_check_only => Reported = Tests
BY DEF Reported, Contract

LEMMA QuietStep ==
  ASSUME UNCHANGED <<pkg, report, evidence, exit>>
  PROVE  UNCHANGED <<Contract, Seen, Known, exit>>
BY ContractFixed DEF Seen, Known

\* The steps that end the run say what the report says.
LEMMA FinishStep ==
  ASSUME Inv, UNCHANGED <<pkg, report, evidence>>, exit = "running",
         \A t \in Reported : report[t] # None,
         exit' = IF \E t \in Reported : report[t] = "failed" THEN "failed" ELSE "ok"
  PROVE  Promise!Next
<1>1. Contract' = Contract /\ Seen' = Seen /\ Known' = Known
  BY ContractFixed DEF Seen, Known
<1>2. Promise!Finish
  BY <1>1, ReportedTests DEF Promise!Finish, Promise!Tests, Seen, Known, None
<1> QED
  BY <1>1, <1>2 DEF Promise!Next

LEMMA MainRefines ==
  ASSUME Inv, Main
  PROVE  Promise!Next \/ UNCHANGED <<Contract, Seen, Known, exit>>
<1>1. pkg' = pkg /\ evidence' = evidence
  BY DEF Main, Emit, Build, Plan, Lookup, Check, Report, Quiet
<1>2. exit = "running"
  BY DEF Inv, Staged, Main, Emit, Build, Plan, Lookup, Check, Report
<1>3. CASE Emit
  <2>1. CASE pkg.generate_only
    <3>1. Reported = {} /\ exit' = "ok" /\ report' = report
      BY <1>3, <2>1 DEF Emit, End, Reported
    <3> QED
      BY <1>1, <1>2, <3>1, FinishStep
  <2>2. CASE ~pkg.generate_only
    BY <1>1, <1>3, <2>2, QuietStep DEF Emit
  <2> QED
    BY <2>1, <2>2
<1>4. CASE Build
  BY <1>1, <1>4, QuietStep DEF Build
<1>5. CASE Plan
  <2>1. CASE Tests = {}
    <3>1. Reported = {} /\ exit' = "ok" /\ report' = report
      BY <1>5, <2>1, ReportedTests DEF Plan, End
    <3> QED
      BY <1>1, <1>2, <3>1, FinishStep
  <2>2. CASE Tests # {}
    BY <1>1, <1>5, <2>2, QuietStep DEF Plan
  <2> QED
    BY <2>1, <2>2
<1>6. CASE Lookup
  <2>1. exit' = exit /\ report' = [t \in Tests |-> IF HasAborts(t) THEN None ELSE "left out"]
    BY <1>6 DEF Lookup
  <2>2. \A t \in Tests : report[t] = None
    BY <1>6 DEF Inv, Staged, Lookup
  <2>3. Contract' = Contract /\ Reported' = Reported
    BY <1>1, ContractFixed
  <2>4. \A t \in Reported : t \in Tests /\ (Contract[t].optional <=> ~HasAborts(t))
    BY DEF Contract, Reported
  <2>5. Seen' = [t \in Reported |-> IF Seen[t] = "none" /\ Contract[t].optional THEN "left out" ELSE Seen[t]]
    BY <2>1, <2>2, <2>3, <2>4 DEF Seen, None
  <2>6. Promise!LeaveOut
    <3>1. Known' = Known
      BY <1>1, <2>3 DEF Known
    <3> QED
      BY <2>1, <2>5, <3>1, ReportedTests DEF Promise!LeaveOut, Promise!Tests, Seen, Known
  <2> QED
    BY <1>2, <2>3, <2>6 DEF Promise!Next
<1>7. CASE Check
  <2>0. report' = report
    BY <1>7 DEF Check
  <2>1. CASE plan = {}
    <3>1. exit' = "ok"
      BY <1>7, <2>1 DEF Check, End
    <3>2. \A t \in Reported : report[t] = "left out"
      BY <1>7, <2>1, ReportedTests DEF Inv, Staged, Check
    <3> QED
      BY <1>1, <1>2, <2>0, <3>1, <3>2, FinishStep DEF None
  <2>2. CASE plan # {} /\ pkg.type_check_only
    <3>0. lookup = [t \in plan |-> TestAbortsRef(t)]
      BY <1>7 DEF Inv, Staged, Check
    <3>1. \A t \in DOMAIN lookup : lookup[t].new_pipeline_shape = FALSE
      BY <3>0 DEF TestAbortsRef
    <3>2. typecheck_drivers({lookup[t] : t \in DOMAIN lookup})
      BY <3>1 DEF typecheck_drivers
    <3>3. exit' = "ok"
      BY <1>7, <2>2, <3>2 DEF Check, End
    <3>4. Reported = {}
      BY <2>2 DEF Reported
    <3> QED
      BY <1>1, <1>2, <2>0, <3>3, <3>4, FinishStep
  <2>3. CASE plan # {} /\ ~pkg.type_check_only
    BY <1>1, <1>7, <2>0, <2>3, QuietStep DEF Check
  <2> QED
    BY <2>1, <2>2, <2>3
<1>8. CASE Report
  <2>1. /\ Reported = Tests /\ plan \subseteq Tests /\ report' = report
        /\ \A t \in Tests : report[t] = "left out" <=> t \notin plan
        /\ \A t \in plan : report[t] # None
        /\ exit' = IF \A t \in plan : report[t] = "passed" THEN "ok" ELSE "failed"
    BY <1>8, ReportedTests DEF Inv, Staged, Report, End
  <2>2. \A t \in Tests : report[t] \in {None, "left out", "passed", "failed"}
    BY DEF Inv, Typed
  <2>3. \A t \in Reported : report[t] # None
    BY <2>1 DEF None
  <2>4. (\A t \in plan : report[t] = "passed") <=> ~(\E t \in Reported : report[t] = "failed")
    BY <2>1, <2>2
  <2> QED
    BY <1>1, <1>2, <2>1, <2>3, <2>4, FinishStep
<1> QED
  BY <1>3, <1>4, <1>5, <1>6, <1>7, <1>8 DEF Main

LEMMA JudgeRefines ==
  ASSUME Inv, NEW w \in Workers, Judge(w)
  PROVE  Promise!Next
<1>0. PICK t : t = worker[w].test
  OBVIOUS
<1>1. phase = "run" /\ t \in Tests /\ report[t] = None /\ UNCHANGED <<pkg, exit>>
  BY <1>0, JudgeStep
<1>2. PICK e \in Evidence(t), v \in {"passed", "failed"} :
            /\ v \in Justified(t, e)
            /\ report' = [report EXCEPT ![t] = v]
            /\ evidence' = [evidence EXCEPT ![t] = e]
  BY <1>0, JudgeStep
<1>3. Contract' = Contract /\ Reported' = Reported
  BY <1>1, ContractFixed
<1>4. Reported = Tests /\ exit = "running"
  BY <1>1, ReportedTests DEF Inv, Staged
<1>5. Contract[t].verdicts = [x \in Evidence(t) |-> Justified(t, x)]
  BY <1>1, <1>4 DEF Contract
<1>6. Seen' = [Seen EXCEPT ![t] = v] /\ Known' = [Known EXCEPT ![t] = e]
  BY <1>1, <1>2, <1>3, <1>4 DEF Seen, Known, Inv, Typed
<1>7. Seen[t] = "none"
  BY <1>1, <1>4 DEF Seen, None
<1>11. e \in DOMAIN Contract[t].verdicts /\ v \in Contract[t].verdicts[e]
  BY <1>2, <1>5
<1>8. Promise!Report(t)
  BY <1>1, <1>2, <1>6, <1>7, <1>11 DEF Promise!Report, Seen, Known
<1>9. t \in Promise!Tests
  BY <1>1, <1>4, ReportedTests DEF Promise!Tests
<1>10. \E u \in Promise!Tests : Promise!Report(u)
  BY <1>8, <1>9
<1> QED
  BY <1>3, <1>4, <1>10 DEF Promise!Next

\* The invariant of the run, for any number of workers and any package: how far
\* the main thread is, and that a worker's test, number, driver and output
\* belong together and to no other worker (run_lean_tests, run_one).
THEOREM WorkersApart == Spec => []Inv
BY InitInv, NextInv, PTL DEF Spec

\* The report is the one promised, for any package and any number of workers:
\* each test is listed as left out or reported once; a verdict that a driver
\* printed is judged by the test's own code, and a test whose driver printed none
\* passes only by an annotation that takes what happened instead; the exit status
\* is the report's (execute_backend_lean_test, run_one, align_abort_with_expected).
THEOREM ReportIsKept == Spec => ReportKept
<1>1. Init => Promise!Init
  <2> SUFFICES ASSUME Init PROVE Promise!Init
    OBVIOUS
  <2>1. \A t \in Reported : report[t] = "none" /\ evidence[t] = "none"
    BY ReportedTests DEF Init, None
  <2> QED
    BY <2>1, ReportedTests DEF Init, Promise!Init, Promise!Tests
<1>2. ASSUME Inv, [Next]_vars
      PROVE  [Promise!Next]_<<Contract, Seen, Known, exit>>
  <2>1. CASE UNCHANGED vars
    BY <2>1, QuietStep DEF vars
  <2>2. CASE Main
    BY <1>2, <2>2, MainRefines
  <2>3. ASSUME NEW w \in Workers, Judge(w) PROVE Promise!Next
    BY <1>2, <2>3, JudgeRefines
  <2>4. ASSUME NEW w \in Workers, WorkerStep(w), ~Judge(w) PROVE UNCHANGED <<Contract, Seen, Known, exit>>
    <3>1. UNCHANGED <<pkg, report, evidence, exit>>
      BY <2>4 DEF WorkerStep, Take, Write, Spawn, Exited, Expire, StillRunning
    <3> QED
      BY <3>1, QuietStep
  <2>5. ASSUME NEW w \in Workers, Processes(w) PROVE UNCHANGED <<Contract, Seen, Known, exit>>
    <3>1. UNCHANGED <<pkg, report, evidence, exit>>
      BY <2>5 DEF Processes, LakeStartsLean, LeanEnds, LakeEnds, StillRunning
    <3> QED
      BY <3>1, QuietStep
  <2>6. Next => (Main \/ (\E w \in Workers : WorkerStep(w) \/ Processes(w)) \/ UNCHANGED vars)
    BY DEF Next, LeanRunsOn, Finished
  <2> QED
    BY <1>2, <2>1, <2>2, <2>3, <2>4, <2>5, <2>6
<1>3. Spec => []Inv
  BY WorkersApart
<1> QED
  BY <1>1, <1>2, <1>3, PTL DEF Spec, ReportKept, Promise!Spec, Seen, Known

=============================================================================
