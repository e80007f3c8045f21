------------------------------ MODULE LeanTests ------------------------------
(***************************************************************************)
(* sui-prover --backend lean --test: the Move unit tests of a package, run *)
(* by Lean (lean_driver.rs, lean_test.rs).  Each test is a small driver    *)
(* program of its own, written to Drivers/ and run by `lake env lean       *)
(* --run`; several workers do so at once.  The driver evaluates the abort  *)
(* condition of the test and prints one line, from which the result that   *)
(* the Move virtual machine would have given is made up again.             *)
(*                                                                         *)
(* A test is a record:                                                     *)
(*   module    <<address, name>>                                           *)
(*   target, inIR, aborts, onDisk    what the lookup asks                  *)
(*   params    the parameters of the rendered .aborts beyond the test's    *)
(*             own: a sequence of "world" and "ghost"                      *)
(*   result    what its Move code does: Ok, or Abort(code, module)         *)
(*   named     whether the rendered abort names its module                 *)
(*   expected  its #[expected_failure] annotation                          *)
(*   lean      how its driver behaves: "prints", "prints and marks",       *)
(*             "marks" (crashes after the stderr marker), "broken", "hangs"*)
(* A code is <<"plain", n>> or <<"clever", i>>, tagged with an index into  *)
(* the constant pool of a module (or with none).                           *)
(***************************************************************************)
EXTENDS Naturals, Sequences, SequencesExt, FiniteSets, FiniteSetsExt

CONSTANTS
    Workers,     \* the threads of the unit test runner
    Packages     \* [tests, pools, builds, timeout, generate_only, type_check_only]

VARIABLES
    pkg,
    phase,       \* "emit", "build", "plan", "lookup", "check", "run", "done", "panic"
    built,       \* the lake targets that were built
    plan,        \* the tests upstream plans to run
    lookup,      \* test -> what its driver is made of
    seq,         \* the number of the next driver
    drivers,     \* Drivers/: number -> driver
    worker,      \* worker -> what it is doing
    report,      \* test -> "none", "left out", "passed", "failed"
    evidence,    \* history: test -> what its verdict was taken from: what its driver
                 \* "printed", the "marker" of one that crashed, its being "late", or
                 \* "nothing"
    exit         \* "running", "ok", "failed"

vars == <<pkg, phase, built, plan, lookup, seq, drivers, worker, report, evidence, exit>>

Ok == <<"ok">>
Abort(code, module) == <<"abort", code, module>>
Failure  == <<"failure">>          \* an Err of run_one
NoIndex  == 99
Tests    == DOMAIN pkg.tests
TestOf(t) == pkg.tests[t]
None     == "none"

\* The constants of a module are names or numbers, and few enough for the tag of
\* a code; a code that an annotation gives as a number is not tagged.
PoolsOK(pools) ==
    /\ <<>> \notin DOMAIN pools
    /\ \A m \in DOMAIN pools :
         /\ pools[m] \in Seq(({"str"} \X STRING) \cup ({"num"} \X Nat))
         /\ Len(pools[m]) <= NoIndex
ErrorTypeOK(type) == type[1] \in {"Code", "ConstantName"} /\ (type[1] = "Code" => type[2][1] = "plain")
TestOK(r, pools) ==
    /\ \/ r.result = Ok
       \/ /\ r.result = Abort(r.result[2], r.result[3])
          /\ r.result[2] \in {"plain", "clever"} \X Nat
          /\ r.result[3] \in DOMAIN pools
    /\ r.expected[1] \in {"None", "Expected", "Coded", "Error"}
    /\ r.lean \in {"prints", "prints and marks", "marks", "broken", "hangs"}
    /\ r.expected[1] = "Coded" => ErrorTypeOK(r.expected[2])
    /\ r.expected[1] = "Error" /\ r.expected[3] # <<>> => ErrorTypeOK(r.expected[3][1])
ASSUME PackagesAssumption ==
    \A p \in Packages : PoolsOK(p.pools) /\ \A t \in DOMAIN p.tests : TestOK(p.tests[t], p.pools)

-----------------------------------------------------------------------------
(* execute_backend_lean_test *)

Idle == [pc |-> "idle", test |-> None, seq |-> 0, lake |-> FALSE, lean |-> FALSE, driver |-> <<>>, out |-> <<>>]

Init ==
    /\ pkg \in Packages
    /\ phase = "emit" /\ built = {} /\ plan = {} /\ lookup = <<>>
    /\ seq = 0 /\ drivers = <<>>
    /\ worker = [w \in Workers |-> Idle]
    /\ report = [t \in Tests |-> None] /\ evidence = report /\ exit = "running"

End(ok) == phase' = "done" /\ exit' = IF ok THEN "ok" ELSE "failed"
Quiet   == UNCHANGED <<pkg, seq, drivers, worker, evidence>>

Emit ==
    /\ phase = "emit"
    /\ IF pkg.generate_only THEN End(TRUE) ELSE phase' = "build" /\ UNCHANGED exit
    /\ UNCHANGED <<built, plan, lookup, report>> /\ Quiet

\* run_lake_build_targets: a failure, or a timeout, is printed and passed over.
Build ==
    /\ phase = "build"
    /\ built' = pkg.builds
    /\ phase' = "plan"
    /\ UNCHANGED <<plan, lookup, report, exit>> /\ Quiet

\* build_test_plan_from_packages, with the filter.
Plan ==
    /\ phase = "plan"
    /\ plan' = Tests
    /\ IF Tests = {} THEN End(TRUE) ELSE phase' = "lookup" /\ UNCHANGED exit
    /\ UNCHANGED <<built, lookup, report>> /\ Quiet

-----------------------------------------------------------------------------
(* build_test_aborts_lookup: the tests whose .aborts was rendered, with    *)
(* the parameters read off its signature.  The others are listed.          *)

HasAborts(t) == LET r == TestOf(t) IN r.target /\ r.inIR /\ r.aborts /\ r.onDisk

TestAbortsRef(t) == [test |-> t, args |-> TestOf(t).params, new_pipeline_shape |-> FALSE]

Lookup ==
    /\ phase = "lookup"
    /\ lookup' = [t \in {u \in plan : HasAborts(u)} |-> TestAbortsRef(t)]
    /\ plan' = {t \in plan : HasAborts(t)}
    /\ report' = [t \in Tests |-> IF HasAborts(t) THEN None ELSE "left out"]
    /\ phase' = "check"
    /\ UNCHANGED <<built, exit>> /\ Quiet

\* The drivers of the other pipeline's shape are compiled together.
typecheck_drivers(refs) ==
    LET entries == {r \in refs : r.new_pipeline_shape}
    IN  entries = {} \/ \A r \in entries : r.args = TestOf(r.test).params

Check ==
    /\ phase = "check"
    /\ IF plan = {} THEN End(TRUE)
       ELSE IF pkg.type_check_only THEN End(typecheck_drivers({lookup[t] : t \in DOMAIN lookup}))
       ELSE phase' = "run" /\ UNCHANGED exit
    /\ UNCHANGED <<built, plan, lookup, report>> /\ Quiet

-----------------------------------------------------------------------------
(* run_one and run_with_timeout, a step at a time.  lake starts lean, both *)
(* hold the pipes; two threads read them to their end.                     *)

Doing(w, pc) == worker[w].pc = pc
Set(w, r) == worker' = [worker EXCEPT ![w] = r]
StillRunning == phase = "run" /\ UNCHANGED <<pkg, phase, built, plan, lookup, report, evidence, exit>>

Running == {worker[w].test : w \in {v \in Workers : worker[v].pc # "idle"}}
\* The runner gives a worker a test; its driver is numbered.
\* Mutant: the number is read before it is counted up.
TakeUncounted(w, t) ==
    /\ StillRunning /\ Doing(w, "idle") /\ t \in plan \ Running /\ report[t] = None
    /\ Set(w, [Idle EXCEPT !.pc = "write", !.test = t, !.seq = seq])
    /\ UNCHANGED <<seq, drivers>>
Take(w, t) ==
    /\ StillRunning /\ Doing(w, "idle") /\ t \in plan \ Running /\ report[t] = None
    /\ Set(w, [Idle EXCEPT !.pc = "write", !.test = t, !.seq = seq])
    /\ seq' = seq + 1
    /\ UNCHANGED drivers

Write(w) ==
    /\ StillRunning /\ Doing(w, "write")
    /\ drivers' = [n \in DOMAIN drivers \cup {worker[w].seq} |-> IF n = worker[w].seq THEN lookup[worker[w].test] ELSE drivers[n]]
    /\ Set(w, [worker[w] EXCEPT !.pc = "spawn"])
    /\ UNCHANGED seq

Spawn(w) ==
    /\ StillRunning /\ Doing(w, "spawn")
    /\ Set(w, [worker[w] EXCEPT !.pc = "poll", !.lake = TRUE])
    /\ UNCHANGED <<seq, drivers>>

\* lake starts lean, which reads the driver.
LakeStartsLean(w) ==
    /\ StillRunning /\ Doing(w, "poll") /\ worker[w].lake /\ worker[w].driver = <<>>
    /\ Set(w, [worker[w] EXCEPT !.lean = TRUE, !.driver = <<drivers[worker[w].seq]>>])
    /\ UNCHANGED <<seq, drivers>>

\* A driver compiles when what it imports was built and its call is fully applied.
Compiles(ref) ==
    /\ {"Prelude", "package"} \subseteq built
    /\ "world" \in Range(TestOf(ref.test).params) => "Generated" \in built
    /\ ref.args = TestOf(ref.test).params
    /\ TestOf(ref.test).lean # "broken"
Marker == Abort(<<"plain", 7>>, <<>>)     \* left by a stub on the way
Printed(r) == IF r.result = Ok \/ r.named THEN r.result ELSE Abort(r.result[2], <<>>)
Output(ref) ==
    LET r == TestOf(ref.test)
        marks == IF r.lean = "prints" THEN <<>> ELSE <<Marker>>
    IN  IF ~Compiles(ref) THEN [json |-> <<>>, marker |-> <<>>]
        ELSE [json |-> IF r.lean = "marks" THEN <<>> ELSE <<Printed(r)>>, marker |-> marks]
Hangs(ref) == Compiles(ref) /\ TestOf(ref.test).lean = "hangs"

Alive(w) == worker[w].pc \in {"poll", "join", "join killed"} /\ worker[w].lean
LeanEnds(w) ==
    /\ StillRunning /\ Alive(w) /\ ~Hangs(worker[w].driver[1])
    /\ Set(w, [worker[w] EXCEPT !.lean = FALSE, !.out = <<Output(worker[w].driver[1])>>])
    /\ UNCHANGED <<seq, drivers>>
\* A driver that hangs keeps its worker waiting.
LeanRunsOn(w) ==
    /\ phase = "run" /\ Alive(w) /\ Hangs(worker[w].driver[1])
    /\ UNCHANGED vars
LakeEnds(w) ==
    /\ StillRunning /\ Doing(w, "poll") /\ worker[w].lake /\ ~worker[w].lean /\ worker[w].driver # <<>>
    /\ Set(w, [worker[w] EXCEPT !.lake = FALSE])
    /\ UNCHANGED <<seq, drivers>>

\* try_wait: the child is looked at before the clock.
Exited(w) ==
    /\ StillRunning /\ Doing(w, "poll") /\ ~worker[w].lake
    /\ Set(w, [worker[w] EXCEPT !.pc = "join"])
    /\ UNCHANGED <<seq, drivers>>
\* The whole process group is killed.  Mutant: lake alone.
KillLake(w) ==
    /\ StillRunning /\ Doing(w, "poll") /\ pkg.timeout /\ worker[w].lake
    /\ Set(w, [worker[w] EXCEPT !.pc = "join killed", !.lake = FALSE])
    /\ UNCHANGED <<seq, drivers>>
Expire(w) ==
    /\ StillRunning /\ Doing(w, "poll") /\ pkg.timeout /\ worker[w].lake
    /\ Set(w, [worker[w] EXCEPT !.pc = "join killed", !.lake = FALSE, !.lean = FALSE])
    /\ UNCHANGED <<seq, drivers>>

-----------------------------------------------------------------------------
(* The verdict, and what the unit test runner makes of it. *)

\* The line printed last counts; the marker only when there is none.
VerdictOf(w) ==
    LET out == worker[w].out[1]
    IN  IF worker[w].pc = "join killed" THEN Abort(<<"plain", 0>>, TestOf(worker[w].test).module)
        ELSE IF out.json # <<>> THEN out.json[1]
        ELSE IF out.marker # <<>> THEN out.marker[1] ELSE Failure

EvidenceOf(w) ==
    LET out == worker[w].out[1]
    IN  IF worker[w].pc = "join killed" THEN "late"
        ELSE IF out.json # <<>> THEN "printed"
        ELSE IF out.marker # <<>> THEN "marker" ELSE "nothing"

\* The module of an abort, at the address of the test; the test's own when the
\* driver names none.
reframe_module_id(test_module, module) ==
    IF module = <<>> THEN test_module ELSE <<test_module[1], module[2]>>

PoolEntry(module, i) == IF module \in DOMAIN pkg.pools /\ i < Len(pkg.pools[module]) THEN {pkg.pools[module][i + 1]} ELSE {}
IsName(e) == e[1] = "str"

\* The first constant with that name.
resolve_constant_name(module, name, otherwise) ==
    LET at == IF module \in DOMAIN pkg.pools THEN {i \in DOMAIN pkg.pools[module] : pkg.pools[module][i] = <<"str", name>>} ELSE {}
    IN  IF at = {} THEN otherwise ELSE <<"clever", Min(at) - 1>>

\* A location whose constant pool the tagged code does not fit is given up.
sanitize_clever_location(sub, location) ==
    IF sub[1] = "clever" /\ sub[2] # NoIndex /\ ~\E e \in PoolEntry(location, sub[2]) : IsName(e)
    THEN <<>> ELSE location

\* An annotation: None, <<"Expected">>, <<"Coded", type>>, or <<"Error", status,
\* types, location>>; a type: <<"Code", code>> or <<"ConstantName", name>>.
SubStatusFor(type, code, module) ==
    IF type[1] = "Code" THEN type[2] ELSE resolve_constant_name(module, type[2], code)
align_abort_with_expected(code, module, expected) ==
    LET loc == IF expected[1] = "Error" THEN expected[4] ELSE module
        sub == CASE expected[1] = "Coded" -> SubStatusFor(expected[2], code, loc)
                 [] expected[1] = "Error" /\ expected[3] # <<>> -> SubStatusFor(expected[3][1], code, loc)
                 [] OTHER -> code
    IN  <<"ABORTED", sub, sanitize_clever_location(sub, loc)>>

\* VMResult: Ok, or <<status, sub, location>>.
verdict_to_vm_result(t, verdict) ==
    CASE verdict = Failure -> <<"INVARIANT_VIOLATION", <<"plain", 0>>, TestOf(t).module>>
      [] verdict = Ok -> Ok
      [] OTHER -> align_abort_with_expected(verdict[2], reframe_module_id(TestOf(t).module, verdict[3]), TestOf(t).expected)

\* The runner decodes a tagged code with the constants of the module, and dies
\* when there is no such constant or it is no name.
Decoded(res) == res[2][1] = "clever" /\ res[2][2] # NoIndex /\ res[3] \in DOMAIN pkg.pools
ConversionPanics(res) == res[1] = "ABORTED" /\ Decoded(res) /\ ~\E e \in PoolEntry(res[3], res[2][2]) : IsName(e)
TypeOf(res) == IF Decoded(res) THEN <<"ConstantName", pkg.pools[res[3]][res[2][2] + 1][2]>> ELSE <<"Code", res[2]>>
Passes(expected, res) ==
    CASE expected[1] = "None" -> res = Ok
      [] expected[1] = "Expected" -> res # Ok
      [] expected[1] = "Coded" -> res # Ok /\ res[1] = "ABORTED" /\ TypeOf(res) = expected[2]
      [] OTHER -> /\ res # Ok /\ res[1] = expected[2] /\ res[3] = expected[4]
                  /\ expected[3] = <<>> \/ TypeOf(res) = expected[3][1]

\* The readers have come to the end of the pipes.
Judge(w) ==
    /\ phase = "run" /\ worker[w].pc \in {"join", "join killed"} /\ ~worker[w].lean
    /\ LET t == worker[w].test
           res == verdict_to_vm_result(t, VerdictOf(w))
       IN  IF ConversionPanics(res) THEN phase' = "panic" /\ exit' = "panic" /\ UNCHANGED <<report, evidence>>
           ELSE /\ report' = [report EXCEPT ![t] = IF Passes(TestOf(t).expected, res) THEN "passed" ELSE "failed"]
                /\ evidence' = [evidence EXCEPT ![t] = EvidenceOf(w)]
                /\ UNCHANGED <<phase, exit>>
    /\ Set(w, Idle)
    /\ UNCHANGED <<pkg, built, plan, lookup, seq, drivers>>

\* run_and_report_unit_tests, and the exit status.
Report ==
    /\ phase = "run" /\ \A t \in plan : report[t] # None
    /\ End(\A t \in plan : report[t] = "passed")
    /\ UNCHANGED <<built, plan, lookup, report>> /\ Quiet

Finished == phase \in {"done", "panic"} /\ UNCHANGED vars

WorkerStep(w) == \/ \E t \in plan : Take(w, t)
                 \/ Write(w) \/ Spawn(w) \/ Exited(w) \/ Expire(w) \/ Judge(w)
Processes(w)  == LakeStartsLean(w) \/ LeanEnds(w) \/ LakeEnds(w)
Main == Emit \/ Build \/ Plan \/ Lookup \/ Check \/ Report
Next == Main \/ (\E w \in Workers : WorkerStep(w) \/ Processes(w) \/ LeanRunsOn(w)) \/ Finished

\* Every thread runs on, every process that does not hang goes on, and the
\* deadline comes.
Spec == Init /\ [][Next]_vars /\ WF_vars(Main) /\ \A w \in Workers : WF_vars(WorkerStep(w)) /\ WF_vars(Processes(w))

-----------------------------------------------------------------------------
(* What is promised: TestReport, with the verdicts that a test justifies.  *)

\* The result the Move virtual machine would give.
OwnResult(t) == LET res == TestOf(t).result IN IF res = Ok THEN Ok ELSE <<"ABORTED", res[2], res[3]>>
Deserved(t) == LET e == TestOf(t).expected
               IN  ~ConversionPanics(OwnResult(t)) /\ Passes(e, OwnResult(t))
\* A constant that is expected without a location is looked for in the module the
\* abort is reframed to: the module that aborts, unless it has another address
\* or is not named.
Located(t) ==
    LET r == TestOf(t)
    IN  r.expected[1] = "Coded" /\ r.expected[2][1] = "ConstantName" /\ r.result # Ok
            => reframe_module_id(r.module, IF r.named THEN r.result[3] ELSE <<>>) = r.result[3]
\* What a verdict of the test may be taken from: its driver compiles when what
\* it imports is there, and a deadline may come at any time.
Evidence(t) ==
    LET r == TestOf(t)
        compiles == /\ {"Prelude", "package"} \subseteq pkg.builds /\ r.lean # "broken"
                    /\ "world" \in Range(r.params) => "Generated" \in pkg.builds
    IN  {e \in {"printed", "marker", "late", "nothing"} :
            CASE e = "printed" -> compiles /\ r.lean \in {"prints", "prints and marks"}
              [] e = "marker"  -> compiles /\ r.lean = "marks"
              [] e = "late"    -> pkg.timeout
              [] e = "nothing" -> ~compiles}
\* A printed verdict lets a test pass when its code ends as the annotation says,
\* but for the code of an abort.  Without one, only the annotation speaks: a killed
\* or crashed driver is an abort with any code, one that ended for another reason
\* an error of the machine.
MayPass(t, e) ==
    LET r == TestOf(t)
        aborts == e = "printed" => r.result # Ok
    IN  CASE r.expected[1] = "None"     -> e = "printed" /\ r.result = Ok
          [] r.expected[1] = "Expected" -> aborts
          [] r.expected[1] = "Coded"    -> aborts /\ e # "nothing"
          [] r.expected[1] = "Error"    ->
                 aborts /\ r.expected[2] = IF e = "nothing" THEN "INVARIANT_VIOLATION" ELSE "ABORTED"
MayFail(t, e) ==
    IF e = "printed" THEN ~(Deserved(t) /\ Located(t)) ELSE TestOf(t).expected[1] # "Expected"
Justified(t, e) == (IF MayPass(t, e) THEN {"passed"} ELSE {}) \cup (IF MayFail(t, e) THEN {"failed"} ELSE {})
Reported == IF pkg.generate_only \/ pkg.type_check_only THEN {} ELSE Tests
Contract == [t \in Reported |-> [optional |-> ~HasAborts(t), verdicts |-> [e \in Evidence(t) |-> Justified(t, e)]]]

Promise == INSTANCE TestReport WITH contract <- Contract, report <- [t \in Reported |-> report[t]],
                                    evidence <- [t \in Reported |-> evidence[t]]

\* A verdict that a driver printed is its own test's, however many workers share
\* Drivers/: the test passes only when its code aborts as annotated or ends
\* without abort, and does pass when it deserves to, whatever form its annotation
\* has.  A driver that could print one is never taken for one that crashed or did
\* not compile.  Without a printed verdict a test passes only if it is annotated,
\* and then by its annotation alone: #[expected_failure] takes a crash, a failed
\* build or a timeout for the failure it expects.  The runner is never given a
\* code it cannot decode; the exit status is the report's (run_lean_tests,
\* run_one, execute, align_abort_with_expected).
ReportKept == Promise!Spec

\* "the per-test report shows the test as failed" when its timer fired (run_one):
\* not so, the abort that stands for the timeout is the one that an annotated
\* test expects.
LateTestsFail == \A t \in Tests : evidence[t] = "late" => report[t] # "passed"

\* With a timeout, or when no driver hangs, the run ends (run_with_timeout).
TestsEnd == (pkg.timeout \/ \A t \in Tests : TestOf(t).lean # "hangs") => <>(phase = "done")

=============================================================================
