---------------------------- MODULE ProverDriver ----------------------------
(***************************************************************************)
(* The Boogie driver: run_move_prover_with_model of generator.rs and what  *)
(* it calls, from the model's diagnostics to the exit status of the CLI.   *)
(*                                                                         *)
(* A run checks three groups of Boogie files: spec_no_abort_check (one     *)
(* file per module of an unverified spec), funs_abort_check (one file) and *)
(* the main batch (every target spec, or every module of one, in three     *)
(* AssertsModes).  A file is generated, then verified; with --cloud, the   *)
(* files of a batch are verified concurrently (buffer_unordered) by one    *)
(* task, so that other files' steps come between a file's request and its  *)
(* answer only.  Errors travel through the diagnostics of GlobalEnv: a     *)
(* list without duplicates, each entry reported or not.                    *)
(*                                                                         *)
(* External: what Boogie answers, and what the bytecode transformation     *)
(* diagnoses, are nondeterministic.                                        *)
(***************************************************************************)
EXTENDS Naturals, FiniteSets

CONSTANTS Specs,          \* specs of the package that are neither system
                          \* specs nor excluded by select_backend
          Modules,
          ModuleOf,       \* the module of a spec
          RunOptions,     \* the command lines and cloud configurations
          Packages,       \* what PackageTargets may find
          None

\* concurrency is RemoteOptions.concurrency; file_mode is BoogieFileMode.
Options ==
    [file_mode : {"Function", "Module"}, remote : BOOLEAN, concurrency : Nat,
     skip_spec_no_abort : BOOLEAN, skip_fun_no_abort : BOOLEAN,
     force_timeout : BOOLEAN, keep_artifacts : BOOLEAN,
     generate_only : BOOLEAN, ci : BOOLEAN, explain : BOOLEAN]

\* The target specs and the run_on attribute of each spec, whether the package
\* has functions marked no_abort or pure, whether its model has errors (those
\* of collect_targets included: execute runs it once before the driver), and
\* whether check_backend_mixing (which looks at target specs) finds one.
Projects ==
    [targets : SUBSET Specs, run_on : [Specs -> {"any", "local", "cloud"}],
     no_abort_funs : BOOLEAN, model_errors : BOOLEAN, mixing : BOOLEAN]

ASSUME DriverAssumption ==
    /\ ModuleOf \in [Specs -> Modules]
    /\ RunOptions \subseteq Options
    /\ Packages \subseteq {p \in Projects : p.mixing => p.targets # {}}
    /\ None \notin Specs \cup Modules

VARIABLES
    opt,       \* command line and cloud configuration
    proj,      \* the package: what PackageTargets found in it
    pc,        \* where run_move_prover_with_model stands
    stage,     \* per file: how far it is
    outcome,   \* per file: what Boogie said of it
    mark,      \* per file: the mark printed for it
    diags,     \* GlobalEnv.diags: the error diagnostics added so far
    reported,  \* those with the reported flag
    buffer,    \* per file: the diagnostics in its local_error_writer
    written,   \* diagnostics that reached the error writer
    has_errors,\* the flag of verify_batch and of run_prover's result
    verdict,   \* what run_move_prover_with_model returned
    out_dir,   \* the output directory: [existed, exists]
    exit       \* the process's exit status

vars == <<opt, proj, pc, stage, outcome, mark, diags, reported, buffer,
          written, has_errors, verdict, out_dir, exit>>

Modes == {"Check", "Assume", "SpecNoAbortCheck"}
File(p, t, m) == [phase |-> p, target |-> t, mode |-> m]
AbortFile == File("funs_abort_check", None, "Check")
Files ==
    {AbortFile}
      \cup {File("spec_no_abort_check", m, "SpecNoAbortCheck") : m \in Modules}
      \cup {File("main", t, m) : t \in Specs \cup Modules, m \in Modes}

\* "timeout": the hard timeout of a local run, or "cloud verification out of
\* resources/timeout"; "abort": the call returned Err
\* or panicked.
Outcomes == {"none", "clean", "failed", "timeout", "no_cloud", "abort"}
Stages   == {"none", "queued", "generated", "remote", "in_flight", "local",
             "collected", "done"}
Marks    == {"none", "pass", "fail", "abort"}
Diags    == [kind : {"failed", "timeout", "no_cloud", "transform", "mixing"},
             of : Files \cup Specs \cup Modules \cup {None}]

Locations == {"start", "targets", "guard", "spec_no_abort_check", "generate_1",
              "batch_1", "fold_1", "abort_check", "abort_verify", "run_main",
              "generate_2", "batch_2", "fold_2", "finish", "exit", "done"}

TypeOK ==
    /\ opt \in Options /\ proj \in Projects /\ pc \in Locations
    /\ stage \in [Files -> Stages] /\ outcome \in [Files -> Outcomes]
    /\ mark \in [Files -> Marks]
    /\ diags \in SUBSET Diags /\ reported \in SUBSET diags
    /\ buffer \in [Files -> SUBSET Diags] /\ written \in SUBSET diags
    /\ has_errors \in BOOLEAN
    /\ verdict \in {"none", "success", "nothing", "errors", "error"}
    /\ out_dir \in [existed : BOOLEAN, exists : BOOLEAN]
    /\ exit \in {"none", "zero", "one"}

----------------------------------------------------------------------------
(* The files of each phase. *)

no_verify_specs == Specs \ proj.targets

spec_abort_check_verify_modules == {ModuleOf[s] : s \in no_verify_specs}

target_modules == {ModuleOf[s] : s \in proj.targets}

SpecNoAbortFiles ==
    {File("spec_no_abort_check", m, "SpecNoAbortCheck") :
        m \in spec_abort_check_verify_modules}

MainTargets ==
    IF opt.file_mode = "Function" THEN proj.targets ELSE target_modules

MainFiles == {File("main", t, m) : t \in MainTargets, m \in Modes}

\* Only a file generated for one function has a run_on attribute.
run_on(f) ==
    IF f.phase = "main" /\ f.target \in Specs THEN proj.run_on[f.target]
                                              ELSE "any"

----------------------------------------------------------------------------
(* The diagnostics of GlobalEnv. *)

\* has_errors counts what is not reported yet.
HasErrors(ds, rep) == ds \ rep # {}

D(kind, of) == [kind |-> kind, of |-> of]

\* What an answer adds: add_diag drops what is already there.
DiagsOf(f, o) ==
    CASE o = "failed"   -> {D("failed", f)}
      [] o = "timeout"  -> {D("timeout", None)}
      [] o = "no_cloud" -> {D("no_cloud", f.target)}
      [] OTHER          -> {}

\* report_diag: flag everything, send what is new to the caller's writer.
ReportTo(ds) ==
    /\ diags' = ds
    /\ reported' = ds

\* Mutant: the severity passed to report_diag is above Error.
NothingNew(ds) == {}

New(ds) == ds \ reported

ReportAndWrite(ds) ==
    /\ ReportTo(ds)
    /\ written' = written \cup New(ds)

\* `return Err(..)` and `?`: nothing below runs.
Fail == pc' = "exit" /\ verdict' = "error"

\* check_errors after a step that may have added diagnostics.
CheckErrors(ds, ok) ==
    /\ ReportAndWrite(ds)
    /\ IF HasErrors(ds, reported) THEN Fail ELSE ok

----------------------------------------------------------------------------
Init ==
    /\ opt \in RunOptions
    /\ proj \in Packages
    /\ pc = "start"
    /\ stage = [f \in Files |-> "none"]
    /\ outcome = [f \in Files |-> "none"]
    /\ mark = [f \in Files |-> "none"]
    /\ diags = {} /\ reported = {} /\ written = {}
    /\ buffer = [f \in Files |-> {}]
    /\ has_errors = FALSE
    /\ verdict = "none"
    /\ \E e \in BOOLEAN : out_dir = [existed |-> e, exists |-> e]
    /\ exit = "none"

files == <<stage, outcome, mark, buffer>>
report == <<diags, reported, written>>

\* check_errors on the model; then PackageTargets, whose check_backend_mixing
\* only adds diagnostics.
Start ==
    /\ pc = "start"
    /\ IF proj.model_errors THEN Fail ELSE pc' = "targets" /\ UNCHANGED verdict
    /\ UNCHANGED <<opt, proj, files, report, has_errors, out_dir, exit>>

\* check_backend_mixing, the tool versions of a local run, the filter, and the
\* output directory.
SelectTargets ==
    /\ pc = "targets"
    /\ diags' = IF proj.mixing THEN {D("mixing", None)} ELSE {}
    /\ \/ /\ pc' = "guard"
          /\ out_dir' = [out_dir EXCEPT !.exists = TRUE]
          /\ UNCHANGED verdict
       \/ Fail /\ UNCHANGED out_dir
    /\ UNCHANGED <<opt, proj, files, reported, written, has_errors, exit>>

Guard ==
    /\ pc = "guard"
    /\ IF proj.no_abort_funs
       THEN pc' = "spec_no_abort_check" /\ UNCHANGED <<report, verdict>>
       ELSE IF HasErrors(diags, reported)
            THEN ReportAndWrite(diags) /\ Fail
            ELSE /\ UNCHANGED report
                 /\ IF proj.targets = {}
                    THEN pc' = "exit" /\ verdict' = "nothing"
                    ELSE pc' = "spec_no_abort_check" /\ UNCHANGED verdict
    /\ UNCHANGED <<opt, proj, files, has_errors, out_dir, exit>>

\* The files come in the order of their modes (the targets' order is the one
\* of their ids, here any).
Rank == [Check |-> 1, Assume |-> 2, SpecNoAbortCheck |-> 3]
IsFirst(f) ==
    \A g \in Files : stage[g] = stage[f] => Rank[f.mode] <= Rank[g.mode]

Enqueue(fs) == stage' = [f \in Files |-> IF f \in fs THEN "queued" ELSE stage[f]]

StartSpecNoAbort ==
    /\ pc = "spec_no_abort_check"
    /\ IF SpecNoAbortFiles = {} \/ opt.skip_spec_no_abort
       THEN pc' = "abort_check" /\ UNCHANGED stage
       ELSE pc' = "generate_1" /\ Enqueue(SpecNoAbortFiles)
    /\ UNCHANGED <<opt, proj, outcome, mark, buffer, report, has_errors,
                   verdict, out_dir, exit>>

\* generate_function_bpl and generate_module_bpl: the transformation may add
\* errors, and check_errors stops at any that is unreported.
Generate(f) ==
    /\ pc \in {"generate_1", "generate_2"} /\ stage[f] = "queued" /\ IsFirst(f)
    /\ \E new \in {{}, {D("transform", f)}} :
          CheckErrors(diags \cup new, UNCHANGED <<pc, verdict>>)
    /\ stage' = [stage EXCEPT ![f] = "generated"]
    /\ UNCHANGED <<opt, proj, outcome, mark, buffer, has_errors, out_dir, exit>>

InStream(f) == opt.remote /\ run_on(f) # "local"

\* verify_batch, when every file is generated: the partition by run_on.
StartBatch ==
    /\ pc \in {"generate_1", "generate_2"}
    /\ \A f \in Files : stage[f] # "queued"
    /\ pc' = IF pc = "generate_1" THEN "batch_1" ELSE "batch_2"
    /\ stage' = [f \in Files |->
                    IF stage[f] # "generated" THEN stage[f]
                    ELSE IF InStream(f) THEN "remote" ELSE "local"]
    /\ has_errors' = FALSE
    /\ UNCHANGED <<opt, proj, outcome, mark, buffer, report, verdict, out_dir,
                   exit>>

----------------------------------------------------------------------------
(* verify_bpl. *)

\* verify_boogie's choice between the cloud and a local process.
use_remote(f) ==
    IF run_on(f) = "local" THEN opt.ci /\ opt.generate_only /\ opt.remote
                           ELSE opt.remote

\* With --generate-only Boogie is run with -noVerify and finds nothing.
Answers(f) ==
    IF run_on(f) = "cloud" /\ ~opt.remote THEN {"no_cloud"}
    ELSE {"clean", "abort"}
           \cup (IF opt.generate_only THEN {} ELSE {"failed"})
           \cup (IF use_remote(f) \/ opt.force_timeout THEN {"timeout"} ELSE {})

\* verify_boogie's `?`, or the mark printed after has_errors.
MarkOf(f, o) ==
    IF o = "abort" THEN "abort"
    ELSE IF HasErrors(diags \cup DiagsOf(f, o), reported) THEN "fail"
    ELSE "pass"

\* The steps of verify_bpl from the answer to the mark, which nothing can
\* interrupt: add the errors, look, report to the writer w.
Answer(f, o) ==
    /\ outcome' = [outcome EXCEPT ![f] = o]
    /\ mark' = [mark EXCEPT ![f] = MarkOf(f, o)]
    /\ IF o = "abort" THEN UNCHANGED <<diags, reported>>
                      ELSE ReportTo(diags \cup DiagsOf(f, o))

InFlight == {f \in Files : stage[f] = "in_flight"}

Room(n) == Cardinality(InFlight) < n

SendRemote(f) ==
    /\ pc \in {"batch_1", "batch_2"} /\ stage[f] = "remote" /\ IsFirst(f)
    /\ Room(opt.concurrency)
    /\ stage' = [stage EXCEPT ![f] = "in_flight"]
    /\ UNCHANGED <<opt, proj, pc, outcome, mark, buffer, report, has_errors,
                   verdict, out_dir, exit>>

ReceiveAnswer(f, o) ==
    /\ pc \in {"batch_1", "batch_2"} /\ stage[f] = "in_flight"
    /\ o \in Answers(f)
    /\ Answer(f, o)
    /\ buffer' = [buffer EXCEPT ![f] = New(diags')]
    /\ stage' = [stage EXCEPT ![f] = "collected"]
    /\ UNCHANGED <<opt, proj, pc, written, has_errors, verdict, out_dir, exit>>

StreamEnded == \A f \in Files : stage[f] \notin {"remote", "in_flight"}

EndStream ==
    /\ pc \in {"batch_1", "batch_2"}
    /\ StreamEnded
    /\ pc' = IF pc = "batch_1" THEN "fold_1" ELSE "fold_2"
    /\ UNCHANGED <<opt, proj, files, report, has_errors, verdict, out_dir, exit>>

\* Mutant: a failed file does not set the flag.
IgnoreMark(m) == has_errors' = has_errors

Count(m) == has_errors' = (has_errors \/ m = "fail")

\* The results of the stream: its writer, then `is_error?`.
FoldResult(f) ==
    /\ pc \in {"fold_1", "fold_2"} /\ stage[f] = "collected"
    /\ written' = written \cup buffer[f]
    /\ stage' = [stage EXCEPT ![f] = "done"]
    /\ IF mark[f] = "abort"
       THEN Fail /\ UNCHANGED has_errors
       ELSE Count(mark[f]) /\ UNCHANGED <<pc, verdict>>
    /\ UNCHANGED <<opt, proj, outcome, mark, buffer, diags, reported, out_dir,
                   exit>>

\* The sequential files: all of them without --cloud, else those of run_on
\* "local", after the results of the stream.
VerifySequential(f, o) ==
    /\ pc \in {"fold_1", "fold_2"} /\ stage[f] = "local" /\ IsFirst(f)
    /\ \A g \in Files : stage[g] # "collected"
    /\ o \in Answers(f)
    /\ Answer(f, o)
    /\ written' = written \cup New(diags')
    /\ stage' = [stage EXCEPT ![f] = "done"]
    /\ IF o = "abort"
       THEN Fail /\ UNCHANGED has_errors
       ELSE Count(MarkOf(f, o)) /\ UNCHANGED <<pc, verdict>>
    /\ UNCHANGED <<opt, proj, buffer, out_dir, exit>>

\* Mutant: a batch with errors is gone through again.
RetryBatch ==
    /\ pc \in {"fold_1", "fold_2"}
    /\ \A f \in Files : stage[f] \notin {"collected", "local"}
    /\ pc' = IF has_errors THEN pc ELSE IF pc = "fold_2" THEN "finish"
             ELSE "abort_check"
    /\ UNCHANGED <<opt, proj, files, report, has_errors, verdict, out_dir, exit>>

EndBatch ==
    /\ pc \in {"fold_1", "fold_2"}
    /\ \A f \in Files : stage[f] \notin {"collected", "local"}
    /\ pc' = IF pc = "fold_2" \/ has_errors THEN "finish" ELSE "abort_check"
    /\ UNCHANGED <<opt, proj, files, report, has_errors, verdict, out_dir, exit>>

----------------------------------------------------------------------------
(* run_prover_abort_check: the bytecode, then one file if any function of   *)
(* the package needs it.                                                    *)

AbortCheck ==
    /\ pc = "abort_check"
    /\ IF opt.skip_fun_no_abort
       THEN pc' = "run_main" /\ UNCHANGED <<report, verdict>>
       ELSE \E new \in {{}, {D("transform", AbortFile)}} :
               \E next \in {"run_main", "abort_verify"} :
                  CheckErrors(diags \cup new, pc' = next /\ UNCHANGED verdict)
    /\ UNCHANGED <<opt, proj, files, has_errors, out_dir, exit>>

AbortVerify(o) ==
    /\ pc = "abort_verify"
    /\ o \in Answers(AbortFile)
    /\ Answer(AbortFile, o)
    /\ written' = written \cup New(diags')
    /\ stage' = [stage EXCEPT ![AbortFile] = "done"]
    /\ IF o = "abort"
       THEN Fail /\ UNCHANGED has_errors
       ELSE /\ Count(MarkOf(AbortFile, o))
            /\ pc' = IF MarkOf(AbortFile, o) = "fail" THEN "finish" ELSE "run_main"
            /\ UNCHANGED verdict
    /\ UNCHANGED <<opt, proj, buffer, out_dir, exit>>

RunMain ==
    /\ pc = "run_main"
    /\ IF proj.targets = {}
       THEN pc' = "finish" /\ UNCHANGED stage
       ELSE pc' = "generate_2" /\ Enqueue(MainFiles)
    /\ UNCHANGED <<opt, proj, outcome, mark, buffer, report, has_errors,
                   verdict, out_dir, exit>>

RemoveOutput == ~out_dir.existed /\ ~opt.keep_artifacts

Finish ==
    /\ pc = "finish"
    /\ pc' = "exit"
    /\ out_dir' = IF RemoveOutput THEN [out_dir EXCEPT !.exists = FALSE]
                                  ELSE out_dir
    /\ verdict' = IF has_errors THEN "errors" ELSE "success"
    /\ UNCHANGED <<opt, proj, files, report, has_errors, exit>>

IsErr == verdict \in {"errors", "error"}

\* execute_backend_boogie returns Ok with --explain, whatever the verdict;
\* main exits with 1 on Err.
Exit ==
    /\ pc = "exit"
    /\ pc' = "done"
    /\ exit' = IF IsErr /\ ~opt.explain THEN "one" ELSE "zero"
    /\ UNCHANGED <<opt, proj, files, report, has_errors, verdict, out_dir>>

Done == pc = "done" /\ UNCHANGED vars

----------------------------------------------------------------------------
FileStep ==
    \E f \in Files :
        \/ Generate(f) \/ SendRemote(f) \/ FoldResult(f)
        \/ \E o \in Outcomes : ReceiveAnswer(f, o) \/ VerifySequential(f, o)

Step ==
    \/ Start \/ SelectTargets \/ Guard \/ StartSpecNoAbort \/ StartBatch
    \/ EndStream \/ EndBatch \/ AbortCheck
    \/ \E o \in Outcomes : AbortVerify(o)
    \/ RunMain \/ Finish \/ Exit \/ FileStep

Next == Step \/ Done

Spec == Init /\ [][Next]_vars

\* The driver is one task that the runtime keeps scheduling; a local process
\* ends (its hard timeout, or the solver's limit) and a request ends with an
\* answer or with the HTTP client's timeout.
FairSpec == Spec /\ WF_vars(Step)

----------------------------------------------------------------------------
(* Properties. *)

\* "Verification successful" means that every file the options ask for was
\* verified and came back clean, and that no error was ever diagnosed.
VerdictSound ==
    verdict = "success" =>
        /\ diags = {}
        /\ \A f \in MainFiles : outcome[f] = "clean"
        /\ ~opt.skip_spec_no_abort =>
              \A f \in SpecNoAbortFiles : outcome[f] = "clean"

\* A file that is not clean gets a check mark only when the diagnostic it
\* raised was already reported, by a file that got the cross.
PassMarkCovered ==
    \A f \in Files :
        mark[f] = "pass" /\ outcome[f] # "clean" =>
            \E g \in Files : /\ mark[g] = "fail"
                             /\ DiagsOf(f, outcome[f]) = DiagsOf(g, outcome[g])

\* Unless the run was cut short by an Err, every diagnostic reached the user.
AllDiagsWritten ==
    verdict \in {"success", "errors", "nothing"} => written = diags

\* The run ends.
RunEnds == <>(pc = "done")
=============================================================================
