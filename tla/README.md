# A TLA+ verification of the Sui prover

The repository is a prover for Move packages on Sui. It compiles a package,
collects the functions marked as specifications, rewrites their bytecode in a
pipeline of processors, and turns the result into Boogie or into Lean. Boogie
files are verified by Boogie and Z3, on this machine or in an AWS Lambda
function; a Lean project is built by `lake`. What the tools answer is reported
as diagnostics, marks and an exit status.

Two kinds of questions are asked of it here.

- Can the program around the solver be believed? Which specifications does a run
  verify, what does "Verification successful" stand for, what happens to errors
  that arrive in any order, and can processes, pipes and requests lose output,
  hang, or outlive the run?
- Do the translations keep the meaning of the Move code? The compiled stack code
  is run by an interpreter, the code after every pass by another, and the two are
  compared on a corpus of small programs: through the memory model of the Boogie
  backend, through the contracts and modes a spec is written in, and through the
  passes of the Lean backend.

## 1. Inventory

Paths are below `src/crates/`.

| Component | State it keeps | Operations | Hard about it | Correct when |
|---|---|---|---|---|
| Process runner (`move-prover-boogie-backend/src/boogie_backend/runner.rs`) | a child process, two pipes, reader threads, an mpsc channel | `run`, `run_with_line_callback`, `run_with_timeout`, `run_with_timeout_and_line_callback` | three threads and two processes share bounded pipes; a deadline races the child's end | an Ok is complete, no process is left, calls return |
| Boogie wrapper (`boogie_wrapper.rs`) | positions in Boogie's text, the trace being built | `call_boogie`, `call_remote`, `analyze_output`, `add_error`, the reading of models | failures are recovered from text with regular expressions | every failure is reported, with its own location, trace and values |
| Boogie driver (`generator.rs`, `sui-prover/src/prove.rs`) | the batch of files, its flag, the output directory | `run_move_prover_with_model` and its three phases, `verify_batch`, `verify_bpl` | concurrent requests share one list of diagnostics; every `?` is an exit | success means every file came back clean, and the user saw the rest |
| Diagnostics (`move-model/src/model.rs`) | a list with a reported flag per entry | `add_diag`, `has_errors`, `report_diag` | duplicates are dropped, reported ones no longer count | nothing is lost |
| Package targets (`move-stackless-bytecode/src/package_targets.rs`) | about twenty sets and maps of functions | `collect_targets`, `select_backend`, `check_backend_mixing`, queries | two passes, three competing attributes, later steps undo earlier ones | what is verified is what is declared |
| Function target pipeline (`function_target_pipeline.rs`) and the analyses over the call graph | the holder of functions, annotations per function | `add_target`, `process_spec`, `run`, one `process` for each processor | fixpoint over recursive groups; a processor reads what others left | every spec asked about becomes a goal, no proof leans on itself |
| Dataflow analyses and instrumentation | annotations per instruction | the worklist, transfer and join; rewriting | the order of processors, joins of borrow graphs | the rewritten program computes what the old one did |
| Bytecode generation (`stackless_bytecode_generator.rs`) | a stack of temporaries | `generate_bytecode` | labels, fall-through, references | same |
| Boogie translation (`bytecode_translator.rs`, `prelude/`) | text | `translate` and its styles | a spec is written in up to six forms | proved goals imply that the specs are true |
| Intermediate format and its passes (`intermediate-theorem-format`, `stackless-to-intermediate`) | a tree per function | control-flow reconstruction, the passes of `finalize_with_mode` | joins, early returns, loops; where an abort comes from | value and abort condition of each function |
| Lean backend (`move-prover-lean-backend`) | a directory of generated and user files | render, build | runs are interrupted, files of earlier runs remain | the project builds and states each obligation once |
| Lean test runner (`sui-prover/src/lean_test.rs`) | workers, driver files, processes | plan, run, judge, report | workers share a directory; timeouts | the report says what each test's code does |
| Cloud handler (`lambda-boogie-handler`) | per instance a child process; shared: the Redis cache | `handler`, `process`, `check_cache`, `execute_boogie`, `cache_result` | instances race over the cache, Redis and the platform fail at any point | answers are about the file asked, and were computed |
| Cloud configuration (`sui-prover/src/remote_config.rs`) | a TOML file | load, create, `to_config` | the file is not validated | |
| Command line, build, explanation (`main.rs`, `build_model.rs`, `llm_explain.rs`) | none | | | |

How they interact: `execute` builds the model, asks `PackageTargets` what to
verify and calls a driver. The Boogie driver runs the pipeline once per file,
translates, and for each file calls the wrapper, which calls the process runner
or sends the file to the handler. Errors never come back as return values: they
are added to the diagnostics of the model, and the driver looks there. The Lean
driver runs a shorter pipeline once, translates the whole package to the
intermediate format, renders it next to what is on disk, and calls `lake`.

## 2. Plan

Done: the program around the solver (`ProcessRunner`, `ProverDriver`,
`PackageTargets`, `BackendMixing`, `LambdaHandler`, `BoogieOutput`), the pipeline
(`SpecPipeline`, `BoogieUnits`), the two translations (`MemoryPipeline`,
`ContractTranslation`, `LeanPipeline`), the Lean project and its tests
(`LeanProject`, `LeanTests`); proofs for all modules whose properties are about
state machines rather than about the meaning of programs.

Left:

1. Proofs: `RecursionSound` and `NamesDeclared` of `BoogieUnits`, and what section 6
   lists as only model-checked.
2. Models: the threading of mutable references, ghosts and the world through the
   intermediate format, the decomposition of ensures conditions, the text of Lean
   terms, dynamic fields, number operations.

## 3. Modules

Each module's header says what it covers; `PROJECT.json` maps every definition
to its lines. Definitions called "Mutant" are plausible wrong versions of the
definition below them. They are not used by any specification; each shows that
a property can fail. `MC*` modules give the constants their small values;
`*_proofs` modules hold the theorems.

### Processes, runs and reports

**ProcessRunner.** One call of the runner. `call` is chosen at the start: the
mode, how many lines the child writes to either stream, and where the first
line that is not UTF-8 stands. `pc` is the supervisor's place in the function.
`outW`/`outR` (and `errW`/`errR`) count lines written and collected; a writer
waits while their difference is `Cap`. `sent` and `seen` are the two ends of the
channel. The child may start a solver, which holds the child's pipes
("running") or has its own ("quiet"). Supervisor, reader threads, child, solver
and clock interleave freely.

**ProverDriver.** One run of `run_move_prover_with_model`, through the exit
status. A file is a phase, a target and an AssertsMode; `stage` is how far it
is. A diagnostic is a kind and what it is about; `diags`, `reported`, per-file
`buffer` and `written` are the list of GlobalEnv, its flags, the
`local_error_writer` of a request and the user's stream. The steps of
`verify_bpl` between an answer and its mark are one action, because all futures
of `buffer_unordered` are polled by one task and there is no await in between.
What Boogie answers is nondeterministic, within what the options allow.

**PackageTargets.** `collect_targets` one function or module at a time, in any
order; then the second pass, focus, and `select_backend`. The visit of a function
is one action: the composition of the operators named after the code's methods,
and the diagnostics each raises. Attributes are a record; parsing them is left
out, and a path that does not resolve is `Bad`.

**BackendMixing.** The two worklist searches of `check_backend_mixing` for one
spec. The queue is a set and any element may be next, so nothing depends on the
order of `Vec::pop` and of the callees.

**LambdaHandler.** Any number of instances, one request each at a time. An
answer is the file and options it was computed from and its kind. Redis may
refuse any operation or forget any entry, the platform may end any invocation
and use the instance again. What such an invocation leaves running is in `stray`:
`cleanup_processes` kills by name, the solver (`z3`) and any `dotnet`, and its
failures are ignored, so that a process called `boogie` goes on until it ends by
itself (`StrayMoves`). `ran` and `cut` are history variables: the answers Boogie
really gave, and whether an invocation of the instance was ever cut off.

**BoogieOutput.** `analyze_output` and what it calls, over a text that is a
sequence of parts (a failure line, traces with their entries, a model, a timeout
line, noise). Its actions are the searches, each from the position the last one
left. The second half reads values back from Boogie's model tables, which leave
rows out, and compares them with the values printed; the third derives the call
trace of a failure from the text of the file. The failures of a text have values of
their own, so that a model taken from another failure shows.

**LeanTests**, **TestReport.** The unit tests run by Lean: the plan, the build, the
workers with their numbered driver files, the processes, the deadline, the
verdict from the driver's line and the test's annotation, the exit status.
`evidence` is a history variable: what a verdict was taken from, a line the driver
printed, the marker of one that crashed, its being late, or nothing. `TestReport` is
the abstract specification: every test is left out and listed, or reported once
with a verdict that the evidence justifies, and the run succeeds exactly when no
reported test failed. `Promise` instantiates it with the state of the runner. With a
printed line, `Justified` asks that the test's own code ends as its annotation says;
without one it says what the code of `execute` and `align_abort_with_expected`
makes of the annotation alone (section 8).

**LeanProject.** Which files a render writes, what each defines, imports and
mentions, which obligations it states, and what becomes of the files of earlier
runs and of the user. Between runs the user edits the program and the files under
`sources/lean`; a run may be interrupted after any write.

### The pipeline

**SpecPipeline.** Every pass of a run: a holder is filled with the functions,
`process_spec` chooses the specs, nine processors visit the call graph callees
first, a recursive group again until its annotations are stable. Marks spread
one at a time (`busy`, `pending`), because the function being processed is out of
the holder meanwhile. An error stops the run at the end of a processor.

**BoogieUnits** adds what the translator writes at the end of a pass: units under
names, whom each calls, which are goals, in each AssertsMode. `proofs` and
`relied` collect, over all passes, the goals and the contracts their proofs
assume.

### Meanings

**StacklessBytecode**, **MoveVM.** Values of scaled-down widths, the instructions of
stackless code with its control flow and the structured view of it, and the
interpreter of stackless code, in which a reference is a location; the interpreter
of stack code.

**Dataflow**, **MemoryInstrumentation**, composed by **MemoryPipeline.** The program
goes through the generator and the processors in the order of
`pipeline_factory.rs`; after each, it is run and compared with the stack code.
From the borrow analysis on it is run as the Boogie program made of it, where a
mutable reference is a `$Mutation` that carries a copy of the value and only
write-backs move it. Pure functions become expressions through conditional merges.

**LoopInvariants**, **ContractTranslation.** Where invariants go, loops without back
edges, the abort checks, and the styles of a spec; the "solver" runs every goal
on every argument and havoc.

**TheoremIR**, **ControlFlowReconstruction**, **IROptimize**, **AbortDerivation**,
composed by **LeanPipeline.** The expression tree with the meaning of what
`render.rs` makes of each node, the way from bytecode to trees, and the passes of
`finalize_with_mode` one action each, in both build modes, among them the
extraction of loop bodies (`ExtractLoops`) and the decomposition of abort
conditions (`Decompose`). The latter names large arithmetic (`hoist_atoms`), states an
abort condition as obligations over the parameters (`bundle_expr`, with the tree
of its proof), and makes a segment of what cannot be stated so; `bundles` holds the
obligations by function. The meaning leaves out that `.aborts` bodies discard
write-backs, and the field `id`: both need mutable references, which do not reach
this run.

## 4. Runs

| Run | Instance | Shows |
|---|---|---|
| `process_runner` | 2+2 lines, pipes of 1 line, all modes | an Ok is complete on both streams, a timeout leaves no process, a timed call returns whatever the child does, and any call returns when the child ends, except in the one blocked state `StuckOnlyOnFullStderr` describes |
| `backend_mixing` | all call graphs of 3 functions with several markings | errors and warnings are exactly the least closed sets; the search ends |
| `package_targets` | 2 specs and a helper in 2 modules, some five thousand attribute combinations, both backends | what is verified is what is declared, in any order of visit; without a diagnostic every spec is filed once |
| `lambda_handler` | 2 instances, 2 files, 2 option lists, 2 requests, output within the pipe | answers are about the file asked, verdicts come from Boogie, only an invocation that is cut off leaves a process, requests are answered |
| `driver` | 2 specs in 2 modules, both file modes, early failures; cloud runs with 1 and 2 concurrent requests | the verdict, the delivery of diagnostics, and that the run ends |
| `spec_pipeline` | 3 functions, 2 specs, 298 packages: recursion, competing specs, abort attributes, system specs that list, ignore or hide aborts, ghosts, natives, scenarios | user specs stand, generated names are declared, accepted recursion is sound, every spec is proved, no_abort functions are checked, the fixpoints end |
| `memory` | a corpus of programs with conditional borrows, loops, matches, vectors, calls that return references | every processor keeps the meaning; none panics; pure expressions have the function's value |
| `contract` | functions of one number 0..3, all combinations of a few conditions, both kinds of loop invariants | proved goals make the specs true of the program; without loops and contracts a goal fails only for a wrong spec |
| `lean` | functions with branches, early returns, matches, loops, recursion, both modes | after every pass the trees are closed, have the value and tell the aborts; the obligations of an abort condition hold exactly where it is none |
| `lean_project` | some six hundred packages, edited, interrupted and rendered again | no import cycle and no undeclared name, the output of a second run is a fresh one, each face of a spec is stated once about the right function, user files are kept |
| `lean_tests` | 2 workers, up to two tests, every annotation and result, drivers that print, crash, hang or do not compile | the runner implements `TestReport`; it ends |
| `boogie_output` | up to three failures with values of their own among other text; a value of every kind; every call graph over four procedures | failures are reported at their place, traces with a model of their own show the printed values, call traces are paths of the file |

Why the bounds are enough: a pipe of one line with two lines to write has every
order of full, empty and closed that a larger one has; the races of the runner
are between single lines. Two files suffice for one to report what the other
raised, and a batch has six of them (three modes each). Two instances, two files
and two requests give a hit, a miss, a collision and a stale entry, and a second
request to the same instance finds what a cut-off one left. Three functions give a cycle beside a path. Two workers
and two tests give every race for a driver file. The corpora have each
construct in each context the passes distinguish: before, in and after a branch, a
loop and a match. The theorems below remove the bounds for the properties they
name.

The sizes of `Lean.cfg` (`MIN_TOTAL`, `CHUNK`, `MIN_TAIL`, `SUBST_MAX`,
`MULTI_USE_SUBST_MAX`, `ATOM_MIN`) stand for those of decompose_aborts.rs, scaled to
bodies of a few dozen nodes: in the corpus bodies get no bundle, an empty one and
ones of up to five obligations, with none to three premises; there are atoms,
segments of segments, and values too large to be put in place of their name.

Some programs are left out of a corpus because the code is known to mistranslate them;
section 8 lists them: a merged file with a bag and a vector of structs that hold bags
(`lean_project`), swapped references, locals of one index, a switch as the only use of
a variable and a pure function that assigns a parameter on one path only (`memory`),
invariant functions of a loop entered by a jump (`contract`), recursion through the
conditions of a trusted spec (`spec_pipeline`), the values `Misread` names and those
of a trace without a model of its own (`boogie_output`), and, in `lean`, aborts inside
loops and the shapes of section 8. In `lean_tests`, `Located` says for which tests a
constant expected without a location is promised to be found.

Left out for other reasons: a reference that a loop rebinds to what a call borrowed
from it, for which the walks of the borrow graph may not end (`memory`);
functions of one name whose first parameters have the same type, among which the
renderer goes by package and module (program_renderer.rs:2629-2690, `lean_project`); a pipe that fills up
in `lambda_handler` and a concurrency of zero in `driver`, with which the code
does not end.

Deadlock is not checked for `ProcessRunner` (a call ends, and the blocked state
is a property of its own), for `LambdaHandler` (requests are bounded) and for
`LeanProject` (the number of runs is bounded).

## 5. Fairness

- `ProcessRunner`: weak fairness of the supervisor, of the reader threads, of the
  clock and of a solver's end; the operating system schedules threads and time
  passes. Nothing is assumed of the child, except in `CallReturns`, where it keeps
  writing and ends (Boogie passes Z3 a limit).
- `ProverDriver`: weak fairness of the driver's own step. A local process ends by
  its limit, and a request by an answer or the HTTP client's timeout.
- `BackendMixing`, `BoogieUnits`: the search, or the pipeline, is a loop of one
  thread; weak fairness of its step.
- `LambdaHandler`: weak fairness of a handler's step, of Boogie and of Z3's end.
  Requests, expiry and failures are not fair.
- `LeanTests`: weak fairness of the main thread, of each worker, and of each
  worker's processes, whose deadline comes.

The other modules have safety properties only: a pass that is enabled is the next
statement of one thread, and that it is not stuck is TLC's deadlock check.

## 6. Proofs

All proofs are checked by TLAPS with the SMT, Zenon and LS4 backends, and use only
the named assumptions on the constants. Each rests on an inductive invariant that
was checked by TLC first.

**ProcessRunner_proofs** (any number of lines, any capacity; `BoundsAssumption`).
The invariant links the reader's end to the pipe: a reader that has finished
found the pipe empty with nobody to write to it, or stopped at the bad line; once
the supervisor has passed a join, that holds of the joined reader. It also says
that `seen <= sent <= outR`, and what is dead when the deadline has struck.
Completeness (`OkOutputComplete`), absence of orphans (`NoOrphanAfterReturn`), the
stderr bound and the callback's prefix follow; that the callback sees no line
twice is an action property from the same invariant.

**BackendMixing_proofs** (any functions and calls; `MixingAssumption`). Invariant of
each search: everything in the queue and everything seen lies in every closed set,
and the successors of what was seen are seen or queued. With an empty queue, what
was seen is closed, hence the least closed set (`ReportsExact`).

**ProverDriver_proofs** (any specs, modules, options, concurrency, answers;
`DriverAssumption`). `VerdictSound` is far from inductive, because `has_errors` sees
only what nobody reported. `Inv` says: outside the batches nothing is reported
(`Clean`); only a mixing error can wait unreported, and then no file is ready
(`Pending`); in a batch, what is reported is counted, or waits with a collected
file that has the cross (`Counted`); outcome, mark and reported diagnostics of a
file agree (`Recorded`, `Owned`); how far each phase's files are (`Staged`); what is
reported is written or in a collected file's buffer (`Written`). Soundness,
delivery of the diagnostics (`AllDiagsWritten`) and the coverage of check marks
follow.

**LambdaHandler_proofs** (any instances, files, options, requests;
`HandlerAssumption`). The invariant says what an instance holds at each place of
`handler` and `process`: whose request, which answer, which process, and that
every verdict in the cache, in an instance or in a reply is one of `ran`.
`ReplyProvenance`, `VerdictsWereComputed` and `NoStrayProcess` follow for any
interleaving, any failure of Redis or of the platform, and whether `pkill` works
or not. `NoStrayProcess` is about invocations that are not cut off: of the
others, the cleanup of the next request misses Boogie (`OrphansKilled` in section 8).

**PackageTargets_proofs** (any package, any order of the visit;
`TargetsAssumption`). What is filed after each visit is a function of the attributes
of the functions visited so far (`Filed`); `SpecsFiled` and `VerifiedAsDeclared`
follow from that for all functions, and from what focus and the backend choice
make of it.

**LeanTests_proofs** (any package, any number of workers; `PackagesAssumption`: a
tagged code fits the pool of its module, a code written in an annotation is not
tagged, an aborting module has a pool). `WorkersApart` is the invariant: a worker's
test, number, driver file, process and output belong together and no other worker
has any of them, whatever is on disk from before. `ReportIsKept` proves that the
runner implements `TestReport`: the initial states correspond, every step of the main
thread and of a worker is a step of the report or a stutter. The heart is
`VerdictIsOwn` and `VerdictJustified`: a verdict that counts as printed was printed by
this test's driver for this test's code, one that counts as crashed, late or missing
belongs to a driver that could print none or to a package with a deadline, and the
runner's comparison with the annotation then gives what `Justified` allows. That a
test without a printed verdict passes only by its annotation is part of it; that it
does pass then is what section 8 says (`LateTestsFail`).

**BoogieUnits_proofs** (any package, any number of passes, any order of visits;
`PackagesOK`, `NamesOK`: the package is finite, and `order` lists its functions). The
invariant follows a spec through the pass that is about it. That pass is ahead,
is the current one, or has written the goals (`Planned`). Within the pass: each
user spec added so far stands for its function, or is reported and another stands
(`FiledIn`); a report stops the run at the end of the first processor; that
processor visits every function, so the spec is marked verified (`Verifying`,
`Verified`); the eighth visits it again and makes its variant (`Instrumenting`,
`Instrumented`); from the variant the translator writes the goals, mode by mode
(`GoalsOfSubject`). `SpecStands` and `EverySpecProved` follow.

The same module proves `NoAbortChecked` (`AbortsAreChecked`), under
`LibrariesAssumption`. It is what the abort checks take without looking: natives have
no code, a native of the package that is marked `no_abort` does not abort, and
a library function that is marked calls only functions that do not abort. Packages
may have system specs of any kind; `NoAbortChecked` counts no abort behind a system
spec that promises there is none (`Promising`) or hides the body (`Hiding`), which is
where `no_abort_analysis` does not look either. That this is too much for a spec that
lists abort conditions is in section 8 (`MarkedNeverAborts`).

The first part of this proof is about `ReachedFrom`: its recursion over the numbers has
a solution (`LayersDef`), and the result is the least closed set that contains the
start (`Reached`), by least counterexamples and by counting the nodes. Then `AbortInv`
follows the abort pass. Marks spread from what is inlined to every callee without
a promise (`MarksSpread`), so what the first processor drops matters to nobody
(`CheckedKept`). An answer "does not abort" of the fifth rests on promises, on marks
and on answers that are final, because a component is opened only when its
callees are done (`Visiting`, `AnswersRight`): recursion gets no answer from itself.
What is marked and not answered so becomes a goal (`GoalsOfAbortCheck`). Hence the
functions from which an abort may come unnoticed lie in a set that is closed under
callers and has no marked function (`AbortCheckCertifies`), and later goals only
shrink it (`Checked`).

**LeanProject_proofs** (any programs and user's files, any number of runs, with an
interruption after any write; `ProgramsAssumption`: the parts of a program are in its
modules, no module has the directory of one of the tools, and natives have files of
their own; `UserAssumption`: the user's files are main files). `OutputFresh` says that
after a complete run nothing distinguishes the directory from one that was empty
before. The invariant (`Inv == Files /\ Passes /\ Recorded /\ Progress`) records what
the steps done so far have written, with the content of a run on an empty directory:
each step keeps the earlier ones because the files of different steps have different
paths, and the second pass writes what the first wrote, because only starter proofs
were added in between and nothing but the list of obligations to prove reads them. What
an earlier run left is not among those paths, and goes (`OutputIsFresh`).
`UserFilesAreKept` is the action property: no step of a run changes or removes a file
of the user, but for the migration, which may move it, unchanged, out of the legacy
layout.

Only model-checked:

- the liveness properties, and `StuckOnlyOnFullStderr`, which speaks of `ENABLED`:
  out of TLAPS's reach;
- `NamesDeclared` and `RecursionSound`: a cycle through the generated text, or through
  the proofs of several passes, would have to be followed back to one through a
  component of the call graph, style by style. The lemmas about `ReachedFrom` are the
  first step of that;
- `ProjectBuilds`, `FacesStated` and `GoalsOnTarget`: not true of any record a `Programs`
  may contain, but of those the compiler and the earlier passes produce, of which the
  corpus has samples;
- `MeaningKept`, `NoPanic`, `PureExact`, `ContractsHold`, `VerdictExact`, `Closed`,
  `ValueKept`, `AbortsExact`, `ObligationsExact`, and the properties of `BoogieOutput`:
  they compare recursive definitions (interpreters, traversals of trees, printing
  and reading), which needs induction over data, and their modules declare
  RECURSIVE operators, which TLAPS does not support.

## 7. Not modelled

The Move compiler and the model builder; parsing of attributes; types, generics and
names, except where two names can collide; quantifiers, dynamic fields, data and
type invariants, number operations; mutable references, ghosts and specs in the
intermediate format; the text of Lean and Boogie terms; statistics, log files and
dumps, which nobody in the program reads; the interactive configuration and the
call to the language model. In `ContractTranslation`, mutable references and ghost
variables are left out, the result of `$opaque` is always havocked, and loops
without invariants run exactly.

## 8. What was found on the way

What follows was met while a definition was translated, or as a counterexample of a
first version of a property, and is left out of the instances where section 4 says so.
Lines are those of the commit under `src/`.

Four are things a comment of the repository says and the code does not do. Each is
stated in its module and is no property of a run, because TLC refutes it; to see the
counterexample, put it in the place of the properties of the configuration named.

| Definition | Configuration | The comment | The counterexample |
|---|---|---|---|
| `OrphansKilled` | `LambdaHandler.cfg` with `Cleanups = {TRUE}` | "Kill any orphaned dotnet processes" (lambda.rs:23) | an invocation is cut off while Boogie runs; the next one kills what is named z3 or dotnet, and Boogie goes on |
| `OutputCaptured` | `LambdaHandler.cfg` with `MaxLines = 2` and one instance | "Capture stdout/stderr in separate threads" (handler.rs:160) | Boogie prints more than the pipe holds, the handler is in `wait`, and nobody reads |
| `LateTestsFail` | `LeanTests.cfg` | "so the per-test report shows the test as failed" (lean_test.rs:893-896) | a test with `#[expected_failure]` whose timer fired is reported as passed |
| `MarkedNeverAborts` | `SpecPipeline.cfg` | "`ext(pure)`/`no_abort`), so evaluating it never aborts" (prop_inference.rs:28-29) | a function marked `no_abort` calls the target of a system spec with `asserts`, and is accepted |

Runs and processes:

- runner.rs:165 drains the channel before it joins the thread that sends (:169);
  trace lines can be lost. handler.rs:171 waits before it reads, so output larger
  than the pipe blocks (`OutputCaptured`). With concurrency 0 in the file the cloud
  run hangs (generator.rs:730; the dialogue refuses it, remote_config.rs:162).
- lambda.rs:21-24 kills processes called `z3` and `dotnet`; Boogie is started from
  `/opt/dotnet/tools/boogie` (handler.rs:143) and has neither name
  (`OrphansKilled`). The cache goes by the file alone (handler.rs:197), and
  stores a failure to run Boogie as well (:229).
- A second file with an identical diagnostic gets the check mark (model.rs:868,
  generator.rs:537); the verdict is not affected.
- `--explain` consumes the error, and the exit status is zero (prove.rs:360).
- In module file mode no goal says that the conditions of a proved spec do not
  abort (generator.rs:454, :637).
- The searches of boogie_wrapper.rs do not stop at the next `assert_failed`: a
  failure without a trace takes the one of a later failure, and that failure is
  not reported (:1391-1455). The first always is, if it is not an expected one, so
  the run still fails. A failure with an augmented trace and no model takes the model
  of a later one (:1437, :1473), and its values are then shown as its own:
  `TraceFaithful` leaves such traces out (`OwnModel`). A model after a failure without
  augmented trace is reported as unexpected output.
  `pretty_enum` (:2673) counts fields from the variant, Boogie from the enum, so
  later variants are shown with wrong values; `extract_box` (:2372) unwraps structs of
  one field.
- lean_test.rs: a test with `#[expected_failure]` passes when its driver was killed
  for being late (:897, `LateTestsFail`), crashed after a marker, or printed no verdict
  because it or a package it imports did not build (:1024-1032, an error of the
  machine is a failure like any other), even if its code would not abort. Of errors
  expected other than ABORTED, only that one can match; a constant expected without a
  location is looked up in the test's module. The future of a timed-out `lake build` is
  dropped without killing the process (lake_wrapper.rs:46).

Pipeline:

- no_abort_analysis.rs:118 does not look at a callee behind a trusted spec, even
  one that lists abort conditions, as `random_spec::u128_in_range_spec`
  (packages/sui-specs/sources/sui-framework/random.move:13) does: a function that is
  marked `no_abort` and calls its target is accepted (`MarkedNeverAborts`).
- Purity is decided on the first visit and kept, so a recursive group may keep
  what was decided before its members were known
  (spec_purity_analysis.rs:255-285). A call cycle through the conditions of a trusted
  spec is not seen by recursion_analysis.rs:77.

Boogie translation:

- The location of a local is its index in its own function (prelude.bpl:737), and calls
  are inlined: when a callee borrows, on condition, what it was given or a local of its
  own that has the index of the caller's, a write through the first changes both.
- Swapped references lose a write-back (borrow_analysis.rs:92); VariantSwitch is
  not a use for the live variables (livevar_analysis.rs:437); unpacking a vector of two
  or more reverses it; `<<` in a pure function is not truncated (prelude.bpl:1057); a
  pure function that assigns a parameter on one path mixes `_$tN` and `$tN`
  (bytecode_translator.rs:3057).
- The base case of an invariant is asserted before the loop's label
  (loop_analysis.rs:187-203), so a jump to the header skips it.
- `asserts(y != 0); asserts(x / y > 0)` cuts the paths on which the first is false.

Lean translation:

- Aborts in the body of a loop are lost (inject_arithmetic_aborts.rs:116); a
  dividend behind a reference is not checked (:834); variables of a loop's header
  used after a second loop, and a loop after a match, are unbound
  (loop_handling.rs:36, :522).
- `bundle_subst` and `subst_exprs` replace names without regard to binders
  (decompose_aborts.rs:570, :1257). In `let (x, y) := if c then (let x := a + 1; (x,
  y)) else ...` the inner `x` is replaced as well when `x` had a value before: the
  obligation then says something else than the body, and the proof of
  `aborts_none_of` does not check. `ObligationsExact` leaves such bodies out (`Rebinds`).
- Obligations left `sorry` do not fail a run.
- A merged cycle with a bag imports itself (dyn_type_universe.rs:580); the universe
  of what bags hold leaves out structs that hold bags but not vectors of them (:207);
  structs of merged spec modules are not emitted and come in the wrong order
  (program_renderer.rs:1586-1594); obligations of a spec module without its module
  are skipped (:2261, :2358).
