--------------------------- MODULE MCProverDriver ---------------------------
(* Instances of ProverDriver for TLC: two specs in two modules. *)
EXTENDS ProverDriver

CONSTANTS s1, s2, m1, m2

MCModuleOf == [s \in Specs |-> IF s = s1 THEN m1 ELSE m2]

Base ==
    [file_mode |-> "Function", remote |-> FALSE, concurrency |-> 1,
     skip_spec_no_abort |-> FALSE, skip_fun_no_abort |-> FALSE,
     force_timeout |-> TRUE, keep_artifacts |-> FALSE,
     generate_only |-> FALSE, ci |-> FALSE, explain |-> FALSE]

\* Every phase of a local run, in both file modes.
LocalOptions ==
    {[Base EXCEPT !.file_mode = m, !.skip_spec_no_abort = s,
                  !.skip_fun_no_abort = f, !.explain = s, !.keep_artifacts = f] :
        m \in {"Function", "Module"}, s \in BOOLEAN, f \in BOOLEAN}

\* Cloud runs with one and with two requests at a time, --generate-only in CI
\* among them.
CloudOptions ==
    {[Base EXCEPT !.remote = TRUE, !.concurrency = c, !.ci = g,
                  !.generate_only = g, !.skip_fun_no_abort = TRUE] :
        c \in {1, 2}, g \in BOOLEAN}

MCOptions == LocalOptions \cup CloudOptions

Package(ts, run, funs) ==
    [targets |-> ts, run_on |-> run, no_abort_funs |-> funs,
     model_errors |-> FALSE, mixing |-> FALSE]

RunAnywhere == [s \in Specs |-> "any"]

\* Every choice of targets, and one package for each way to fail early.
LocalPackages ==
    {Package(ts, RunAnywhere, b) : ts \in SUBSET Specs, b \in BOOLEAN}
      \cup {Package({s1}, [RunAnywhere EXCEPT ![s1] = "cloud"], TRUE),
            [Package({s1}, RunAnywhere, FALSE) EXCEPT !.mixing = TRUE],
            [Package({s2}, RunAnywhere, TRUE) EXCEPT !.mixing = TRUE],
            [Package({}, RunAnywhere, TRUE) EXCEPT !.model_errors = TRUE]}

CloudPackages ==
    {Package({s1}, [RunAnywhere EXCEPT ![s1] = r], FALSE) :
        r \in {"any", "local", "cloud"}}
      \cup {Package(Specs, [RunAnywhere EXCEPT ![s2] = "local"], FALSE)}

MCPackages == LocalPackages \cup CloudPackages

\* Cloud runs over CloudPackages, local ones over LocalPackages.
MCInit ==
    /\ Init
    /\ proj \in IF opt.remote THEN CloudPackages ELSE LocalPackages

MCSpec == MCInit /\ [][Next]_vars /\ WF_vars(Step)
=============================================================================
