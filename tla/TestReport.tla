----------------------------- MODULE TestReport -----------------------------
(***************************************************************************)
(* What a run of the unit tests promises: each test of the plan is left    *)
(* out and listed, or reported once with a verdict that its own code and   *)
(* what is known of its run justify; the run succeeds exactly when no      *)
(* reported test failed.                                                   *)
(***************************************************************************)
VARIABLES
    contract,    \* test of the plan -> [optional: it may be left out,
                 \*  verdicts: the evidence there may be -> the verdicts it justifies]
    report,      \* test -> "none", "left out", "passed", "failed"
    evidence,    \* test -> what its verdict was taken from
    exit         \* "running", "ok", "failed"

Tests == DOMAIN contract

Init == report = [t \in Tests |-> "none"] /\ evidence = report /\ exit = "running"

LeaveOut ==
    /\ report' = [t \in Tests |-> IF report[t] = "none" /\ contract[t].optional THEN "left out" ELSE report[t]]
    /\ UNCHANGED <<evidence, exit>>
Report(t) ==
    /\ report[t] = "none"
    /\ \E e \in DOMAIN contract[t].verdicts, v \in {"passed", "failed"} :
          /\ v \in contract[t].verdicts[e]
          /\ report' = [report EXCEPT ![t] = v]
          /\ evidence' = [evidence EXCEPT ![t] = e]
    /\ UNCHANGED exit
Finish ==
    /\ \A t \in Tests : report[t] # "none"
    /\ exit' = IF \E t \in Tests : report[t] = "failed" THEN "failed" ELSE "ok"
    /\ UNCHANGED <<report, evidence>>

Next == exit = "running" /\ UNCHANGED contract /\ (LeaveOut \/ (\E t \in Tests : Report(t)) \/ Finish)
Spec == Init /\ [][Next]_<<contract, report, evidence, exit>>

=============================================================================
