------------------------ MODULE ProverDriver_proofs ------------------------
(***************************************************************************)
(* Soundness of the driver's verdict and of its marks, for any number of   *)
(* specs and modules, any command line and any answers.                    *)
(*                                                                         *)
(* The difficulty is that has_errors only sees diagnostics that nobody has *)
(* reported yet, and that a duplicate is dropped.  The verdict is sound    *)
(* all the same: the first file to raise a diagnostic gets the cross, that *)
(* cross is counted when the batch ends (Counted), and no later phase      *)
(* starts with anything reported (Clean).                                  *)
(***************************************************************************)
EXTENDS ProverDriver, TLAPS

Idle    == {"start", "targets", "guard", "spec_no_abort_check"}
Batches == {"batch_1", "fold_1", "batch_2", "fold_2"}
Ended   == {"exit", "done"}

\* Outside the batches nothing has been reported, or the run is over.
Clean == pc \notin Batches \cup Ended \cup {"finish"} => ~has_errors /\ reported = {}

\* The only diagnostic that can wait to be reported is the one of
\* check_backend_mixing, and then no file is generated.
Pending ==
    /\ proj.mixing => proj.targets # {}
    /\ pc \in {"start", "targets"} => diags = {}
    /\ diags # reported =>
        /\ diags = {D("mixing", None)} /\ reported = {} /\ proj.mixing
        /\ pc \in {"guard", "spec_no_abort_check", "generate_1", "abort_check",
                   "run_main", "generate_2"} \cup Ended
        /\ pc \notin Ended => \A f \in Files : stage[f] # "generated"
        /\ verdict \notin {"success", "errors", "nothing"}

\* A reported diagnostic is counted, or waits with its file to be counted.
Counted ==
    /\ pc \in Batches /\ reported # {} =>
          has_errors \/ \E f \in Files : stage[f] = "collected" /\ mark[f] = "fail"
    /\ pc = "finish" /\ reported # {} => has_errors

\* Outcomes, marks and diagnostics of the files go together.
Recorded ==
    \A f \in Files :
        /\ DiagsOf(f, outcome[f]) \subseteq reported
        /\ mark[f] = "none" <=> outcome[f] = "none"
        /\ mark[f] = "abort" <=> outcome[f] = "abort"
        /\ stage[f] \in {"collected", "done"} <=> outcome[f] # "none"
        /\ pc \notin Ended /\ stage[f] = "done" => outcome[f] # "abort"

\* What a file raised belongs to a file with the cross.
Owned ==
    \A d \in reported : d.kind \in {"failed", "timeout", "no_cloud"} =>
        \E g \in Files : mark[g] = "fail" /\ DiagsOf(g, outcome[g]) = {d}

\* How far the files of each phase are.
SpecStages ==
    IF pc \in Idle THEN {"none"}
    ELSE IF pc = "generate_1" THEN {"queued", "generated"}
    ELSE IF pc = "batch_1" THEN {"remote", "in_flight", "local", "collected"}
    ELSE IF pc = "fold_1" THEN {"local", "collected", "done"}
    ELSE IF pc \in Ended THEN Stages
    ELSE {"done"}
MainStages ==
    IF pc = "generate_2" THEN {"queued", "generated"}
    ELSE IF pc = "batch_2" THEN {"remote", "in_flight", "local", "collected"}
    ELSE IF pc = "fold_2" THEN {"local", "collected", "done"}
    ELSE IF pc = "finish" THEN IF has_errors THEN Stages ELSE {"done"}
    ELSE IF pc \in Ended THEN Stages
    ELSE {"none"}
AbortStages ==
    IF pc \in Idle \cup {"generate_1", "batch_1", "fold_1", "abort_check",
                         "abort_verify"}
    THEN {"none"} ELSE {"none", "done"}

SpecPhase == IF opt.skip_spec_no_abort THEN {} ELSE SpecNoAbortFiles

Staged ==
    /\ \A f \in SpecPhase : stage[f] \in SpecStages
    /\ \A f \in MainFiles : stage[f] \in MainStages
    /\ stage[AbortFile] \in AbortStages
    /\ \A f \in Files \ (SpecPhase \cup MainFiles \cup {AbortFile}) : stage[f] = "none"
    /\ pc = "generate_1" => SpecPhase # {}
    /\ pc = "generate_2" => MainFiles # {}

\* What is written or buffered was diagnosed, and what is reported is written
\* or in the buffer of a file whose result is still to come.
Written ==
    /\ \A f \in Files : buffer[f] \subseteq diags
    /\ pc \notin Ended =>
          \A d \in reported :
             d \in written \/ \E f \in Files : stage[f] = "collected" /\ d \in buffer[f]
    /\ pc = "finish" => reported \subseteq written

Verdicts ==
    /\ pc \notin Ended => verdict = "none"
    /\ VerdictSound
    /\ AllDiagsWritten

Inv == /\ TypeOK /\ Clean /\ Pending /\ Counted /\ Recorded /\ Owned /\ Staged
       /\ Written /\ Verdicts

\* The sets of files of the phases.
LEMMA FileFacts ==
    ASSUME TypeOK
    PROVE  /\ AbortFile \in Files
           /\ SpecNoAbortFiles \subseteq Files /\ SpecPhase \subseteq Files
           /\ MainFiles \subseteq Files
           /\ AbortFile \notin SpecPhase /\ AbortFile \notin MainFiles
           /\ SpecPhase \cap MainFiles = {}
           /\ proj.targets # {} <=> MainFiles # {}
<1>1. AbortFile \in Files
  BY DEF Files
<1>2. proj.targets \subseteq Specs
  BY DEF TypeOK, Projects
<1>3. \A s \in Specs : ModuleOf[s] \in Modules
  BY DriverAssumption
<1>4. spec_abort_check_verify_modules \subseteq Modules
  BY <1>3 DEF spec_abort_check_verify_modules, no_verify_specs
<1>5. MainTargets \subseteq Specs \cup Modules
  BY <1>2, <1>3 DEF MainTargets, target_modules
<1>6. SpecNoAbortFiles \subseteq Files /\ MainFiles \subseteq Files
  BY <1>4, <1>5 DEF SpecNoAbortFiles, MainFiles, Files, Modes
<1>7. /\ \A f \in SpecNoAbortFiles : f.phase = "spec_no_abort_check"
      /\ \A f \in MainFiles : f.phase = "main"
      /\ AbortFile.phase = "funs_abort_check"
  BY DEF SpecNoAbortFiles, MainFiles, AbortFile, File
<1>8. ASSUME proj.targets # {}
      PROVE  MainFiles # {}
  <2>1. PICK t \in MainTargets : TRUE
    BY <1>8 DEF MainTargets, target_modules
  <2>2. File("main", t, "Check") \in MainFiles
    BY <2>1 DEF MainFiles, Modes
  <2> QED
    BY <2>2
<1>10. proj.targets = {} => MainFiles = {}
  BY DEF MainFiles, MainTargets, target_modules
<1>9. SpecPhase \subseteq SpecNoAbortFiles
  BY DEF SpecPhase
<1> QED
  BY <1>1, <1>6, <1>7, <1>8, <1>9, <1>10

\* They depend on the options and the package only.
LEMMA SameFiles ==
    ASSUME opt' = opt, proj' = proj
    PROVE  /\ SpecNoAbortFiles' = SpecNoAbortFiles
           /\ SpecPhase' = SpecPhase /\ MainFiles' = MainFiles
BY DEF SpecPhase, SpecNoAbortFiles, spec_abort_check_verify_modules,
       no_verify_specs, MainFiles, MainTargets, target_modules

Complaints == {"failed", "timeout", "no_cloud"}

\* A file raises one diagnostic, or none.
LEMMA DiagFacts ==
    ASSUME NEW f \in Files, NEW o \in Outcomes
    PROVE  /\ DiagsOf(f, o) \subseteq Diags
           /\ o \notin Complaints => DiagsOf(f, o) = {}
           /\ o \in Complaints =>
                 \E d \in Diags : DiagsOf(f, o) = {d} /\ d.kind \in Complaints
<1>1. f.target \in Specs \cup Modules \cup {None}
  BY DEF Files, File, AbortFile
<1>2. D("failed", f) \in Diags /\ D("failed", f).kind \in Complaints
  BY DEF D, Diags, Complaints
<1>3. D("timeout", None) \in Diags /\ D("timeout", None).kind \in Complaints
  BY DEF D, Diags, Complaints
<1>4. D("no_cloud", f.target) \in Diags /\ D("no_cloud", f.target).kind \in Complaints
  BY <1>1 DEF D, Diags, Complaints
<1> HIDE DEF D, Diags
<1> QED
  BY <1>2, <1>3, <1>4 DEF DiagsOf, Complaints, Outcomes

\* verify_bpl's steps from the answer to the mark.
LEMMA AnswerFacts ==
    ASSUME TypeOK, Recorded, Owned, diags = reported,
           NEW f \in Files, NEW o \in Outcomes \ {"none"},
           outcome[f] = "none", Answer(f, o)
    PROVE  /\ diags' = reported' /\ reported' = reported \cup DiagsOf(f, o)
           /\ diags' \in SUBSET Diags
           /\ outcome' \in [Files -> Outcomes] /\ mark' \in [Files -> Marks]
           /\ outcome' = [outcome EXCEPT ![f] = o]
           /\ mark' = [mark EXCEPT ![f] = MarkOf(f, o)]
           /\ MarkOf(f, o) = "abort" <=> o = "abort"
           /\ MarkOf(f, o) \in {"abort", "pass", "fail"}
           /\ reported' # reported => MarkOf(f, o) = "fail"
           /\ MarkOf(f, o) = "fail" => o \in Complaints
           /\ Owned'
<1>1. /\ outcome' = [outcome EXCEPT ![f] = o]
      /\ mark' = [mark EXCEPT ![f] = MarkOf(f, o)]
  BY DEF Answer
<1>2. MarkOf(f, o) \in {"abort", "pass", "fail"} /\ (MarkOf(f, o) = "abort" <=> o = "abort")
  BY DEF MarkOf
<1>3. outcome' \in [Files -> Outcomes] /\ mark' \in [Files -> Marks]
  BY <1>1, <1>2 DEF TypeOK, Marks
<1>4. /\ DiagsOf(f, o) \subseteq Diags
      /\ o \notin Complaints => DiagsOf(f, o) = {}
      /\ o \in Complaints =>
            \E d \in Diags : DiagsOf(f, o) = {d} /\ d.kind \in Complaints
  BY DiagFacts
<1>5. o = "abort" => DiagsOf(f, o) = {}
  BY <1>4 DEF Complaints
<1>6. diags' = reported' /\ reported' = reported \cup DiagsOf(f, o)
  BY <1>5 DEF Answer, ReportTo
<1>7. diags' \in SUBSET Diags
  BY <1>4, <1>6 DEF TypeOK
<1>8. reported' # reported => MarkOf(f, o) = "fail"
  BY <1>5, <1>6 DEF MarkOf, HasErrors
<1>9. MarkOf(f, o) = "fail" => o \in Complaints
  BY <1>4 DEF MarkOf, HasErrors
<1>10. Owned'
  <2> SUFFICES ASSUME NEW d \in reported', d.kind \in Complaints
               PROVE  \E g \in Files : mark'[g] = "fail" /\ DiagsOf(g, outcome'[g]) = {d}
    BY DEF Owned, Complaints, DiagsOf
  <2>1. CASE d \in reported
    <3>1. PICK g \in Files : mark[g] = "fail" /\ DiagsOf(g, outcome[g]) = {d}
      BY <2>1 DEF Owned, Complaints
    <3>2. g # f
      BY <3>1 DEF Recorded
    <3> QED
      BY <1>1, <3>1, <3>2 DEF TypeOK
  <2>2. CASE d \notin reported
    <3>1. d \in DiagsOf(f, o) /\ MarkOf(f, o) = "fail"
      BY <1>6, <1>8, <2>2
    <3>2. DiagsOf(f, o) = {d}
      BY <1>4, <1>9, <3>1
    <3> QED
      BY <1>1, <3>1, <3>2 DEF TypeOK
  <2> QED
    BY <2>1, <2>2
<1> QED
  BY <1>1, <1>2, <1>3, <1>6, <1>7, <1>8, <1>9, <1>10

\* The steps of the driver that do not concern a single file.
LEMMA PlainSteps ==
    ASSUME Inv
    PROVE  (\/ Start \/ SelectTargets \/ Guard \/ StartSpecNoAbort \/ StartBatch
            \/ EndStream \/ EndBatch \/ AbortCheck \/ RunMain \/ Finish \/ Exit
            \/ UNCHANGED vars) => Inv'
<1>0. /\ TypeOK /\ Clean /\ Pending /\ Counted /\ Recorded /\ Owned /\ Staged
      /\ Written /\ Verdicts
  BY DEF Inv
<1>a. /\ AbortFile \in Files
      /\ SpecNoAbortFiles \subseteq Files /\ SpecPhase \subseteq Files
      /\ MainFiles \subseteq Files
      /\ AbortFile \notin SpecPhase /\ AbortFile \notin MainFiles
      /\ SpecPhase \cap MainFiles = {}
      /\ proj.targets # {} <=> MainFiles # {}
  BY <1>0, FileFacts
<1>b. ASSUME AbortCheck
      PROVE  /\ pc = "abort_check" /\ verdict = "none" /\ reported = {} /\ ~has_errors
             /\ has_errors' = has_errors
             /\ \/ /\ pc' \in {"run_main", "abort_verify"} /\ verdict' = verdict
                   /\ pc' = "run_main" \/ diags = {}
                   /\ diags' = diags /\ reported' = reported /\ written' = written
                \/ /\ pc' = "exit" /\ verdict' = "error"
                   /\ diags' = reported' /\ written' = written \cup diags'
                   /\ diags \subseteq diags' /\ diags' \subseteq Diags
                   /\ diags' \subseteq {D("mixing", None), D("transform", AbortFile)}
  <2>1. /\ pc = "abort_check" /\ verdict = "none" /\ reported = {} /\ ~has_errors
        /\ has_errors' = has_errors
    BY <1>0, <1>b DEF AbortCheck, Clean, Verdicts, Batches, Ended
  <2>2. CASE opt.skip_fun_no_abort
    BY <1>b, <2>1, <2>2 DEF AbortCheck, report
  <2>3. CASE ~opt.skip_fun_no_abort
    <3>1. PICK new \in {{}, {D("transform", AbortFile)}}, next \in {"run_main", "abort_verify"} :
             CheckErrors(diags \cup new, pc' = next /\ UNCHANGED verdict)
      BY <1>b, <2>3 DEF AbortCheck
    <3>2. D("transform", AbortFile) \in Diags
      BY <1>a DEF D, Diags
    <3>3. /\ diags \cup new \subseteq {D("mixing", None), D("transform", AbortFile)}
          /\ diags \cup new \subseteq Diags
      BY <1>0, <2>1, <3>1, <3>2 DEF Pending, TypeOK
    <3>4. /\ diags' = diags \cup new /\ reported' = diags \cup new
          /\ written' = written \cup diags'
      BY <2>1, <3>1 DEF CheckErrors, ReportAndWrite, ReportTo, New
    <3>5. CASE diags \cup new = {}
      BY <1>0, <2>1, <3>1, <3>4, <3>5 DEF CheckErrors, HasErrors, TypeOK
    <3>6. CASE diags \cup new # {}
      BY <2>1, <3>1, <3>3, <3>4, <3>6 DEF CheckErrors, HasErrors, Fail
    <3> QED
      BY <3>5, <3>6
  <2> QED
    BY <2>1, <2>2, <2>3
<1>1. CASE Start
  <2>1. TypeOK'
    BY <1>0, <1>a, <1>1, SameFiles DEF Start, Fail, files, report, TypeOK, Locations
  <2>2. Clean'
    BY <1>0, <1>a, <1>1, SameFiles DEF Start, Fail, files, report, Clean, Counted, Staged, Verdicts, Idle, Batches, Ended
  <2>3. Pending'
    BY <1>0, <1>a, <1>1, SameFiles DEF Start, Fail, files, report, Pending, Clean, Staged, Verdicts, Idle, Batches, Ended, TypeOK
  <2>4. Counted'
    BY <1>0, <1>a, <1>1, SameFiles DEF Start, Fail, files, report, Counted, Clean, Staged, Pending, Verdicts, Idle, Batches, Ended
  <2>5. Recorded'
    BY <1>0, <1>a, <1>1, SameFiles DEF Start, Fail, files, report, Recorded, Staged, Verdicts, Idle, Batches, Ended, TypeOK
  <2>6. Owned'
    BY <1>0, <1>a, <1>1, SameFiles DEF Start, Fail, files, report, Owned
  <2>7. Staged'
    BY <1>0, <1>a, <1>1, SameFiles DEF Start, Fail, files, report, Staged, SpecStages, MainStages, AbortStages, Idle, Ended, TypeOK
  <2>8. Written'
    BY <1>0, <1>a, <1>1, SameFiles DEF Start, Fail, files, report, Written, Clean, Pending, Staged, Verdicts, Idle, Batches, Ended
  <2>9. Verdicts'
    BY <1>0, <1>a, <1>1, SameFiles DEF Start, Fail, files, report, Verdicts, VerdictSound, AllDiagsWritten, Ended
  <2> QED
    BY <2>1, <2>2, <2>3, <2>4, <2>5, <2>6, <2>7, <2>8, <2>9 DEF Inv
<1>2. CASE SelectTargets
  <2>1. TypeOK'
    <3>1. D("mixing", None) \in Diags
      BY DEF D, Diags
    <3>2. diags' \in SUBSET Diags /\ reported' \in SUBSET diags' /\ written' \in SUBSET diags'
      BY <1>0, <1>2, <3>1 DEF SelectTargets, Clean, Idle, Batches, Ended, TypeOK, Pending
    <3> QED
      BY <1>0, <1>2, <3>2 DEF SelectTargets, Fail, files, TypeOK, Locations
  <2>2. Clean'
    BY <1>0, <1>a, <1>2, SameFiles DEF SelectTargets, Fail, files, Clean, Counted, Staged, Verdicts, Idle, Batches, Ended
  <2>3. Pending'
    <3>1. reported' = {} /\ \A f \in Files : stage'[f] # "generated"
      BY <1>0, <1>a, <1>2 DEF SelectTargets, files, Clean, Batches, Ended, Idle, Staged,
         SpecStages, MainStages, AbortStages
    <3> QED
      BY <1>0, <1>2, <3>1 DEF SelectTargets, Fail, Pending, Verdicts, Ended
  <2>4. Counted'
    BY <1>0, <1>a, <1>2, SameFiles DEF SelectTargets, Fail, files, Counted, Clean, Staged, Pending, Verdicts, Idle, Batches, Ended
  <2>5. Recorded'
    BY <1>0, <1>a, <1>2, SameFiles DEF SelectTargets, Fail, files, Recorded, Staged, Verdicts, Idle, Batches, Ended, TypeOK
  <2>6. Owned'
    BY <1>0, <1>a, <1>2, SameFiles DEF SelectTargets, Fail, files, Owned
  <2>7. Staged'
    BY <1>0, <1>a, <1>2, SameFiles DEF SelectTargets, Fail, files, Staged, SpecStages, MainStages, AbortStages, Idle, Ended, TypeOK
  <2>8. Written'
    BY <1>0, <1>a, <1>2, SameFiles DEF SelectTargets, Fail, files, Written, Clean, Pending, Staged, Verdicts, Idle, Batches, Ended
  <2>9. Verdicts'
    BY <1>0, <1>a, <1>2, SameFiles DEF SelectTargets, Fail, files, Verdicts, VerdictSound, AllDiagsWritten, Ended
  <2> QED
    BY <2>1, <2>2, <2>3, <2>4, <2>5, <2>6, <2>7, <2>8, <2>9 DEF Inv
<1>3. CASE Guard
  <2>1. TypeOK'
    BY <1>0, <1>a, <1>3, SameFiles DEF Guard, Fail, files, report, HasErrors, ReportAndWrite, ReportTo, New, TypeOK, Locations
  <2>2. Clean'
    BY <1>0, <1>a, <1>3, SameFiles DEF Guard, Fail, files, report, HasErrors, ReportAndWrite, ReportTo, New, Clean, Counted, Staged, Verdicts, Idle, Batches, Ended
  <2>3. Pending'
    BY <1>0, <1>a, <1>3, SameFiles DEF Guard, Fail, files, report, HasErrors, ReportAndWrite, ReportTo, New, Pending, Clean, Staged, Verdicts, Idle, Batches, Ended, TypeOK
  <2>4. Counted'
    BY <1>0, <1>a, <1>3, SameFiles DEF Guard, Fail, files, report, HasErrors, ReportAndWrite, ReportTo, New, Counted, Clean, Staged, Pending, Verdicts, Idle, Batches, Ended
  <2>5. Recorded'
    BY <1>0, <1>a, <1>3, SameFiles DEF Guard, Fail, files, report, HasErrors, ReportAndWrite, ReportTo, New, Recorded, Staged, Verdicts, Idle, Batches, Ended, TypeOK
  <2>6. Owned'
    <3>1. reported' = reported \/ reported' = {D("mixing", None)}
      BY <1>0, <1>3 DEF Guard, report, HasErrors, ReportAndWrite, ReportTo, Pending
    <3>2. CASE reported' = reported
      BY <1>0, <1>3, <3>2 DEF Guard, files, Owned
    <3>3. CASE reported' = {D("mixing", None)}
      BY <3>3 DEF Owned, D
    <3> QED
      BY <3>1, <3>2, <3>3
  <2>7. Staged'
    BY <1>0, <1>a, <1>3, SameFiles DEF Guard, Fail, files, report, HasErrors, ReportAndWrite, ReportTo, New, Staged, SpecStages, MainStages, AbortStages, Idle, Ended, TypeOK
  <2>8. Written'
    BY <1>0, <1>a, <1>3, SameFiles DEF Guard, Fail, files, report, HasErrors, ReportAndWrite, ReportTo, New, Written, Clean, Pending, Staged, Verdicts, Idle, Batches, Ended
  <2>9. Verdicts'
    <3>1. verdict = "none"
      BY <1>0, <1>3 DEF Guard, Verdicts, Ended
    <3>2. verdict' = "nothing" => reported' = {} /\ diags' = {} /\ written' = {}
      BY <1>0, <1>3, <3>1 DEF Guard, Fail, report, HasErrors, Clean, Pending, Idle, Batches,
         Ended, TypeOK
    <3>3. verdict' \in {"none", "nothing", "error"} /\ (pc' \notin Ended => verdict' = "none")
      BY <1>3, <3>1 DEF Guard, Fail, Ended
    <3> QED
      BY <3>2, <3>3 DEF Verdicts, VerdictSound, AllDiagsWritten
  <2> QED
    BY <2>1, <2>2, <2>3, <2>4, <2>5, <2>6, <2>7, <2>8, <2>9 DEF Inv
<1>4. CASE StartSpecNoAbort
  <2>1. TypeOK'
    <3>1. stage' \in [Files -> Stages]
      BY <1>0, <1>4 DEF StartSpecNoAbort, Enqueue, TypeOK, Stages
    <3> QED
      BY <1>0, <1>4, <3>1 DEF StartSpecNoAbort, report, TypeOK, Locations
  <2>2. Clean'
    BY <1>0, <1>a, <1>4, SameFiles DEF StartSpecNoAbort, Enqueue, report, Clean, Counted, Staged, Verdicts, Idle, Batches, Ended
  <2>3. Pending'
    BY <1>0, <1>a, <1>4, SameFiles DEF StartSpecNoAbort, Enqueue, report, Pending, Clean, Staged, Verdicts, Idle, Batches, Ended, TypeOK
  <2>4. Counted'
    BY <1>0, <1>a, <1>4, SameFiles DEF StartSpecNoAbort, Enqueue, report, Counted, Clean, Staged, Pending, Verdicts, Idle, Batches, Ended
  <2>5. Recorded'
    <3> SUFFICES ASSUME NEW f \in Files
                 PROVE  /\ stage'[f] \in {"collected", "done"} <=> stage[f] \in {"collected", "done"}
                        /\ stage'[f] = "done" => stage[f] = "done"
      BY <1>0, <1>4 DEF StartSpecNoAbort, report, Recorded, Ended, DiagsOf
    <3>1. f \in SpecPhase => stage[f] = "none"
      BY <1>0, <1>4 DEF StartSpecNoAbort, Staged, SpecStages, Idle
    <3>2. stage'[f] = stage[f] \/ (f \in SpecPhase /\ stage'[f] = "queued")
      BY <1>4 DEF StartSpecNoAbort, Enqueue, SpecPhase
    <3> QED
      BY <3>1, <3>2
  <2>6. Owned'
    BY <1>0, <1>a, <1>4, SameFiles DEF StartSpecNoAbort, Enqueue, report, Owned
  <2>7. Staged'
    <3>1. /\ pc = "spec_no_abort_check" /\ pc' \in {"abort_check", "generate_1"}
          /\ pc' = "abort_check" => SpecPhase = {} /\ stage' = stage
          /\ pc' = "generate_1" => SpecPhase # {}
          /\ pc' = "generate_1" =>
                \A f \in Files : stage'[f] = IF f \in SpecPhase THEN "queued" ELSE stage[f]
      BY <1>4 DEF StartSpecNoAbort, SpecPhase, Enqueue
    <3>2. SpecPhase' = SpecPhase /\ MainFiles' = MainFiles
      BY <1>4, SameFiles DEF StartSpecNoAbort
    <3> QED
      BY <1>0, <1>a, <3>1, <3>2 DEF Staged, SpecStages, MainStages, AbortStages, Idle, Ended
  <2>8. Written'
    BY <1>0, <1>a, <1>4, SameFiles DEF StartSpecNoAbort, Enqueue, report, Written, Clean, Pending, Staged, Verdicts, Idle, Batches, Ended
  <2>9. Verdicts'
    BY <1>0, <1>a, <1>4, SameFiles DEF StartSpecNoAbort, Enqueue, report, Verdicts, VerdictSound, AllDiagsWritten, Ended
  <2> QED
    BY <2>1, <2>2, <2>3, <2>4, <2>5, <2>6, <2>7, <2>8, <2>9 DEF Inv
<1>5. CASE StartBatch
  <2>1. TypeOK'
    <3>1. stage' \in [Files -> Stages]
      BY <1>0, <1>5 DEF StartBatch, TypeOK, Stages
    <3> QED
      BY <1>0, <1>5, <3>1 DEF StartBatch, report, TypeOK, Locations
  <2>2. Clean'
    BY <1>0, <1>a, <1>5, SameFiles DEF StartBatch, InStream, report, Clean, Counted, Staged, Verdicts, Idle, Batches, Ended
  <2>3. Pending'
    <3>1. \E f \in Files : stage[f] = "generated"
      BY <1>0, <1>a, <1>5 DEF StartBatch, Staged, SpecStages, MainStages, Idle
    <3> QED
      BY <1>0, <1>5, <3>1 DEF StartBatch, report, Pending, Ended
  <2>4. Counted'
    BY <1>0, <1>a, <1>5, SameFiles DEF StartBatch, InStream, report, Counted, Clean, Staged, Pending, Verdicts, Idle, Batches, Ended
  <2>5. Recorded'
    BY <1>0, <1>a, <1>5, SameFiles DEF StartBatch, InStream, report, Recorded, Staged, Verdicts, Idle, Batches, Ended, TypeOK
  <2>6. Owned'
    BY <1>0, <1>a, <1>5, SameFiles DEF StartBatch, InStream, report, Owned
  <2>7. Staged'
    BY <1>0, <1>a, <1>5, SameFiles DEF StartBatch, InStream, report, Staged, SpecStages, MainStages, AbortStages, Idle, Ended, TypeOK
  <2>8. Written'
    BY <1>0, <1>a, <1>5, SameFiles DEF StartBatch, InStream, report, Written, Clean, Pending, Staged, Verdicts, Idle, Batches, Ended
  <2>9. Verdicts'
    BY <1>0, <1>a, <1>5, SameFiles DEF StartBatch, InStream, report, Verdicts, VerdictSound, AllDiagsWritten, Ended
  <2> QED
    BY <2>1, <2>2, <2>3, <2>4, <2>5, <2>6, <2>7, <2>8, <2>9 DEF Inv
<1>6. CASE EndStream
  <2>1. TypeOK'
    BY <1>0, <1>a, <1>6, SameFiles DEF EndStream, StreamEnded, files, report, TypeOK, Locations
  <2>2. Clean'
    BY <1>0, <1>a, <1>6, SameFiles DEF EndStream, StreamEnded, files, report, Clean, Counted, Staged, Verdicts, Idle, Batches, Ended
  <2>3. Pending'
    BY <1>0, <1>a, <1>6, SameFiles DEF EndStream, StreamEnded, files, report, Pending, Clean, Staged, Verdicts, Idle, Batches, Ended, TypeOK
  <2>4. Counted'
    BY <1>0, <1>a, <1>6, SameFiles DEF EndStream, StreamEnded, files, report, Counted, Clean, Staged, Pending, Verdicts, Idle, Batches, Ended
  <2>5. Recorded'
    BY <1>0, <1>a, <1>6, SameFiles DEF EndStream, StreamEnded, files, report, Recorded, Staged, Verdicts, Idle, Batches, Ended, TypeOK
  <2>6. Owned'
    BY <1>0, <1>a, <1>6, SameFiles DEF EndStream, StreamEnded, files, report, Owned
  <2>7. Staged'
    BY <1>0, <1>a, <1>6, SameFiles DEF EndStream, StreamEnded, files, report, Staged, SpecStages, MainStages, AbortStages, Idle, Ended, TypeOK
  <2>8. Written'
    BY <1>0, <1>a, <1>6, SameFiles DEF EndStream, StreamEnded, files, report, Written, Clean, Pending, Staged, Verdicts, Idle, Batches, Ended
  <2>9. Verdicts'
    BY <1>0, <1>a, <1>6, SameFiles DEF EndStream, StreamEnded, files, report, Verdicts, VerdictSound, AllDiagsWritten, Ended
  <2> QED
    BY <2>1, <2>2, <2>3, <2>4, <2>5, <2>6, <2>7, <2>8, <2>9 DEF Inv
<1>7. CASE EndBatch
  <2>1. TypeOK'
    BY <1>0, <1>a, <1>7, SameFiles DEF EndBatch, files, report, TypeOK, Locations
  <2>2. Clean'
    BY <1>0, <1>a, <1>7, SameFiles DEF EndBatch, files, report, Clean, Counted, Staged, Verdicts, Idle, Batches, Ended
  <2>3. Pending'
    BY <1>0, <1>a, <1>7, SameFiles DEF EndBatch, files, report, Pending, Clean, Staged, Verdicts, Idle, Batches, Ended, TypeOK
  <2>4. Counted'
    BY <1>0, <1>a, <1>7, SameFiles DEF EndBatch, files, report, Counted, Clean, Staged, Pending, Verdicts, Idle, Batches, Ended
  <2>5. Recorded'
    BY <1>0, <1>a, <1>7, SameFiles DEF EndBatch, files, report, Recorded, Staged, Verdicts, Idle, Batches, Ended, TypeOK
  <2>6. Owned'
    BY <1>0, <1>a, <1>7, SameFiles DEF EndBatch, files, report, Owned
  <2>7. Staged'
    BY <1>0, <1>a, <1>7, SameFiles DEF EndBatch, files, report, Staged, SpecStages, MainStages, AbortStages, Idle, Ended, TypeOK
  <2>8. Written'
    BY <1>0, <1>a, <1>7, SameFiles DEF EndBatch, files, report, Written, Clean, Pending, Staged, Verdicts, Idle, Batches, Ended
  <2>9. Verdicts'
    BY <1>0, <1>a, <1>7, SameFiles DEF EndBatch, files, report, Verdicts, VerdictSound, AllDiagsWritten, Ended
  <2> QED
    BY <2>1, <2>2, <2>3, <2>4, <2>5, <2>6, <2>7, <2>8, <2>9 DEF Inv
<1>8. CASE AbortCheck
  <2>1. TypeOK'
    <3>0. pc' \in Locations /\ verdict' \in {"none", "success", "nothing", "errors", "error"}
      BY <1>0, <1>8, <1>b DEF TypeOK, Locations
    <3>1. written \subseteq diags
      BY <1>0 DEF TypeOK
    <3>2. diags' \in SUBSET Diags /\ reported' \in SUBSET diags' /\ written' \in SUBSET diags'
      BY <1>0, <1>8, <1>b, <3>1 DEF TypeOK
    <3> QED
      BY <1>0, <1>8, <3>0, <3>2 DEF AbortCheck, files, TypeOK
  <2>2. Clean'
    BY <1>0, <1>8, <1>b DEF AbortCheck, Clean, Ended, Batches
  <2>3. Pending'
    BY <1>0, <1>8, <1>b DEF AbortCheck, files, Pending, Ended, Verdicts
  <2>4. Counted'
    BY <1>0, <1>8, <1>b DEF Counted, Batches
  <2>5. Recorded'
    BY <1>0, <1>8, <1>b DEF AbortCheck, files, Recorded, DiagsOf, Ended
  <2>6. Owned'
    <3> SUFFICES ASSUME NEW d \in reported', d.kind \in {"failed", "timeout", "no_cloud"}
                 PROVE  FALSE
      BY DEF Owned, DiagsOf
    <3>1. d = D("mixing", None) \/ d = D("transform", AbortFile)
      BY <1>8, <1>b
    <3> QED
      BY <3>1 DEF D
  <2>7. Staged'
    <3>1. SpecPhase' = SpecPhase /\ MainFiles' = MainFiles
      BY <1>8, SameFiles DEF AbortCheck
    <3> QED
      BY <1>0, <1>a, <1>8, <1>b, <3>1 DEF AbortCheck, files, Staged, SpecStages, MainStages, AbortStages,
         Idle, Ended, TypeOK
  <2>8. Written'
    BY <1>0, <1>8, <1>b DEF AbortCheck, files, Written, Ended
  <2>9. Verdicts'
    BY <1>0, <1>8, <1>b DEF Verdicts, VerdictSound, AllDiagsWritten, Ended
  <2> QED
    BY <2>1, <2>2, <2>3, <2>4, <2>5, <2>6, <2>7, <2>8, <2>9 DEF Inv
<1>9. CASE RunMain
  <2>1. TypeOK'
    <3>1. stage' \in [Files -> Stages]
      BY <1>0, <1>9 DEF RunMain, Enqueue, TypeOK, Stages
    <3> QED
      BY <1>0, <1>9, <3>1 DEF RunMain, report, TypeOK, Locations
  <2>2. Clean'
    BY <1>0, <1>a, <1>9, SameFiles DEF RunMain, Enqueue, report, Clean, Counted, Staged, Verdicts, Idle, Batches, Ended
  <2>3. Pending'
    <3>1. \A f \in Files : stage'[f] = "generated" => stage[f] = "generated"
      BY <1>9 DEF RunMain, Enqueue
    <3> QED
      BY <1>0, <1>9, <3>1 DEF RunMain, report, Pending, Ended
  <2>4. Counted'
    BY <1>0, <1>a, <1>9, SameFiles DEF RunMain, Enqueue, report, Counted, Clean, Staged, Pending, Verdicts, Idle, Batches, Ended
  <2>5. Recorded'
    <3> SUFFICES ASSUME NEW f \in Files
                 PROVE  /\ stage'[f] \in {"collected", "done"} <=> stage[f] \in {"collected", "done"}
                        /\ stage'[f] = "done" => stage[f] = "done"
      BY <1>0, <1>9 DEF RunMain, report, Recorded, Ended, DiagsOf
    <3>1. f \in MainFiles => stage[f] = "none"
      BY <1>0, <1>9 DEF RunMain, Staged, MainStages, Ended
    <3>2. stage'[f] = stage[f] \/ (f \in MainFiles /\ stage'[f] = "queued")
      BY <1>9 DEF RunMain, Enqueue
    <3> QED
      BY <3>1, <3>2
  <2>6. Owned'
    BY <1>0, <1>a, <1>9, SameFiles DEF RunMain, Enqueue, report, Owned
  <2>7. Staged'
    <3>1. /\ pc = "run_main" /\ pc' \in {"finish", "generate_2"}
          /\ pc' = "finish" => MainFiles = {} /\ stage' = stage
          /\ pc' = "generate_2" => MainFiles # {}
          /\ pc' = "generate_2" =>
                \A f \in Files : stage'[f] = IF f \in MainFiles THEN "queued" ELSE stage[f]
      BY <1>a, <1>9 DEF RunMain, Enqueue
    <3>2. SpecPhase' = SpecPhase /\ MainFiles' = MainFiles
      BY <1>9, SameFiles DEF RunMain
    <3> QED
      BY <1>0, <1>a, <3>1, <3>2 DEF Staged, SpecStages, MainStages, AbortStages, Idle, Ended
  <2>8. Written'
    BY <1>0, <1>a, <1>9, SameFiles DEF RunMain, Enqueue, report, Written, Clean, Pending, Staged, Verdicts, Idle, Batches, Ended
  <2>9. Verdicts'
    BY <1>0, <1>a, <1>9, SameFiles DEF RunMain, Enqueue, report, Verdicts, VerdictSound, AllDiagsWritten, Ended
  <2> QED
    BY <2>1, <2>2, <2>3, <2>4, <2>5, <2>6, <2>7, <2>8, <2>9 DEF Inv
<1>10. CASE Finish
  <2>1. TypeOK'
    BY <1>0, <1>a, <1>10, SameFiles DEF Finish, files, report, TypeOK, Locations
  <2>2. Clean'
    BY <1>0, <1>a, <1>10, SameFiles DEF Finish, files, report, Clean, Counted, Staged, Verdicts, Idle, Batches, Ended
  <2>3. Pending'
    BY <1>0, <1>a, <1>10, SameFiles DEF Finish, files, report, Pending, Clean, Staged, Verdicts, Idle, Batches, Ended, TypeOK
  <2>4. Counted'
    BY <1>0, <1>a, <1>10, SameFiles DEF Finish, files, report, Counted, Clean, Staged, Pending, Verdicts, Idle, Batches, Ended
  <2>5. Recorded'
    BY <1>0, <1>a, <1>10, SameFiles DEF Finish, files, report, Recorded, Staged, Verdicts, Idle, Batches, Ended, TypeOK
  <2>6. Owned'
    BY <1>0, <1>a, <1>10, SameFiles DEF Finish, files, report, Owned
  <2>7. Staged'
    BY <1>0, <1>a, <1>10, SameFiles DEF Finish, files, report, Staged, SpecStages, MainStages, AbortStages, Idle, Ended, TypeOK
  <2>8. Written'
    BY <1>0, <1>a, <1>10, SameFiles DEF Finish, files, report, Written, Clean, Pending, Staged, Verdicts, Idle, Batches, Ended
  <2>9. Verdicts'
    <3>1. CASE has_errors
      BY <1>0, <1>10, <3>1 DEF Finish, report, Verdicts, VerdictSound, AllDiagsWritten, Ended, Pending,
         Written, TypeOK
    <3>2. CASE ~has_errors
      <4>1. reported = {} /\ diags = {} /\ written = {}
        BY <1>0, <1>10, <3>2 DEF Finish, Counted, Pending, TypeOK, Ended
      <4>2. \A f \in SpecPhase \cup MainFiles : stage[f] = "done"
        BY <1>0, <1>10, <3>2 DEF Finish, Staged, SpecStages, MainStages, Idle, Ended
      <4>3. \A f \in SpecPhase \cup MainFiles : outcome[f] = "clean"
        <5> SUFFICES ASSUME NEW f \in SpecPhase \cup MainFiles
                     PROVE  outcome[f] = "clean"
          OBVIOUS
        <5>1. f \in Files /\ outcome[f] \in Outcomes
          BY <1>0, <1>a DEF TypeOK
        <5>2. outcome[f] \notin {"none", "abort"}
          BY <1>0, <1>10, <4>2, <5>1 DEF Finish, Recorded, Ended
        <5>3. DiagsOf(f, outcome[f]) = {}
          BY <1>0, <4>1, <5>1 DEF Recorded
        <5>4. outcome[f] \notin Complaints
          BY <5>1, <5>3, DiagFacts
        <5> QED
          BY <5>1, <5>2, <5>4 DEF Outcomes, Complaints
      <4>4. SpecNoAbortFiles' = SpecNoAbortFiles /\ MainFiles' = MainFiles
        BY <1>10, SameFiles DEF Finish
      <4> QED
        BY <1>10, <3>2, <4>1, <4>3, <4>4 DEF Finish, files, report, Verdicts, VerdictSound,
           AllDiagsWritten, Ended, SpecPhase
    <3> QED
      BY <3>1, <3>2
  <2> QED
    BY <2>1, <2>2, <2>3, <2>4, <2>5, <2>6, <2>7, <2>8, <2>9 DEF Inv
<1>11. CASE Exit
  <2>1. TypeOK'
    BY <1>0, <1>a, <1>11, SameFiles DEF Exit, files, report, TypeOK, Locations
  <2>2. Clean'
    BY <1>0, <1>a, <1>11, SameFiles DEF Exit, files, report, Clean, Counted, Staged, Verdicts, Idle, Batches, Ended
  <2>3. Pending'
    BY <1>0, <1>a, <1>11, SameFiles DEF Exit, files, report, Pending, Clean, Staged, Verdicts, Idle, Batches, Ended, TypeOK
  <2>4. Counted'
    BY <1>0, <1>a, <1>11, SameFiles DEF Exit, files, report, Counted, Clean, Staged, Pending, Verdicts, Idle, Batches, Ended
  <2>5. Recorded'
    BY <1>0, <1>a, <1>11, SameFiles DEF Exit, files, report, Recorded, Staged, Verdicts, Idle, Batches, Ended, TypeOK
  <2>6. Owned'
    BY <1>0, <1>a, <1>11, SameFiles DEF Exit, files, report, Owned
  <2>7. Staged'
    BY <1>0, <1>a, <1>11, SameFiles DEF Exit, files, report, Staged, SpecStages, MainStages, AbortStages, Idle, Ended, TypeOK
  <2>8. Written'
    BY <1>0, <1>a, <1>11, SameFiles DEF Exit, files, report, Written, Clean, Pending, Staged, Verdicts, Idle, Batches, Ended
  <2>9. Verdicts'
    BY <1>0, <1>a, <1>11, SameFiles DEF Exit, files, report, Verdicts, VerdictSound, AllDiagsWritten, Ended
  <2> QED
    BY <2>1, <2>2, <2>3, <2>4, <2>5, <2>6, <2>7, <2>8, <2>9 DEF Inv
<1>12. CASE UNCHANGED vars
  <2>1. TypeOK'
    BY <1>0, <1>a, <1>12, SameFiles DEF vars, TypeOK, Locations
  <2>2. Clean'
    BY <1>0, <1>a, <1>12, SameFiles DEF vars, Clean, Counted, Staged, Verdicts, Idle, Batches, Ended
  <2>3. Pending'
    BY <1>0, <1>a, <1>12, SameFiles DEF vars, Pending, Clean, Staged, Verdicts, Idle, Batches, Ended, TypeOK
  <2>4. Counted'
    BY <1>0, <1>a, <1>12, SameFiles DEF vars, Counted, Clean, Staged, Pending, Verdicts, Idle, Batches, Ended
  <2>5. Recorded'
    BY <1>0, <1>a, <1>12, SameFiles DEF vars, Recorded, Staged, Verdicts, Idle, Batches, Ended, TypeOK
  <2>6. Owned'
    BY <1>0, <1>a, <1>12, SameFiles DEF vars, Owned
  <2>7. Staged'
    BY <1>0, <1>a, <1>12, SameFiles DEF vars, Staged, SpecStages, MainStages, AbortStages, Idle, Ended, TypeOK
  <2>8. Written'
    BY <1>0, <1>a, <1>12, SameFiles DEF vars, Written, Clean, Pending, Staged, Verdicts, Idle, Batches, Ended
  <2>9. Verdicts'
    BY <1>0, <1>a, <1>12, SameFiles DEF vars, Verdicts, VerdictSound, AllDiagsWritten, Ended
  <2> QED
    BY <2>1, <2>2, <2>3, <2>4, <2>5, <2>6, <2>7, <2>8, <2>9 DEF Inv
<1> QED
  BY <1>1, <1>2, <1>3, <1>4, <1>5, <1>6, <1>7, <1>8, <1>9, <1>10, <1>11, <1>12

\* In a batch everything diagnosed is reported.
LEMMA BatchFacts ==
    ASSUME Inv, pc \in Batches \cup {"abort_verify"}
    PROVE  diags = reported /\ verdict = "none"
BY DEF Inv, Pending, Verdicts, Batches, Ended

\* An answer is never "none".
LEMMA AnswersFacts == ASSUME NEW f, NEW o \in Answers(f) PROVE o \in Outcomes \ {"none"}
BY DEF Answers, Outcomes

\* generate_function_bpl and generate_module_bpl: a new diagnostic ends the run.
LEMMA GenerateInv == ASSUME Inv, NEW f \in Files, Generate(f) PROVE Inv'
<1>0. /\ TypeOK /\ Clean /\ Pending /\ Counted /\ Recorded /\ Owned /\ Staged
      /\ Written /\ Verdicts
  BY DEF Inv
<1>a. /\ AbortFile \in Files /\ SpecPhase \subseteq Files /\ MainFiles \subseteq Files
      /\ AbortFile \notin SpecPhase /\ AbortFile \notin MainFiles
      /\ SpecPhase \cap MainFiles = {}
      /\ SpecPhase' = SpecPhase /\ MainFiles' = MainFiles
      /\ SpecNoAbortFiles' = SpecNoAbortFiles
  BY <1>0, FileFacts, SameFiles DEF Generate
<1>b. /\ pc \in {"generate_1", "generate_2"} /\ stage[f] = "queued"
      /\ stage' = [stage EXCEPT ![f] = "generated"]
      /\ UNCHANGED <<opt, proj, outcome, mark, buffer, has_errors, out_dir, exit>>
  BY DEF Generate
<1>c. reported = {} /\ ~has_errors /\ verdict = "none"
  BY <1>0, <1>b DEF Clean, Verdicts, Batches, Ended
<1>d. \/ /\ pc' = pc /\ verdict' = verdict
         /\ diags = {} /\ diags' = {} /\ reported' = {} /\ written' = written
      \/ /\ pc' = "exit" /\ verdict' = "error"
         /\ diags' = reported' /\ written' = written \cup diags'
         /\ diags \subseteq diags' /\ diags' \subseteq Diags
         /\ diags' \subseteq {D("mixing", None), D("transform", f)}
  <2>1. PICK new \in {{}, {D("transform", f)}} :
           CheckErrors(diags \cup new, UNCHANGED <<pc, verdict>>)
    BY DEF Generate
  <2>2. D("transform", f) \in Diags
    BY DEF D, Diags
  <2>3. /\ diags \cup new \subseteq {D("mixing", None), D("transform", f)}
        /\ diags \cup new \subseteq Diags
    BY <1>0, <1>c, <2>1, <2>2 DEF Pending, TypeOK
  <2>4. /\ diags' = diags \cup new /\ reported' = diags \cup new
        /\ written' = written \cup diags'
    BY <1>c, <2>1 DEF CheckErrors, ReportAndWrite, ReportTo, New
  <2>5. CASE diags \cup new = {}
    BY <1>0, <1>c, <2>1, <2>4, <2>5 DEF CheckErrors, HasErrors, TypeOK
  <2>6. CASE diags \cup new # {}
    BY <1>c, <2>1, <2>3, <2>4, <2>6 DEF CheckErrors, HasErrors, Fail
  <2> QED
    BY <2>5, <2>6
<1>1. TypeOK'
  <2>1. stage' \in [Files -> Stages]
    BY <1>0, <1>b DEF TypeOK, Stages
  <2>2. diags' \in SUBSET Diags /\ reported' \in SUBSET diags' /\ written' \in SUBSET diags'
    BY <1>0, <1>d DEF TypeOK
  <2>3. pc' \in Locations /\ verdict' \in {"none", "success", "nothing", "errors", "error"}
    BY <1>0, <1>d DEF TypeOK, Locations
  <2> QED
    BY <1>0, <1>b, <2>1, <2>2, <2>3 DEF TypeOK
<1>2. Clean'
  BY <1>b, <1>c, <1>d DEF Clean, Ended
<1>3. Pending'
  BY <1>0, <1>b, <1>d DEF Pending, Ended
<1>4. Counted'
  BY <1>b, <1>d DEF Counted, Batches
<1>5. Recorded'
  <2> SUFFICES ASSUME NEW g \in Files
               PROVE  stage'[g] = stage[g] \/ (stage[g] = "queued" /\ stage'[g] = "generated")
    BY <1>0, <1>b, <1>c DEF Recorded, DiagsOf, Ended
  <2> QED
    BY <1>0, <1>b DEF TypeOK
<1>6. Owned'
  <2> SUFFICES ASSUME NEW d \in reported', d.kind \in {"failed", "timeout", "no_cloud"}
               PROVE  FALSE
    BY DEF Owned, DiagsOf
  <2>1. d = D("mixing", None) \/ d = D("transform", f)
    BY <1>d
  <2> QED
    BY <2>1 DEF D
<1>7. Staged'
  <2>1. \A g \in Files : stage'[g] = IF g = f THEN "generated" ELSE stage[g]
    BY <1>0, <1>b DEF TypeOK
  <2>2. stage[AbortFile] # "queued"
    BY <1>0, <1>b DEF Staged, AbortStages
  <2> QED
    BY <1>0, <1>a, <1>b, <1>d, <2>1, <2>2 DEF Staged, SpecStages, MainStages, AbortStages, Idle,
       Ended, Stages, TypeOK
<1>8. Written'
  <2>1. \A g \in Files : buffer'[g] \subseteq diags'
    BY <1>0, <1>b, <1>d DEF Written
  <2> QED
    BY <1>b, <1>d, <2>1 DEF Written, Ended
<1>9. Verdicts'
  BY <1>0, <1>b, <1>c, <1>d DEF Verdicts, VerdictSound, AllDiagsWritten, Ended
<1> QED
  BY <1>1, <1>2, <1>3, <1>4, <1>5, <1>6, <1>7, <1>8, <1>9 DEF Inv

\* A request leaves; nothing else happens.
LEMMA SendRemoteInv == ASSUME Inv, NEW f \in Files, SendRemote(f) PROVE Inv'
<1>0. /\ TypeOK /\ Clean /\ Pending /\ Counted /\ Recorded /\ Owned /\ Staged
      /\ Written /\ Verdicts
  BY DEF Inv
<1>a. /\ AbortFile \in Files /\ SpecPhase \subseteq Files /\ MainFiles \subseteq Files
      /\ AbortFile \notin SpecPhase /\ AbortFile \notin MainFiles
      /\ SpecPhase \cap MainFiles = {}
      /\ SpecPhase' = SpecPhase /\ MainFiles' = MainFiles
      /\ SpecNoAbortFiles' = SpecNoAbortFiles
  BY <1>0, FileFacts, SameFiles DEF SendRemote
<1>b. /\ pc \in {"batch_1", "batch_2"} /\ stage[f] = "remote"
      /\ stage' = [stage EXCEPT ![f] = "in_flight"]
      /\ UNCHANGED <<opt, proj, pc, outcome, mark, buffer, diags, reported, written,
                     has_errors, verdict, out_dir, exit>>
  BY DEF SendRemote, report
<1>c. \A g \in Files : stage'[g] = IF g = f THEN "in_flight" ELSE stage[g]
  BY <1>0, <1>b DEF TypeOK
<1>1. TypeOK'
  <2>1. stage' \in [Files -> Stages]
    BY <1>0, <1>b DEF TypeOK, Stages
  <2> QED
    BY <1>0, <1>b, <2>1 DEF TypeOK
<1>2. Clean'
  BY <1>0, <1>b DEF Clean
<1>3. Pending'
  BY <1>0, <1>b, <1>c DEF Pending, Ended
<1>4. Counted'
  BY <1>0, <1>b, <1>c DEF Counted
<1>5. Recorded'
  BY <1>0, <1>b, <1>c DEF Recorded, DiagsOf
<1>6. Owned'
  BY <1>0, <1>b DEF Owned, DiagsOf
<1>7. Staged'
  BY <1>0, <1>a, <1>b, <1>c DEF Staged, SpecStages, MainStages, AbortStages, Idle, Ended
<1>8. Written'
  BY <1>0, <1>b, <1>c DEF Written
<1>9. Verdicts'
  BY <1>0, <1>a, <1>b DEF Verdicts, VerdictSound, AllDiagsWritten, Ended
<1> QED
  BY <1>1, <1>2, <1>3, <1>4, <1>5, <1>6, <1>7, <1>8, <1>9 DEF Inv

\* A cross of the stream is counted and its diagnostics are written together.
LEMMA FoldResultInv == ASSUME Inv, NEW f \in Files, FoldResult(f) PROVE Inv'
<1>0. /\ TypeOK /\ Clean /\ Pending /\ Counted /\ Recorded /\ Owned /\ Staged
      /\ Written /\ Verdicts
  BY DEF Inv
<1>a. /\ AbortFile \in Files /\ SpecPhase \subseteq Files /\ MainFiles \subseteq Files
      /\ AbortFile \notin SpecPhase /\ AbortFile \notin MainFiles
      /\ SpecPhase \cap MainFiles = {}
      /\ SpecPhase' = SpecPhase /\ MainFiles' = MainFiles
      /\ SpecNoAbortFiles' = SpecNoAbortFiles
  BY <1>0, FileFacts, SameFiles DEF FoldResult
<1>b. /\ pc \in {"fold_1", "fold_2"} /\ stage[f] = "collected"
      /\ stage' = [stage EXCEPT ![f] = "done"] /\ written' = written \cup buffer[f]
      /\ UNCHANGED <<opt, proj, outcome, mark, buffer, diags, reported, out_dir, exit>>
  BY DEF FoldResult
<1>c. \A g \in Files : stage'[g] = IF g = f THEN "done" ELSE stage[g]
  BY <1>0, <1>b DEF TypeOK
<1>d. \/ /\ mark[f] = "abort" /\ pc' = "exit" /\ verdict' = "error"
         /\ has_errors' = has_errors
      \/ /\ mark[f] # "abort" /\ pc' = pc /\ verdict' = verdict
         /\ has_errors' = (has_errors \/ mark[f] = "fail")
  BY DEF FoldResult, Fail, Count
<1>e. diags = reported /\ verdict = "none"
  BY <1>b, BatchFacts DEF Batches
<1>1. TypeOK'
  <2>1. stage' \in [Files -> Stages]
    BY <1>0, <1>b DEF TypeOK, Stages
  <2>2. diags' \in SUBSET Diags /\ reported' \in SUBSET diags' /\ written' \in SUBSET diags'
    BY <1>0, <1>b DEF TypeOK, Written
  <2>3. pc' \in Locations /\ verdict' \in {"none", "success", "nothing", "errors", "error"}
    BY <1>0, <1>d DEF TypeOK, Locations
  <2>4. has_errors' \in BOOLEAN
    BY <1>0, <1>d DEF TypeOK
  <2> QED
    BY <1>0, <1>b, <2>1, <2>2, <2>3, <2>4 DEF TypeOK
<1>2. Clean'
  BY <1>b, <1>d DEF Clean, Batches, Ended
<1>3. Pending'
  BY <1>0, <1>b, <1>d, <1>e DEF Pending
<1>4. Counted'
  BY <1>0, <1>b, <1>c, <1>d DEF Counted, Batches
<1>5. Recorded'
  BY <1>0, <1>b, <1>c, <1>d DEF Recorded, DiagsOf, Ended
<1>6. Owned'
  BY <1>0, <1>b DEF Owned, DiagsOf
<1>7. Staged'
  BY <1>0, <1>a, <1>b, <1>c, <1>d DEF Staged, SpecStages, MainStages, AbortStages, Idle, Ended,
     Stages, TypeOK
<1>8. Written'
  BY <1>0, <1>b, <1>c, <1>d DEF Written, Ended
<1>9. Verdicts'
  BY <1>a, <1>b, <1>d, <1>e DEF Verdicts, VerdictSound, AllDiagsWritten, Ended
<1> QED
  BY <1>1, <1>2, <1>3, <1>4, <1>5, <1>6, <1>7, <1>8, <1>9 DEF Inv

\* An answer of the stream: its diagnostics are reported to the file's own
\* writer, and its cross waits for the end of the stream.
LEMMA ReceiveAnswerInv ==
    ASSUME Inv, NEW f \in Files, NEW o, ReceiveAnswer(f, o) PROVE Inv'
<1>0. /\ TypeOK /\ Clean /\ Pending /\ Counted /\ Recorded /\ Owned /\ Staged
      /\ Written /\ Verdicts
  BY DEF Inv
<1>a. /\ AbortFile \in Files /\ SpecPhase \subseteq Files /\ MainFiles \subseteq Files
      /\ AbortFile \notin SpecPhase /\ AbortFile \notin MainFiles
      /\ SpecPhase \cap MainFiles = {}
      /\ SpecPhase' = SpecPhase /\ MainFiles' = MainFiles
      /\ SpecNoAbortFiles' = SpecNoAbortFiles
  BY <1>0, FileFacts, SameFiles DEF ReceiveAnswer
<1>b. /\ pc \in {"batch_1", "batch_2"} /\ stage[f] = "in_flight"
      /\ o \in Answers(f) /\ Answer(f, o)
      /\ buffer' = [buffer EXCEPT ![f] = diags' \ reported]
      /\ stage' = [stage EXCEPT ![f] = "collected"]
      /\ UNCHANGED <<opt, proj, pc, written, has_errors, verdict, out_dir, exit>>
  BY DEF ReceiveAnswer, New
<1>c. diags = reported /\ verdict = "none"
  BY <1>b, BatchFacts DEF Batches
<1>d. outcome[f] = "none"
  BY <1>0, <1>a, <1>b DEF Recorded
<1>e. /\ diags' = reported' /\ reported' = reported \cup DiagsOf(f, o)
      /\ diags' \in SUBSET Diags
      /\ outcome' \in [Files -> Outcomes] /\ mark' \in [Files -> Marks]
      /\ outcome' = [outcome EXCEPT ![f] = o]
      /\ mark' = [mark EXCEPT ![f] = MarkOf(f, o)]
      /\ MarkOf(f, o) = "abort" <=> o = "abort"
      /\ MarkOf(f, o) \in {"abort", "pass", "fail"}
      /\ reported' # reported => MarkOf(f, o) = "fail"
      /\ Owned'
  BY <1>0, <1>a, <1>b, <1>c, <1>d, AnswersFacts, AnswerFacts
<1>f. /\ \A g \in Files : stage'[g] = IF g = f THEN "collected" ELSE stage[g]
      /\ \A g \in Files : outcome'[g] = IF g = f THEN o ELSE outcome[g]
      /\ \A g \in Files : mark'[g] = IF g = f THEN MarkOf(f, o) ELSE mark[g]
  BY <1>0, <1>b, <1>e DEF TypeOK
<1>g. o # "none"
  BY <1>b, AnswersFacts
<1>h. \A g \in Files : buffer'[g] = IF g = f THEN diags' \ reported ELSE buffer[g]
  BY <1>0, <1>b DEF TypeOK
<1>1. TypeOK'
  <2>1. stage' \in [Files -> Stages]
    BY <1>0, <1>b DEF TypeOK, Stages
  <2>2. buffer' \in [Files -> SUBSET Diags]
    BY <1>0, <1>b, <1>e DEF TypeOK
  <2>3. reported' \in SUBSET diags' /\ written' \in SUBSET diags'
    BY <1>0, <1>b, <1>c, <1>e DEF TypeOK
  <2> QED
    BY <1>0, <1>b, <1>e, <2>1, <2>2, <2>3 DEF TypeOK
<1>2. Clean'
  BY <1>b DEF Clean, Batches
<1>3. Pending'
  BY <1>0, <1>b, <1>e DEF Pending
<1>4. Counted'
  BY <1>0, <1>b, <1>e, <1>f DEF Counted, Batches
<1>5. Recorded'
  <2> SUFFICES ASSUME NEW g \in Files
               PROVE  /\ DiagsOf(g, outcome'[g]) \subseteq reported'
                      /\ mark'[g] = "none" <=> outcome'[g] = "none"
                      /\ mark'[g] = "abort" <=> outcome'[g] = "abort"
                      /\ stage'[g] \in {"collected", "done"} <=> outcome'[g] # "none"
                      /\ pc' \notin Ended /\ stage'[g] = "done" => outcome'[g] # "abort"
    BY DEF Recorded, DiagsOf, Ended
  <2>1. CASE g = f
    BY <1>b, <1>e, <1>f, <1>g, <2>1 DEF Ended
  <2>2. CASE g # f
    BY <1>0, <1>b, <1>e, <1>f, <2>2 DEF Recorded, Ended
  <2> QED
    BY <2>1, <2>2
<1>6. Owned'
  BY <1>e
<1>7. Staged'
  BY <1>0, <1>a, <1>b, <1>f DEF Staged, SpecStages, MainStages, AbortStages, Idle, Ended
<1>8. Written'
  <2>1. \A g \in Files : buffer'[g] \subseteq diags'
    BY <1>0, <1>c, <1>e, <1>h DEF Written
  <2>2. \A d \in reported' :
           d \in written' \/ \E g \in Files : stage'[g] = "collected" /\ d \in buffer'[g]
    BY <1>0, <1>b, <1>c, <1>e, <1>f, <1>h DEF Written, Ended
  <2> QED
    BY <1>b, <2>1, <2>2 DEF Written
<1>9. Verdicts'
  BY <1>b, <1>c DEF Verdicts, VerdictSound, AllDiagsWritten
<1> QED
  BY <1>1, <1>2, <1>3, <1>4, <1>5, <1>6, <1>7, <1>8, <1>9 DEF Inv

\* A file verified in turn: reported, written and counted at once.
LEMMA VerifySequentialInv ==
    ASSUME Inv, NEW f \in Files, NEW o, VerifySequential(f, o) PROVE Inv'
<1>0. /\ TypeOK /\ Clean /\ Pending /\ Counted /\ Recorded /\ Owned /\ Staged
      /\ Written /\ Verdicts
  BY DEF Inv
<1>a. /\ AbortFile \in Files /\ SpecPhase \subseteq Files /\ MainFiles \subseteq Files
      /\ AbortFile \notin SpecPhase /\ AbortFile \notin MainFiles
      /\ SpecPhase \cap MainFiles = {}
      /\ SpecPhase' = SpecPhase /\ MainFiles' = MainFiles
      /\ SpecNoAbortFiles' = SpecNoAbortFiles
  BY <1>0, FileFacts, SameFiles DEF VerifySequential
<1>b. /\ pc \in {"fold_1", "fold_2"} /\ stage[f] = "local"
      /\ \A g \in Files : stage[g] # "collected"
      /\ o \in Answers(f) /\ Answer(f, o)
      /\ written' = written \cup (diags' \ reported)
      /\ stage' = [stage EXCEPT ![f] = "done"]
      /\ UNCHANGED <<opt, proj, buffer, out_dir, exit>>
  BY DEF VerifySequential, New
<1>c. diags = reported /\ verdict = "none"
  BY <1>b, BatchFacts DEF Batches
<1>d. outcome[f] = "none"
  BY <1>0, <1>a, <1>b DEF Recorded
<1>e. /\ diags' = reported' /\ reported' = reported \cup DiagsOf(f, o)
      /\ diags' \in SUBSET Diags
      /\ outcome' \in [Files -> Outcomes] /\ mark' \in [Files -> Marks]
      /\ outcome' = [outcome EXCEPT ![f] = o]
      /\ mark' = [mark EXCEPT ![f] = MarkOf(f, o)]
      /\ MarkOf(f, o) = "abort" <=> o = "abort"
      /\ MarkOf(f, o) \in {"abort", "pass", "fail"}
      /\ reported' # reported => MarkOf(f, o) = "fail"
      /\ Owned'
  BY <1>0, <1>a, <1>b, <1>c, <1>d, AnswersFacts, AnswerFacts
<1>f. /\ \A g \in Files : stage'[g] = IF g = f THEN "done" ELSE stage[g]
      /\ \A g \in Files : outcome'[g] = IF g = f THEN o ELSE outcome[g]
      /\ \A g \in Files : mark'[g] = IF g = f THEN MarkOf(f, o) ELSE mark[g]
  BY <1>0, <1>b, <1>e DEF TypeOK
<1>g. o # "none"
  BY <1>b, AnswersFacts
<1>h. \/ /\ o = "abort" /\ pc' = "exit" /\ verdict' = "error" /\ has_errors' = has_errors
      \/ /\ o # "abort" /\ pc' = pc /\ verdict' = verdict
         /\ has_errors' = (has_errors \/ MarkOf(f, o) = "fail")
  BY DEF VerifySequential, Fail, Count
<1>1. TypeOK'
  <2>1. stage' \in [Files -> Stages]
    BY <1>0, <1>b DEF TypeOK, Stages
  <2>2. reported' \in SUBSET diags' /\ written' \in SUBSET diags'
    BY <1>0, <1>b, <1>c, <1>e DEF TypeOK
  <2>3. pc' \in Locations /\ verdict' \in {"none", "success", "nothing", "errors", "error"}
    BY <1>0, <1>h DEF TypeOK, Locations
  <2>4. has_errors' \in BOOLEAN
    BY <1>0, <1>h DEF TypeOK
  <2> QED
    BY <1>0, <1>b, <1>e, <2>1, <2>2, <2>3, <2>4 DEF TypeOK
<1>2. Clean'
  BY <1>b, <1>h DEF Clean, Batches, Ended
<1>3. Pending'
  BY <1>0, <1>b, <1>e, <1>h DEF Pending
<1>4. Counted'
  BY <1>0, <1>b, <1>e, <1>h DEF Counted, Batches
<1>5. Recorded'
  <2> SUFFICES ASSUME NEW g \in Files
               PROVE  /\ DiagsOf(g, outcome'[g]) \subseteq reported'
                      /\ mark'[g] = "none" <=> outcome'[g] = "none"
                      /\ mark'[g] = "abort" <=> outcome'[g] = "abort"
                      /\ stage'[g] \in {"collected", "done"} <=> outcome'[g] # "none"
                      /\ pc' \notin Ended /\ stage'[g] = "done" => outcome'[g] # "abort"
    BY DEF Recorded, DiagsOf, Ended
  <2>1. CASE g = f
    BY <1>b, <1>e, <1>f, <1>g, <2>1, <1>h DEF Ended
  <2>2. CASE g # f
    BY <1>0, <1>b, <1>e, <1>f, <2>2, <1>h DEF Recorded, Ended
  <2> QED
    BY <2>1, <2>2
<1>6. Owned'
  BY <1>e
<1>7. Staged'
  BY <1>0, <1>a, <1>b, <1>f, <1>h DEF Staged, SpecStages, MainStages, AbortStages, Idle, Ended,
     Stages, TypeOK
<1>8. Written'
  <2>1. \A g \in Files : buffer'[g] \subseteq diags'
    BY <1>0, <1>b, <1>c, <1>e DEF Written
  <2>2. pc' \notin Ended => reported' \subseteq written'
    BY <1>0, <1>b, <1>c, <1>e, <1>h DEF Written, Ended
  <2> QED
    BY <1>b, <1>h, <2>1, <2>2 DEF Written, Ended
<1>9. Verdicts'
  BY <1>b, <1>c, <1>h DEF Verdicts, VerdictSound, AllDiagsWritten, Ended
<1> QED
  BY <1>1, <1>2, <1>3, <1>4, <1>5, <1>6, <1>7, <1>8, <1>9 DEF Inv

\* funs_abort_check: a diagnostic sends the run to its end.
LEMMA AbortVerifyInv == ASSUME Inv, NEW o, AbortVerify(o) PROVE Inv'
<1>0. /\ TypeOK /\ Clean /\ Pending /\ Counted /\ Recorded /\ Owned /\ Staged
      /\ Written /\ Verdicts
  BY DEF Inv
<1>a. /\ AbortFile \in Files /\ SpecPhase \subseteq Files /\ MainFiles \subseteq Files
      /\ AbortFile \notin SpecPhase /\ AbortFile \notin MainFiles
      /\ SpecPhase \cap MainFiles = {}
      /\ SpecPhase' = SpecPhase /\ MainFiles' = MainFiles
      /\ SpecNoAbortFiles' = SpecNoAbortFiles
  BY <1>0, FileFacts, SameFiles DEF AbortVerify
<1>b. /\ pc = "abort_verify" /\ o \in Answers(AbortFile) /\ Answer(AbortFile, o)
      /\ stage[AbortFile] = "none"
      /\ written' = written \cup (diags' \ reported)
      /\ stage' = [stage EXCEPT ![AbortFile] = "done"]
      /\ UNCHANGED <<opt, proj, buffer, out_dir, exit>>
  BY <1>0 DEF AbortVerify, New, Staged, AbortStages
<1>c. diags = reported /\ verdict = "none"
  BY <1>b, BatchFacts DEF Batches
<1>d. outcome[AbortFile] = "none"
  BY <1>0, <1>a, <1>b DEF Recorded
<1>e. /\ diags' = reported' /\ reported' = reported \cup DiagsOf(AbortFile, o)
      /\ diags' \in SUBSET Diags
      /\ outcome' \in [Files -> Outcomes] /\ mark' \in [Files -> Marks]
      /\ outcome' = [outcome EXCEPT ![AbortFile] = o]
      /\ mark' = [mark EXCEPT ![AbortFile] = MarkOf(AbortFile, o)]
      /\ MarkOf(AbortFile, o) = "abort" <=> o = "abort"
      /\ MarkOf(AbortFile, o) \in {"abort", "pass", "fail"}
      /\ reported' # reported => MarkOf(AbortFile, o) = "fail"
      /\ Owned'
  BY <1>0, <1>a, <1>b, <1>c, <1>d, AnswersFacts, AnswerFacts
<1>f. /\ \A g \in Files : stage'[g] = IF g = AbortFile THEN "done" ELSE stage[g]
      /\ \A g \in Files : outcome'[g] = IF g = AbortFile THEN o ELSE outcome[g]
      /\ \A g \in Files : mark'[g] = IF g = AbortFile THEN MarkOf(AbortFile, o) ELSE mark[g]
  BY <1>0, <1>b, <1>e DEF TypeOK
<1>g. o # "none"
  BY <1>b, AnswersFacts
<1>h. \/ /\ o = "abort" /\ pc' = "exit" /\ verdict' = "error" /\ has_errors' = has_errors
      \/ /\ o # "abort" /\ verdict' = verdict
         /\ has_errors' = (has_errors \/ MarkOf(AbortFile, o) = "fail")
         /\ pc' = IF MarkOf(AbortFile, o) = "fail" THEN "finish" ELSE "run_main"
  BY DEF AbortVerify, Fail, Count
<1>i. reported = {} /\ ~has_errors
  BY <1>0, <1>b DEF Clean, Batches, Ended
<1>1. TypeOK'
  <2>1. stage' \in [Files -> Stages]
    BY <1>0, <1>b DEF TypeOK, Stages
  <2>2. reported' \in SUBSET diags' /\ written' \in SUBSET diags'
    BY <1>0, <1>b, <1>c, <1>e DEF TypeOK
  <2>3. pc' \in Locations /\ verdict' \in {"none", "success", "nothing", "errors", "error"}
    BY <1>0, <1>h DEF TypeOK, Locations
  <2>4. has_errors' \in BOOLEAN
    BY <1>0, <1>h DEF TypeOK
  <2> QED
    BY <1>0, <1>b, <1>e, <2>1, <2>2, <2>3, <2>4 DEF TypeOK
<1>2. Clean'
  BY <1>e, <1>h, <1>i DEF Clean, Ended
<1>3. Pending'
  BY <1>0, <1>b, <1>e, <1>h DEF Pending
<1>4. Counted'
  BY <1>h DEF Counted, Batches
<1>5. Recorded'
  <2> SUFFICES ASSUME NEW g \in Files
               PROVE  /\ DiagsOf(g, outcome'[g]) \subseteq reported'
                      /\ mark'[g] = "none" <=> outcome'[g] = "none"
                      /\ mark'[g] = "abort" <=> outcome'[g] = "abort"
                      /\ stage'[g] \in {"collected", "done"} <=> outcome'[g] # "none"
                      /\ pc' \notin Ended /\ stage'[g] = "done" => outcome'[g] # "abort"
    BY DEF Recorded, DiagsOf, Ended
  <2>1. CASE g = AbortFile
    BY <1>b, <1>e, <1>f, <1>g, <2>1, <1>h DEF Ended
  <2>2. CASE g # AbortFile
    BY <1>0, <1>b, <1>e, <1>f, <2>2, <1>h DEF Recorded, Ended
  <2> QED
    BY <2>1, <2>2
<1>6. Owned'
  BY <1>e
<1>7. Staged'
  <2>1. pc = "abort_verify" /\ pc' \in {"exit", "finish", "run_main"}
        /\ (pc' = "finish" => has_errors')
    BY <1>b, <1>h
  <2>2. SpecStages \subseteq SpecStages' /\ MainStages \subseteq MainStages'
        /\ "done" \in AbortStages'
    BY <2>1 DEF SpecStages, MainStages, AbortStages, Idle, Ended, Stages
  <2> QED
    BY <1>0, <1>a, <1>f, <2>1, <2>2 DEF Staged
<1>8. Written'
  <2>1. \A g \in Files : buffer'[g] \subseteq diags'
    BY <1>0, <1>b, <1>c, <1>e DEF Written
  <2>2. reported' \subseteq written'
    BY <1>b, <1>c, <1>e, <1>i
  <2> QED
    BY <2>1, <2>2 DEF Written
<1>9. Verdicts'
  BY <1>b, <1>c, <1>h DEF Verdicts, VerdictSound, AllDiagsWritten, Ended
<1> QED
  BY <1>1, <1>2, <1>3, <1>4, <1>5, <1>6, <1>7, <1>8, <1>9 DEF Inv

\* Before the run starts.
LEMMA InitInv == Init => Inv
<1> SUFFICES ASSUME Init PROVE Inv
  OBVIOUS
<1>1. opt \in Options /\ proj \in Projects /\ (proj.mixing => proj.targets # {})
  BY DriverAssumption DEF Init
<1>2. TypeOK
  <2>1. stage \in [Files -> Stages] /\ outcome \in [Files -> Outcomes]
        /\ mark \in [Files -> Marks] /\ buffer \in [Files -> SUBSET Diags]
    BY DEF Init, Stages, Outcomes, Marks
  <2>2. out_dir \in [existed : BOOLEAN, exists : BOOLEAN]
    BY DEF Init
  <2> QED
    BY <1>1, <2>1, <2>2 DEF Init, TypeOK, Locations
<1>3. /\ AbortFile \in Files /\ SpecPhase \subseteq Files /\ MainFiles \subseteq Files
  BY <1>2, FileFacts
<1>4. Clean /\ Pending /\ Counted /\ Owned
  BY <1>1 DEF Init, Clean, Pending, Counted, Owned, Batches, Ended
<1>5. Recorded
  <2>1. \A f \in Files : DiagsOf(f, "none") = {}
    BY DiagFacts DEF Outcomes, Complaints
  <2> QED
    BY <2>1 DEF Init, Recorded
<1>6. Staged
  BY <1>3 DEF Init, Staged, SpecStages, MainStages, AbortStages, Idle, Ended
<1>7. Written /\ Verdicts
  BY DEF Init, Written, Verdicts, VerdictSound, AllDiagsWritten
<1> QED
  BY <1>2, <1>4, <1>5, <1>6, <1>7 DEF Inv

\* Every step of the driver preserves the invariant.
LEMMA NextInv == Inv /\ [Next]_vars => Inv'
<1> SUFFICES ASSUME Inv, [Next]_vars PROVE Inv'
  OBVIOUS
<1>1. CASE FileStep
  <2>1. PICK f \in Files :
           \/ Generate(f) \/ SendRemote(f) \/ FoldResult(f)
           \/ \E o \in Outcomes : ReceiveAnswer(f, o) \/ VerifySequential(f, o)
    BY <1>1 DEF FileStep
  <2> QED
    BY <2>1, GenerateInv, SendRemoteInv, FoldResultInv, ReceiveAnswerInv, VerifySequentialInv
<1>2. CASE \E o \in Outcomes : AbortVerify(o)
  BY <1>2, AbortVerifyInv
<1>3. CASE \/ Start \/ SelectTargets \/ Guard \/ StartSpecNoAbort \/ StartBatch
           \/ EndStream \/ EndBatch \/ AbortCheck \/ RunMain \/ Finish \/ Exit
           \/ UNCHANGED vars
  BY <1>3, PlainSteps
<1> QED
  BY <1>1, <1>2, <1>3 DEF Next, Step, Done

\* The invariant holds of every run of the driver.
THEOREM Invariance == Spec => []Inv
BY InitInv, NextInv, PTL DEF Spec

\* Type correctness of the driver's state.
THEOREM TypeCorrect == Spec => []TypeOK
<1>1. Inv => TypeOK
  BY DEF Inv
<1> QED
  BY <1>1, Invariance, PTL

\* run_move_prover_with_model returns Ok only when every file the options ask
\* for was verified clean and no error was diagnosed.
THEOREM Soundness == Spec => []VerdictSound
<1>1. Inv => VerdictSound
  BY DEF Inv, Verdicts
<1> QED
  BY <1>1, Invariance, PTL

\* A run that was not cut short by an Err has shown the user every diagnostic,
\* those that were buffered per file in the cloud stream included.
THEOREM DiagsReachTheUser == Spec => []AllDiagsWritten
<1>1. Inv => AllDiagsWritten
  BY DEF Inv, Verdicts
<1> QED
  BY <1>1, Invariance, PTL

\* The check mark verify_bpl prints for a file that is not clean is covered by
\* the cross of another file with the same diagnostic.
THEOREM MarksCovered == Spec => []PassMarkCovered
<1>1. Inv => PassMarkCovered
  <2> SUFFICES ASSUME Inv, NEW f \in Files, mark[f] = "pass", outcome[f] # "clean"
               PROVE  \E g \in Files : /\ mark[g] = "fail"
                                       /\ DiagsOf(f, outcome[f]) = DiagsOf(g, outcome[g])
    BY DEF PassMarkCovered
  <2>1. outcome[f] \in Complaints
    BY DEF Inv, Recorded, TypeOK, Outcomes, Complaints
  <2>2. PICK d \in Diags : DiagsOf(f, outcome[f]) = {d} /\ d.kind \in Complaints
    BY <2>1, DiagFacts DEF Inv, TypeOK
  <2>3. d \in reported
    BY <2>2 DEF Inv, Recorded
  <2>4. PICK g \in Files : mark[g] = "fail" /\ DiagsOf(g, outcome[g]) = {d}
    BY <2>2, <2>3 DEF Inv, Owned, Complaints
  <2> QED
    BY <2>2, <2>4
<1> QED
  BY <1>1, Invariance, PTL

=============================================================================
