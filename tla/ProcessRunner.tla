--------------------------- MODULE ProcessRunner ---------------------------
(***************************************************************************)
(* How the Boogie backend runs its solver process: the four functions of   *)
(* boogie_backend/runner.rs, of which BoogieWrapper::call_boogie picks one. *)
(*                                                                         *)
(*   "run"           run: Command::output                                  *)
(*   "line"          run_with_line_callback                                *)
(*   "timeout"       run_with_timeout                                      *)
(*   "timeout_line"  run_with_timeout_and_line_callback                    *)
(*                                                                         *)
(* The supervisor (the calling thread), up to two reader threads, the      *)
(* child process, a solver process the child started in its process group  *)
(* (sharing the child's pipes, or "quiet": with pipes of its own), and the *)
(* clock run concurrently.  A pipe holds at most Cap lines: a writer       *)
(* blocks on a full pipe.  A stream is abstracted to the number of lines   *)
(* written to it and taken out of it.                                      *)
(***************************************************************************)
EXTENDS Naturals

CONSTANTS MaxOut,   \* most lines the child writes to stdout
          MaxErr,   \* most lines the child writes to stderr
          Cap       \* lines a pipe holds

ASSUME BoundsAssumption == MaxOut \in Nat /\ MaxErr \in Nat /\ Cap \in Nat \ {0}

VARIABLES
    call,    \* the call: mode, lines the child will write, first non-UTF-8 line
    pc,      \* where the supervisor stands in the function
    child,   \* the Boogie process
    solver,  \* the solver process the child started
    outW, errW,         \* lines written to stdout and stderr
    outR, errR,         \* lines collected from stdout and stderr
    outEnd, errEnd,     \* the stream's reader has finished (EOF or error)
    sent,    \* lines sent over the mpsc channel
    seen,    \* lines handed to on_line
    late,    \* elapsed >= timeout
    result   \* what the function returned

pipes == <<outW, errW, outR, errR, outEnd, errEnd>>
lines == <<sent, seen>>
vars  == <<call, pc, child, solver, outW, errW, outR, errR, outEnd, errEnd,
           sent, seen, late, result>>

\* Mutant: run_with_timeout has no thread for stderr.
NoErrThread == {"run"}

Modes      == {"run", "line", "timeout", "timeout_line"}
HasErrReader == {"run", "timeout"}
Timed      == {"timeout", "timeout_line"}
Processes  == {"none", "running", "quiet", "exited", "killed"}
Alive      == {"running", "quiet"}
Locations  == {"spawn", "read", "drain", "check", "poll", "drain_last",
               "join_out", "join_err", "wait", "read_err", "kill_join", "done"}
Results    == {"none", "ok", "timed_out", "io_error"}

Calls == [mode : Modes, out : 0..MaxOut, err : 0..MaxErr, bad : 0..MaxOut]

TypeOK ==
    /\ call \in Calls
    /\ pc \in Locations
    /\ child \in Processes
    /\ solver \in Processes
    /\ outW \in 0..MaxOut /\ outR \in 0..MaxOut
    /\ errW \in 0..MaxErr /\ errR \in 0..MaxErr
    /\ outEnd \in BOOLEAN /\ errEnd \in BOOLEAN
    /\ sent \in 0..MaxOut /\ seen \in 0..MaxOut
    /\ late \in BOOLEAN
    /\ result \in Results

Init ==
    /\ call \in Calls
    /\ call.bad <= call.out
    /\ pc = "spawn"
    /\ child = "none" /\ solver = "none"
    /\ outW = 0 /\ errW = 0 /\ outR = 0 /\ errR = 0
    /\ outEnd = FALSE /\ errEnd = FALSE
    /\ sent = 0 /\ seen = 0
    /\ late = FALSE
    /\ result = "none"

----------------------------------------------------------------------------
(* The processes and the clock. *)

\* Some process still holds the write ends of the pipes.
Writers == child = "running" \/ solver = "running"

OutEOF == ~Writers /\ outR = outW
ErrEOF == ~Writers /\ errR = errW

MoreLines(taken, written) == taken < written

\* A line goes into the stdout pipe, or is dropped once its read end is closed.
ChildWritesOut ==
    /\ child = "running" /\ outW < call.out
    /\ outEnd \/ outW - outR < Cap
    /\ outW' = outW + 1
    /\ UNCHANGED <<call, pc, child, solver, errW, outR, errR, outEnd, errEnd,
                   lines, late, result>>

ChildWritesErr ==
    /\ child = "running" /\ errW < call.err
    /\ errW - errR < Cap
    /\ errW' = errW + 1
    /\ UNCHANGED <<call, pc, child, solver, outW, outR, errR, outEnd, errEnd,
                   lines, late, result>>

ChildStartsSolver ==
    /\ child = "running" /\ solver = "none"
    /\ solver' \in Alive
    /\ UNCHANGED <<call, pc, child, pipes, lines, late, result>>

\* The child ends when it has written everything, or on a closed pipe.
ChildExits ==
    /\ child = "running"
    /\ (outW = call.out /\ errW = call.err) \/ outEnd
    /\ child' = "exited"
    /\ UNCHANGED <<call, pc, solver, pipes, lines, late, result>>

SolverExits ==
    /\ solver \in Alive
    /\ solver' = "exited"
    /\ UNCHANGED <<call, pc, child, pipes, lines, late, result>>

Expire ==
    /\ child # "none" /\ ~late
    /\ late' = TRUE
    /\ UNCHANGED <<call, pc, child, solver, pipes, lines, result>>

----------------------------------------------------------------------------
(* The supervisor. *)

Return(r) == pc' = "done" /\ result' = r

FirstStep ==
    [run |-> "join_out", line |-> "read", timeout |-> "check",
     timeout_line |-> "drain"]

Spawn ==
    /\ pc = "spawn"
    /\ \/ child' = "running" /\ pc' = FirstStep[call.mode] /\ UNCHANGED result
       \/ Return("io_error") /\ UNCHANGED child
    /\ UNCHANGED <<call, solver, pipes, lines, late>>

\* run_with_line_callback reads stdout itself; a line that is not UTF-8 leaves
\* the function through `line?`.
ReadLine ==
    /\ pc = "read" /\ MoreLines(outR, outW)
    /\ \/ /\ outR + 1 = call.bad
          /\ Return("io_error")
          /\ outEnd' = TRUE
          /\ UNCHANGED <<outR, seen>>
       \/ /\ outR + 1 # call.bad
          /\ outR' = outR + 1 /\ seen' = seen + 1
          /\ UNCHANGED <<pc, result, outEnd>>
    /\ UNCHANGED <<call, child, solver, outW, errW, errR, errEnd, sent, late>>

ReadEOF ==
    /\ pc = "read" /\ OutEOF
    /\ outEnd' = TRUE
    /\ pc' = "wait"
    /\ UNCHANGED <<call, child, solver, outW, errW, outR, errR, errEnd,
                   lines, late, result>>

\* run's Command::output has drained both pipes when it waits for the child.
WaitChild ==
    /\ pc = "wait" /\ child = "exited"
    /\ \/ call.mode = "line" /\ pc' = "read_err" /\ UNCHANGED result
       \/ call.mode = "run" /\ Return("ok")
    /\ UNCHANGED <<call, child, solver, pipes, lines, late>>

\* `stderr.read_to_end` of the callback functions, after the child's end.
ReadErr ==
    /\ pc = "read_err"
    /\ IF MoreLines(errR, errW)
       THEN errR' = errR + 1 /\ UNCHANGED <<pc, result, errEnd>>
       ELSE ErrEOF /\ Return("ok") /\ errEnd' = TRUE /\ UNCHANGED errR
    /\ UNCHANGED <<call, child, solver, outW, errW, outR, outEnd,
                   lines, late>>

Drain ==
    /\ pc = "drain"
    /\ seen' = sent
    /\ pc' = "check"
    /\ UNCHANGED <<call, child, solver, pipes, sent, late, result>>

\* Mutant: the process group is not killed.
KillNothing(p) == p

\* killpg ends the child and everything in its process group.
Kill(p) == IF p \in Alive THEN "killed" ELSE p

CheckDeadline ==
    /\ pc = "check"
    /\ IF late
       THEN /\ pc' = "kill_join"
            /\ child' = Kill(child) /\ solver' = Kill(solver)
       ELSE pc' = "poll" /\ UNCHANGED <<child, solver>>
    /\ UNCHANGED <<call, pipes, lines, late, result>>

\* Mutant: wait() instead of wait_timeout(poll).
PollForever ==
    /\ pc = "poll" /\ child = "exited"
    /\ pc' = IF call.mode = "timeout" THEN "join_out" ELSE "drain_last"
    /\ UNCHANGED <<call, child, solver, pipes, lines, late, result>>

\* child.wait_timeout(poll): the status, or the poll interval has passed.
Poll ==
    /\ pc = "poll"
    /\ IF child = "exited"
       THEN pc' = IF call.mode = "timeout" THEN "join_out" ELSE "drain_last"
       ELSE pc' = IF call.mode = "timeout" THEN "check" ELSE "drain"
    /\ UNCHANGED <<call, child, solver, pipes, lines, late, result>>

DrainLast ==
    /\ pc = "drain_last"
    /\ seen' = sent
    /\ pc' = "join_out"
    /\ UNCHANGED <<call, child, solver, pipes, sent, late, result>>

\* Mutant: the reader thread is not waited for.
Detach(end) == TRUE

Join(end) == end

JoinOut ==
    /\ pc = "join_out" /\ Join(outEnd)
    /\ pc' = IF call.mode = "timeout_line" THEN "read_err" ELSE "join_err"
    /\ UNCHANGED <<call, child, solver, pipes, lines, late, result>>

JoinErr ==
    /\ pc = "join_err" /\ Join(errEnd)
    /\ \/ call.mode = "run" /\ pc' = "wait" /\ UNCHANGED result
       \/ call.mode = "timeout" /\ Return("ok")
    /\ UNCHANGED <<call, child, solver, pipes, lines, late>>

\* After killpg: join the readers, then Err(TimedOut).
KillJoin ==
    /\ pc = "kill_join" /\ Join(outEnd)
    /\ call.mode = "timeout" => Join(errEnd)
    /\ Return("timed_out")
    /\ UNCHANGED <<call, child, solver, pipes, lines, late>>

\* wait_timeout, wait and read_to_end leave the function through `?`.
IoError ==
    /\ pc \in {"poll", "wait", "read_err"}
    /\ Return("io_error")
    /\ UNCHANGED <<call, child, solver, pipes, lines, late>>

Supervisor ==
    \/ Spawn \/ ReadLine \/ ReadEOF \/ WaitChild \/ ReadErr \/ Drain
    \/ CheckDeadline \/ Poll \/ DrainLast \/ JoinOut \/ JoinErr \/ KillJoin

----------------------------------------------------------------------------
(* The reader threads. *)

\* The stdout reader of every mode but "line".  The channel reader stops at a
\* line that is not UTF-8, and when the receiver is gone (the function has
\* returned); read_to_end does not look at the bytes.
OutReaderStep ==
    /\ child # "none" /\ call.mode # "line" /\ ~outEnd
    /\ \/ /\ MoreLines(outR, outW)
          /\ call.mode = "timeout_line" => outR + 1 # call.bad
          /\ outR' = outR + 1
          /\ IF call.mode = "timeout_line"
             THEN IF pc = "done" THEN outEnd' = TRUE /\ UNCHANGED sent
                                 ELSE sent' = sent + 1 /\ UNCHANGED outEnd
             ELSE UNCHANGED <<sent, outEnd>>
       \/ /\ OutEOF \/ /\ MoreLines(outR, outW)
                       /\ call.mode = "timeout_line" /\ outR + 1 = call.bad
          /\ outEnd' = TRUE
          /\ UNCHANGED <<outR, sent>>
    /\ UNCHANGED <<call, pc, child, solver, outW, errW, errR, errEnd, seen,
                   late, result>>

\* stderr has a reader of its own in "run" and "timeout" only.
ErrReaderStep ==
    /\ child # "none" /\ call.mode \in HasErrReader /\ ~errEnd
    /\ \/ MoreLines(errR, errW) /\ errR' = errR + 1 /\ UNCHANGED errEnd
       \/ ErrEOF /\ errEnd' = TRUE /\ UNCHANGED errR
    /\ UNCHANGED <<call, pc, child, solver, outW, errW, outR, outEnd, lines,
                   late, result>>

----------------------------------------------------------------------------
Next ==
    \/ Supervisor \/ IoError
    \/ OutReaderStep \/ ErrReaderStep
    \/ ChildWritesOut \/ ChildWritesErr \/ ChildStartsSolver \/ ChildExits
    \/ SolverExits \/ Expire

Spec == Init /\ [][Next]_vars

\* The host schedules the supervisor and the reader threads, time passes, and
\* a solver whose parent is gone ends.  Nothing is assumed of the child.
HostFairness ==
    /\ WF_vars(Supervisor) /\ WF_vars(OutReaderStep) /\ WF_vars(ErrReaderStep)
    /\ WF_vars(Expire) /\ WF_vars(SolverExits)

\* The child keeps writing and ends (the solver's own limit stops it).
ChildFairness ==
    WF_vars(ChildWritesOut) /\ WF_vars(ChildWritesErr) /\ WF_vars(ChildExits)

HostSpec == Spec /\ HostFairness

----------------------------------------------------------------------------
(* Properties. *)

\* The output a successful call returns is everything the process wrote, on
\* both streams; the one exception is the channel reader, which stops before
\* the first line that is not UTF-8 and still returns Ok.
OkOutputComplete ==
    result = "ok" =>
        /\ errR = errW
        /\ outR = outW \/ (call.mode = "timeout_line" /\ outR + 1 = call.bad)

\* A call that timed out leaves neither the child nor its solver behind, and a
\* successful one at most a solver that does not hold the child's pipes: only
\* an io_error return abandons a process that is still writing.
NoOrphanAfterReturn ==
    /\ result = "timed_out" => child \notin Alive /\ solver \notin Alive
    /\ result = "ok" => child = "exited" /\ ~Writers

\* run_with_timeout_and_line_callback does not drain stderr while the child
\* runs, so it can only return Ok for a child whose stderr fits the pipe.
OkOnlyIfStderrFits ==
    call.mode = "timeout_line" /\ result = "ok" => call.err <= Cap \/ call.bad # 0

\* The only state in which nothing can move any more before the call has
\* returned: run_with_line_callback waits for stdout's end while its child is
\* blocked on a full stderr pipe.
StuckOnlyOnFullStderr ==
    ~ENABLED Next =>
        \/ pc = "done"
        \/ call.mode = "line" /\ pc = "read" /\ errW = Cap /\ call.err > Cap

\* on_line sees the lines of the output in order, and never more of them than
\* the reader collected; with the plain line callback, all of them.
CallbackIsPrefix ==
    /\ seen <= outR
    /\ result = "ok" /\ call.mode = "line" => seen = outW

\* A line is never given to on_line twice, and nothing is given to it once
\* the deadline has struck and the process group is killed.
SeenOnlyGrows ==
    [][seen' >= seen /\ (child = "killed" => seen' = seen)]_vars

\* A call with a hard timeout returns, whatever the child does; every other
\* call returns when its child keeps writing and ends, except the one whose
\* unread stderr overflows its pipe.
CallReturns ==
    \/ call.mode \in Timed
    \/ ChildFairness /\ (call.mode = "line" => call.err <= Cap)
    => <>(pc = "done")
=============================================================================
