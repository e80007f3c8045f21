------------------------ MODULE ProcessRunner_proofs ------------------------
(***************************************************************************)
(* Safety of the four process runners, for streams of any length and pipes *)
(* of any size.                                                            *)
(*                                                                         *)
(* None of the properties is inductive: that the output of an Ok call is   *)
(* complete rests on what the supervisor had established when it passed    *)
(* each join (Progress), on an ended stream staying ended (Ended), and on  *)
(* which function can be at which location (Where).                        *)
(***************************************************************************)
EXTENDS ProcessRunner, TLAPS

\* Which functions have which locations, and when the call has returned.
Where ==
    /\ pc = "read" => call.mode = "line"
    /\ pc \in {"drain", "drain_last"} => call.mode = "timeout_line"
    /\ pc \in {"check", "poll", "kill_join"} => call.mode \in Timed
    /\ pc = "join_out" => call.mode # "line"
    /\ pc = "join_err" => call.mode \in {"run", "timeout"}
    /\ pc = "wait" => call.mode \in {"line", "run"}
    /\ pc = "read_err" => call.mode \in {"line", "timeout_line"}
    /\ pc = "done" <=> result # "none"
    /\ pc = "spawn" => child = "none"
    /\ child = "none" => pc \in {"spawn", "done"} /\ solver = "none"
                           /\ result # "ok" /\ ~outEnd /\ ~errEnd
    /\ child # "quiet"

\* The counters of the streams and of the channel.
Counters ==
    /\ outR <= outW /\ outW <= call.out
    /\ errR <= errW /\ errW <= call.err
    /\ errW <= errR + Cap
    /\ call.mode = "line" => seen = outR
    /\ call.mode # "line" => seen <= sent
    /\ sent <= outR

\* What the end of a stream's reader means.
Ended ==
    /\ outEnd /\ pc # "done" =>
          \/ ~Writers /\ outR = outW
          \/ call.mode = "timeout_line" /\ outR + 1 = call.bad
    /\ errEnd => ~Writers /\ errR = errW

\* What the supervisor knows at its locations, and after its return.
Progress ==
    /\ pc = "join_err" => outEnd
    /\ pc = "wait" => outEnd /\ (call.mode = "run" => errEnd)
    /\ pc = "read_err" => outEnd /\ child = "exited"
    /\ pc = "drain_last" => child = "exited"
    /\ pc \in {"join_out", "join_err"} /\ call.mode \in Timed => child = "exited"
    /\ pc = "kill_join" => child \notin Alive /\ solver \notin Alive
    /\ child = "killed" => pc \in {"kill_join", "done"}
    /\ result = "timed_out" => child \notin Alive /\ solver \notin Alive
                                 /\ child # "none"
    /\ result = "ok" =>
          /\ child = "exited" /\ ~Writers /\ outEnd /\ errR = errW
          /\ outR = outW \/ (call.mode = "timeout_line" /\ outR + 1 = call.bad)

\* The stderr pipe of run_with_timeout_and_line_callback is not read before
\* the child's end.
Unread ==
    call.mode = "timeout_line" =>
        /\ pc \notin {"read_err", "done"} => errR = 0
        /\ call.bad = 0 /\ child = "exited" /\ pc # "done" => errW = call.err
        /\ call.bad = 0 /\ (pc = "read_err" \/ result = "ok") => call.err <= Cap

Inv == TypeOK /\ Where /\ Counters /\ Ended /\ Progress /\ Unread

\* The parts of a call.
LEMMA CallType ==
    ASSUME call \in Calls
    PROVE  /\ call.mode \in Modes
           /\ call.out \in Nat /\ call.err \in Nat /\ call.bad \in Nat
           /\ call.out <= MaxOut /\ call.err <= MaxErr
BY BoundsAssumption DEF Calls

\* Before a call.
LEMMA InitInv ==
    ASSUME Init
    PROVE  Inv
<1>1. /\ call.mode \in Modes
      /\ call.out \in Nat /\ call.err \in Nat /\ call.bad \in Nat
  BY CallType DEF Init
<1>2. TypeOK
  <2>1. outEnd \in BOOLEAN /\ errEnd \in BOOLEAN /\ late \in BOOLEAN
    BY Zenon DEF Init
  <2> QED
    BY <2>1, BoundsAssumption DEF Init, TypeOK, Locations, Processes, Results
<1>3. Where
  BY DEF Init, Where
<1>4. Counters
  BY <1>1, BoundsAssumption DEF Init, Counters
<1>5. Ended /\ Progress
  BY DEF Init, Ended, Progress, Alive, Writers
<1>6. Unread
  BY DEF Init, Unread
<1> QED
  BY <1>2, <1>3, <1>4, <1>5, <1>6 DEF Inv

\* Every step of the caller, the readers, the processes and the clock preserves
\* the invariant.
LEMMA NextInv ==
    ASSUME Inv, [Next]_vars
    PROVE  Inv'
<1> USE BoundsAssumption
    DEF Inv, TypeOK, Where, Counters, Ended, Progress, Unread, Modes,
        Locations, Processes, Results, Alive, Timed, Writers, pipes, lines
<1>0. /\ call.mode \in Modes
      /\ call.out \in Nat /\ call.err \in Nat /\ call.bad \in Nat
      /\ call.out <= MaxOut /\ call.err <= MaxErr
  BY CallType
<1>1. CASE ChildWritesOut
  BY <1>0, <1>1 DEF ChildWritesOut
<1>2. CASE ChildWritesErr
  BY <1>0, <1>2 DEF ChildWritesErr
<1>3. CASE ChildStartsSolver
  BY <1>0, <1>3 DEF ChildStartsSolver
<1>4. CASE ChildExits
  BY <1>0, <1>4 DEF ChildExits
<1>5. CASE SolverExits
  BY <1>0, <1>5 DEF SolverExits
<1>6. CASE Expire
  BY <1>0, <1>6 DEF Expire
<1>7. CASE Spawn
  BY <1>0, <1>7 DEF Spawn, FirstStep, Return
<1>8. CASE ReadLine
  <2>1. TypeOK'
    <3>1. outEnd' \in BOOLEAN /\ errEnd' \in BOOLEAN
      BY <1>8, Zenon DEF ReadLine
    <3> QED
      BY <1>0, <1>8, <3>1 DEF ReadLine, MoreLines, Return
  <2>2. Where'
    BY <1>0, <1>8 DEF ReadLine, MoreLines, Return
  <2>3. Counters'
    BY <1>0, <1>8 DEF ReadLine, MoreLines, Return
  <2>4. Ended'
    BY <1>0, <1>8 DEF ReadLine, MoreLines, Return
  <2>5. Progress'
    BY <1>0, <1>8 DEF ReadLine, MoreLines, Return
  <2>6. Unread'
    BY <1>0, <1>8 DEF ReadLine, MoreLines, Return
  <2> QED
    BY <2>1, <2>2, <2>3, <2>4, <2>5, <2>6
<1>9. CASE ReadEOF
  BY <1>0, <1>9 DEF ReadEOF, OutEOF
<1>10. CASE WaitChild
  BY <1>0, <1>10 DEF WaitChild, Return
<1>11. CASE ReadErr
  <2>1. TypeOK'
    <3>1. outEnd' \in BOOLEAN /\ errEnd' \in BOOLEAN
      BY <1>11, Zenon DEF ReadErr
    <3> QED
      BY <1>0, <1>11, <3>1 DEF ReadErr, MoreLines, ErrEOF, Return
  <2>2. Where'
    BY <1>0, <1>11 DEF ReadErr, MoreLines, ErrEOF, Return
  <2>3. Counters'
    BY <1>0, <1>11 DEF ReadErr, MoreLines, ErrEOF, Return
  <2>4. Ended'
    BY <1>0, <1>11 DEF ReadErr, MoreLines, ErrEOF, Return
  <2>5. Progress'
    BY <1>0, <1>11 DEF ReadErr, MoreLines, ErrEOF, Return
  <2>6. Unread'
    BY <1>0, <1>11 DEF ReadErr, MoreLines, ErrEOF, Return
  <2> QED
    BY <2>1, <2>2, <2>3, <2>4, <2>5, <2>6
<1>12. CASE Drain
  BY <1>0, <1>12 DEF Drain
<1>13. CASE CheckDeadline
  BY <1>0, <1>13 DEF CheckDeadline, Kill
<1>14. CASE Poll
  BY <1>0, <1>14 DEF Poll
<1>15. CASE DrainLast
  BY <1>0, <1>15 DEF DrainLast
<1>16. CASE JoinOut
  BY <1>0, <1>16 DEF JoinOut, Join
<1>17. CASE JoinErr
  BY <1>0, <1>17 DEF JoinErr, Join, Return
<1>18. CASE KillJoin
  BY <1>0, <1>18 DEF KillJoin, Join, Return
<1>19. CASE IoError
  BY <1>0, <1>19 DEF IoError, Return
<1>20. CASE OutReaderStep
  <2>1. TypeOK'
    <3>1. outEnd' \in BOOLEAN /\ errEnd' \in BOOLEAN
      BY <1>20, Zenon DEF OutReaderStep
    <3> QED
      BY <1>0, <1>20, <3>1 DEF OutReaderStep, MoreLines, OutEOF
  <2>2. Where'
    BY <1>0, <1>20 DEF OutReaderStep, MoreLines, OutEOF
  <2>3. Counters'
    BY <1>0, <1>20 DEF OutReaderStep, MoreLines, OutEOF
  <2>4. Ended'
    BY <1>0, <1>20 DEF OutReaderStep, MoreLines, OutEOF
  <2>5. Progress'
    BY <1>0, <1>20 DEF OutReaderStep, MoreLines, OutEOF
  <2>6. Unread'
    BY <1>0, <1>20 DEF OutReaderStep, MoreLines, OutEOF
  <2> QED
    BY <2>1, <2>2, <2>3, <2>4, <2>5, <2>6
<1>21. CASE ErrReaderStep
  <2>1. TypeOK'
    <3>1. outEnd' \in BOOLEAN /\ errEnd' \in BOOLEAN
      BY <1>21, Zenon DEF ErrReaderStep
    <3> QED
      BY <1>0, <1>21, <3>1 DEF ErrReaderStep, MoreLines, ErrEOF, HasErrReader
  <2>2. Where'
    BY <1>0, <1>21 DEF ErrReaderStep, MoreLines, ErrEOF, HasErrReader
  <2>3. Counters'
    BY <1>0, <1>21 DEF ErrReaderStep, MoreLines, ErrEOF, HasErrReader
  <2>4. Ended'
    BY <1>0, <1>21 DEF ErrReaderStep, MoreLines, ErrEOF, HasErrReader
  <2>5. Progress'
    BY <1>0, <1>21 DEF ErrReaderStep, MoreLines, ErrEOF, HasErrReader
  <2>6. Unread'
    BY <1>0, <1>21 DEF ErrReaderStep, MoreLines, ErrEOF, HasErrReader
  <2> QED
    BY <2>1, <2>2, <2>3, <2>4, <2>5, <2>6
<1>22. CASE UNCHANGED vars
  BY <1>0, <1>22 DEF vars
<1> QED
  BY <1>1, <1>2, <1>3, <1>4, <1>5, <1>6, <1>7, <1>8, <1>9, <1>10, <1>11, <1>12,
     <1>13, <1>14, <1>15, <1>16, <1>17, <1>18, <1>19, <1>20, <1>21, <1>22
     DEF Next, Supervisor

\* The inductive invariant holds in every reachable state.
THEOREM Invariance == Spec => []Inv
<1>1. Init => Inv
  BY InitInv
<1>2. Inv /\ [Next]_vars => Inv'
  BY NextInv
<1>3. QED
  BY <1>1, <1>2, PTL DEF Spec

\* The state of the runner is well typed.
THEOREM TypeCorrect == Spec => []TypeOK
<1>1. Inv => TypeOK
  BY DEF Inv
<1>2. QED
  BY <1>1, Invariance, PTL

\* An Ok call returns the whole output of both streams (up to the first line
\* that is not UTF-8 in run_with_timeout_and_line_callback).
THEOREM OutputComplete == Spec => []OkOutputComplete
<1>1. Inv => OkOutputComplete
  BY DEF Inv, Progress, OkOutputComplete
<1>2. QED
  BY <1>1, Invariance, PTL

\* A call that timed out leaves no process behind, and an Ok call no process
\* that holds its pipes.
THEOREM NoOrphans == Spec => []NoOrphanAfterReturn
<1>1. Inv => NoOrphanAfterReturn
  BY DEF Inv, Progress, NoOrphanAfterReturn
<1>2. QED
  BY <1>1, Invariance, PTL

\* run_with_timeout_and_line_callback succeeds only on a child whose stderr
\* fits the pipe.
THEOREM StderrBounded == Spec => []OkOnlyIfStderrFits
<1>1. Inv => OkOnlyIfStderrFits
  BY DEF Inv, Unread, OkOnlyIfStderrFits
<1>2. QED
  BY <1>1, Invariance, PTL

\* on_line is given a prefix of the collected lines.
THEOREM CallbackPrefix == Spec => []CallbackIsPrefix
<1>1. Inv => CallbackIsPrefix
  <2> SUFFICES ASSUME Inv PROVE CallbackIsPrefix
    OBVIOUS
  <2>1. seen <= outR
    BY BoundsAssumption DEF Inv, TypeOK, Counters
  <2>2. result = "ok" /\ call.mode = "line" => seen = outW
    BY DEF Inv, Counters, Progress
  <2> QED
    BY <2>1, <2>2 DEF CallbackIsPrefix
<1>2. QED
  BY <1>1, Invariance, PTL

\* No line is given to on_line twice, nor any after the process group's death.
THEOREM CallbackOnlyGrows == Spec => SeenOnlyGrows
<1>1. Inv /\ [Next]_vars =>
         [seen' >= seen /\ (child = "killed" => seen' = seen)]_vars
  <2> SUFFICES ASSUME Inv, Next
               PROVE  seen' >= seen /\ (child = "killed" => seen' = seen)
    OBVIOUS
  <2>1. seen \in Nat /\ sent \in Nat
    BY BoundsAssumption DEF Inv, TypeOK
  <2>2. CASE ReadLine
    BY <2>1, <2>2 DEF ReadLine, Inv, Progress
  <2>3. CASE Drain \/ DrainLast
    BY <2>1, <2>3 DEF Drain, DrainLast, Inv, Where, Counters, Progress
  <2>4. CASE UNCHANGED seen
    BY <2>1, <2>4
  <2> QED
    BY <2>2, <2>3, <2>4
       DEF Next, Supervisor, Spawn, ReadEOF, WaitChild, ReadErr, CheckDeadline,
           Poll, JoinOut, JoinErr, KillJoin, IoError, OutReaderStep,
           ErrReaderStep, ChildWritesOut, ChildWritesErr, ChildStartsSolver,
           ChildExits, SolverExits, Expire, lines
<1>2. QED
  BY <1>1, Invariance, PTL DEF Spec, SeenOnlyGrows
=============================================================================
