--------------------------- MODULE LambdaHandler ---------------------------
(***************************************************************************)
(* The cloud side of remote verification: lambda-boogie-handler.  Several  *)
(* Lambda instances serve one request each at a time (lambda.rs, handler), *)
(* share a Redis cache of answers (handler.rs, process) and run Boogie as  *)
(* a child process whose output goes through a pipe of Cap lines.          *)
(*                                                                         *)
(* An answer is abstracted to the text and options it was computed from    *)
(* and its kind; a request's text stands for its SHA-256 (generate_hash).  *)
(* Redis, the Lambda platform and the client are external: an operation of *)
(* Redis may fail, an entry may expire, a request may arrive at any idle   *)
(* instance.                                                               *)
(***************************************************************************)
EXTENDS Naturals, FiniteSets

CONSTANTS Instances,   \* Lambda instances
          Texts,       \* Boogie files sent by clients
          Options,     \* option lists sent with them
          Sent,        \* the requests clients send
          MaxLines,    \* most lines Boogie prints
          Cap,         \* lines the pipe holds
          Cleanups,    \* whether pkill works: {TRUE}, or {TRUE, FALSE}
          MaxRequests, \* bound: requests served in a behaviour
          None

VARIABLES pc,      \* where the instance's handler stands
          req,     \* its request
          body,    \* its (out, err, status), once known
          boogie,  \* its Boogie process
          solver,  \* the solver process Boogie started, in the same session;
                   \* "quiet" when it does not hold Boogie's pipe
          left,    \* lines Boogie has still to print
          pipe,    \* lines in the pipe
          stray,   \* which processes of earlier invocations are alive there
          cut,     \* history: an invocation of it was cut off, or wait() failed
          cache,   \* Redis: hash -> answer
          ran,     \* history: the answers computed by a Boogie run
          reply,   \* the instance's last reply
          served   \* number of requests received

procs == <<boogie, solver, left, pipe, stray, cut>>
vars  == <<pc, req, body, procs, cache, ran, reply, served>>

Requests == [text : Texts, opts : Options,
             kind : {"valid", "rejected", "malformed"}]
Kinds    == {"verified", "failed", "exec_error"}
Answers  == [text : Texts, opts : Options, kind : Kinds]
Replies  == [req : Requests, code : {200, 400, 500},
             body : Answers \cup {None}, cached : BOOLEAN]

\* A choice of requests for TLC: one text with every option list, every text with
\* one of them, and a refused request of each kind.
Distinct ==
    LET text == CHOOSE t \in Texts : TRUE
        opts == CHOOSE o \in Options : TRUE
    IN  {r \in Requests : IF r.kind = "valid" THEN r.text = text \/ r.opts = opts
                                             ELSE r = CHOOSE q \in Requests : q.kind = r.kind}

ASSUME HandlerAssumption ==
    /\ MaxLines \in Nat /\ MaxRequests \in Nat /\ Cap \in Nat \ {0}
    /\ None \notin Texts /\ None \notin Options
    /\ Sent \subseteq Requests
    /\ Cleanups \subseteq BOOLEAN

Process   == {"none", "running", "quiet", "exited", "killed"}
Alive     == {"running", "quiet"}
Locations == {"idle", "validate", "check_cache", "execute", "wait", "read",
              "kill", "cache_result"}

TypeOK ==
    /\ pc \in [Instances -> Locations]
    /\ req \in [Instances -> Requests \cup {None}]
    /\ body \in [Instances -> Answers \cup {None}]
    /\ boogie \in [Instances -> Process] /\ solver \in [Instances -> Process]
    /\ left \in [Instances -> 0..MaxLines] /\ pipe \in [Instances -> 0..Cap]
    /\ stray \in [Instances -> SUBSET {"boogie", "solver"}]
    /\ cut \in [Instances -> {"never", "before", "now"}]
    /\ cache \in [Texts -> Answers \cup {None}]
    /\ ran \subseteq Answers
    /\ reply \in [Instances -> Replies \cup {None}]
    /\ served \in 0..MaxRequests

Init ==
    /\ pc = [i \in Instances |-> "idle"]
    /\ req = [i \in Instances |-> None]
    /\ body = [i \in Instances |-> None]
    /\ boogie = [i \in Instances |-> "none"]
    /\ solver = [i \in Instances |-> "none"]
    /\ left = [i \in Instances |-> 0]
    /\ pipe = [i \in Instances |-> 0]
    /\ stray = [i \in Instances |-> {}]
    /\ cut = [i \in Instances |-> "never"]
    /\ cache = [t \in Texts |-> None]
    /\ ran = {}
    /\ reply = [i \in Instances |-> None]
    /\ served = 0

----------------------------------------------------------------------------
Goto(i, from, to) == pc[i] = from /\ pc' = [pc EXCEPT ![i] = to]

Reply(i, code, answer, cached) ==
    reply' = [reply EXCEPT ![i] = [req |-> req[i], code |-> code,
                                   body |-> answer, cached |-> cached]]

Kill(p) == IF p \in Alive THEN "killed" ELSE p

\* What earlier invocations left in the instance when a request comes.
Survivors(i) ==
    stray[i] \cup (IF boogie[i] \in Alive THEN {"boogie"} ELSE {})
             \cup (IF solver[i] \in Alive THEN {"solver"} ELSE {})

\* cleanup_processes: pkill z3 and pkill dotnet, whatever becomes of them.  It
\* goes by the name of a process, and Boogie's is boogie (BOOGIE_EXE, the
\* launcher of a dotnet tool).
cleanup_processes(i) ==
    /\ \E works \in Cleanups :
          stray' = [stray EXCEPT ![i] = IF works THEN Survivors(i) \ {"solver"} ELSE Survivors(i)]
    /\ boogie' = [boogie EXCEPT ![i] = "none"]
    /\ solver' = [solver EXCEPT ![i] = "none"]
    /\ left' = [left EXCEPT ![i] = 0]
    /\ pipe' = [pipe EXCEPT ![i] = 0]

\* handler() starts with cleanup_processes.
Receive(i, r) ==
    /\ Goto(i, "idle", "validate")
    /\ served < MaxRequests
    /\ served' = served + 1
    /\ req' = [req EXCEPT ![i] = r]
    /\ body' = [body EXCEPT ![i] = None]
    /\ cleanup_processes(i)
    /\ cut' = [cut EXCEPT ![i] = IF @ = "now" THEN "before" ELSE @]
    /\ UNCHANGED <<cache, ran, reply>>

\* The header, body and options checks: a 4xx reply, a panic on a body that is
\* not JSON (no reply), or on to process().
Validate(i) ==
    /\ pc[i] = "validate"
    /\ CASE req[i].kind = "valid" ->
               Goto(i, "validate", "check_cache") /\ UNCHANGED reply
         [] req[i].kind = "rejected" ->
               Goto(i, "validate", "idle") /\ Reply(i, 400, None, FALSE)
         [] req[i].kind = "malformed" ->
               Goto(i, "validate", "idle") /\ UNCHANGED reply
    /\ UNCHANGED <<req, body, procs, cache, ran, served>>

\* Mutant: one cache key for every file.
ConstantHash(text) == CHOOSE t \in Texts : TRUE

generate_hash(text) == text

\* A hit answers at once; a failing Redis is an Err of process(), code 500.
CheckCache(i) ==
    /\ pc[i] = "check_cache"
    /\ LET hit == cache[generate_hash(req[i].text)] IN
       \/ /\ hit = None
          /\ Goto(i, "check_cache", "execute") /\ UNCHANGED reply
       \/ /\ hit # None
          /\ Goto(i, "check_cache", "idle") /\ Reply(i, 200, hit, TRUE)
       \/ Goto(i, "check_cache", "idle") /\ Reply(i, 500, None, FALSE)
    /\ UNCHANGED <<req, body, procs, cache, ran, served>>

Answer(i, kind) ==
    [text |-> req[i].text, opts |-> req[i].opts, kind |-> kind]

\* Mutant: the failure to start Boogie is an answer of status 0.
StartedAnyway(i) == Answer(i, "verified")

SpawnFailure(i) == Answer(i, "exec_error")

\* The temporary file (an Err of process() when it cannot be written), then
\* execute_boogie: spawn, or an Err that becomes an answer of status -1.
Execute(i) ==
    /\ \/ /\ Goto(i, "execute", "wait")
          /\ boogie' = [boogie EXCEPT ![i] = "running"]
          /\ solver' = [solver EXCEPT ![i] = "none"]
          /\ \E n \in 0..MaxLines : left' = [left EXCEPT ![i] = n]
          /\ pipe' = [pipe EXCEPT ![i] = 0]
          /\ UNCHANGED <<stray, cut, body, reply>>
       \/ /\ Goto(i, "execute", "cache_result")
          /\ body' = [body EXCEPT ![i] = SpawnFailure(i)]
          /\ UNCHANGED <<procs, reply>>
       \/ /\ Goto(i, "execute", "idle")
          /\ Reply(i, 500, None, FALSE)
          /\ UNCHANGED <<body, procs>>
    /\ UNCHANGED <<req, cache, ran, served>>

\* child.wait() comes before either pipe is read.
Wait(i) ==
    /\ boogie[i] = "exited"
    /\ Goto(i, "wait", "read")
    /\ UNCHANGED <<req, body, procs, cache, ran, reply, served>>

\* A failing wait() leaves execute_boogie through `?`: an answer of status -1,
\* and Boogie is not killed.
WaitFails(i) ==
    /\ Goto(i, "wait", "cache_result")
    /\ body' = [body EXCEPT ![i] = SpawnFailure(i)]
    /\ cut' = [cut EXCEPT ![i] = "now"]
    /\ UNCHANGED <<req, boogie, solver, left, pipe, stray, cache, ran, reply, served>>

\* read_to_string ends when no process holds the pipe open; the exit code
\* (-1 after a signal) and the text are the answer.
ReadOutput(i) ==
    /\ solver[i] # "running"
    /\ Goto(i, "read", "kill")
    /\ pipe' = [pipe EXCEPT ![i] = 0]
    /\ \E kind \in Kinds :
          /\ body' = [body EXCEPT ![i] = Answer(i, kind)]
          /\ ran' = ran \cup {Answer(i, kind)}
    /\ UNCHANGED <<req, boogie, solver, left, stray, cut, cache, reply, served>>

\* Mutant: only the Boogie process is killed, which has exited by then.
KillBoogie(i) ==
    /\ Goto(i, "kill", "cache_result")
    /\ boogie' = [boogie EXCEPT ![i] = Kill(@)]
    /\ UNCHANGED <<req, body, solver, left, pipe, stray, cut, cache, ran, reply, served>>

KillGroup(i) ==
    /\ Goto(i, "kill", "cache_result")
    /\ boogie' = [boogie EXCEPT ![i] = Kill(@)]
    /\ solver' = [solver EXCEPT ![i] = Kill(@)]
    /\ UNCHANGED <<req, body, left, pipe, stray, cut, cache, ran, reply, served>>

\* set_ex; a failure is only logged.
Store(i) ==
    /\ \/ cache' = [cache EXCEPT ![generate_hash(req[i].text)] = body[i]]
       \/ UNCHANGED cache
    /\ UNCHANGED <<req, body, procs, ran, served>>

\* Mutant: an execution error is tried again, without a limit.
RetryError(i) ==
    IF body[i] # None /\ body[i].kind = "exec_error"
    THEN Goto(i, "cache_result", "execute")
         /\ UNCHANGED <<req, body, procs, cache, ran, reply, served>>
    ELSE Goto(i, "cache_result", "idle") /\ Store(i) /\ Reply(i, 200, body[i], FALSE)

\* Then temp_file.close(), whose failure is an Err of process().
CacheResult(i) ==
    /\ Goto(i, "cache_result", "idle")
    /\ Store(i)
    /\ Reply(i, 200, body[i], FALSE) \/ Reply(i, 500, None, FALSE)

Handle(i) ==
    \/ Validate(i) \/ CheckCache(i) \/ Execute(i) \/ Wait(i)
    \/ ReadOutput(i) \/ KillGroup(i) \/ CacheResult(i)

----------------------------------------------------------------------------
(* Boogie, its solver and Redis. *)

BoogiePrints(i) ==
    /\ boogie[i] = "running" /\ left[i] > 0 /\ pipe[i] < Cap
    /\ left' = [left EXCEPT ![i] = @ - 1]
    /\ pipe' = [pipe EXCEPT ![i] = @ + 1]
    /\ UNCHANGED <<pc, req, body, boogie, solver, stray, cut, cache, ran, reply, served>>

BoogieStartsSolver(i) ==
    /\ boogie[i] = "running" /\ solver[i] = "none"
    /\ \E s \in Alive : solver' = [solver EXCEPT ![i] = s]
    /\ UNCHANGED <<pc, req, body, boogie, left, pipe, stray, cut, cache, ran, reply, served>>

BoogieExits(i) ==
    /\ boogie[i] = "running" /\ left[i] = 0
    /\ boogie' = [boogie EXCEPT ![i] = "exited"]
    /\ UNCHANGED <<pc, req, body, solver, left, pipe, stray, cut, cache, ran, reply, served>>

SolverExits(i) ==
    /\ solver[i] \in Alive
    /\ solver' = [solver EXCEPT ![i] = "exited"]
    /\ UNCHANGED <<pc, req, body, boogie, left, pipe, stray, cut, cache, ran, reply, served>>

\* A process that was left behind ends, or Boogie starts a solver again.
StrayMoves(i) ==
    /\ \/ \E p \in stray[i] : stray' = [stray EXCEPT ![i] = @ \ {p}]
       \/ "boogie" \in stray[i] /\ stray' = [stray EXCEPT ![i] = @ \cup {"solver"}]
    /\ UNCHANGED <<pc, req, body, boogie, solver, left, pipe, cut, cache, ran, reply, served>>

Expire(t) ==
    /\ cache[t] # None
    /\ cache' = [cache EXCEPT ![t] = None]
    /\ UNCHANGED <<pc, req, body, procs, ran, reply, served>>

\* The platform ends an invocation that takes too long, and the handler's data
\* is gone; the instance may be used again, with its processes still there.
PlatformTimeout(i) ==
    /\ Goto(i, pc[i], "idle") /\ pc[i] # "idle"
    /\ cut' = [cut EXCEPT ![i] = "now"]
    /\ body' = [body EXCEPT ![i] = None]
    /\ UNCHANGED <<req, boogie, solver, left, pipe, stray, cache, ran, reply, served>>

Boogie(i) == BoogiePrints(i) \/ BoogieExits(i)

Next ==
    \/ \E i \in Instances :
          \/ \E r \in Sent : Receive(i, r)
          \/ Handle(i) \/ WaitFails(i) \/ PlatformTimeout(i)
          \/ Boogie(i) \/ BoogieStartsSolver(i) \/ SolverExits(i)
          \/ StrayMoves(i)
    \/ \E t \in Texts : Expire(t)

\* The instance's handler is scheduled, Boogie keeps working and its solver
\* ends (Boogie passes it a time limit).  Requests and expiry are not fair.
Fairness ==
    \A i \in Instances :
        WF_vars(Handle(i)) /\ WF_vars(Boogie(i)) /\ WF_vars(SolverExits(i))

Spec == Init /\ [][Next]_vars /\ Fairness

----------------------------------------------------------------------------
(* Properties. *)

\* Every 200 reply is about the file that was asked about; it may have been
\* computed under other options, but only when it comes from the cache.
ReplyProvenance ==
    \A i \in Instances :
        reply[i] # None /\ reply[i].code = 200 =>
            /\ reply[i].body.text = reply[i].req.text
            /\ reply[i].body.opts = reply[i].req.opts \/ reply[i].cached

\* A verdict in the cache, or in a reply, was computed by a Boogie run: only
\* an execution error is an answer without one.
VerdictsWereComputed ==
    LET given == {cache[t] : t \in Texts}
                   \cup {reply[i].body : i \in {j \in Instances : reply[j] # None}}
    IN  \A a \in given \ {None} : a \in ran \/ a.kind = "exec_error"

\* An invocation leaves a process in its instance only when the platform cuts
\* it off or wait() fails: else, once its verdict is being stored and after
\* its reply, Boogie and the solver it started are dead, and an instance with no
\* such invocation has no process of an earlier one.
NoStrayProcess ==
    \A i \in Instances :
        /\ cut[i] # "now" /\ pc[i] \notin {"wait", "read", "kill"}
               => boogie[i] \notin Alive /\ solver[i] \notin Alive
        /\ cut[i] = "never" => stray[i] = {}

\* When pkill works, cleanup_processes leaves no process of an earlier
\* invocation ("Kill any orphaned Z3 processes", "Kill any orphaned dotnet
\* processes"): not so, Boogie goes on.
OrphansKilled == \A i \in Instances : pc[i] = "validate" => stray[i] = {}

\* While the handler waits for Boogie, what Boogie prints is read ("Capture
\* stdout/stderr in separate threads", execute_boogie): not so, there is no
\* such thread, and a full pipe stays full.
OutputCaptured ==
    \A i \in Instances :
        pc[i] = "wait" /\ pipe[i] = Cap /\ left[i] > 0 ~> pipe[i] < Cap \/ pc[i] # "wait"

\* Every invocation ends: with a reply, or with the panic on a body that is not
\* JSON.  Boogie's output must fit the pipe, which is
\* emptied only after wait().
RequestsAnswered == \A i \in Instances : pc[i] # "idle" ~> pc[i] = "idle"
=============================================================================
