------------------------ MODULE LambdaHandler_proofs ------------------------
(***************************************************************************)
(* The answers of the cloud handler, for any number of instances, requests *)
(* and files, with Redis, Boogie and the platform failing as they please.  *)
(*                                                                         *)
(* ReplyProvenance and VerdictsWereComputed speak of replies and of the    *)
(* cache; a reply copies the cache or the answer an instance holds, so the *)
(* invariant also says what an answer on its way is (Carried) and what a   *)
(* cache entry is (Cached).  NoStrayProcess is inductive on its own: what   *)
(* a request finds alive was there while the instance was idle, so one of  *)
(* its invocations was cut off, and only a process of the invocation under *)
(* way, or one left behind, starts another.                                *)
(***************************************************************************)
EXTENDS LambdaHandler, TLAPS

\* An answer that a Boogie run gave, or an execution error.
Grounded(a) == a \in ran \/ a.kind = "exec_error"

\* A request is being served by every instance that is not idle.
Serving == \A i \in Instances : pc[i] # "idle" => req[i] \in Requests

\* The answer an instance holds is about its request.
Carried ==
    \A i \in Instances : pc[i] \in {"kill", "cache_result"} =>
        /\ body[i] \in Answers
        /\ body[i].text = req[i].text /\ body[i].opts = req[i].opts
        /\ Grounded(body[i])

\* An entry is an answer about the file it is stored under.
Cached ==
    \A t \in Texts : cache[t] # None => cache[t].text = t /\ Grounded(cache[t])

\* What was replied was grounded.
Replied ==
    \A i \in Instances : reply[i] # None /\ reply[i].body # None =>
        Grounded(reply[i].body)

Inv ==
    /\ TypeOK
    /\ Serving /\ Carried /\ Cached /\ Replied
    /\ ReplyProvenance
    /\ NoStrayProcess

\* The parts that are about answers and not about processes.
AnswersInv == Serving /\ Carried /\ Cached /\ Replied /\ ReplyProvenance

----------------------------------------------------------------------------
\* The handler starts in the invariant: nothing is served, cached or replied.
LEMMA InitInv == Init => Inv
<1> SUFFICES ASSUME Init PROVE Inv
  OBVIOUS
<1> USE HandlerAssumption DEF Init
<1>1. TypeOK
  BY DEF TypeOK, Locations, Process
<1>2. AnswersInv
  BY DEF AnswersInv, Serving, Carried, Cached, Replied, ReplyProvenance
<1>3. NoStrayProcess
  BY DEF NoStrayProcess, Alive
<1> QED
  BY <1>1, <1>2, <1>3 DEF Inv, AnswersInv

\* The text, options and kind that make an answer of the instance's request.
LEMMA AnswerType ==
    ASSUME NEW i \in Instances, req[i] \in Requests, NEW kind \in Kinds
    PROVE  /\ Answer(i, kind) \in Answers
           /\ Answer(i, kind).text = req[i].text
           /\ Answer(i, kind).opts = req[i].opts
           /\ Answer(i, kind).kind = kind
BY DEF Answer, Answers, Requests

\* The four ways a step of the handler treats the instance's reply.
Refuses(i) == Reply(i, 400, None, FALSE) \/ Reply(i, 500, None, FALSE)
Recalls(i) == /\ pc[i] = "check_cache" /\ cache[req[i].text] # None
              /\ Reply(i, 200, cache[req[i].text], TRUE)
Answers200(i) == pc[i] = "cache_result" /\ Reply(i, 200, body[i], FALSE)

ReplyEffect(i) == reply' = reply \/ Refuses(i) \/ Recalls(i) \/ Answers200(i)

LEMMA Refusal ==
    ASSUME NEW i \in Instances
    PROVE  /\ Reply(i, 400, None, FALSE) => Refuses(i)
           /\ Reply(i, 500, None, FALSE) => Refuses(i)
BY Zenon DEF Refuses

\* A step of the handler serves a request and has one of these effects.
LEMMA HandleReplies ==
    ASSUME NEW i \in Instances, Serving, Handle(i)
    PROVE  req[i] \in Requests /\ ReplyEffect(i)
<1> USE DEF Goto, Serving
<1>1. CASE Validate(i)
  <2>1. req[i] \in Requests
    BY <1>1 DEF Validate
  <2>2. req[i].kind \in {"valid", "rejected", "malformed"}
    BY <2>1 DEF Requests
  <2>3. CASE req[i].kind = "valid"
    BY <1>1, <2>1, <2>3 DEF Validate, ReplyEffect
  <2>4. CASE req[i].kind = "rejected"
    <3>1. Refuses(i)
      <4>1. Reply(i, 400, None, FALSE)
        BY <1>1, <2>4 DEF Validate
      <4> QED
        BY <4>1, Refusal
    <3> QED
      BY <2>1, <3>1 DEF ReplyEffect
  <2>5. CASE req[i].kind = "malformed"
    BY <1>1, <2>1, <2>5 DEF Validate, ReplyEffect
  <2> QED
    BY <2>2, <2>3, <2>4, <2>5
<1>2. CASE CheckCache(i)
  <2>1. pc[i] = "check_cache"
    BY <1>2 DEF CheckCache
  <2>2. ReplyEffect(i)
    <3>1. reply' = reply \/ Recalls(i) \/ Reply(i, 500, None, FALSE)
      BY <1>2, Zenon DEF CheckCache, generate_hash, Recalls
    <3> QED
      BY <3>1, Refusal DEF ReplyEffect
  <2> QED
    BY <2>1, <2>2
<1>3. CASE Execute(i)
  <2>1. pc[i] = "execute" /\ (reply' = reply \/ Reply(i, 500, None, FALSE))
    BY <1>3, Zenon DEF Execute
  <2> QED
    BY <2>1, Refusal DEF ReplyEffect
<1>4. CASE Wait(i) \/ ReadOutput(i) \/ KillGroup(i)
  <2>1. pc[i] \in {"wait", "read", "kill"} /\ reply' = reply
    BY <1>4 DEF Wait, ReadOutput, KillGroup
  <2> QED
    BY <2>1 DEF ReplyEffect
<1>5. CASE CacheResult(i)
  <2>1. pc[i] = "cache_result" /\ (Answers200(i) \/ Reply(i, 500, None, FALSE))
    BY <1>5, Zenon DEF CacheResult, Answers200
  <2> QED
    BY <2>1, Refusal DEF ReplyEffect
<1> QED
  BY <1>1, <1>2, <1>3, <1>4, <1>5 DEF Handle

\* Each of the effects keeps what is known of replies.
LEMMA ReplyEffectKeeps ==
    ASSUME NEW i \in Instances, TypeOK, Carried, Cached, Replied, ReplyProvenance,
           req[i] \in Requests, ReplyEffect(i), ran \subseteq ran'
    PROVE  /\ reply' \in [Instances -> Replies \cup {None}]
           /\ Replied' /\ ReplyProvenance'
<1> DEFINE Sound(r) ==
       /\ r \in Replies
       /\ r.body # None => r.body \in ran \/ r.body.kind = "exec_error"
       /\ r.code = 200 => /\ r.body.text = r.req.text
                          /\ r.body.opts = r.req.opts \/ r.cached
<1>1. ASSUME NEW r, Sound(r), reply' = [reply EXCEPT ![i] = r]
      PROVE  /\ reply' \in [Instances -> Replies \cup {None}]
             /\ Replied' /\ ReplyProvenance'
  <2>1. reply' \in [Instances -> Replies \cup {None}]
    BY <1>1 DEF TypeOK
  <2>2. \A j \in Instances : reply'[j] = IF j = i THEN r ELSE reply[j]
    BY <1>1 DEF TypeOK
  <2>3. Replied'
    <3>1. r.body # None => r.body \in ran' \/ r.body.kind = "exec_error"
      BY <1>1
    <3>2. ASSUME NEW j \in Instances, reply'[j] # None, reply'[j].body # None
          PROVE  reply'[j].body \in ran' \/ reply'[j].body.kind = "exec_error"
      <4>1. CASE j = i
        BY <2>2, <3>1, <3>2, <4>1
      <4>2. CASE j # i
        BY <2>2, <3>2, <4>2 DEF Replied, Grounded
      <4> QED BY <4>1, <4>2
    <3> QED
      BY <3>2 DEF Replied, Grounded
  <2>4. ReplyProvenance'
    BY <1>1, <2>2 DEF ReplyProvenance
  <2> QED
    BY <2>1, <2>3, <2>4
<1>2. CASE reply' = reply
  BY <1>2 DEF TypeOK, Replied, ReplyProvenance, Grounded
<1>4. ASSUME pc[i] = "check_cache", cache[req[i].text] # None
      PROVE  Sound([req |-> req[i], code |-> 200, body |-> cache[req[i].text],
                    cached |-> TRUE])
  <2>1. req[i].text \in Texts
    BY DEF Requests
  <2> QED
    BY <1>4, <2>1 DEF Replies, Cached, Grounded, TypeOK
<1>5. ASSUME pc[i] = "cache_result"
      PROVE  Sound([req |-> req[i], code |-> 200, body |-> body[i], cached |-> FALSE])
  BY <1>5 DEF Replies, Carried, Grounded
<1>6. CASE Refuses(i)
  <2> DEFINE refusal(code) ==
           [req |-> req[i], code |-> code, body |-> None, cached |-> FALSE]
  <2>1. \A code \in {400, 500} : Sound(refusal(code))
    <3> SUFFICES ASSUME NEW code \in {400, 500}
                 PROVE  Sound(refusal(code))
      OBVIOUS
    <3>1. refusal(code) \in Replies
      BY DEF Replies
    <3> QED
      BY <3>1
  <2>2. \E code \in {400, 500} : reply' = [reply EXCEPT ![i] = refusal(code)]
    BY <1>6 DEF Refuses, Reply
  <2> HIDE DEF Sound, refusal
  <2>3. PICK code \in {400, 500} : reply' = [reply EXCEPT ![i] = refusal(code)]
    BY <2>2
  <2>4. Sound(refusal(code))
    BY <2>1
  <2> QED
    BY <1>1, <2>3, <2>4
<1> HIDE DEF Sound
<1>7. CASE Recalls(i)
  BY <1>1, <1>4, <1>7 DEF Recalls, Reply
<1>8. CASE Answers200(i)
  BY <1>1, <1>5, <1>8 DEF Answers200, Reply
<1> QED
  BY <1>2, <1>6, <1>7, <1>8 DEF ReplyEffect

----------------------------------------------------------------------------
\* Answers are recorded and never forgotten, and only Boogie's output adds one.
LEMMA RanGrows == [Next]_vars => ran \subseteq ran'
<1>1. ASSUME NEW i \in Instances, Handle(i)
      PROVE  ran \subseteq ran'
  <2>1. CASE Validate(i) \/ CheckCache(i) \/ Execute(i)
    BY <2>1 DEF Validate, CheckCache, Execute
  <2>2. CASE Wait(i) \/ ReadOutput(i) \/ KillGroup(i) \/ CacheResult(i)
    BY <2>2 DEF Wait, ReadOutput, KillGroup, CacheResult, Store
  <2> QED
    BY <1>1, <2>1, <2>2 DEF Handle
<1>2. ASSUME NEW i \in Instances, NEW r \in Sent, Receive(i, r)
      PROVE  ran \subseteq ran'
  BY <1>2 DEF Receive
<1>3. ASSUME NEW i \in Instances,
             \/ WaitFails(i) \/ Boogie(i) \/ BoogieStartsSolver(i) \/ SolverExits(i)
             \/ StrayMoves(i) \/ PlatformTimeout(i)
      PROVE  ran \subseteq ran'
  BY <1>3 DEF WaitFails, Boogie, BoogiePrints, BoogieStartsSolver, BoogieExits,
              SolverExits, StrayMoves, PlatformTimeout, procs
<1>4. ASSUME NEW x \in Texts, Expire(x)
      PROVE  ran \subseteq ran'
  BY <1>4 DEF Expire
<1>5. CASE UNCHANGED vars
  BY <1>5 DEF vars
<1> QED
  BY <1>1, <1>2, <1>3, <1>4, <1>5 DEF Next

\* Type correctness of every step.
LEMMA TypeStep ==
    ASSUME Inv, [Next]_vars
    PROVE  TypeOK'
<1>0. TypeOK /\ Serving /\ Carried /\ Cached /\ Replied /\ ReplyProvenance
  BY DEF Inv
<1> USE <1>0, HandlerAssumption DEF TypeOK, Goto, Locations, procs
<1>1. ASSUME NEW i \in Instances, NEW r \in Sent, Receive(i, r)
      PROVE  TypeOK'
  <2>1. stray' \in [Instances -> SUBSET {"boogie", "solver"}]
    <3>1. Survivors(i) \subseteq {"boogie", "solver"}
      BY DEF Survivors
    <3> QED
      BY <1>1, <3>1 DEF Receive, cleanup_processes
  <2>2. /\ boogie' \in [Instances -> Process] /\ solver' \in [Instances -> Process]
        /\ left' \in [Instances -> 0..MaxLines] /\ pipe' \in [Instances -> 0..Cap]
    BY <1>1 DEF Receive, cleanup_processes, Process
  <2>3. cut' \in [Instances -> {"never", "before", "now"}]
    BY <1>1 DEF Receive
  <2> QED
    BY <1>1, <2>1, <2>2, <2>3 DEF Receive
<1>2. ASSUME NEW i \in Instances, Handle(i)
      PROVE  TypeOK'
  <2>1. req[i] \in Requests /\ reply' \in [Instances -> Replies \cup {None}]
    BY <1>2, HandleReplies, ReplyEffectKeeps, RanGrows DEF Next
  <2>2. CASE Validate(i)
    <3>1. req[i].kind \in {"valid", "rejected", "malformed"}
      BY <2>1 DEF Requests
    <3>2. pc' \in [Instances -> Locations]
      <4>1. CASE req[i].kind = "valid"
        BY <2>2, <4>1 DEF Validate
      <4>2. CASE req[i].kind = "rejected"
        BY <2>2, <4>2 DEF Validate
      <4>3. CASE req[i].kind = "malformed"
        BY <2>2, <4>3 DEF Validate
      <4> QED BY <3>1, <4>1, <4>2, <4>3
    <3> QED
      BY <2>1, <2>2, <3>2 DEF Validate
  <2>3. CASE CheckCache(i)
    BY <2>1, <2>3 DEF CheckCache
  <2>4. CASE Execute(i)
    <3>1. SpawnFailure(i) \in Answers
      BY <2>1, AnswerType DEF SpawnFailure, Kinds
    <3>2. /\ pc' \in [Instances -> Locations]
          /\ boogie' \in [Instances -> Process] /\ solver' \in [Instances -> Process]
      BY <2>4 DEF Execute, Process
    <3>4. left' \in [Instances -> 0..MaxLines] /\ pipe' \in [Instances -> 0..Cap]
      <4>1. 0 \in 0..Cap
        OBVIOUS
      <4>2. CASE left' = left /\ pipe' = pipe
        BY <4>2
      <4>3. ASSUME NEW n \in 0..MaxLines, left' = [left EXCEPT ![i] = n],
                   pipe' = [pipe EXCEPT ![i] = 0]
            PROVE  left' \in [Instances -> 0..MaxLines] /\ pipe' \in [Instances -> 0..Cap]
        BY <4>1, <4>3
      <4> QED
        BY <2>4, <4>2, <4>3 DEF Execute
    <3>3. body' \in [Instances -> Answers \cup {None}]
      BY <2>4, <3>1 DEF Execute
    <3> QED
      BY <2>1, <2>4, <3>2, <3>3, <3>4 DEF Execute
  <2>5. CASE Wait(i)
    BY <2>5 DEF Wait
  <2>6. CASE ReadOutput(i)
    <3>1. \A kind \in Kinds : Answer(i, kind) \in Answers
      BY <2>1, AnswerType
    <3> QED
      BY <2>1, <2>6, <3>1 DEF ReadOutput
  <2>7. CASE KillGroup(i)
    BY <2>7 DEF KillGroup, Kill, Process
  <2>8. CASE CacheResult(i)
    <3>1. req[i].text \in Texts /\ body[i] \in Answers
      BY <2>1, <2>8 DEF CacheResult, Carried, Requests
    <3> QED
      BY <2>1, <2>8, <3>1 DEF CacheResult, Store, generate_hash
  <2> QED
    BY <1>2, <2>2, <2>3, <2>4, <2>5, <2>6, <2>7, <2>8 DEF Handle
<1>3. ASSUME NEW i \in Instances, WaitFails(i)
      PROVE  TypeOK'
  <2>1. SpawnFailure(i) \in Answers
    BY <1>3, AnswerType DEF WaitFails, SpawnFailure, Kinds, Serving
  <2> QED
    BY <1>3, <2>1 DEF WaitFails
<1>4. ASSUME NEW i \in Instances, Boogie(i) \/ BoogieStartsSolver(i) \/ SolverExits(i)
      PROVE  TypeOK'
  BY <1>4 DEF Boogie, BoogiePrints, BoogieExits, BoogieStartsSolver, SolverExits,
              Process, Alive
<1>8. ASSUME NEW i \in Instances, StrayMoves(i)
      PROVE  TypeOK'
  <2>1. PICK s \in SUBSET {"boogie", "solver"} : stray' = [stray EXCEPT ![i] = s]
    BY <1>8 DEF StrayMoves
  <2> QED
    BY <1>8, <2>1 DEF StrayMoves
<1>5. ASSUME NEW t \in Texts, Expire(t)
      PROVE  TypeOK'
  BY <1>5 DEF Expire
<1>6. ASSUME NEW i \in Instances, PlatformTimeout(i)
      PROVE  TypeOK'
  BY <1>6 DEF PlatformTimeout
<1>7. CASE UNCHANGED vars
  BY <1>7 DEF vars
<1> QED
  BY <1>1, <1>2, <1>3, <1>4, <1>5, <1>6, <1>7, <1>8 DEF Next

\* A step keeps what is known of requests, carried answers and the cache.
LEMMA AnswersStep ==
    ASSUME Inv, [Next]_vars
    PROVE  AnswersInv'
<1>0. TypeOK /\ Serving /\ Carried /\ Cached /\ Replied /\ ReplyProvenance
  BY DEF Inv
<1>a. ran \subseteq ran'
  BY RanGrows
<1>b. ASSUME reply' = reply
      PROVE  Replied' /\ ReplyProvenance'
  BY <1>0, <1>a, <1>b DEF Replied, ReplyProvenance, Grounded
<1> USE <1>0, <1>a, HandlerAssumption DEF Goto, procs
<1>1. ASSUME NEW i \in Instances, NEW r \in Sent, Receive(i, r)
      PROVE  AnswersInv'
  BY <1>1, <1>b DEF Receive, AnswersInv, Serving, Carried, Cached, Grounded, TypeOK
<1>2. ASSUME NEW i \in Instances, Handle(i)
      PROVE  AnswersInv'
  <2>1. req[i] \in Requests /\ ReplyEffect(i)
    BY <1>2, HandleReplies
  <2>2. Replied' /\ ReplyProvenance'
    BY <2>1, ReplyEffectKeeps
  <2>3. CASE Validate(i)
    <3>1. req[i].kind \in {"valid", "rejected", "malformed"}
      BY <2>1 DEF Requests
    <3>2. pc[i] = "validate" /\ \E l \in {"check_cache", "idle"} : pc' = [pc EXCEPT ![i] = l]
      <4>1. CASE req[i].kind = "valid"
        BY <2>3, <4>1 DEF Validate
      <4>2. CASE req[i].kind = "rejected"
        BY <2>3, <4>2 DEF Validate
      <4>3. CASE req[i].kind = "malformed"
        BY <2>3, <4>3 DEF Validate
      <4> QED BY <3>1, <4>1, <4>2, <4>3
    <3> QED
      BY <2>2, <2>3, <3>2
      DEF Validate, AnswersInv, Serving, Carried, Cached, Grounded, TypeOK
  <2>4. CASE CheckCache(i)
    <3>1. pc[i] = "check_cache" /\ \E l \in {"execute", "idle"} : pc' = [pc EXCEPT ![i] = l]
      BY <2>4 DEF CheckCache
    <3>2. UNCHANGED <<req, body, cache, ran>>
      BY <2>4 DEF CheckCache
    <3>3. pc \in [Instances -> Locations]
      BY DEF TypeOK
    <3>4. Serving'
      BY <2>1, <3>1, <3>2, <3>3 DEF Serving
    <3>5. Carried'
      BY <3>1, <3>2, <3>3 DEF Carried, Grounded
    <3>6. Cached'
      BY <3>2 DEF Cached, Grounded
    <3> QED
      BY <2>2, <3>4, <3>5, <3>6 DEF AnswersInv
  <2>8. CASE Wait(i) \/ KillGroup(i)
    <3>1. /\ UNCHANGED <<req, body, cache, ran>> /\ pc \in [Instances -> Locations]
          /\ \/ pc[i] = "wait" /\ pc' = [pc EXCEPT ![i] = "read"]
             \/ pc[i] = "kill" /\ pc' = [pc EXCEPT ![i] = "cache_result"]
      BY <2>8 DEF Wait, KillGroup, TypeOK
    <3>2. Serving'
      BY <2>1, <3>1 DEF Serving
    <3>3. Carried'
      BY <3>1 DEF Carried, Grounded
    <3>4. Cached'
      BY <3>1 DEF Cached, Grounded
    <3> QED
      BY <2>2, <3>2, <3>3, <3>4 DEF AnswersInv
  <2>5. CASE Execute(i)
    <3>1. /\ SpawnFailure(i) \in Answers /\ SpawnFailure(i).kind = "exec_error"
          /\ SpawnFailure(i).text = req[i].text /\ SpawnFailure(i).opts = req[i].opts
      BY <2>1, AnswerType DEF SpawnFailure, Kinds
    <3>2. Carried'
      <4>1. /\ UNCHANGED <<req, ran>> /\ pc \in [Instances -> Locations]
            /\ body \in [Instances -> Answers \cup {None}]
            /\ \/ pc' = [pc EXCEPT ![i] = "wait"] /\ body' = body
               \/ /\ pc' = [pc EXCEPT ![i] = "cache_result"]
                  /\ body' = [body EXCEPT ![i] = SpawnFailure(i)]
               \/ pc' = [pc EXCEPT ![i] = "idle"] /\ body' = body
        BY <2>5 DEF Execute, TypeOK
      <4> QED
        BY <3>1, <4>1 DEF Carried, Grounded
    <3>3. /\ UNCHANGED <<req, cache, ran>> /\ pc[i] = "execute"
          /\ \E l \in {"wait", "cache_result", "idle"} : pc' = [pc EXCEPT ![i] = l]
      BY <2>5 DEF Execute
    <3>4. pc \in [Instances -> Locations]
      BY DEF TypeOK
    <3>5. Serving'
      BY <2>1, <3>3, <3>4 DEF Serving
    <3>6. Cached'
      BY <3>3 DEF Cached, Grounded
    <3> QED
      BY <2>2, <3>2, <3>5, <3>6 DEF AnswersInv
  <2>6. CASE ReadOutput(i)
    <3>1. PICK kind \in Kinds : /\ body' = [body EXCEPT ![i] = Answer(i, kind)]
                                /\ ran' = ran \cup {Answer(i, kind)}
      BY <2>6 DEF ReadOutput
    <3>2. /\ Answer(i, kind) \in Answers
          /\ Answer(i, kind).text = req[i].text /\ Answer(i, kind).opts = req[i].opts
      BY <2>1, AnswerType
    <3>3. Carried'
      BY <2>6, <3>1, <3>2 DEF ReadOutput, Carried, Grounded, TypeOK
    <3> QED
      BY <2>2, <2>6, <3>3 DEF ReadOutput, AnswersInv, Serving, Cached, Grounded, TypeOK
  <2>7. CASE CacheResult(i)
    <3>1. /\ req[i].text \in Texts /\ body[i] \in Answers
          /\ body[i].text = req[i].text /\ Grounded(body[i])
      BY <2>1, <2>7 DEF CacheResult, Carried, Requests
    <3>2. Cached'
      BY <2>7, <3>1 DEF CacheResult, Store, generate_hash, Cached, Grounded, TypeOK
    <3> QED
      BY <2>2, <2>7, <3>2
      DEF CacheResult, Store, AnswersInv, Serving, Carried, Grounded, TypeOK
  <2> QED
    BY <1>2, <2>3, <2>4, <2>5, <2>6, <2>7, <2>8 DEF Handle
<1>3. ASSUME NEW i \in Instances, WaitFails(i)
      PROVE  AnswersInv'
  <2>1. req[i] \in Requests
    BY <1>3 DEF WaitFails, Serving
  <2>2. /\ SpawnFailure(i) \in Answers /\ SpawnFailure(i).kind = "exec_error"
        /\ SpawnFailure(i).text = req[i].text /\ SpawnFailure(i).opts = req[i].opts
    BY <2>1, AnswerType DEF SpawnFailure, Kinds
  <2>3. Carried'
    BY <1>3, <2>2 DEF WaitFails, Carried, Grounded, TypeOK
  <2> QED
    BY <1>3, <1>b, <2>3 DEF WaitFails, AnswersInv, Serving, Cached, Grounded, TypeOK
<1>4. ASSUME NEW i \in Instances, Boogie(i) \/ BoogieStartsSolver(i) \/ SolverExits(i)
      PROVE  AnswersInv'
  BY <1>4, <1>b DEF Boogie, BoogiePrints, BoogieExits, BoogieStartsSolver, SolverExits,
                    AnswersInv, Serving, Carried, Cached, Grounded
<1>8. ASSUME NEW i \in Instances, StrayMoves(i)
      PROVE  AnswersInv'
  BY <1>8, <1>b DEF StrayMoves, AnswersInv, Serving, Carried, Cached, Grounded
<1>5. ASSUME NEW t \in Texts, Expire(t)
      PROVE  AnswersInv'
  BY <1>5, <1>b DEF Expire, AnswersInv, Serving, Carried, Cached, Grounded, TypeOK
<1>6. ASSUME NEW i \in Instances, PlatformTimeout(i)
      PROVE  AnswersInv'
  BY <1>6, <1>b DEF PlatformTimeout, AnswersInv, Serving, Carried, Cached, Grounded, TypeOK
<1>7. CASE UNCHANGED vars
  BY <1>7, <1>b DEF vars, AnswersInv, Serving, Carried, Cached, Grounded
<1> QED
  BY <1>1, <1>2, <1>3, <1>4, <1>5, <1>6, <1>7, <1>8 DEF Next

\* A step leaves no process alive where none may be: the handler comes to
\* these points by killing, and nothing starts a solver without Boogie.
LEMMA ProcessStep ==
    ASSUME Inv, [Next]_vars
    PROVE  NoStrayProcess'
<1>0. TypeOK /\ Serving /\ Carried /\ NoStrayProcess
  BY DEF Inv
<1> USE <1>0, HandlerAssumption DEF Goto, procs, Alive, TypeOK, NoStrayProcess
<1>1. ASSUME NEW i \in Instances, NEW r \in Sent, Receive(i, r)
      PROVE  NoStrayProcess'
  <2>1. pc[i] = "idle" /\ (cut'[i] = "never" => Survivors(i) = {})
    BY <1>1 DEF Receive, Survivors
  <2>2. stray'[i] \subseteq Survivors(i)
    BY <1>1 DEF Receive, cleanup_processes
  <2>3. boogie'[i] \notin Alive /\ solver'[i] \notin Alive
    BY <1>1 DEF Receive, cleanup_processes
  <2>4. \A j \in Instances \ {i} :
           /\ pc'[j] = pc[j] /\ cut'[j] = cut[j] /\ stray'[j] = stray[j]
           /\ boogie'[j] = boogie[j] /\ solver'[j] = solver[j]
    BY <1>1 DEF Receive, cleanup_processes
  <2> QED
    BY <2>1, <2>2, <2>3, <2>4
<1>2. ASSUME NEW i \in Instances, Handle(i)
      PROVE  NoStrayProcess'
  <2>1. req[i] \in Requests
    BY <1>2, HandleReplies
  <2>2. CASE Validate(i)
    <3>1. req[i].kind \in {"valid", "rejected", "malformed"}
      BY <2>1 DEF Requests
    <3>2. pc[i] = "validate" /\ \E l \in {"check_cache", "idle"} : pc' = [pc EXCEPT ![i] = l]
      <4>1. CASE req[i].kind = "valid"
        BY <2>2, <4>1 DEF Validate
      <4>2. CASE req[i].kind = "rejected"
        BY <2>2, <4>2 DEF Validate
      <4>3. CASE req[i].kind = "malformed"
        BY <2>2, <4>3 DEF Validate
      <4> QED BY <3>1, <4>1, <4>2, <4>3
    <3>3. UNCHANGED procs
      BY <2>2 DEF Validate
    <3> QED
      BY <3>2, <3>3
  <2>3. CASE CheckCache(i)
    <3>1. /\ pc[i] = "check_cache" /\ UNCHANGED procs
          /\ \E l \in {"execute", "idle"} : pc' = [pc EXCEPT ![i] = l]
      BY <2>3 DEF CheckCache
    <3> QED
      BY <3>1
  <2>4. CASE Execute(i)
    <3>1. pc[i] = "execute" /\ UNCHANGED <<stray, cut>>
      BY <2>4 DEF Execute
    <3>2. \/ /\ pc' = [pc EXCEPT ![i] = "wait"]
             /\ \A j \in Instances \ {i} : boogie'[j] = boogie[j] /\ solver'[j] = solver[j]
          \/ /\ \E l \in {"cache_result", "idle"} : pc' = [pc EXCEPT ![i] = l]
             /\ UNCHANGED <<boogie, solver>>
      BY <2>4 DEF Execute
    <3> QED
      BY <3>1, <3>2
  <2>5. CASE Wait(i)
    BY <2>5 DEF Wait
  <2>6. CASE ReadOutput(i)
    BY <2>6 DEF ReadOutput
  <2>7. CASE KillGroup(i)
    BY <2>7 DEF KillGroup, Kill
  <2>8. CASE CacheResult(i)
    BY <2>8 DEF CacheResult, Store
  <2> QED
    BY <1>2, <2>2, <2>3, <2>4, <2>5, <2>6, <2>7, <2>8 DEF Handle
<1>3. ASSUME NEW i \in Instances, WaitFails(i)
      PROVE  NoStrayProcess'
  BY <1>3 DEF WaitFails
<1>4. ASSUME NEW i \in Instances, Boogie(i) \/ BoogieStartsSolver(i) \/ SolverExits(i)
      PROVE  NoStrayProcess'
  BY <1>4 DEF Boogie, BoogiePrints, BoogieExits, BoogieStartsSolver, SolverExits
<1>8. ASSUME NEW i \in Instances, StrayMoves(i)
      PROVE  NoStrayProcess'
  <2>1. cut[i] # "never"
    BY <1>8 DEF StrayMoves
  <2>2. /\ UNCHANGED <<pc, boogie, solver, cut>>
        /\ \A j \in Instances \ {i} : stray'[j] = stray[j]
    BY <1>8 DEF StrayMoves
  <2> QED
    BY <2>1, <2>2
<1>5. ASSUME NEW t \in Texts, Expire(t)
      PROVE  NoStrayProcess'
  BY <1>5 DEF Expire
<1>6. ASSUME NEW i \in Instances, PlatformTimeout(i)
      PROVE  NoStrayProcess'
  BY <1>6 DEF PlatformTimeout
<1>7. CASE UNCHANGED vars
  BY <1>7 DEF vars
<1> QED
  BY <1>1, <1>2, <1>3, <1>4, <1>5, <1>6, <1>7, <1>8 DEF Next

----------------------------------------------------------------------------
\* The invariant holds throughout.
LEMMA Invariance == Spec => []Inv
<1>1. Inv /\ [Next]_vars => Inv'
  BY TypeStep, AnswersStep, ProcessStep DEF Inv, AnswersInv
<1> QED
  BY InitInv, <1>1, PTL DEF Spec

\* The handler's state is well formed (handler, process, execute_boogie).
THEOREM TypeCorrect == Spec => []TypeOK
BY Invariance, PTL DEF Inv

\* Every 200 reply is about the file of the request, and only the cache gives
\* an answer computed under other options (process: check_cache, cache_result).
THEOREM RepliesAreAboutTheRequest == Spec => []ReplyProvenance
BY Invariance, PTL DEF Inv

\* A verdict in Redis or in a reply was computed by a run of Boogie; only an
\* execution error is an answer without one (process, execute_boogie).
THEOREM VerdictsAreComputed == Spec => []VerdictsWereComputed
<1>1. Inv => VerdictsWereComputed
  BY DEF Inv, Cached, Replied, Grounded, VerdictsWereComputed
<1> QED
  BY Invariance, <1>1, PTL

\* Only an invocation that the platform cut off, or whose wait() failed, leaves
\* a process behind: killpg reaches Boogie and the solver it started, on the way
\* to every other reply (execute_boogie).  Nothing is said of what a later
\* cleanup_processes does about such a process.
THEOREM NoProcessIsLeftBehind == Spec => []NoStrayProcess
BY Invariance, PTL DEF Inv
=============================================================================
