---------------------------- MODULE ClientProofs ----------------------------
(***************************************************************************)
(* Proofs about Client, for any number of goroutines, processes, logins    *)
(* and configurations, and any number of crashes.                          *)
(***************************************************************************)
EXTENDS Client, SequenceTheorems, TLAPS

-----------------------------------------------------------------------------
(* The inductive invariant.                                                *)

StepName == {"login", "stop_socket", "start_socket", "set", "stop", "clear_secrets", "clear_conf",
             "drop", "fetch", "leave", "forget", "inject", "apply", "wait", "quit"}
Pc == {"idle", "stop", "secrets", "verify", "replace", "run", "await", "hang", "start", "mark",
       "commit", "rollback", "failed", "unrestored"}
By == Thread \cup {NoThread}

\* What is found where a configuration is kept: one that was fetched, or only the session of a
\* login that has not fetched one yet.
Kept == Config \cup {[NoConfig EXCEPT !.ses = s] : s \in 0..MaxSession}

Call == [steps : Seq(StepName), cfg : Kept, socket : BOOLEAN]
Operation == [cfg : Kept, by : By]
Worker == [pc : Pc, cfg : Kept, old : Kept, by : By, pid : Pid \cup {NoPid},
           undo : {"no", "yes", "error"}]
Disk == [secrets : 0..MaxSession, conf : Kept, pid : Pid \cup {NoPid}]
State == {"none", "up", "killed", "exited", "noticed"}

\* The full types.
Typed ==
    /\ server \in [ses : 0..MaxSession, valid : BOOLEAN] /\ me \in 0..MaxSession
    /\ sock \in [st : {"off", "dial", "open"}, ses : 0..MaxSession]
    /\ call \in [Thread -> Call] /\ queue \in Seq(Operation) /\ w \in Worker
    /\ last \in Kept /\ handle \in Pid \cup {NoPid} /\ disk \in Disk
    /\ proc \in [Pid -> State] /\ waiter \in [Pid -> {"wait", "remove", "clear"}]
    /\ loaded \in [Pid -> Kept] /\ unmarked \subseteq Pid /\ lost \subseteq Pid /\ on \in BOOLEAN

\* Credentials are injected right after the fetch, into what was fetched.
Plain(s) == s \in Seq(StepName) /\ \A i \in DOMAIN s : s[i] # "inject"
CallOK(c) ==
    /\ c \in Call
    /\ \A i \in DOMAIN c.steps :
          c.steps[i] = "inject" => i = 1 /\ Len(c.steps) > 1 /\ c.cfg \in Config
Injected == \A t \in Thread : CallOK(call[t])

\* Enqueue: an operation somebody waits for is the only one of its caller, and the caller is
\* where its result can be delivered.
Waited ==
    /\ \A i \in DOMAIN queue : queue[i].by \in Thread =>
          /\ At(queue[i].by, "wait") /\ w.by # queue[i].by
          /\ \A j \in DOMAIN queue : queue[j].by = queue[i].by => j = i
    /\ w.by \in Thread => At(w.by, "wait")

\* A Client that does not run has no calls, no operations and no process of its own.
Off == ~on => /\ w.pc = "idle" /\ handle = NoPid /\ queue = <<>>
              /\ \A t \in Thread : call[t].steps = <<>>

\* The Supervisor has the handle of a process, or starts or stops one, never both; a waiter is at
\* work only when its process has exited, and not before restart has written the marker.
Handled ==
    /\ handle # NoPid => proc[handle] # "none" /\ handle \notin lost
    /\ \A p \in lost : proc[p] = "up"
    /\ w.pc \in {"start", "mark", "await", "hang"} => handle = NoPid
    /\ w.pid # NoPid <=> w.pc \in {"mark", "await", "hang"}
    /\ w.pid \notin lost
    /\ w.pc = "mark" => waiter[w.pid] = "wait" /\ proc[w.pid] # "none"
    /\ w.pc = "hang" => proc[w.pid] # "up"
    /\ \A p \in Pid : waiter[p] # "wait" => proc[p] \in {"exited", "noticed"}
    /\ ~on => \A p \in Pid : proc[p] \in {"none", "up"}

\* The rollback: from the moment the old file is back in place until the operation ends.
Undone ==
    /\ w.undo # "no" => w.pc \in {"run", "await", "start", "mark", "hang", "failed", "unrestored"}
    /\ w.undo = "yes" => disk.conf \in {w.old, NoConfig}
    /\ w.undo = "yes" /\ w.pc \notin {"run", "unrestored"} =>
          \A p \in Pid : proc[p] = "up" /\ (p = handle \/ (w.pc = "mark" /\ p = w.pid)) =>
             loaded[p] \in {w.old, NoConfig}

CallsInv == Typed /\ Injected /\ Waited /\ Off
ProcessInv == Handled /\ OneFrpc /\ Marked /\ Undone
ClientInv == CallsInv /\ ProcessInv

USE DEF procs, State

-----------------------------------------------------------------------------
(* Steps and configurations.                                               *)

LEMMA KeptFields ==
    /\ NoConfig \in Kept
    /\ \A s \in 0..MaxSession : [NoConfig EXCEPT !.ses = s] \in Kept
    /\ \A s \in 0..MaxSession, v \in Version : [NoConfig EXCEPT !.ses = s, !.ver = v] \in Config
    /\ \A c \in Config, s \in 0..MaxSession : [c EXCEPT !.cred = s] \in Config
    /\ \A c \in Kept : c.ses \in 0..MaxSession /\ c.cred \in 0..MaxSession
<1>1. 0 \in 0..MaxSession
  BY SessionAssumption
<1>2. \A s : [NoConfig EXCEPT !.ses = s] = [ses |-> s, cred |-> 0, ver |-> 0]
  BY DEF NoConfig, NoSession
<1>3. NoConfig = [NoConfig EXCEPT !.ses = 0]
  BY DEF NoConfig, NoSession
<1> QED  BY <1>1, <1>2, <1>3 DEF Kept, Config, NoConfig, NoSession

LEMMA TailNonempty == ASSUME NEW S, NEW s \in Seq(S), Len(s) > 1 PROVE Tail(s) # <<>>
<1>1. 1 \in DOMAIN Tail(s)
  OBVIOUS
<1>2. DOMAIN <<>> = {}
  OBVIOUS
<1> QED  BY <1>1, <1>2, Zenon

LEMMA PlainTail ==
    ASSUME NEW c, CallOK(c), c.steps # <<>>
    PROVE  Plain(Tail(c.steps))
<1>1. c.steps \in Seq(StepName)
  BY DEF CallOK, Call
<1>2. /\ Tail(c.steps) \in Seq(StepName)
      /\ \A i \in DOMAIN Tail(c.steps) : i + 1 \in DOMAIN c.steps /\ i # 0
                                         /\ Tail(c.steps)[i] = c.steps[i + 1]
  BY <1>1
<1>3. \A i \in DOMAIN Tail(c.steps) : i \in Int
  BY <1>2
<1> QED  BY <1>2, <1>3 DEF CallOK, Plain

LEMMA PlainRest ==
    ASSUME NEW c, CallOK(c), NEW n \in Nat \ {0}
    PROVE  Plain(SubSeq(c.steps, n + 1, Len(c.steps)))
<1> DEFINE s == c.steps
           r == SubSeq(s, n + 1, Len(s))
<1>1. s \in Seq(StepName) /\ Len(s) \in Nat
  BY DEF CallOK, Call
<1>2. \A i \in n + 1..Len(s) : i \in DOMAIN s /\ s[i] \in StepName /\ i # 1
  BY <1>1
<1>3. /\ r \in Seq(StepName) /\ Len(r) = (IF n + 1 <= Len(s) THEN Len(s) - (n + 1) + 1 ELSE 0)
      /\ \A i \in 1..Len(s) - (n + 1) + 1 : r[i] = s[n + 1 + i - 1]
  BY <1>1, <1>2, SubSeqProperties
<1> HIDE DEF r
<1>4. ASSUME NEW i \in DOMAIN r PROVE r[i] # "inject"
  <2>1. i \in 1..Len(s) - (n + 1) + 1
    BY <1>1, <1>3
  <2>2. r[i] = s[n + 1 + i - 1]
    BY <1>3, <2>1
  <2>3. n + 1 + i - 1 \in n + 1..Len(s)
    BY <1>1, <2>1
  <2> QED  BY <1>2, <2>2, <2>3 DEF CallOK
<1> QED  BY <1>3, <1>4 DEF Plain, r

LEMMA PlainConcat ==
    ASSUME NEW s, NEW r, Plain(s), Plain(r)
    PROVE  Plain(s \o r)
<1>1. s \o r \in Seq(StepName)
  BY DEF Plain
<1>2. \A i \in DOMAIN (s \o r) : (s \o r)[i] # "inject"
  <2> SUFFICES ASSUME NEW i \in 1..Len(s) + Len(r) PROVE (s \o r)[i] # "inject"
    BY DEF Plain
  <2>1. s \in Seq(StepName) /\ r \in Seq(StepName)
    BY DEF Plain
  <2>2. CASE i <= Len(s)
    BY <2>1, <2>2 DEF Plain
  <2>3. CASE i > Len(s)
    <3>1. (s \o r)[i] = r[i - Len(s)] /\ i - Len(s) \in DOMAIN r
      BY <2>1, <2>3
    <3> QED  BY <3>1 DEF Plain
  <2> QED  BY <2>1, <2>2, <2>3
<1> QED  BY <1>1, <1>2 DEF Plain

LEMMA PlainCalls ==
    /\ Plain(Login(TRUE)) /\ Plain(Login(FALSE)) /\ Plain(Logout) /\ Plain(Invalidate)
    /\ Plain(Sync) /\ Plain(Shutdown) /\ Plain(Terminate) /\ Plain(<<"apply">>)
<1>1. /\ Plain(<<"login", "stop_socket", "set">>) /\ Plain(<<"quit">>)
      /\ Plain(<<"stop">>) /\ Plain(Clear) /\ Plain(<<>>)
      /\ Plain(<<"fetch", "start_socket">>) /\ Plain(<<"stop_socket", "leave", "stop">>)
      /\ Plain(<<"forget">>) /\ Plain(<<"stop_socket", "stop">>) /\ Plain(Sync)
      /\ Plain(<<"apply">>)
  BY DEF Plain, Clear, Sync, StepName
<1>2. Plain(<<"stop">> \o Clear)
  BY <1>1, PlainConcat
<1>3. /\ Plain(<<"login", "stop_socket", "set">> \o (<<"stop">> \o Clear))
      /\ Plain(<<"login", "stop_socket", "set">> \o <<>>)
      /\ Plain(<<"stop_socket", "leave", "stop">> \o Clear)
      /\ Plain(<<"stop_socket", "stop">> \o Clear)
  BY <1>1, <1>2, PlainConcat
<1>4. Plain(Login(TRUE)) /\ Plain(Login(FALSE)) /\ Plain(Logout) /\ Plain(Invalidate)
  BY <1>1, <1>3, PlainConcat DEF Login, Logout, Invalidate
<1>5. Plain(Terminate)
  BY <1>1, <1>4, PlainConcat DEF Terminate
<1> QED  BY <1>1, <1>2, <1>4, <1>5 DEF Shutdown

LEMMA PlainCall ==
    ASSUME NEW c, CallOK(c), NEW s, Plain(s), NEW b \in BOOLEAN
    PROVE  /\ CallOK([c EXCEPT !.steps = s]) /\ CallOK([c EXCEPT !.steps = s, !.socket = b])
           /\ [c EXCEPT !.steps = s].steps = s /\ [c EXCEPT !.steps = s].cfg = c.cfg
BY DEF CallOK, Call, Plain

LEMMA NoCallOK == CallOK(NoCall) /\ NoCall.steps = <<>>
<1>1. <<>> \in Seq(StepName)
  OBVIOUS
<1>2. NoCall \in Call
  BY <1>1, KeptFields DEF NoCall, Call
<1> QED  BY <1>2 DEF CallOK, NoCall

LEMMA StepsOK ==
    ASSUME CallsInv, NEW t \in Thread, NEW s, Plain(s)
    PROVE  /\ Steps(t, s) \in [Thread -> Call] /\ \A u \in Thread : CallOK(Steps(t, s)[u])
           /\ \A u \in Thread : u # t => Steps(t, s)[u] = call[u]
<1>1. CallOK(IF s = <<>> THEN NoCall ELSE [call[t] EXCEPT !.steps = s])
  BY NoCallOK, PlainCall DEF CallsInv, Injected
<1>2. call \in [Thread -> Call] /\ \A u \in Thread : CallOK(call[u])
  BY DEF CallsInv, Typed, Injected
<1> QED  BY <1>1, <1>2 DEF Steps, CallOK

LEMMA SteppedOK ==
    ASSUME CallsInv, NEW t \in Thread, call[t].steps # <<>>
    PROVE  /\ Stepped(t) \in [Thread -> Call] /\ \A u \in Thread : CallOK(Stepped(t)[u])
           /\ \A u \in Thread : u # t => Stepped(t)[u] = call[u]
           /\ Plain(Stepped(t)[t].steps)
<1>1. Plain(Tail(call[t].steps)) /\ CallOK(call[t])
  BY PlainTail DEF CallsInv, Injected
<1>2. Plain(Stepped(t)[t].steps)
  <2>1. Stepped(t)[t] = IF Tail(call[t].steps) = <<>> THEN NoCall
                        ELSE [call[t] EXCEPT !.steps = Tail(call[t].steps)]
    BY DEF Stepped, Steps, CallsInv, Typed
  <2>2. CASE Tail(call[t].steps) = <<>>
    BY <1>1, <2>1, <2>2, NoCallOK
  <2>3. CASE Tail(call[t].steps) # <<>>
    BY <1>1, <2>1, <2>3 DEF CallOK, Call
  <2> QED  BY <2>2, <2>3
<1> QED  BY <1>1, <1>2, StepsOK DEF Stepped

\* A goroutine that is not waiting takes a step, and the queue is left alone.
LEMMA CallStep ==
    ASSUME CallsInv, NEW t \in Thread, on, ~At(t, "wait"), call' \in [Thread -> Call],
           \A u \in Thread : CallOK(call'[u]),
           \A u \in Thread : u # t => call'[u].steps = call[u].steps,
           UNCHANGED <<queue, w, on>>
    PROVE  call' \in [Thread -> Call] /\ Injected' /\ Waited' /\ Off'
<1>1. \A u \in Thread : At(u, "wait") => At(u, "wait")'
  BY DEF At
<1>2. Waited'
  BY <1>1 DEF CallsInv, Waited
<1> QED  BY <1>2 DEF Injected, Off

\* A new call of a goroutine that has none.
LEMMA NewCall ==
    ASSUME CallsInv, NEW t \in Thread, Free(t), NEW c, CallOK(c),
           call' = [call EXCEPT ![t] = c], UNCHANGED <<queue, w, on>>
    PROVE  call' \in [Thread -> Call] /\ Injected' /\ Waited' /\ Off'
<1>1. ~At(t, "wait") /\ on
  BY DEF Free, At
<1>2. call' \in [Thread -> Call] /\ \A u \in Thread : CallOK(call'[u])
  BY DEF CallsInv, Typed, Injected, CallOK
<1>3. \A u \in Thread : u # t => call'[u].steps = call[u].steps
  BY DEF CallsInv, Typed
<1> QED  BY <1>1, <1>2, <1>3, CallStep

LEMMA AtOn ==
    ASSUME CallsInv, NEW t \in Thread, NEW s, At(t, s)
    PROVE  on /\ call[t].steps # <<>> /\ (s # "wait" => ~At(t, "wait"))
BY DEF CallsInv, Off, At

\* A step of a call that is done and leaves the queue alone.
LEMMA StepDone ==
    ASSUME CallsInv, NEW t \in Thread, NEW s, s # "wait", At(t, s),
           call' = Stepped(t) \/ call' = Released(Stepped(t)), UNCHANGED <<queue, w, on>>
    PROVE  call' \in [Thread -> Call] /\ Injected' /\ Waited' /\ Off'
<1>1. on /\ call[t].steps # <<>> /\ ~At(t, "wait")
  BY AtOn
<1>2. /\ Stepped(t) \in [Thread -> Call] /\ \A u \in Thread : CallOK(Stepped(t)[u])
      /\ \A u \in Thread : u # t => Stepped(t)[u] = call[u]
  BY <1>1, SteppedOK
<1>3. CASE call' = Stepped(t)
  BY <1>1, <1>2, <1>3, CallStep
<1>4. CASE call' = Released(Stepped(t))
  <2>1. ASSUME NEW c, CallOK(c)
        PROVE  CallOK([c EXCEPT !.socket = FALSE]) /\ [c EXCEPT !.socket = FALSE].steps = c.steps
    BY <2>1 DEF CallOK, Call
  <2>2. call' = [u \in Thread |-> [Stepped(t)[u] EXCEPT !.socket = FALSE]]
    BY <1>4 DEF Released
  <2>3. \A u \in Thread : CallOK(call'[u]) /\ call'[u].steps = Stepped(t)[u].steps
    BY <1>2, <2>1, <2>2
  <2>4. call' \in [Thread -> Call]
    BY <2>2, <2>3 DEF CallOK
  <2> QED  BY <1>1, <1>2, <2>3, <2>4, CallStep
<1> QED  BY <1>3, <1>4

-----------------------------------------------------------------------------
(* Types and calls, one lemma for each group of actions.                   *)

\* Requests, notifications and the socket's goroutine.
LEMMA AskCalls ==
    ASSUME CallsInv, Ask \/ (\E t \in Thread : Dial(t) \/ Heartbeat(t)) \/ Disconnect
    PROVE  CallsInv'
<1>2. ASSUME NEW t \in Thread, NEW c, CallOK(c), Free(t), call' = [call EXCEPT ![t] = c],
             UNCHANGED <<server, me, sock, sup, os, on>>
      PROVE  CallsInv'
  <2>1. call' \in [Thread -> Call] /\ Injected' /\ Waited' /\ Off'
    BY <1>2, NewCall DEF sup
  <2> QED  BY <1>2, <2>1 DEF sup, os, CallsInv, Typed
<1>3. \A s \in {Logout, Sync, Invalidate, Shutdown, Terminate, Login(TRUE), Login(FALSE)} :
         /\ CallOK([NoCall EXCEPT !.steps = s])
         /\ CallOK([NoCall EXCEPT !.steps = s, !.socket = TRUE])
  BY NoCallOK, PlainCalls, PlainCall
<1>1. ASSUME NEW t \in Thread, StartLogin(t) PROVE CallsInv'
  <2>1. Login(me # NoSession) \in {Login(TRUE), Login(FALSE)}
    <3>1. (me # NoSession) \in BOOLEAN
      OBVIOUS
    <3> QED  BY <3>1
  <2> QED  BY <1>1, <1>2, <1>3, <2>1 DEF StartLogin
<1>4. ASSUME NEW t \in Thread, NEW s \in {Logout, Sync}, StartCall(t, s) PROVE CallsInv'
  BY <1>2, <1>3, <1>4 DEF StartCall
<1>11. ASSUME NEW t \in Thread, StartTerminate(t) PROVE CallsInv'
  BY <1>2, <1>3, <1>11 DEF StartTerminate
<1>5. ASSUME NEW t \in Thread, NEW s \in {Invalidate, Sync, Shutdown}, Receive(t, s)
      PROVE  CallsInv'
  BY <1>2, <1>3, <1>5 DEF Receive
<1>6. ASSUME NEW t \in Thread, Heartbeat(t) PROVE CallsInv'
  BY <1>2, <1>3, <1>6 DEF Heartbeat
<1>7. ASSUME UNCHANGED <<server, me, call, sup, os, on>>,
             sock' \in [st : {"off", "dial", "open"}, ses : 0..MaxSession]
      PROVE  CallsInv'
  BY <1>7 DEF sup, os, CallsInv, Typed, Injected, Waited, At, Off
<1>8. \A st \in {"off", "dial", "open"} :
         Socket(st) \in [st : {"off", "dial", "open"}, ses : 0..MaxSession]
  BY SessionAssumption DEF Socket, NoSession
<1>9. ASSUME NEW t \in Thread, Dial(t) PROVE CallsInv'
  <2>1. CASE UNCHANGED call
    <3>1. sock' \in {sock, Socket("off"), [st |-> "open", ses |-> me]}
      BY <1>9 DEF Dial
    <3>2. sock' \in [st : {"off", "dial", "open"}, ses : 0..MaxSession]
      BY <1>8, <3>1 DEF CallsInv, Typed
    <3> QED  BY <1>7, <1>9, <2>1, <3>2 DEF Dial
  <2>2. CASE call' = [call EXCEPT ![t] = [NoCall EXCEPT !.steps = Invalidate, !.socket = TRUE]]
             /\ UNCHANGED sock
    BY <1>2, <1>3, <1>9, <2>2 DEF Dial
  <2> QED  BY <1>9, <2>1, <2>2 DEF Dial
<1>10. CASE Disconnect
  BY <1>7, <1>8, <1>10 DEF Disconnect
<1> QED  BY <1>1, <1>4, <1>5, <1>6, <1>9, <1>10, <1>11 DEF Ask

\* The Server's answer to a login, or none.
LEMMA LoginCalls ==
    ASSUME CallsInv, NEW t \in Thread, LoginAnswer(t)
    PROVE  CallsInv'
<1>1. on /\ call[t].steps # <<>> /\ ~At(t, "wait")
  BY AtOn DEF LoginAnswer
<1>2. server' \in [ses : 0..MaxSession, valid : BOOLEAN]
  <2>1. server \in [ses : 0..MaxSession, valid : BOOLEAN]
    BY DEF CallsInv, Typed
  <2>2. server.ses < MaxSession => server.ses + 1 \in 0..MaxSession
    BY <2>1, SessionAssumption
  <2>3. server' = server \/ (server.ses < MaxSession /\ server' = [ses |-> server.ses + 1, valid |-> TRUE])
    BY DEF LoginAnswer
  <2>4. CASE server' = server
    BY <2>1, <2>4
  <2>5. CASE server.ses < MaxSession /\ server' = [ses |-> server.ses + 1, valid |-> TRUE]
    BY <2>2, <2>5
  <2> QED  BY <2>3, <2>4, <2>5
<1>3. /\ Stepped(t) \in [Thread -> Call] /\ \A u \in Thread : CallOK(Stepped(t)[u])
      /\ \A u \in Thread : u # t => Stepped(t)[u] = call[u]
      /\ Plain(Stepped(t)[t].steps)
  BY <1>1, SteppedOK
<1> SUFFICES /\ call' \in [Thread -> Call] /\ \A u \in Thread : CallOK(call'[u])
             /\ \A u \in Thread : u # t => call'[u].steps = call[u].steps
  <2> SUFFICES call' \in [Thread -> Call] /\ Injected' /\ Waited' /\ Off'
    BY <1>2 DEF LoginAnswer, sup, os, CallsInv, Typed
  <2> QED  BY <1>1, CallStep DEF LoginAnswer, sup
<1>4. CASE call' = [Stepped(t) EXCEPT ![t].cfg = [NoConfig EXCEPT !.ses = server'.ses]]
  <2> DEFINE g == [NoConfig EXCEPT !.ses = server'.ses]
             n == Stepped(t)
             c == [n[t] EXCEPT !.cfg = g]
  <2>1. g \in Kept
    BY <1>2, KeptFields
  <2>2. call' = [n EXCEPT ![t] = c]
    BY <1>3, <1>4 DEF Call
  <2> HIDE DEF g
  <2>3. c \in Call /\ c.steps = n[t].steps
    BY <1>3, <2>1 DEF CallOK, Call
  <2>4. CallOK(c)
    BY <1>3, <2>3 DEF CallOK, Plain
  <2> HIDE DEF c, n
  <2>5. n \in [Thread -> Call] /\ (\A u \in Thread : CallOK(n[u]))
        /\ \A u \in Thread : u # t => n[u] = call[u]
    BY <1>3 DEF n
  <2> QED  BY <2>2, <2>4, <2>5 DEF CallOK
<1>5. CASE call' = Steps(t, <<>>)
  <2>1. Plain(<<>>)
    BY DEF Plain
  <2> QED  BY <1>5, <2>1, StepsOK
<1> QED  BY <1>4, <1>5 DEF LoginAnswer

\* ClearRuntimeSecrets that ends with an error.
LEMMA ClearFailsCalls ==
    ASSUME CallsInv, NEW t \in Thread, ClearFails(t)
    PROVE  CallsInv'
<1>1. PICK n \in {2, 3} : /\ At(t, IF n = 3 THEN "clear_secrets" ELSE "clear_conf")
                          /\ call' = Steps(t, SubSeq(call[t].steps, n + 1, Len(call[t].steps)))
  BY DEF ClearFails
<1>2. on /\ ~At(t, "wait")
  BY <1>1, AtOn
<1>3. Plain(SubSeq(call[t].steps, n + 1, Len(call[t].steps)))
  BY PlainRest DEF CallsInv, Injected
<1>4. /\ call' \in [Thread -> Call] /\ \A u \in Thread : CallOK(call'[u])
      /\ \A u \in Thread : u # t => call'[u] = call[u]
  BY <1>1, <1>3, StepsOK
<1>5. call' \in [Thread -> Call] /\ Injected' /\ Waited' /\ Off'
  BY <1>2, <1>4, CallStep DEF ClearFails, sup
<1> QED  BY <1>5 DEF ClearFails, sup, os, CallsInv, Typed

\* The steps of a call that only change the session, the socket or the files.
LEMMA StepCalls ==
    ASSUME CallsInv, NEW t \in Thread, Step(t), ~LoginAnswer(t), ~Fetch(t), ~Inject(t), ~Enqueue(t)
    PROVE  CallsInv'
<1>1. \A st \in {"off", "dial", "open"} :
         Socket(st) \in [st : {"off", "dial", "open"}, ses : 0..MaxSession]
  BY SessionAssumption DEF Socket, NoSession
<1>2. NoSession \in 0..MaxSession
  BY SessionAssumption DEF NoSession
<1>3. call[t].cfg \in Kept
  BY DEF CallsInv, Injected, CallOK, Call
<1>4. CASE StopSocket(t) \/ StartSocket(t)
  <2>1. call' \in [Thread -> Call] /\ Injected' /\ Waited' /\ Off'
    BY <1>4, StepDone DEF StopSocket, StartSocket, sup
  <2> QED  BY <1>1, <1>4, <2>1 DEF StopSocket, StartSocket, sup, os, CallsInv, Typed
<1>5. CASE SetSession(t) \/ Forget(t)
  <2>1. call' \in [Thread -> Call] /\ Injected' /\ Waited' /\ Off'
    BY <1>5, StepDone DEF SetSession, Forget, sup
  <2>2. me' \in 0..MaxSession
    BY <1>2, <1>3, <1>5, KeptFields DEF SetSession, Forget
  <2> QED  BY <1>5, <2>1, <2>2 DEF SetSession, Forget, sup, os, CallsInv, Typed
<1>6. CASE LeaveServer(t)
  <2>1. call' \in [Thread -> Call] /\ Injected' /\ Waited' /\ Off'
    BY <1>6, StepDone DEF LeaveServer, sup
  <2>2. server' \in [ses : 0..MaxSession, valid : BOOLEAN]
    BY <1>6 DEF LeaveServer, CallsInv, Typed
  <2> QED  BY <1>6, <2>1, <2>2 DEF LeaveServer, sup, os, CallsInv, Typed
<1>7. CASE ClearSecrets(t) \/ ClearConfig(t)
  <2>1. call' \in [Thread -> Call] /\ Injected' /\ Waited' /\ Off'
    BY <1>7, StepDone DEF ClearSecrets, ClearConfig, sup
  <2>2. disk' \in Disk
    BY <1>2, <1>7, KeptFields DEF ClearSecrets, ClearConfig, CallsInv, Typed, Disk
  <2> QED  BY <1>7, <2>1, <2>2 DEF ClearSecrets, ClearConfig, sup, CallsInv, Typed
<1>8. CASE DropSnapshot(t)
  <2>1. call' \in [Thread -> Call] /\ Injected' /\ Waited' /\ Off'
    BY <1>8, StepDone DEF DropSnapshot
  <2> QED  BY <1>8, <2>1, KeptFields DEF DropSnapshot, os, CallsInv, Typed
<1> QED  BY <1>4, <1>5, <1>6, <1>7, <1>8 DEF Step

\* fetchConfig, in its three outcomes.
LEMMA FetchCalls ==
    ASSUME CallsInv, NEW t \in Thread, Fetch(t)
    PROVE  CallsInv'
<1>1. At(t, "fetch") /\ UNCHANGED <<server, me, sock, sup, os, on>>
  BY DEF Fetch
<1>2. on /\ call[t].steps # <<>> /\ ~At(t, "wait")
  BY <1>1, AtOn
<1>3. CallOK(call[t]) /\ Plain(Tail(call[t].steps)) /\ call \in [Thread -> Call]
  BY <1>2, PlainTail DEF CallsInv, Injected, Typed
<1> SUFFICES call' \in [Thread -> Call] /\ Injected' /\ Waited' /\ Off'
  BY <1>1 DEF sup, os, CallsInv, Typed
<1>4. CASE call' = Stepped(t)
  BY <1>1, <1>4, StepDone DEF sup
<1>5. ASSUME NEW v \in Version,
             call' = [call EXCEPT ![t].steps = <<"inject", "apply">> \o Tail(@),
                                  ![t].cfg = [NoConfig EXCEPT !.ses = me, !.ver = v]]
      PROVE  call' \in [Thread -> Call] /\ Injected' /\ Waited' /\ Off'
  <2> DEFINE s == <<"inject", "apply">> \o Tail(call[t].steps)
             g == [NoConfig EXCEPT !.ses = me, !.ver = v]
             c == [call[t] EXCEPT !.steps = s, !.cfg = g]
  <2>1. g \in Config /\ g \in Kept
    BY KeptFields DEF Kept, CallsInv, Typed
  <2>2. s \in Seq(StepName) /\ \A i \in DOMAIN s : s[i] = "inject" => i = 1 /\ Len(s) > 1
    <3>1. Tail(call[t].steps) \in Seq(StepName)
      BY <1>3 DEF Plain
    <3>2. <<"inject", "apply">> \in Seq(StepName) /\ Len(<<"inject", "apply">>) = 2
      BY DEF StepName
    <3>3. s \in Seq(StepName) /\ Len(s) = 2 + Len(Tail(call[t].steps))
      BY <3>1, <3>2
    <3>4. ASSUME NEW i \in DOMAIN s, i # 1 PROVE s[i] # "inject"
      <4>1. i \in 2..2 + Len(Tail(call[t].steps))
        BY <3>1, <3>3, <3>4
      <4>2. CASE i = 2
        BY <3>1, <3>2, <4>2
      <4>3. CASE i # 2
        <5>1. i - 2 \in DOMAIN Tail(call[t].steps) /\ s[i] = Tail(call[t].steps)[i - 2]
          BY <3>1, <3>2, <4>1, <4>3
        <5> QED  BY <1>3, <5>1 DEF Plain
      <4> QED  BY <4>2, <4>3
    <3> QED  BY <3>3, <3>4
  <2>3. call' = [call EXCEPT ![t] = c]
    BY <1>3, <1>5 DEF Call
  <2> HIDE DEF s, g
  <2>4. c \in Call /\ c.steps = s /\ c.cfg = g
    BY <1>3, <2>1, <2>2 DEF CallOK, Call
  <2>5. CallOK(c)
    BY <2>1, <2>2, <2>4 DEF CallOK
  <2> HIDE DEF c
  <2>6. call' \in [Thread -> Call] /\ \A u \in Thread : CallOK(call'[u])
    BY <1>3, <2>3, <2>5 DEF CallsInv, Injected, CallOK
  <2>7. \A u \in Thread : u # t => call'[u].steps = call[u].steps
    BY <1>3, <2>3
  <2> QED  BY <1>1, <1>2, <2>6, <2>7, CallStep DEF sup
<1>6. CASE call' = Steps(t, Invalidate \o Tail(call[t].steps))
  <2>1. Plain(Invalidate \o Tail(call[t].steps))
    BY <1>3, PlainCalls, PlainConcat
  <2>2. /\ call' \in [Thread -> Call] /\ \A u \in Thread : CallOK(call'[u])
        /\ \A u \in Thread : u # t => call'[u] = call[u]
    BY <1>6, <2>1, StepsOK
  <2> QED  BY <1>1, <1>2, <2>2, CallStep DEF sup
<1> QED  BY <1>4, <1>5, <1>6 DEF Fetch

LEMMA InjectCalls ==
    ASSUME CallsInv, NEW t \in Thread, Inject(t)
    PROVE  CallsInv'
<1>1. /\ At(t, "inject") /\ UNCHANGED <<server, me, sock, sup, os, on>>
      /\ call' = [Stepped(t) EXCEPT ![t].cfg.cred = me]
  BY DEF Inject
<1>2. on /\ call[t].steps # <<>> /\ ~At(t, "wait")
  BY <1>1, AtOn
<1> DEFINE n == Stepped(t)
<1>3. n \in [Thread -> Call] /\ (\A u \in Thread : CallOK(n[u]))
      /\ \A u \in Thread : u # t => n[u] = call[u]
  BY <1>2, SteppedOK
<1>4. call[t].cfg \in Config /\ call[t].steps \in Seq(StepName)
  <2>1. 1 \in DOMAIN call[t].steps /\ call[t].steps[1] = "inject" /\ call[t].steps \in Seq(StepName)
    BY <1>1, <1>2 DEF CallsInv, Injected, CallOK, Call, At
  <2> QED  BY <2>1 DEF CallsInv, Injected, CallOK
<1> SUFFICES call' \in [Thread -> Call] /\ Injected' /\ Waited' /\ Off'
  BY <1>1 DEF sup, os, CallsInv, Typed
<1>5. n[t] = [call[t] EXCEPT !.steps = Tail(call[t].steps)] /\ Plain(Tail(call[t].steps))
  <2>1. Tail(call[t].steps) # <<>>
    <3>1. Len(call[t].steps) > 1
      BY <1>1, <1>4 DEF CallsInv, Injected, CallOK, At
    <3> QED  BY <1>4, <3>1, TailNonempty
  <2> QED  BY <1>2, <2>1, PlainTail DEF CallsInv, Injected, Typed, Stepped, Steps
<1>6. n[t].cfg = call[t].cfg /\ n[t].steps = Tail(call[t].steps)
  BY <1>5 DEF CallsInv, Injected, CallOK, Call
<1> DEFINE c == [n[t] EXCEPT !.cfg = [n[t].cfg EXCEPT !.cred = me]]
<1>7. call' = [n EXCEPT ![t] = c]
  BY <1>1, <1>3 DEF Call
<1>8. [n[t].cfg EXCEPT !.cred = me] \in Kept
  BY <1>4, <1>6, KeptFields DEF CallsInv, Typed, Kept
<1>9. c \in Call /\ c.steps = Tail(call[t].steps)
  BY <1>3, <1>6, <1>8 DEF CallOK, Call
<1>10. CallOK(c)
  BY <1>5, <1>9 DEF CallOK, Plain
<1> HIDE DEF c, n
<1>11. call' \in [Thread -> Call] /\ \A u \in Thread : CallOK(call'[u])
  BY <1>3, <1>7, <1>10 DEF CallOK
<1>12. \A u \in Thread : u # t => call'[u].steps = call[u].steps
  BY <1>3, <1>7
<1> QED  BY <1>1, <1>2, <1>11, <1>12, CallStep DEF sup

\* The operation is queued last, and its caller is then waiting.
LEMMA EnqueueCalls ==
    ASSUME CallsInv, NEW t \in Thread, Enqueue(t)
    PROVE  CallsInv'
<1> DEFINE o == [cfg |-> IF At(t, "stop") THEN NoConfig ELSE call[t].cfg, by |-> t]
           s == <<"wait">> \o Tail(call[t].steps)
           c == [call[t] EXCEPT !.steps = s]
<1>1. /\ queue' = Append(queue, o) /\ call' = [call EXCEPT ![t].steps = <<"wait">> \o Tail(@)]
      /\ UNCHANGED <<server, me, sock, w, last, handle, disk, proc, waiter, loaded, unmarked, lost, on>>
  BY DEF Enqueue, os
<1>2. on /\ call[t].steps # <<>> /\ ~At(t, "wait")
  BY AtOn DEF Enqueue
<1>3. call \in [Thread -> Call] /\ queue \in Seq(Operation) /\ CallOK(call[t])
  BY DEF CallsInv, Typed, Injected
<1>4. Plain(Tail(call[t].steps)) /\ Plain(<<"wait">>)
  BY <1>2, <1>3, PlainTail DEF Plain, StepName
<1>5. Plain(s) /\ s # <<>> /\ Head(s) = "wait"
  <2>1. Plain(s)
    BY <1>4, PlainConcat
  <2>2. s # <<>> /\ Head(s) = "wait"
    BY <1>4 DEF Plain
  <2> QED  BY <2>1, <2>2
<1>6. call' = [call EXCEPT ![t] = c]
  BY <1>1, <1>3 DEF Call
<1> HIDE DEF s
<1>7. CallOK(c) /\ c.steps = s
  BY <1>3, <1>5, PlainCall
<1> HIDE DEF c
<1>8. call' \in [Thread -> Call] /\ \A u \in Thread : CallOK(call'[u])
  BY <1>3, <1>6, <1>7 DEF CallsInv, Injected, CallOK
<1>9. /\ \A u \in Thread : u # t => call'[u] = call[u]
      /\ call'[t].steps # <<>> /\ Head(call'[t].steps) = "wait"
  BY <1>3, <1>5, <1>6, <1>7
<1>10. o \in Operation /\ o.by = t
  BY <1>3, KeptFields DEF Operation, By, CallOK, Call
<1> HIDE DEF o
<1>11. queue' \in Seq(Operation) /\ Len(queue') = Len(queue) + 1 /\ queue'[Len(queue) + 1] = o
       /\ \A i \in DOMAIN queue : queue'[i] = queue[i]
  BY <1>1, <1>3, <1>10
<1>12. DOMAIN queue = 1..Len(queue) /\ DOMAIN queue' = 1..Len(queue) + 1 /\ Len(queue) \in Nat
  BY <1>3, <1>11
<1>13. (\A i \in DOMAIN queue : queue[i].by # t) /\ w.by # t
  BY <1>2 DEF CallsInv, Waited
<1>14. Waited'
  <2>1. ASSUME NEW i \in DOMAIN queue', queue'[i].by \in Thread
        PROVE  /\ call'[queue'[i].by].steps # <<>> /\ Head(call'[queue'[i].by].steps) = "wait"
               /\ w'.by # queue'[i].by
               /\ \A j \in DOMAIN queue' : queue'[j].by = queue'[i].by => j = i
    <3>1. CASE i = Len(queue) + 1
      BY <1>1, <1>9, <1>10, <1>11, <1>12, <1>13, <3>1
    <3>2. CASE i \in DOMAIN queue
      BY <1>1, <1>9, <1>10, <1>11, <1>12, <1>13, <2>1, <3>2 DEF CallsInv, Waited, At
    <3> QED  BY <1>12, <3>1, <3>2
  <2>2. w'.by \in Thread => call'[w'.by].steps # <<>> /\ Head(call'[w'.by].steps) = "wait"
    BY <1>1, <1>9, <1>13 DEF CallsInv, Waited, At
  <2> QED  BY <2>1, <2>2 DEF Waited, At
<1>15. Injected' /\ Off'
  BY <1>1, <1>2, <1>8 DEF Injected, Off
<1> QED  BY <1>1, <1>8, <1>11, <1>14, <1>15 DEF CallsInv, Typed

\* The operation stays, and nobody waits for it any more.
LEMMA GiveUpCalls ==
    ASSUME CallsInv, NEW t \in Thread, GiveUp(t)
    PROVE  CallsInv'
<1>1. /\ queue' = [i \in DOMAIN queue |->
                     IF queue[i].by = t THEN [queue[i] EXCEPT !.by = NoThread] ELSE queue[i]]
      /\ w' = [w EXCEPT !.by = IF @ = t THEN NoThread ELSE @] /\ call' = Stepped(t)
      /\ UNCHANGED <<server, me, sock, last, handle, disk, proc, waiter, loaded, unmarked, lost, on>>
  BY DEF GiveUp, os
<1>2. on /\ call[t].steps # <<>>
  BY AtOn DEF GiveUp
<1>3. /\ call' \in [Thread -> Call] /\ \A u \in Thread : CallOK(call'[u])
      /\ \A u \in Thread : u # t => call'[u] = call[u]
  BY <1>1, <1>2, SteppedOK
<1>4. queue \in Seq(Operation) /\ w \in Worker /\ DOMAIN queue = 1..Len(queue)
  BY DEF CallsInv, Typed
<1>5. w' \in Worker /\ w'.by = (IF w.by = t THEN NoThread ELSE w.by)
  BY <1>1, <1>4 DEF Worker, By
<1>6. ASSUME NEW i \in DOMAIN queue
      PROVE  queue'[i] \in Operation /\ queue'[i].by = (IF queue[i].by = t THEN NoThread ELSE queue[i].by)
  <2>1. queue[i] \in Operation
    BY <1>4
  <2>2. queue'[i] = IF queue[i].by = t THEN [queue[i] EXCEPT !.by = NoThread] ELSE queue[i]
    BY <1>1
  <2> QED  BY <2>1, <2>2 DEF Operation, By
<1>7. queue' \in Seq(Operation) /\ DOMAIN queue' = DOMAIN queue
  <2>1. queue' \in [1..Len(queue) -> Operation] /\ Len(queue) \in Nat
    BY <1>1, <1>4, <1>6
  <2> QED  BY <1>4, <2>1
<1>8. Waited'
  <2>1. ASSUME NEW i \in DOMAIN queue', queue'[i].by \in Thread
        PROVE  /\ call'[queue'[i].by].steps # <<>> /\ Head(call'[queue'[i].by].steps) = "wait"
               /\ w'.by # queue'[i].by
               /\ \A j \in DOMAIN queue' : queue'[j].by = queue'[i].by => j = i
    BY <1>3, <1>5, <1>6, <1>7, <2>1, ThreadAssumption DEF CallsInv, Waited, At
  <2>2. w'.by \in Thread => call'[w'.by].steps # <<>> /\ Head(call'[w'.by].steps) = "wait"
    BY <1>3, <1>5, ThreadAssumption DEF CallsInv, Waited, At
  <2> QED  BY <2>1, <2>2 DEF Waited, At
<1>9. Injected' /\ Off'
  BY <1>1, <1>2, <1>3 DEF Injected, Off
<1> QED  BY <1>1, <1>3, <1>5, <1>7, <1>8, <1>9 DEF CallsInv, Typed

LEMMA GotoOK ==
    ASSUME CallsInv, NEW pc \in Pc, Goto(pc)
    PROVE  /\ w' \in Worker /\ w'.pc = pc /\ w'.by = w.by /\ w'.cfg = w.cfg /\ w'.old = w.old
           /\ w'.pid = w.pid /\ w'.undo = w.undo
BY DEF Goto, CallsInv, Typed, Worker

LEMMA LeftOK ==
    ASSUME CallsInv, NEW pc \in Pc, Left(pc)
    PROVE  /\ w' \in Worker /\ w'.pc = pc /\ w'.by = w.by /\ w'.cfg = w.cfg /\ w'.old = w.old
           /\ w'.pid = NoPid /\ w'.undo = w.undo
BY DEF Left, CallsInv, Typed, Worker

\* The Supervisor works on, or a process changes, and no call notices.
LEMMA UnnoticedStep ==
    ASSUME CallsInv, on, w' \in Worker, w'.by = w.by, last' \in Kept,
           handle' \in Pid \cup {NoPid}, disk' \in Disk,
           proc' \in [Pid -> State], waiter' \in [Pid -> {"wait", "remove", "clear"}],
           loaded' \in [Pid -> Kept], unmarked' \subseteq Pid, lost' \subseteq Pid,
           UNCHANGED <<app, queue, on>>
    PROVE  CallsInv'
<1>1. UNCHANGED <<server, me, sock, call, queue, on>>
  BY DEF app
<1>2. Injected'
  BY <1>1 DEF CallsInv, Injected
<1>3. Waited'
  BY <1>1 DEF CallsInv, Waited, At
<1>4. Off'
  BY <1>1 DEF Off
<1> QED  BY <1>1, <1>2, <1>3, <1>4 DEF CallsInv, Typed

LEMMA TakeCalls ==
    ASSUME CallsInv, Take
    PROVE  CallsInv'
<1>1. queue \in Seq(Operation) /\ queue # <<>> /\ queue' = Tail(queue)
      /\ UNCHANGED <<server, me, sock, call, last, handle, disk, proc, waiter, loaded, unmarked, lost, on>>
  BY DEF Take, CallsInv, Typed, app, os
<1>2. /\ Head(queue) = queue[1] /\ 1 \in DOMAIN queue /\ queue[1] \in Operation
      /\ queue' \in Seq(Operation)
      /\ \A i \in DOMAIN queue' : queue'[i] = queue[i + 1] /\ i + 1 \in DOMAIN queue /\ i \in Nat \ {0}
  BY <1>1
<1>3. on
  BY <1>1 DEF CallsInv, Off
<1>4. w' \in Worker /\ w'.by = queue[1].by
  <2>1. w' = [Resting EXCEPT !.cfg = queue[1].cfg, !.by = queue[1].by,
                             !.pc = IF queue[1].cfg = NoConfig THEN "stop" ELSE "secrets"]
    BY <1>2 DEF Take
  <2>2. w' = [pc |-> IF queue[1].cfg = NoConfig THEN "stop" ELSE "secrets", cfg |-> queue[1].cfg,
              old |-> NoConfig, by |-> queue[1].by, pid |-> NoPid, undo |-> "no"]
    BY <2>1 DEF Resting
  <2> QED  BY <1>2, <2>2, KeptFields DEF Worker, Pc, Operation
<1>5. \A i \in DOMAIN queue' : queue'[i].by \in Thread =>
         /\ At(queue'[i].by, "wait") /\ queue'[i].by # queue[1].by
         /\ \A j \in DOMAIN queue' : queue'[j].by = queue'[i].by => j = i
  BY <1>2 DEF CallsInv, Waited
<1>6. queue[1].by \in Thread => At(queue[1].by, "wait")
  BY <1>2 DEF CallsInv, Waited
<1>7. Waited'
  BY <1>1, <1>4, <1>5, <1>6 DEF Waited, At
<1>8. Injected' /\ Off'
  BY <1>1, <1>3 DEF CallsInv, Injected, Off
<1> QED  BY <1>1, <1>2, <1>4, <1>7, <1>8 DEF CallsInv, Typed

LEMMA RestingOK ==
    /\ Resting \in Worker /\ Resting.by = NoThread /\ Resting.pc = "idle" /\ Resting.pid = NoPid
    /\ Resting.undo = "no"
BY KeptFields DEF Resting, Worker, Pc, By

\* The result of an operation is delivered, if its caller still waits.
LEMMA FinishCalls ==
    ASSUME CallsInv, on, Finish, last' \in Kept,
           UNCHANGED <<server, me, sock, queue, handle, os, on>>
    PROVE  CallsInv'
<1>1. w' = Resting /\ UNCHANGED <<server, me, sock, queue, handle, disk, proc, waiter, loaded, unmarked, lost, on>>
  BY DEF Finish, os
<1>2. w \in Worker /\ w.by \in Thread \cup {NoThread}
  BY DEF CallsInv, Typed, Worker, By
<1>3. CASE w.by = NoThread
  <2>1. call' = call
    BY <1>3 DEF Finish, Live
  <2>2. Waited'
    BY <1>1, <2>1, RestingOK, ThreadAssumption DEF CallsInv, Waited, At
  <2> QED  BY <1>1, <2>1, <2>2, RestingOK DEF CallsInv, Typed, Injected, Off
<1>4. CASE w.by \in Thread
  <2>1. call' = Stepped(w.by) /\ call[w.by].steps # <<>>
    BY <1>4, ThreadAssumption DEF Finish, Live, CallsInv, Waited, At
  <2>2. /\ call' \in [Thread -> Call] /\ \A u \in Thread : CallOK(call'[u])
        /\ \A u \in Thread : u # w.by => call'[u] = call[u]
    BY <1>4, <2>1, SteppedOK
  <2>3. Waited'
    BY <1>1, <2>2, RestingOK, ThreadAssumption DEF CallsInv, Waited, At
  <2> QED  BY <1>1, <2>2, <2>3, RestingOK DEF CallsInv, Typed, Injected, Off
<1> QED  BY <1>2, <1>3, <1>4

\* An operation runs only while the Client does, and processes belong to it.
LEMMA DiskOK ==
    ASSUME CallsInv
    PROVE  /\ Clean \in Disk
           /\ \A s \in 0..MaxSession : [disk EXCEPT !.secrets = s] \in Disk
           /\ \A c \in Kept : [disk EXCEPT !.conf = c] \in Disk
           /\ \A p \in Pid \cup {NoPid} : [disk EXCEPT !.pid = p] \in Disk /\ Unmarked(p) \in Disk
           /\ [disk EXCEPT !.pid = NoPid, !.secrets = NoSession] \in Disk
<1>1. disk \in Disk
  BY DEF CallsInv, Typed
<1>2. Clean \in Disk
  <2>1. 0 \in 0..MaxSession
    BY SessionAssumption
  <2> QED  BY <2>1, KeptFields DEF Disk, Clean, NoSession
<1>3. \A p \in Pid \cup {NoPid} : [disk EXCEPT !.pid = p] \in Disk
  BY <1>1 DEF Disk
<1>4. \A p \in Pid \cup {NoPid} : Unmarked(p) \in Disk
  BY <1>1 DEF Disk, Unmarked
<1>5. [disk EXCEPT !.pid = NoPid, !.secrets = NoSession] \in Disk
  <2>1. 0 \in 0..MaxSession
    BY SessionAssumption
  <2> QED  BY <1>1, <2>1 DEF Disk, NoSession
<1>6. \A c \in Kept : [disk EXCEPT !.conf = c] \in Disk
  BY <1>1 DEF Disk
<1>7. \A s \in 0..MaxSession : [disk EXCEPT !.secrets = s] \in Disk
  BY <1>1 DEF Disk
<1> QED  BY <1>2, <1>3, <1>4, <1>5, <1>6, <1>7

\* stopProcess goes on to the step it is given, or waits.
LEMMA StopProcessTypes ==
    ASSUME CallsInv, NEW a \in Pc, StopProcess(a)
    PROVE  /\ w' \in Worker /\ w'.by = w.by /\ handle' = NoPid /\ w'.old = w.old /\ w'.undo = w.undo
           /\ IF handle = NoPid THEN w'.pc = a /\ w'.pid = w.pid
              ELSE w'.pc \in {"hang", "await"} /\ w'.pid = handle
<1>1. CASE handle = NoPid
  BY <1>1, GotoOK DEF StopProcess
<1>2. CASE handle # NoPid
  <2>1. PICK pc \in {"hang", "await"} : w' = [w EXCEPT !.pc = pc, !.pid = handle]
    BY <1>2 DEF StopProcess
  <2>2. w \in Worker /\ handle \in Pid \cup {NoPid}
    BY DEF CallsInv, Typed
  <2> QED  BY <1>2, <2>1, <2>2 DEF StopProcess, Worker, Pc
<1> QED  BY <1>1, <1>2

LEMMA WorkCalls ==
    ASSUME CallsInv, Work
    PROVE  CallsInv'
<1>1. \A pc \in Pc : Goto(pc) \/ Left(pc) => w' \in Worker /\ w'.by = w.by
  BY GotoOK, LeftOK
<1>2. /\ w \in Worker /\ last \in Kept /\ handle \in Pid \cup {NoPid} /\ disk \in Disk
      /\ proc \in [Pid -> State] /\ waiter \in [Pid -> {"wait", "remove", "clear"}]
      /\ loaded \in [Pid -> Kept] /\ unmarked \subseteq Pid /\ lost \subseteq Pid
      /\ w.cfg \in Kept /\ w.old \in Kept /\ disk.conf \in Kept /\ w.pid \in Pid \cup {NoPid}
      /\ w.cfg.cred \in 0..MaxSession
  BY KeptFields DEF CallsInv, Typed, Worker, Disk
<1>3. w.pc # "idle" => on
  BY DEF CallsInv, Off
<1>0. Broken \in Pc /\ {"start", "unrestored", "rollback", "failed", "commit"} \subseteq Pc
  BY DEF Broken, Pc
<1>4. CASE Take
  BY <1>4, TakeCalls
<1>5. CASE WriteSecrets
  <2>1. w' \in Worker /\ w'.by = w.by /\ disk' \in Disk
    BY <1>1, <1>2, <1>5, DiskOK DEF WriteSecrets, Pc
  <2> QED  BY <1>2, <1>3, <1>5, <2>1, UnnoticedStep DEF WriteSecrets
<1>6. CASE Verify
  <2>1. w' \in Worker /\ w'.by = w.by
    BY <1>1, <1>6 DEF Verify, Pc
  <2> QED  BY <1>2, <1>3, <1>6, <2>1, UnnoticedStep DEF Verify, os
<1>7. CASE Replace
  <2>1. PICK renamed \in BOOLEAN, pc \in {"run", "failed"} :
           /\ disk' = [disk EXCEPT !.conf = IF renamed THEN w.cfg ELSE @]
           /\ w' = [w EXCEPT !.old = disk.conf, !.pc = pc]
    BY <1>7 DEF Replace
  <2>2. disk' \in Disk
    BY <1>2, <2>1 DEF Disk
  <2>3. w' \in Worker /\ w'.by = w.by
    BY <1>2, <2>1 DEF Worker, Pc
  <2> QED  BY <1>2, <1>3, <1>7, <2>2, <2>3, UnnoticedStep DEF Replace
<1>8. CASE Reload
  <2>1. w' \in Worker /\ w'.by = w.by
    BY <1>1, <1>8 DEF Reload, Pc
  <2>2. loaded' \in [Pid -> Kept]
    BY <1>2, <1>8 DEF Reload
  <2> QED  BY <1>2, <1>3, <1>8, <2>1, <2>2, UnnoticedStep DEF Reload
<1>9. CASE Restart
  <2>1. w' \in Worker /\ w'.by = w.by /\ handle' \in Pid \cup {NoPid}
    BY <1>0, <1>1, <1>2, <1>9, StopProcessTypes DEF Restart
  <2> QED  BY <1>2, <1>3, <1>9, <2>1, UnnoticedStep DEF Restart, os
<1>10. CASE Hang
  <2>1. w' \in Worker /\ w'.by = w.by
    BY <1>0, <1>1, <1>10 DEF Hang
  <2> QED  BY <1>2, <1>3, <1>10, <2>1, UnnoticedStep DEF Hang, os
<1>17. CASE Await
  <2>1. w' \in Worker /\ w'.by = w.by
    BY <1>0, <1>1, <1>17 DEF Await
  <2>2. disk' \in Disk
    BY <1>2, <1>17, DiskOK DEF Await
  <2> QED  BY <1>2, <1>3, <1>17, <2>1, <2>2, UnnoticedStep DEF Await
<1>18. CASE Kill
  <2>1. proc' \in [Pid -> State] /\ loaded' \in [Pid -> Kept]
    BY <1>2, <1>18, KeptFields DEF Kill
  <2> QED  BY <1>2, <1>3, <1>18, <2>1, UnnoticedStep DEF Kill, sup
<1>11. CASE StartProcess
  <2>1. w' \in Worker /\ w'.by = w.by
    <3>1. \A p \in Pid : [w EXCEPT !.pc = "mark", !.pid = p] \in Worker
                         /\ [w EXCEPT !.pc = "mark", !.pid = p].by = w.by
      BY <1>2 DEF Worker, Pc
    <3> QED  BY <1>0, <1>1, <1>11, <3>1 DEF StartProcess
  <2>2. loaded' \in [Pid -> Kept] /\ proc' \in [Pid -> State]
    BY <1>2, <1>11 DEF StartProcess
  <2> QED  BY <1>2, <1>3, <1>11, <2>1, <2>2, UnnoticedStep DEF StartProcess
<1>12. CASE MarkProcess
  <2>1. w' \in Worker /\ w'.by = w.by
    BY <1>0, <1>1, <1>12 DEF MarkProcess
  <2>2. handle' \in Pid \cup {NoPid} /\ unmarked' \subseteq Pid
    BY <1>2, <1>12 DEF MarkProcess
  <2>3. disk' \in Disk
    <3>1. disk' = disk \/ disk' = [disk EXCEPT !.pid = w.pid]
      BY <1>12 DEF MarkProcess
    <3> QED  BY <1>2, <3>1, DiskOK
  <2>4. proc' \in [Pid -> State] /\ loaded' \in [Pid -> Kept]
    <3>1. \/ proc' = proc \/ proc' = [proc EXCEPT ![w.pid] = "noticed"]
          \/ proc' = [proc EXCEPT ![w.pid] = "none"]
      BY <1>12 DEF MarkProcess
    <3>2. loaded' = loaded \/ loaded' = [loaded EXCEPT ![w.pid] = NoConfig]
      BY <1>12 DEF MarkProcess
    <3> QED  BY <1>2, <3>1, <3>2, KeptFields
  <2> QED  BY <1>2, <1>3, <1>12, <2>1, <2>2, <2>3, <2>4, UnnoticedStep DEF MarkProcess
<1>13. CASE Rollback
  <2>1. disk' \in Disk
    BY <1>2, <1>13, DiskOK DEF Rollback
  <2>2. w' \in Worker /\ w'.by = w.by
    <3>1. \A u \in {"yes", "error"} : /\ [w EXCEPT !.undo = u, !.pc = "run"] \in Worker
                                      /\ [w EXCEPT !.undo = u, !.pc = "run"].by = w.by
      BY <1>2 DEF Worker, Pc
    <3> QED  BY <1>0, <1>1, <1>13, <3>1 DEF Rollback
  <2> QED  BY <1>2, <1>3, <1>13, <2>1, <2>2, UnnoticedStep DEF Rollback
<1>14. CASE Commit
  BY <1>2, <1>3, <1>14, FinishCalls DEF Commit
<1>15. CASE Fail
  BY <1>2, <1>3, <1>15, FinishCalls DEF Fail
<1>16. CASE StopOperation
  <2>1. w' \in Worker /\ w'.by = w.by /\ handle' \in Pid \cup {NoPid}
    BY <1>0, <1>16, StopProcessTypes DEF StopOperation
  <2> QED  BY <1>2, <1>3, <1>16, <2>1, UnnoticedStep DEF StopOperation, os
<1> QED  BY <1>4, <1>5, <1>6, <1>7, <1>8, <1>9, <1>10, <1>11, <1>12, <1>13, <1>14, <1>15, <1>16,
            <1>17, <1>18 DEF Work

\* A process or its waiter takes a step; the session ends.
LEMMA OtherCalls ==
    ASSUME CallsInv, EndSession \/ (\E p \in Pid : Exit(p) \/ Die(p) \/ Waiter(p))
    PROVE  CallsInv'
<1>1. /\ handle \in Pid \cup {NoPid} /\ disk \in Disk
      /\ proc \in [Pid -> State] /\ waiter \in [Pid -> {"wait", "remove", "clear"}]
      /\ loaded \in [Pid -> Kept] /\ unmarked \subseteq Pid /\ lost \subseteq Pid
  BY DEF CallsInv, Typed
<1>2. ASSUME UNCHANGED <<app, queue, w, last, on>>, handle' \in {handle, NoPid}, disk' \in Disk,
             proc' \in [Pid -> State], waiter' \in [Pid -> {"wait", "remove", "clear"}],
             loaded' \in [Pid -> Kept], unmarked' \subseteq Pid, lost' \subseteq Pid
      PROVE  CallsInv'
  <2>1. handle' \in Pid \cup {NoPid}
    BY <1>1, <1>2
  <2>2. UNCHANGED <<server, me, sock, call, queue, w, last, on>>
    BY <1>2 DEF app
  <2>3. Injected' /\ Waited' /\ Off'
    BY <1>2, <2>2 DEF CallsInv, Injected, Waited, At, Off
  <2> QED  BY <1>2, <2>1, <2>2, <2>3 DEF CallsInv, Typed
<1>3. ASSUME NEW p \in Pid, Exit(p) PROVE CallsInv'
  <2>1. /\ lost' \subseteq Pid /\ unmarked' \subseteq Pid /\ proc' \in [Pid -> State]
        /\ loaded' \in [Pid -> Kept]
    BY <1>1, <1>3, KeptFields DEF Exit
  <2> QED  BY <1>1, <1>2, <1>3, <2>1 DEF Exit, sup
<1>4. ASSUME NEW p \in Pid, Die(p) PROVE CallsInv'
  <2>1. unmarked' \subseteq Pid /\ proc' \in [Pid -> State] /\ loaded' \in [Pid -> Kept]
    BY <1>1, <1>4, KeptFields DEF Die
  <2> QED  BY <1>1, <1>2, <1>4, <2>1 DEF Die, sup
<1>5. ASSUME NEW p \in Pid, WaiterRead(p) PROVE CallsInv'
  <2>1. waiter' \in [Pid -> {"wait", "remove", "clear"}]
    BY <1>1, <1>5 DEF WaiterRead
  <2> QED  BY <1>1, <1>2, <1>5, <2>1 DEF WaiterRead, sup
<1>6. ASSUME NEW p \in Pid, WaiterRemove(p) PROVE CallsInv'
  <2>1. waiter' \in [Pid -> {"wait", "remove", "clear"}] /\ unmarked' \subseteq Pid
    BY <1>1, <1>6 DEF WaiterRemove
  <2>2. disk' \in Disk
    BY <1>1, <1>6, DiskOK DEF WaiterRemove
  <2> QED  BY <1>1, <1>2, <1>6, <2>1, <2>2 DEF WaiterRemove, sup
<1>7. ASSUME NEW p \in Pid, WaiterClear(p) PROVE CallsInv'
  <2>1. /\ waiter' \in [Pid -> {"wait", "remove", "clear"}] /\ proc' \in [Pid -> State]
        /\ handle' \in {handle, NoPid}
    BY <1>1, <1>7 DEF WaiterClear
  <2> QED  BY <1>1, <1>2, <1>7, <2>1 DEF WaiterClear
<1>8. CASE EndSession
  <2>1. server' \in [ses : 0..MaxSession, valid : BOOLEAN]
    BY <1>8 DEF EndSession, CallsInv, Typed
  <2>2. UNCHANGED <<me, sock, call, queue, w, last, handle, disk, proc, waiter, loaded, unmarked, lost, on>>
    BY <1>8 DEF EndSession, sup, os
  <2> QED  BY <2>1, <2>2 DEF CallsInv, Typed, Injected, Waited, At, Off
<1> QED  BY <1>3, <1>4, <1>5, <1>6, <1>7, <1>8 DEF Waiter

\* The Client is gone, and started again.
LEMMA RestartCalls ==
    ASSUME CallsInv, Gone \/ Recover \/ RecoverFails
    PROVE  CallsInv'
<1>1. /\ disk \in Disk /\ proc \in [Pid -> State]
      /\ waiter \in [Pid -> {"wait", "remove", "clear"}]
      /\ loaded \in [Pid -> Kept] /\ unmarked \subseteq Pid /\ lost \subseteq Pid
  BY DEF CallsInv, Typed
<1>2. CASE Gone
  <2>1. /\ me' \in 0..MaxSession /\ sock' \in [st : {"off", "dial", "open"}, ses : 0..MaxSession]
        /\ last' \in Kept /\ handle' = NoPid /\ queue' = <<>> /\ w' = Resting /\ on' = FALSE
        /\ UNCHANGED <<server, disk>> /\ call' = [t \in Thread |-> NoCall]
    <3>1. 0 \in 0..MaxSession
      BY SessionAssumption
    <3> QED  BY <1>2, <3>1, KeptFields DEF Gone, NoSession, Socket
  <2>2. /\ lost' \subseteq Pid /\ unmarked' \subseteq Pid /\ proc' \in [Pid -> State]
        /\ waiter' \in [Pid -> {"wait", "remove", "clear"}] /\ loaded' \in [Pid -> Kept]
    BY <1>1, <1>2, KeptFields DEF Gone
  <2>3. \A t \in Thread : CallOK(call'[t]) /\ call'[t].steps = <<>>
    BY <2>1, NoCallOK
  <2>4. call' \in [Thread -> Call]
    BY <2>1, NoCallOK DEF CallOK
  <2>5. Waited'
    BY <2>1, RestingOK, ThreadAssumption DEF Waited
  <2>6. queue' \in Seq(Operation)
    BY <2>1
  <2>7. Typed'
    BY <2>1, <2>2, <2>4, <2>6, RestingOK DEF CallsInv, Typed
  <2> QED  BY <2>1, <2>3, <2>5, <2>7, RestingOK DEF CallsInv, Injected, Off
<1>3. CASE Recover \/ RecoverFails
  <2>1. UNCHANGED <<server, me, sock, call, queue, w, last, handle, waiter, unmarked>> /\ on' = TRUE
    BY <1>3 DEF Recover, RecoverFails, app, sup
  <2>2. lost' \subseteq Pid /\ proc' \in [Pid -> State] /\ loaded' \in [Pid -> Kept]
    <3>1. \/ lost' = {p \in Pid : proc[p] = "up"} /\ UNCHANGED <<proc, loaded>>
          \/ /\ proc' = [p \in Pid |-> IF p = disk.pid THEN "none" ELSE proc[p]]
             /\ loaded' = [p \in Pid |-> IF p = disk.pid THEN NoConfig ELSE loaded[p]]
             /\ lost' = lost \ {disk.pid}
      BY <1>3 DEF Recover, RecoverFails
    <3>2. CASE lost' = {p \in Pid : proc[p] = "up"} /\ UNCHANGED <<proc, loaded>>
      BY <1>1, <3>2
    <3>3. CASE /\ proc' = [p \in Pid |-> IF p = disk.pid THEN "none" ELSE proc[p]]
               /\ loaded' = [p \in Pid |-> IF p = disk.pid THEN NoConfig ELSE loaded[p]]
               /\ lost' = lost \ {disk.pid}
      BY <1>1, <3>3, KeptFields
    <3> QED  BY <3>1, <3>2, <3>3
  <2>3. disk' \in Disk
    BY <1>1, <1>3, DiskOK DEF Recover, RecoverFails
  <2> QED  BY <2>1, <2>2, <2>3 DEF CallsInv, Typed, Injected, Waited, At, Off
<1> QED  BY <1>2, <1>3

LEMMA NextCalls == CallsInv /\ [Next]_vars => CallsInv'
<1> SUFFICES ASSUME CallsInv, [Next]_vars PROVE CallsInv'
  OBVIOUS
<1>1. CASE UNCHANGED vars
  <2>1. UNCHANGED <<server, me, sock, call, queue, w, last, handle, disk, proc, waiter, loaded, unmarked, lost, on>>
    BY <1>1 DEF vars, app, sup, os
  <2> QED  BY <2>1 DEF CallsInv, Typed, Injected, Waited, At, Off
<1>2. ASSUME NEW t \in Thread, Step(t) PROVE CallsInv'
  BY <1>2, LoginCalls, StepCalls, FetchCalls, InjectCalls, EnqueueCalls
<1>3. CASE Ask
  BY <1>3, AskCalls
<1>4. CASE Disturbance
  BY <1>4, AskCalls, OtherCalls, RestartCalls, GiveUpCalls, ClearFailsCalls DEF Disturbance, Crash
<1>5. CASE Progress
  BY <1>2, <1>5, AskCalls, WorkCalls, OtherCalls, RestartCalls DEF Progress, Quit
<1> QED  BY <1>1, <1>3, <1>4, <1>5 DEF Next

LEMMA InitCalls == Init => CallsInv
<1> SUFFICES ASSUME Init PROVE CallsInv
  OBVIOUS
<1>0. 0 \in 0..MaxSession
  BY SessionAssumption
<1>1. /\ server \in [ses : 0..MaxSession, valid : BOOLEAN] /\ me \in 0..MaxSession
      /\ sock \in [st : {"off", "dial", "open"}, ses : 0..MaxSession]
  BY <1>0 DEF Init, NoSession, Socket
<1>5. queue \in Seq(Operation)
  BY DEF Init
<1>6. last \in Kept /\ on = TRUE
  BY KeptFields DEF Init
<1>4. disk \in Disk
  BY <1>0, KeptFields DEF Init, NoSession, Clean, Disk
<1>2. call \in [Thread -> Call] /\ \A t \in Thread : CallOK(call[t])
  BY NoCallOK DEF Init, CallOK
<1>3. Waited
  BY RestingOK, ThreadAssumption DEF Init, Waited
<1>7. /\ proc \in [Pid -> State] /\ waiter \in [Pid -> {"wait", "remove", "clear"}]
      /\ loaded \in [Pid -> Kept] /\ unmarked \subseteq Pid /\ lost \subseteq Pid
  BY KeptFields DEF Init
<1> QED  BY <1>1, <1>2, <1>3, <1>4, <1>5, <1>6, <1>7, RestingOK
            DEF Init, CallsInv, Typed, Injected, Off

-----------------------------------------------------------------------------
(* Processes: the handle, the marker and the rollback.                     *)

LEMMA ProcessTypes ==
    ASSUME CallsInv
    PROVE  /\ handle \in Pid \cup {NoPid} /\ lost \subseteq Pid /\ NoPid \notin Pid
           /\ proc \in [Pid -> State] /\ waiter \in [Pid -> {"wait", "remove", "clear"}]
           /\ loaded \in [Pid -> Kept] /\ w \in Worker /\ disk \in Disk /\ on \in BOOLEAN
           /\ w.pid \in Pid \cup {NoPid}
BY PidAssumption DEF CallsInv, Typed, NoPid, Worker

\* No process, handle or marker changes, nor the step of the Supervisor.
LEMMA ProcessKept ==
    ASSUME ProcessInv, UNCHANGED <<handle, procs, on>>, disk'.pid = disk.pid,
           disk'.conf \in {disk.conf, NoConfig},
           w'.pc = w.pc, w'.old = w.old, w'.undo = w.undo, w'.pid = w.pid
    PROVE  ProcessInv'
<1>1. Handled'
  BY DEF ProcessInv, Handled
<1>2. OneFrpc' /\ Marked'
  BY DEF ProcessInv, OneFrpc, Marked
<1>3. Undone'
  BY DEF ProcessInv, Undone
<1> QED  BY <1>1, <1>2, <1>3 DEF ProcessInv

\* The Supervisor goes on to a step that is not part of a restart.
LEMMA ProcessMoved ==
    ASSUME CallsInv, ProcessInv, UNCHANGED <<handle, proc, waiter, unmarked, lost, on>>,
           disk'.pid = disk.pid, w.pc \notin {"mark", "await", "hang"},
           w'.pc \notin {"start", "mark", "await", "hang"}, w'.pid \in {w.pid, NoPid}, w'.undo = "no"
    PROVE  ProcessInv'
<1>1. w.pid = NoPid /\ w'.pid = NoPid
  BY DEF ProcessInv, Handled
<1>2. Handled'
  BY <1>1 DEF ProcessInv, Handled
<1>3. OneFrpc' /\ Marked'
  BY <1>1 DEF ProcessInv, OneFrpc, Marked
<1>4. Undone'
  BY DEF Undone
<1> QED  BY <1>2, <1>3, <1>4 DEF ProcessInv

\* stopProcess: the process is no longer the handle's, but the Supervisor still waits for it.
LEMMA StopProcessKeeps ==
    ASSUME CallsInv, ProcessInv, on, w.pc \in {"run", "stop"}, NEW a \in {"start", "failed"},
           StopProcess(a), UNCHANGED <<os, on>>
    PROVE  ProcessInv'
<1>1. /\ handle' = NoPid /\ w'.old = w.old /\ w'.undo = w.undo
      /\ IF handle = NoPid THEN w'.pc = a /\ w'.pid = w.pid
         ELSE w'.pc \in {"hang", "await"} /\ w'.pid = handle
  BY StopProcessTypes DEF Pc
<1>2. w'.pc = "hang" => handle # NoPid /\ proc[handle] = "noticed"
  BY <1>1, ProcessTypes DEF StopProcess, Worker
<1>3. w.pid = NoPid /\ UNCHANGED <<disk, procs, on>>
  BY DEF ProcessInv, Handled, os
<1>4. Handled'
  BY <1>1, <1>2, <1>3, ProcessTypes DEF ProcessInv, Handled
<1>5. OneFrpc' /\ Marked'
  BY <1>1, <1>3, ProcessTypes DEF ProcessInv, OneFrpc, Marked
<1>6. Undone'
  BY <1>1, <1>3, ProcessTypes DEF ProcessInv, Undone
<1> QED  BY <1>4, <1>5, <1>6 DEF ProcessInv

\* Nothing that the Supervisor waits for is up any more.
LEMMA LeftKeeps ==
    ASSUME CallsInv, ProcessInv, w.pc \in {"await", "hang"}, proc[w.pid] # "up",
           NEW pc \in {"failed", "start", "rollback"}, Left(pc), w.undo # "no" => pc # "rollback",
           disk' \in {disk, Unmarked(w.pid)}, UNCHANGED <<handle, procs, on>>
    PROVE  ProcessInv'
<1>1. w'.pc = pc /\ w'.pid = NoPid /\ w'.old = w.old /\ w'.undo = w.undo
  BY LeftOK DEF Pc
<1>2. disk'.conf = disk.conf
  BY ProcessTypes DEF Unmarked, Disk
<1>3. on /\ handle = NoPid /\ \A p \in Pid \ lost : proc[p] # "up"
  BY ProcessTypes DEF CallsInv, Off, ProcessInv, Handled, OneFrpc
<1>4. Handled'
  BY <1>1, <1>3, ProcessTypes DEF ProcessInv, Handled
<1>5. OneFrpc' /\ Marked'
  BY <1>3 DEF OneFrpc, Marked
<1>6. Undone'
  BY <1>1, <1>2, <1>3, ProcessTypes DEF ProcessInv, Undone
<1> QED  BY <1>4, <1>5, <1>6 DEF ProcessInv

\* A process that ignores the interrupt is killed.
LEMMA KillKeeps ==
    ASSUME CallsInv, ProcessInv, Kill
    PROVE  ProcessInv'
<1>1. /\ UNCHANGED <<w, handle, disk, waiter, unmarked, lost, on>> /\ w.pc = "await" /\ on
      /\ proc[w.pid] = "up" /\ w.pid \in Pid \ lost /\ handle = NoPid
      /\ \A p \in Pid : proc'[p] = IF p = w.pid THEN "killed" ELSE proc[p]
  BY ProcessTypes DEF Kill, sup, ProcessInv, Handled, CallsInv, Off
<1>2. Handled'
  BY <1>1, ProcessTypes DEF ProcessInv, Handled
<1>3. OneFrpc' /\ Marked'
  BY <1>1 DEF ProcessInv, OneFrpc, Marked
<1>4. Undone'
  BY <1>1, ProcessTypes DEF ProcessInv, Undone
<1> QED  BY <1>2, <1>3, <1>4 DEF ProcessInv

\* A process is started only where none is known of, with the file that is in place.
LEMMA StartProcessKeeps ==
    ASSUME CallsInv, ProcessInv, StartProcess
    PROVE  ProcessInv'
<1>1. /\ w.pc = "start" /\ w.pid = NoPid /\ handle = NoPid /\ on
      /\ UNCHANGED <<handle, disk, waiter, unmarked, lost, on>>
      /\ \A p \in Pid \ lost : proc[p] # "up"
  <2>1. w.pc = "start" /\ UNCHANGED <<handle, disk, waiter, unmarked, lost, on>>
    BY DEF StartProcess
  <2>2. w.pid = NoPid /\ handle = NoPid /\ on
    BY <2>1 DEF CallsInv, Off, ProcessInv, Handled
  <2> QED  BY <2>1, <2>2, ProcessTypes DEF ProcessInv, OneFrpc
<1>2. CASE Goto(Broken) /\ UNCHANGED <<proc, loaded>>
  <2>1. w'.pc = Broken /\ w'.old = w.old /\ w'.undo = w.undo /\ w'.pid = NoPid
    BY <1>1, <1>2, GotoOK DEF Broken, Pc
  <2>2. w'.pc \in {"failed", "rollback"} /\ (w.undo # "no" => w'.pc = "failed")
    BY <2>1 DEF Broken
  <2>3. Handled'
    BY <1>1, <1>2, <2>1, <2>2 DEF ProcessInv, Handled
  <2>4. OneFrpc' /\ Marked'
    BY <1>1, <1>2 DEF OneFrpc, Marked
  <2>5. Undone'
    BY <1>1, <1>2, <2>1, <2>2, ProcessTypes DEF ProcessInv, Undone
  <2> QED  BY <2>3, <2>4, <2>5 DEF ProcessInv
<1>3. ASSUME NEW p \in Pid, proc[p] = "none", proc' = [proc EXCEPT ![p] = "up"],
             loaded' = [loaded EXCEPT ![p] = disk.conf],
             w' = [w EXCEPT !.pc = "mark", !.pid = p]
      PROVE  ProcessInv'
  <2>1. w'.pc = "mark" /\ w'.pid = p /\ w'.old = w.old /\ w'.undo = w.undo
    BY <1>3, ProcessTypes DEF Worker
  <2>2. p \notin lost /\ p # NoPid /\ waiter[p] = "wait"
    BY <1>3, ProcessTypes DEF ProcessInv, Handled
  <2>3. (\A r \in Pid : proc'[r] = IF r = p THEN "up" ELSE proc[r]) /\ loaded'[p] = disk.conf
    BY <1>3, ProcessTypes
  <2>4. Handled'
    BY <1>1, <1>3, <2>1, <2>2, <2>3, ProcessTypes DEF ProcessInv, Handled
  <2>5. OneFrpc' /\ Marked'
    BY <1>1, <2>1, <2>3 DEF OneFrpc, Marked
  <2>6. Undone'
    BY <1>1, <2>1, <2>3, ProcessTypes DEF ProcessInv, Undone
  <2> QED  BY <2>4, <2>5, <2>6 DEF ProcessInv
<1> QED  BY <1>2, <1>3 DEF StartProcess

\* The marker is written over only when no other process needs it.
LEMMA MarkProcessKeeps ==
    ASSUME CallsInv, ProcessInv, MarkProcess
    PROVE  ProcessInv'
<1>1. /\ w.pc = "mark" /\ w.pid \in Pid \ lost /\ handle = NoPid /\ on
      /\ UNCHANGED <<waiter, lost, on>> /\ waiter[w.pid] = "wait" /\ proc[w.pid] # "none"
      /\ \A p \in Pid \ lost : p # w.pid => proc[p] # "up"
  BY ProcessTypes DEF MarkProcess, CallsInv, Off, ProcessInv, Handled, OneFrpc
<1>2. w.undo = "yes" => /\ disk.conf \in {w.old, NoConfig}
                        /\ proc[w.pid] = "up" => loaded[w.pid] \in {w.old, NoConfig}
  BY <1>1, ProcessTypes DEF ProcessInv, Undone
<1>3. ASSUME NEW pc \in {"failed", "commit", "rollback"}, Left(pc), w.undo # "no" => pc = "failed"
      PROVE  /\ w'.pc \in {"failed", "commit", "rollback"} /\ w'.old = w.old /\ w'.pid = NoPid
             /\ w'.undo = w.undo /\ (w.undo # "no" => w'.pc = "failed")
  BY <1>3, LeftOK DEF Pc
<1>4. /\ w'.pc \in {"failed", "commit", "rollback"} /\ w'.old = w.old /\ w'.pid = NoPid
      /\ w'.undo = w.undo /\ (w.undo # "no" => w'.pc = "failed")
  <2>1. \/ Left(IF w.undo # "no" THEN "failed" ELSE "commit")
        \/ Left(IF w.undo # "no" \/ w.cfg = NoConfig THEN "failed" ELSE "rollback")
    BY DEF MarkProcess, Broken
  <2> QED  BY <1>3, <2>1
<1>5. disk'.conf = disk.conf
  BY ProcessTypes DEF MarkProcess, Disk
<1>6. CASE /\ handle' = w.pid /\ disk' = [disk EXCEPT !.pid = w.pid] /\ UNCHANGED loaded
           /\ UNCHANGED proc \/ proc' = [proc EXCEPT ![w.pid] = "noticed"]
  <2>1. disk'.pid = w.pid
    BY <1>6, ProcessTypes DEF Disk
  <2>2. /\ \A p \in Pid : p # w.pid => proc'[p] = proc[p]
        /\ proc'[w.pid] \in {proc[w.pid], "noticed"}
    BY <1>1, <1>6, ProcessTypes
  <2>3. Handled'
    BY <1>1, <1>4, <1>6, <2>2, ProcessTypes DEF ProcessInv, Handled
  <2>4. OneFrpc' /\ Marked'
    BY <1>1, <1>6, <2>1, <2>2, ProcessTypes DEF OneFrpc, Marked
  <2>5. Undone'
    BY <1>1, <1>2, <1>4, <1>5, <1>6, <2>2, ProcessTypes DEF Undone
  <2> QED  BY <2>3, <2>4, <2>5 DEF ProcessInv
<1>7. CASE UNCHANGED handle /\ proc' = [proc EXCEPT ![w.pid] = "none"]
  <2>1. \A p \in Pid : proc'[p] = IF p = w.pid THEN "none" ELSE proc[p]
    BY <1>7, ProcessTypes
  <2>2. Handled'
    BY <1>1, <1>4, <1>7, <2>1, ProcessTypes DEF ProcessInv, Handled
  <2>3. OneFrpc' /\ Marked'
    BY <1>1, <2>1, ProcessTypes DEF OneFrpc, Marked
  <2>4. Undone'
    BY <1>1, <1>2, <1>4, <1>5, <1>7, ProcessTypes DEF Undone
  <2> QED  BY <2>2, <2>3, <2>4 DEF ProcessInv
<1>8. \/ /\ handle' = w.pid /\ disk' = [disk EXCEPT !.pid = w.pid] /\ UNCHANGED loaded
         /\ UNCHANGED proc \/ proc' = [proc EXCEPT ![w.pid] = "noticed"]
      \/ UNCHANGED handle /\ proc' = [proc EXCEPT ![w.pid] = "none"]
  BY DEF MarkProcess
<1> QED  BY <1>6, <1>7, <1>8

LEMMA WorkProcess ==
    ASSUME CallsInv, ProcessInv, Work
    PROVE  ProcessInv'
<1>1. w.pc # "idle" => on
  BY DEF CallsInv, Off
<1>2. w.undo # "no" =>
         w.pc \in {"run", "await", "start", "mark", "hang", "failed", "unrestored"}
  BY DEF ProcessInv, Undone
<1>3. \A pc \in Pc : Goto(pc) => w'.pc = pc /\ w'.old = w.old /\ w'.undo = w.undo /\ w'.pid = w.pid
  BY GotoOK
<1>4. CASE Take
  <2>1. w'.pc \in {"stop", "secrets"} /\ w'.undo = "no" /\ w'.pid = NoPid /\ w.pc = "idle"
    BY <1>4 DEF Take, Resting
  <2> QED  BY <1>4, <2>1, ProcessMoved DEF Take, os
<1>5. CASE WriteSecrets \/ Verify
  <2>1. /\ w'.pc \in {"verify", "failed", "replace"} /\ w'.undo = "no" /\ w'.pid = w.pid
        /\ w.pc \in {"secrets", "verify"}
    BY <1>2, <1>3, <1>5 DEF WriteSecrets, Verify, Pc
  <2>2. disk'.pid = disk.pid
    BY <1>5, ProcessTypes DEF WriteSecrets, Verify, os, Disk
  <2> QED  BY <1>5, <2>1, <2>2, ProcessMoved DEF WriteSecrets, Verify, os
<1>6. CASE Replace
  <2>1. w'.pc \in {"run", "failed"} /\ w'.undo = "no" /\ w'.pid = w.pid /\ w.pc = "replace"
    BY <1>2, <1>6, ProcessTypes DEF Replace, Worker
  <2>2. disk'.pid = disk.pid
    BY <1>6, ProcessTypes DEF Replace, Disk
  <2> QED  BY <1>6, <2>1, <2>2, ProcessMoved DEF Replace
<1>7. CASE Reload
  <2>1. /\ w'.pc \in {"commit", "rollback"} /\ w'.undo = "no" /\ w'.pid = w.pid /\ w.pc = "run"
    BY <1>3, <1>7 DEF Reload, ReloadEligible, Pc
  <2> QED  BY <1>7, <2>1, ProcessMoved DEF Reload
<1>8. CASE Restart
  <2>1. CASE StopProcess("start")
    BY <1>1, <1>8, <2>1, StopProcessKeeps DEF Restart
  <2>2. CASE Goto(IF w.undo # "no" THEN "unrestored" ELSE "rollback") /\ UNCHANGED handle
    <3>1. UNCHANGED <<handle, disk, procs, on>> /\ w.pc = "run"
      BY <1>8, <2>2 DEF Restart, os
    <3>2. CASE w.undo # "no"
      <4>1. w'.pc = "unrestored" /\ w'.old = w.old /\ w'.undo = w.undo /\ w'.pid = w.pid
        BY <1>3, <2>2, <3>2 DEF Pc
      <4>2. Handled'
        BY <3>1, <4>1 DEF ProcessInv, Handled
      <4>3. OneFrpc' /\ Marked'
        BY <3>1, <4>1 DEF ProcessInv, OneFrpc, Marked
      <4>4. Undone'
        BY <3>1, <4>1 DEF ProcessInv, Undone
      <4> QED  BY <4>2, <4>3, <4>4 DEF ProcessInv
    <3>3. CASE w.undo = "no"
      <4>1. w'.pc = "rollback" /\ w'.undo = "no" /\ w'.pid = w.pid
        BY <1>3, <2>2, <3>3 DEF Pc
      <4> QED  BY <3>1, <4>1, ProcessMoved
    <3> QED  BY <3>2, <3>3
  <2> QED  BY <1>8, <2>1, <2>2 DEF Restart
<1>9. CASE Await \/ Hang
  <2>1. proc[w.pid] # "up" /\ w.pc \in {"await", "hang"} /\ UNCHANGED <<handle, procs, on>>
    BY <1>9 DEF Await, Hang, os, ProcessInv, Handled
  <2>2. disk' \in {disk, Unmarked(w.pid)}
    BY <1>9 DEF Await, Hang, os
  <2>3. \E pc \in {"failed", "start", "rollback"} :
           Left(pc) /\ (w.undo # "no" => pc # "rollback")
    BY <1>9 DEF Await, Hang, Broken
  <2> QED  BY <2>1, <2>2, <2>3, LeftKeeps
<1>15. CASE Kill
  BY <1>15, KillKeeps
<1>10. CASE StartProcess
  BY <1>10, StartProcessKeeps
<1>11. CASE MarkProcess
  BY <1>11, MarkProcessKeeps
<1>12. CASE Rollback
  <2>1. w.pc = "rollback" /\ w.undo = "no" /\ UNCHANGED <<handle, procs, on>>
    BY <1>2, <1>12 DEF Rollback
  <2>2. CASE Goto("failed") /\ UNCHANGED disk
    <3>1. w'.pc = "failed" /\ w'.undo = "no" /\ w'.pid = w.pid
      BY <1>3, <2>1, <2>2 DEF Pc
    <3> QED  BY <2>1, <2>2, <3>1, ProcessMoved
  <2>3. ASSUME NEW u \in {"yes", "error"}, w' = [w EXCEPT !.undo = u, !.pc = "run"],
               disk' = IF u = "yes" THEN [disk EXCEPT !.conf = w.old] ELSE disk
        PROVE  ProcessInv'
    <3>1. w'.pc = "run" /\ w'.undo = u /\ w'.old = w.old /\ w'.pid = w.pid
      BY <2>3, ProcessTypes DEF Worker
    <3>2. disk'.pid = disk.pid /\ (u = "yes" => disk'.conf = w.old)
      BY <2>3, ProcessTypes DEF Disk
    <3>3. Handled'
      BY <2>1, <3>1 DEF ProcessInv, Handled
    <3>4. OneFrpc' /\ Marked'
      BY <2>1, <3>1, <3>2 DEF ProcessInv, OneFrpc, Marked
    <3>5. Undone'
      BY <2>1, <3>1, <3>2 DEF Undone
    <3> QED  BY <3>3, <3>4, <3>5 DEF ProcessInv
  <2> QED  BY <1>12, <2>2, <2>3 DEF Rollback
<1>13. CASE Commit \/ Fail
  <2>1. /\ w'.pc = "idle" /\ w'.undo = "no" /\ w'.pid = NoPid
        /\ w.pc \in {"commit", "failed", "unrestored"}
    BY <1>13, RestingOK DEF Commit, Fail, Finish
  <2> QED  BY <1>13, <2>1, ProcessMoved DEF Commit, Fail, os
<1>14. CASE StopOperation
  BY <1>1, <1>14, StopProcessKeeps DEF StopOperation
<1> QED  BY <1>4, <1>5, <1>6, <1>7, <1>8, <1>9, <1>10, <1>11, <1>12, <1>13, <1>14, <1>15 DEF Work

\* The steps of the calls clear files, and no more.
LEMMA CallsProcess ==
    ASSUME CallsInv, ProcessInv,
           \/ Ask \/ EndSession \/ Disconnect
           \/ \E t \in Thread : Step(t) \/ Dial(t) \/ Heartbeat(t) \/ GiveUp(t) \/ ClearFails(t)
    PROVE  ProcessInv'
<1>1. CASE \/ Ask \/ EndSession \/ Disconnect
           \/ \E t \in Thread : Dial(t) \/ Heartbeat(t) \/ ClearFails(t)
  <2>1. UNCHANGED <<w, handle, disk, procs, on>>
    BY <1>1 DEF Ask, StartLogin, StartCall, StartTerminate, Receive, EndSession, Disconnect, Dial,
                Heartbeat, ClearFails, sup, os
  <2> QED  BY <2>1, ProcessKept
<1>2. ASSUME NEW t \in Thread, Step(t) PROVE ProcessInv'
  <2>1. UNCHANGED <<w, handle, procs, on>>
    BY <1>2 DEF Step, LoginAnswer, StopSocket, StartSocket, SetSession, LeaveServer, Forget, Fetch,
                Inject, Enqueue, ClearSecrets, ClearConfig, DropSnapshot, sup, os
  <2>2. \/ disk' = disk \/ disk' = [disk EXCEPT !.secrets = NoSession]
        \/ disk' = [disk EXCEPT !.conf = NoConfig]
    BY <1>2 DEF Step, LoginAnswer, StopSocket, StartSocket, SetSession, LeaveServer, Forget, Fetch,
                Inject, Enqueue, ClearSecrets, ClearConfig, DropSnapshot, os
  <2>3. disk'.pid = disk.pid /\ disk'.conf \in {disk.conf, NoConfig}
    BY <2>2, ProcessTypes DEF Disk
  <2> QED  BY <2>1, <2>3, ProcessKept
<1>3. ASSUME NEW t \in Thread, GiveUp(t) PROVE ProcessInv'
  <2>1. w'.pc = w.pc /\ w'.old = w.old /\ w'.undo = w.undo /\ w'.pid = w.pid
    BY <1>3, ProcessTypes DEF GiveUp, Worker
  <2> QED  BY <1>3, <2>1, ProcessKept DEF GiveUp, os
<1> QED  BY <1>1, <1>2, <1>3

\* A process ends. One that has a handle, or is being marked, belongs to a Client that runs.
LEMMA ExitProcess ==
    ASSUME CallsInv, ProcessInv, NEW p \in Pid, Exit(p) \/ Die(p)
    PROVE  ProcessInv'
<1>1. UNCHANGED <<w, handle, disk, waiter, on>> /\ lost' = lost \ {p}
      /\ (proc[p] = "up" => waiter[p] = "wait")
  BY ProcessTypes DEF Exit, Die, sup, ProcessInv, Handled
<1>2. p \in {handle, w.pid} => on /\ p \notin lost
  BY ProcessTypes DEF CallsInv, Off, ProcessInv, Handled
<1>3. /\ \A r \in Pid \ {p} : proc'[r] = proc[r]
      /\ proc'[p] \in {"exited", "none"}
      /\ proc'[p] = "none" => proc[p] = "up" /\ p \notin {handle, w.pid}
      /\ ~on => proc'[p] = "none"
  <2>1. CASE Exit(p)
    BY <1>2, <2>1, ProcessTypes DEF Exit
  <2>2. CASE Die(p)
    BY <1>2, <2>2, ProcessTypes DEF Die, CallsInv, Off, ProcessInv, Handled
  <2> QED  BY <2>1, <2>2
<1>4. Handled'
  BY <1>1, <1>2, <1>3, ProcessTypes DEF ProcessInv, Handled
<1>5. \A r \in Pid : r # p => (r \in unmarked' <=> r \in unmarked)
  BY DEF Exit, Die
<1>6. OneFrpc' /\ Marked'
  BY <1>1, <1>3, <1>5 DEF ProcessInv, OneFrpc, Marked
<1>7. \A r \in Pid \ {p} : loaded'[r] = loaded[r]
  BY ProcessTypes DEF Exit, Die
<1>8. Undone'
  BY <1>1, <1>3, <1>7 DEF ProcessInv, Undone
<1> QED  BY <1>4, <1>6, <1>8 DEF ProcessInv

\* The waiter of a process that has ended may remove the marker of another, which is then unmarked.
LEMMA WaiterProcess ==
    ASSUME CallsInv, ProcessInv, NEW p \in Pid, Waiter(p)
    PROVE  ProcessInv'
<1>1. UNCHANGED <<w, loaded, lost, on>> /\ proc[p] \in {"exited", "noticed"} /\ on
      /\ ~(w.pc = "mark" /\ w.pid = p)
  BY ProcessTypes DEF Waiter, WaiterRead, WaiterRemove, WaiterClear, sup, ProcessInv, Handled
<1>2. CASE WaiterRead(p)
  <2>1. UNCHANGED <<handle, disk, proc, unmarked>> /\ \A r \in Pid \ {p} : waiter'[r] = waiter[r]
    BY <1>2, ProcessTypes DEF WaiterRead, sup
  <2>2. Handled'
    BY <1>1, <2>1, ProcessTypes DEF ProcessInv, Handled
  <2>3. OneFrpc' /\ Marked' /\ Undone'
    BY <1>1, <2>1 DEF ProcessInv, OneFrpc, Marked, Undone
  <2> QED  BY <2>2, <2>3 DEF ProcessInv
<1>3. CASE WaiterRemove(p)
  <2>1. UNCHANGED <<handle, proc>> /\ \A r \in Pid \ {p} : waiter'[r] = waiter[r]
    BY <1>3, ProcessTypes DEF WaiterRemove, sup
  <2>2. Handled'
    BY <1>1, <2>1, ProcessTypes DEF ProcessInv, Handled
  <2>3. disk'.conf = disk.conf
    BY <1>3, ProcessTypes DEF WaiterRemove, Disk
  <2>4. OneFrpc' /\ Undone'
    BY <1>1, <2>1, <2>3 DEF ProcessInv, OneFrpc, Undone
  <2>5. Marked'
    BY <1>1, <1>3, <2>1 DEF WaiterRemove, ProcessInv, Marked
  <2> QED  BY <2>2, <2>4, <2>5 DEF ProcessInv
<1>4. CASE WaiterClear(p)
  <2>1. /\ handle' = IF handle = p THEN NoPid ELSE handle
        /\ UNCHANGED <<disk, unmarked>>
        /\ \A r \in Pid : /\ proc'[r] = IF r = p THEN "none" ELSE proc[r]
                          /\ waiter'[r] = IF r = p THEN "wait" ELSE waiter[r]
    BY <1>4, ProcessTypes DEF WaiterClear
  <2>2. Handled'
    BY <1>1, <2>1, ProcessTypes DEF ProcessInv, Handled
  <2>3. OneFrpc' /\ Marked'
    BY <1>1, <2>1 DEF ProcessInv, OneFrpc, Marked
  <2>4. Undone'
    BY <1>1, <2>1, ProcessTypes DEF ProcessInv, Undone
  <2> QED  BY <2>2, <2>3, <2>4 DEF ProcessInv
<1> QED  BY <1>2, <1>3, <1>4 DEF Waiter

\* The Client is gone: only the marker still tells of its frpc. RecoverOrphan ends what the
\* marker names, or the process is lost.
LEMMA RestartProcess ==
    ASSUME CallsInv, ProcessInv, Gone \/ Recover \/ RecoverFails
    PROVE  ProcessInv'
<1>1. CASE Gone
  <2>1. /\ w' = Resting /\ handle' = NoPid /\ on' = FALSE /\ UNCHANGED disk
        /\ lost' = lost \cup {p \in Pid : proc[p] = "up" /\ disk.pid # p}
        /\ \A p \in Pid : /\ proc'[p] = IF proc[p] = "up" THEN "up" ELSE "none"
                          /\ waiter'[p] = "wait"
    BY <1>1 DEF Gone
  <2>2. Handled'
    BY <2>1, RestingOK, ProcessTypes DEF ProcessInv, Handled
  <2>3. OneFrpc' /\ Marked'
    BY <2>1 DEF OneFrpc, Marked
  <2>4. Undone'
    BY <2>1, RestingOK DEF Undone
  <2> QED  BY <2>2, <2>3, <2>4 DEF ProcessInv
<1>2. CASE Recover \/ RecoverFails
  <2>1. /\ UNCHANGED <<w, handle, waiter, unmarked>> /\ w.pc = "idle" /\ handle = NoPid /\ ~on
        /\ on' = TRUE
    BY <1>2 DEF Recover, RecoverFails, sup, CallsInv, Off
  <2>2. /\ w.undo = "no" /\ w.pid = NoPid
        /\ \A p \in Pid : waiter[p] = "wait"
        /\ \A p \in Pid \ lost : proc[p] = "up" => disk.pid = p
    BY <2>1 DEF ProcessInv, Handled, Undone, OneFrpc
  <2>3. /\ \A p \in lost' : p \in Pid /\ proc'[p] = "up"
        /\ \A p \in Pid \ lost' : proc'[p] # "up"
    <3>1. CASE /\ lost' = lost \ {disk.pid}
               /\ proc' = [p \in Pid |-> IF p = disk.pid THEN "none" ELSE proc[p]]
      BY <2>2, <3>1, ProcessTypes DEF ProcessInv, Handled
    <3>2. CASE lost' = {p \in Pid : proc[p] = "up"} /\ UNCHANGED proc
      BY <3>2
    <3> QED  BY <1>2, <3>1, <3>2 DEF Recover, RecoverFails
  <2>4. Handled'
    BY <2>1, <2>2, <2>3, ProcessTypes DEF Handled
  <2>5. OneFrpc' /\ Marked'
    BY <2>3 DEF OneFrpc, Marked
  <2>6. Undone'
    BY <2>1, <2>2 DEF Undone
  <2> QED  BY <2>4, <2>5, <2>6 DEF ProcessInv
<1> QED  BY <1>1, <1>2

-----------------------------------------------------------------------------
(* Theorems.                                                               *)

LEMMA InitClient == Init => ClientInv
<1> SUFFICES ASSUME Init PROVE ClientInv
  OBVIOUS
<1>1. /\ w = Resting /\ handle = NoPid /\ on = TRUE /\ lost = {}
      /\ \A p \in Pid : proc[p] = "none" /\ waiter[p] = "wait"
  BY DEF Init
<1>2. Handled
  BY <1>1, RestingOK DEF Handled
<1>3. OneFrpc /\ Marked /\ Undone
  BY <1>1, RestingOK DEF OneFrpc, Marked, Undone
<1> QED  BY <1>2, <1>3, InitCalls DEF ClientInv, ProcessInv

LEMMA NextClient == ClientInv /\ [Next]_vars => ClientInv'
<1> SUFFICES ASSUME CallsInv, ProcessInv, [Next]_vars PROVE CallsInv' /\ ProcessInv'
  BY DEF ClientInv
<1>1. CallsInv'
  BY NextCalls
<1>2. CASE UNCHANGED vars
  <2>1. UNCHANGED <<w, handle, disk, procs, on>>
    BY <1>2 DEF vars, sup, os
  <2> QED  BY <1>1, <2>1, ProcessKept
<1>3. CASE Ask
  BY <1>1, <1>3, CallsProcess
<1>4. CASE Disturbance
  BY <1>1, <1>4, CallsProcess, ExitProcess, RestartProcess DEF Disturbance, Crash
<1>5. CASE Progress
  BY <1>1, <1>5, WorkProcess, CallsProcess, ExitProcess, WaiterProcess, RestartProcess
     DEF Progress, Quit
<1> QED  BY <1>2, <1>3, <1>4, <1>5 DEF Next

LEMMA ClientInvariant == Spec => []ClientInv
BY InitClient, NextClient, PTL DEF Spec

\* Type correctness of the Client, for any number of goroutines and logins; the processes that the
\* Supervisor holds a handle of are there.
THEOREM ClientTyped == Spec => []ClientTypeOK
<1>1. ClientInv => ClientTypeOK
  <2> SUFFICES ASSUME ClientInv PROVE ClientTypeOK
    OBVIOUS
  <2>1. CallsInv /\ (handle # NoPid => proc[handle] # "none")
    BY DEF ClientInv, ProcessInv, Handled
  <2>2. \A t \in Thread :
           call[t].cfg \in Config \cup {[NoConfig EXCEPT !.ses = s] : s \in 0..MaxSession}
    BY <2>1 DEF CallsInv, Injected, CallOK, Call, Kept
  <2>3. \A i \in DOMAIN queue : queue[i].by \in Thread \cup {NoThread}
    <3>1. \A i \in DOMAIN queue : queue[i] \in Operation
      BY <2>1 DEF CallsInv, Typed
    <3> QED  BY <3>1 DEF Operation, By
  <2>4. disk.secrets \in 0..MaxSession /\ disk.pid \in Pid \cup {NoPid}
    BY <2>1 DEF CallsInv, Typed, Disk
  <2> QED  BY <2>1, <2>2, <2>3, <2>4 DEF ClientTypeOK, CallsInv, Typed
<1> QED  BY <1>1, ClientInvariant, PTL

\* A result is delivered to the call that asked for it: while it waits, its operation is the only
\* one of its goroutine in the queue or at work, whatever other calls and time-outs do.
THEOREM CallersWait == Spec => []Waited
<1>1. ClientInv => Waited
  BY DEF ClientInv, CallsInv
<1> QED  BY <1>1, ClientInvariant, PTL

\* restart, stopProcess and the waiters: while the Client runs, every frpc it has started is the one
\* it has the handle of, or the one it is starting or stopping; when it is gone, the marker names
\* it, or it counts as lost. Late waiters, time-outs, exits and failed recoveries included.
THEOREM OneFrpcRuns == Spec => []OneFrpc
<1>1. ClientInv => OneFrpc
  BY DEF ClientInv, ProcessInv
<1> QED  BY <1>1, ClientInvariant, PTL

\* writePID and removePIDIf: from its start on frpc has its marker, unless the late waiter of an
\* earlier process has removed it.
THEOREM FrpcMarked == Spec => []Marked
<1>1. ClientInv => Marked
  BY DEF ClientInv, ProcessInv
<1> QED  BY <1>1, ClientInvariant, PTL

\* restart: a Client never has two frpc processes of its own, and finds at most one when it starts.
NoSecondFrpc == \A p, r \in Pid \ lost : proc[p] = "up" /\ proc[r] = "up" => p = r

\* No interleaving of restarts, exits, waiters, crashes and recoveries gives a Client a second frpc,
\* other than one an earlier run of the Client left without a marker or could not end (lost).
THEOREM NeverTwoFrpc == Spec => []NoSecondFrpc
<1>1. ClientInv => NoSecondFrpc
  <2> SUFFICES ASSUME ClientInv PROVE NoSecondFrpc
    OBVIOUS
  <2>1. CASE on
    <3>1. handle = NoPid \/ w.pid = NoPid
      BY DEF ClientInv, ProcessInv, Handled
    <3> QED  BY <2>1, <3>1, ProcessTypes DEF ClientInv, ProcessInv, OneFrpc, NoSecondFrpc
  <2>2. CASE ~on
    BY <2>2 DEF ClientInv, ProcessInv, OneFrpc, NoSecondFrpc
  <2> QED  BY <2>1, <2>2
<1> QED  BY <1>1, ClientInvariant, PTL

\* apply: an operation that has failed and put the old configuration back leaves it in place, and
\* frpc does not run with the new one. Nothing is said when the restoring write failed, when the
\* rename reported an error after replacing the file, or when the rollback was refused the binary.
THEOREM FailureRolledBack == Spec => []RolledBack
<1>1. ClientInv => RolledBack
  BY ProcessTypes DEF ClientInv, ProcessInv, Undone, RolledBack
<1> QED  BY <1>1, ClientInvariant, PTL

=============================================================================
