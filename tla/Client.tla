------------------------------- MODULE Client -------------------------------
(***************************************************************************)
(* The Client Panel: the calls of the local page and of the notification   *)
(* socket (app.go), each a goroutine of its own, and the Supervisor        *)
(* (supervisor.go), which runs their operations on frpc one after the      *)
(* other.  Calls may give up waiting; ClearRuntimeSecrets does not pass    *)
(* through the queue; the Client may be killed and started again.          *)
(*                                                                         *)
(* A call is the sequence of steps it still has to take.  The Server is    *)
(* modelled as far as the Client can tell: which session it honours.       *)
(***************************************************************************)
EXTENDS Integers, Sequences

CONSTANTS
    Thread,       \* the goroutines that run calls
    NoThread,     \* nobody waits for the result of an operation any more
    Version,      \* configurations the Server may serve
    Pid,          \* process ids
    MaxSession    \* bound: logins

ASSUME ThreadAssumption == NoThread \notin Thread
ASSUME SessionAssumption == MaxSession \in Nat
ASSUME PidAssumption == 0 \notin Pid       \* a process id is positive

Session == 1..MaxSession
NoSession == 0
NoPid == 0

\* A configuration with the credentials injected into it: the session it was fetched for, the
\* session whose credentials it carries, and which mappings it has.
Config == [ses : 0..MaxSession, cred : 0..MaxSession, ver : Version]
NoConfig == [ses |-> NoSession, cred |-> NoSession, ver |-> 0]

VARIABLES
    server,    \* the last session given out, and whether it is still honoured
    me,        \* App: the session whose token and credentials are in memory
    sock,      \* the goroutine of the current socket generation: "off", "dial" or "open", and
               \* the session the socket was opened for
    call,      \* per goroutine: its steps, its configuration, whether the socket waits for it
    queue,     \* Supervisor.queue
    w,         \* the operation that runs: its step, the configuration it has replaced, the process
               \* it starts or stops, and whether it has restored the file: "no", "yes", "error"
    last,      \* Supervisor.lastSnapshot
    handle,    \* Supervisor.process
    disk,      \* runtime/secrets, frpc.toml (with frpc.last-good.toml, which is never read), frpc.pid
    proc,      \* processes: "none", "up", "killed", "exited" with its waiter at work, or "noticed":
               \* exited, and restart has taken the only message about it
    waiter,    \* the goroutine that waits for a process: "wait", "remove" or "clear"
    loaded,    \* the configuration a process that is up runs with
    unmarked,  \* processes whose marker the waiter of another one has removed
    lost,      \* processes that a restarted Client could not know of or could not end
    on         \* whether the Client runs

app == <<server, me, sock, call>>
sup == <<queue, w, last, handle>>
procs == <<proc, waiter, loaded, unmarked, lost>>
os == <<disk, procs>>
vars == <<app, sup, os, on>>

Socket(st) == [st |-> st, ses |-> NoSession]
NoCall == [steps |-> <<>>, cfg |-> NoConfig, socket |-> FALSE]
Resting == [pc |-> "idle", cfg |-> NoConfig, old |-> NoConfig, by |-> NoThread, pid |-> NoPid,
            undo |-> "no"]
Clean == [secrets |-> NoSession, conf |-> NoConfig, pid |-> NoPid]

\* ClearRuntimeSecrets: the files one after the other, then the copy in memory.
Clear == <<"clear_secrets", "clear_conf", "drop">>
Login(old) == <<"login", "stop_socket", "set">> \o (IF old THEN <<"stop">> \o Clear ELSE <<>>)
                 \o <<"fetch", "start_socket">>
Logout == <<"stop_socket", "leave", "stop">> \o Clear \o <<"forget">>
Invalidate == <<"stop_socket", "stop">> \o Clear \o <<"forget">>
Sync == <<"fetch">>
Shutdown == <<"stop">> \o Clear
Terminate == Logout \o <<"quit">>

Init ==
    /\ server = [ses |-> NoSession, valid |-> FALSE] /\ me = NoSession /\ sock = Socket("off")
    /\ call = [t \in Thread |-> NoCall]
    /\ queue = <<>> /\ w = Resting /\ last = NoConfig /\ handle = NoPid
    /\ disk = Clean /\ proc = [p \in Pid |-> "none"] /\ waiter = [p \in Pid |-> "wait"]
    /\ loaded = [p \in Pid |-> NoConfig] /\ unmarked = {} /\ lost = {} /\ on = TRUE

-----------------------------------------------------------------------------
(* Calls.                                                                  *)

Free(t) == on /\ call[t].steps = <<>>
At(t, s) == call[t].steps # <<>> /\ Head(call[t].steps) = s
Pending(t) == {call[t].steps[i] : i \in DOMAIN call[t].steps}
Honoured(s) == s # NoSession /\ server = [ses |-> s, valid |-> TRUE]

\* The goroutine's call with the steps replaced, or with its step done.
Steps(t, s) == [call EXCEPT ![t] = IF s = <<>> THEN NoCall ELSE [@ EXCEPT !.steps = s]]
Stepped(t) == Steps(t, Tail(call[t].steps))

\* The socket's goroutine runs its loop; it waits for a call it has made.
Looping(st) == on /\ sock.st = st /\ \A t \in Thread : ~call[t].socket

\* A socket generation that is replaced waits for nobody.
Released(calls) == [t \in Thread |-> [calls[t] EXCEPT !.socket = FALSE]]

\* LoginWithTrust up to its request: whether there is a session to replace is read here.
StartLogin(t) ==
    /\ Free(t)
    /\ call' = [call EXCEPT ![t] = [NoCall EXCEPT !.steps = Login(me # NoSession)]]
    /\ UNCHANGED <<server, me, sock, sup, os, on>>

\* The Server's answer. A login that the Server grants ends its earlier session, so that logging
\* that one out too changes nothing; the answer may be lost.
LoginAnswer(t) ==
    /\ At(t, "login")
    /\ \/ server.ses < MaxSession /\ server' = [ses |-> server.ses + 1, valid |-> TRUE]
       \/ UNCHANGED server
    /\ \/ /\ server' # server
          /\ call' = [Stepped(t) EXCEPT ![t].cfg = [NoConfig EXCEPT !.ses = server'.ses]]
       \/ call' = Steps(t, <<>>)
    /\ UNCHANGED <<me, sock, sup, os, on>>

\* sessionRequired: the local page has the session's cookie, which the login returns when it ends.
PageKnows ==
    /\ me # NoSession
    /\ \A t \in Thread : call[t].cfg.ses = me /\ "start_socket" \in Pending(t) => "set" \in Pending(t)

\* Logout and FetchConfigAndApply, asked for by the local page.
StartCall(t, steps) ==
    /\ Free(t) /\ PageKnows
    /\ call' = [call EXCEPT ![t] = [NoCall EXCEPT !.steps = steps]]
    /\ UNCHANGED <<server, me, sock, sup, os, on>>

\* main: asked to end, the Client logs out, whoever is logged in, and exits.
StartTerminate(t) ==
    /\ Free(t) /\ \A u \in Thread : "quit" \notin Pending(u)
    /\ call' = [call EXCEPT ![t] = [NoCall EXCEPT !.steps = Terminate]]
    /\ UNCHANGED <<server, me, sock, sup, os, on>>

\* runWebSocketConnection: a notification; the loop goes on when the call has returned. One that
\* ends a session may be late and meant for an earlier one.
Receive(t, steps) ==
    /\ Free(t) /\ Looping("open")
    /\ steps = Invalidate => ~server.valid \/ server.ses > 1
    /\ call' = [call EXCEPT ![t] = [NoCall EXCEPT !.steps = steps, !.socket = TRUE]]
    /\ UNCHANGED <<server, me, sock, sup, os, on>>

\* Mutant: a refused dial is tried again like any other.
DialForgiving(t) ==
    /\ Free(t) /\ Looping("dial")
    /\ sock' = IF me = NoSession THEN Socket("off")
               ELSE IF Honoured(me) THEN [st |-> "open", ses |-> me] ELSE sock
    /\ UNCHANGED <<server, me, call, sup, os, on>>

\* runWebSocket: the socket is opened, or refused with 401, or there is no session to open it for.
Dial(t) ==
    /\ Free(t) /\ Looping("dial")
    /\ IF me = NoSession THEN sock' = Socket("off") /\ UNCHANGED call
       ELSE IF Honoured(me) THEN sock' = [st |-> "open", ses |-> me] /\ UNCHANGED call
       ELSE /\ call' = [call EXCEPT ![t] = [NoCall EXCEPT !.steps = Invalidate, !.socket = TRUE]]
            /\ UNCHANGED sock
    /\ UNCHANGED <<server, me, sup, os, on>>

\* The answer to a heartbeat when the Server does not honour the session any more.
Heartbeat(t) ==
    /\ Free(t) /\ Looping("open") /\ ~Honoured(sock.ses)
    /\ call' = [call EXCEPT ![t] = [NoCall EXCEPT !.steps = Invalidate, !.socket = TRUE]]
    /\ UNCHANGED <<server, me, sock, sup, os, on>>

Disconnect == /\ Looping("open")
              /\ sock' = Socket("dial") /\ UNCHANGED <<server, me, call, sup, os, on>>

StopSocket(t) ==
    /\ At(t, "stop_socket")
    /\ sock' = Socket("off") /\ call' = Released(Stepped(t))
    /\ UNCHANGED <<server, me, sup, os, on>>

StartSocket(t) ==
    /\ At(t, "start_socket")
    /\ sock' = Socket("dial") /\ call' = Released(Stepped(t))
    /\ UNCHANGED <<server, me, sup, os, on>>

SetSession(t) ==
    /\ At(t, "set")
    /\ me' = call[t].cfg.ses /\ call' = Stepped(t)
    /\ UNCHANGED <<server, sock, sup, os, on>>

\* The logout sent to the Server may be lost.
LeaveServer(t) ==
    /\ At(t, "leave")
    /\ server' \in {server, IF me = server.ses THEN [server EXCEPT !.valid = FALSE] ELSE server}
    /\ call' = Stepped(t)
    /\ UNCHANGED <<me, sock, sup, os, on>>

Forget(t) ==
    /\ At(t, "forget")
    /\ me' = NoSession /\ call' = Stepped(t)
    /\ UNCHANGED <<server, sock, sup, os, on>>

\* fetchConfig: a configuration, an error, or the news that the session has ended, which Proxy
\* acts upon.
Fetch(t) ==
    /\ At(t, "fetch")
    /\ \/ call' = Stepped(t)
       \/ /\ Honoured(me)
          /\ \E v \in Version :
                call' = [call EXCEPT ![t].steps = <<"inject", "apply">> \o Tail(@),
                                     ![t].cfg = [NoConfig EXCEPT !.ses = me, !.ver = v]]
       \/ me # NoSession /\ ~Honoured(me) /\ call' = Steps(t, Invalidate \o Tail(call[t].steps))
    /\ UNCHANGED <<server, me, sock, sup, os, on>>

\* applySnapshot: the credentials are those in memory now.
Inject(t) ==
    /\ At(t, "inject")
    /\ call' = [Stepped(t) EXCEPT ![t].cfg.cred = me]
    /\ UNCHANGED <<server, me, sock, sup, os, on>>

\* Stop and Apply: the operation is queued and waited for.
Enqueue(t) ==
    /\ At(t, "stop") \/ At(t, "apply")
    /\ queue' = Append(queue, [cfg |-> IF At(t, "stop") THEN NoConfig ELSE call[t].cfg, by |-> t])
    /\ call' = [call EXCEPT ![t].steps = <<"wait">> \o Tail(@)]
    /\ UNCHANGED <<server, me, sock, w, last, handle, os, on>>

\* The context of the call ends; the operation stays. That of shutdown_frpc does not end.
GiveUp(t) ==
    /\ At(t, "wait") /\ Tail(call[t].steps) # Clear
    /\ queue' = [i \in DOMAIN queue |->
                    IF queue[i].by = t THEN [queue[i] EXCEPT !.by = NoThread] ELSE queue[i]]
    /\ w' = [w EXCEPT !.by = IF @ = t THEN NoThread ELSE @]
    /\ call' = Stepped(t)
    /\ UNCHANGED <<server, me, sock, last, handle, os, on>>

ClearSecrets(t) ==
    /\ At(t, "clear_secrets")
    /\ disk' = [disk EXCEPT !.secrets = NoSession] /\ call' = Stepped(t)
    /\ UNCHANGED <<server, me, sock, sup, procs, on>>

ClearConfig(t) ==
    /\ At(t, "clear_conf")
    /\ disk' = [disk EXCEPT !.conf = NoConfig] /\ call' = Stepped(t)
    /\ UNCHANGED <<server, me, sock, sup, procs, on>>

DropSnapshot(t) ==
    /\ At(t, "drop")
    /\ last' = NoConfig /\ call' = Stepped(t)
    /\ UNCHANGED <<server, me, sock, queue, w, handle, os, on>>

\* A file cannot be removed: ClearRuntimeSecrets ends there, and its caller goes on.
ClearFails(t) ==
    /\ \E n \in {2, 3} :
          /\ At(t, IF n = 3 THEN "clear_secrets" ELSE "clear_conf")
          /\ call' = Steps(t, SubSeq(call[t].steps, n + 1, Len(call[t].steps)))
    /\ UNCHANGED <<server, me, sock, sup, os, on>>

-----------------------------------------------------------------------------
(* The Supervisor's goroutine.                                             *)

Live == w.by # NoThread       \* the context of the operation has not ended
Goto(pc) == w' = [w EXCEPT !.pc = pc]

\* Mutant: a channel without room keeps the goroutine until somebody reads.
FinishUnbuffered == Live /\ w' = Resting /\ call' = Stepped(w.by)

\* The result goes to the caller, if it still waits: the channel has room for it.
Finish == /\ w' = Resting
          /\ call' = IF Live THEN Stepped(w.by) ELSE call

Take ==
    /\ w.pc = "idle" /\ queue # <<>>
    /\ w' = [Resting EXCEPT !.cfg = Head(queue).cfg, !.by = Head(queue).by,
                            !.pc = IF Head(queue).cfg = NoConfig THEN "stop" ELSE "secrets"]
    /\ queue' = Tail(queue)
    /\ UNCHANGED <<app, last, handle, os, on>>

\* apply: the context is looked at, then the secrets are written, if they are complete; that may
\* fail half-way.
WriteSecrets ==
    /\ w.pc = "secrets"
    /\ \/ /\ Live /\ w.cfg.cred # NoSession
          /\ disk' = [disk EXCEPT !.secrets = w.cfg.cred]
          /\ Goto("verify") \/ Goto("failed")
       \/ Goto("failed") /\ UNCHANGED disk
    /\ UNCHANGED <<app, queue, last, handle, procs, on>>

\* Local services and frpc verify, which the end of the context stops.
Verify ==
    /\ w.pc = "verify"
    /\ \/ Goto("failed")
       \/ Live /\ Goto("replace")
    /\ UNCHANGED <<app, queue, last, handle, os, on>>

\* The file is replaced, or not; durableRename may also fail after the rename, and then the new
\* file stays and nothing is rolled back.
Replace ==
    /\ w.pc = "replace"
    /\ \E renamed \in BOOLEAN, pc \in {"run", "failed"} :
          /\ pc = "run" => renamed
          /\ disk' = [disk EXCEPT !.conf = IF renamed THEN w.cfg ELSE @]
          /\ w' = [w EXCEPT !.old = disk.conf, !.pc = pc]
    /\ UNCHANGED <<app, queue, last, handle, procs, on>>

\* reloadEligible: the same session and credentials, and a process.
ReloadEligible ==
    /\ w.undo = "no" /\ handle # NoPid /\ last # NoConfig
    /\ last.ses = w.cfg.ses /\ last.cred = w.cfg.cred

\* A reload that fails may have taken effect.
Reload ==
    /\ w.pc = "run" /\ ReloadEligible
    /\ \/ /\ Live /\ proc[handle] = "up" /\ disk.conf # NoConfig
          /\ loaded' = [loaded EXCEPT ![handle] = disk.conf] /\ Goto("commit")
       \/ /\ \/ UNCHANGED loaded
             \/ proc[handle] = "up" /\ loaded' = [loaded EXCEPT ![handle] = disk.conf]
          /\ Goto("rollback")
    /\ UNCHANGED <<app, queue, last, handle, disk, proc, waiter, unmarked, lost, on>>

\* Where a restart that fails leads to: back to the old file, once. A stop just ends.
Broken == IF w.undo # "no" \/ w.cfg = NoConfig THEN "failed" ELSE "rollback"

\* removePIDIf: only the marker of the process itself. In the Supervisor's goroutine this is one
\* step, since no other goroutine writes a marker; an error is ignored.
Unmarked(p) == [disk EXCEPT !.pid = IF @ = p THEN NoPid ELSE @]

\* stopProcess up to its wait: the handle is taken away and the process interrupted. No message
\* comes of an exit that restart has noticed.
StopProcess(next) ==
    /\ handle' = NoPid
    /\ IF handle = NoPid THEN Goto(next)
       ELSE w' = [w EXCEPT !.pc = IF proc[handle] = "noticed" THEN "hang" ELSE "await", !.pid = handle]

\* restart: a binary that does not have its hash any more is refused before anything is stopped.
Restart ==
    /\ w.pc = "run" /\ ~ReloadEligible
    /\ \/ StopProcess("start")
       \/ Goto(IF w.undo # "no" THEN "unrestored" ELSE "rollback") /\ UNCHANGED handle
    /\ UNCHANGED <<app, queue, last, os, on>>

Left(pc) == w' = [w EXCEPT !.pc = pc, !.pid = NoPid]

\* The process has exited, when interrupted or killed; if the context has ended too, nobody waits
\* for a killed one.
Await ==
    /\ w.pc = "await"
    /\ \/ /\ proc[w.pid] \notin {"up", "killed"} /\ disk' \in {disk, Unmarked(w.pid)}
          /\ Left(IF w.cfg = NoConfig THEN "failed" ELSE "start")
       \/ proc[w.pid] # "up" /\ ~Live /\ Left(Broken) /\ UNCHANGED disk
    /\ UNCHANGED <<app, queue, last, handle, procs, on>>

\* The interrupt has been ignored for two seconds.
Kill ==
    /\ w.pc = "await" /\ proc[w.pid] = "up"
    /\ proc' = [proc EXCEPT ![w.pid] = "killed"] /\ loaded' = [loaded EXCEPT ![w.pid] = NoConfig]
    /\ UNCHANGED <<app, sup, disk, waiter, unmarked, lost, on>>

\* Only the end of the context ends that wait.
Hang ==
    /\ w.pc = "hang" /\ ~Live /\ Left(Broken)
    /\ UNCHANGED <<app, queue, last, handle, os, on>>

StartProcess ==
    /\ w.pc = "start"
    /\ \/ Goto(Broken) /\ UNCHANGED <<proc, loaded>>
       \/ \E p \in Pid :
             /\ proc[p] = "none"
             /\ proc' = [proc EXCEPT ![p] = "up"] /\ loaded' = [loaded EXCEPT ![p] = disk.conf]
             /\ w' = [w EXCEPT !.pc = "mark", !.pid = p]
    /\ UNCHANGED <<app, queue, last, handle, disk, waiter, unmarked, lost, on>>

\* Mutant: the error of writePID is ignored like that of removePIDIf.
MarkIgnored ==
    /\ w.pc = "mark"
    /\ handle' = w.pid /\ disk' \in {disk, [disk EXCEPT !.pid = w.pid]}
    /\ Left(IF w.undo # "no" THEN "failed" ELSE "commit")
    /\ UNCHANGED <<app, queue, last, procs, on>>

\* writePID, the handle, the waiter, and the look whether the process has exited already. When
\* writePID fails, which it may do with the marker in place, the process is killed and waited for.
MarkProcess ==
    /\ w.pc = "mark"
    /\ \/ /\ handle' = w.pid /\ disk' = [disk EXCEPT !.pid = w.pid]
          /\ \/ Left(IF w.undo # "no" THEN "failed" ELSE "commit") /\ UNCHANGED proc
             \/ /\ proc[w.pid] = "exited" /\ proc' = [proc EXCEPT ![w.pid] = "noticed"]
                /\ Left(Broken)
          /\ UNCHANGED loaded
       \/ /\ disk' \in {disk, [disk EXCEPT !.pid = w.pid]} /\ Left(Broken) /\ UNCHANGED handle
          /\ proc' = [proc EXCEPT ![w.pid] = "none"] /\ loaded' = [loaded EXCEPT ![w.pid] = NoConfig]
    /\ unmarked' = unmarked \ {w.pid}
    /\ UNCHANGED <<app, queue, last, waiter, lost, on>>

\* Mutant: after a failed reload the process is left as it is.
RollbackFile ==
    /\ w.pc = "rollback"
    /\ IF w.old = NoConfig THEN Goto("failed") /\ UNCHANGED disk
       ELSE /\ disk' = [disk EXCEPT !.conf = w.old]
            /\ w' = [w EXCEPT !.undo = "yes", !.pc = IF handle # NoPid THEN "failed" ELSE "run"]
    /\ UNCHANGED <<app, queue, last, handle, procs, on>>

\* The old file comes back, and frpc is restarted with the file that is there: an error of the
\* write is ignored.
Rollback ==
    /\ w.pc = "rollback"
    /\ \/ w.old = NoConfig /\ Goto("failed") /\ UNCHANGED disk
       \/ /\ w.old # NoConfig /\ disk' = [disk EXCEPT !.conf = w.old]
          /\ w' = [w EXCEPT !.undo = "yes", !.pc = "run"]
       \/ /\ w.old # NoConfig /\ UNCHANGED disk
          /\ w' = [w EXCEPT !.undo = "error", !.pc = "run"]
    /\ UNCHANGED <<app, queue, last, handle, procs, on>>

Commit ==
    /\ w.pc = "commit"
    /\ last' = w.cfg /\ Finish
    /\ UNCHANGED <<server, me, sock, queue, handle, os, on>>

Fail ==
    /\ w.pc \in {"failed", "unrestored"} /\ Finish
    /\ UNCHANGED <<server, me, sock, queue, last, handle, os, on>>

StopOperation ==
    /\ w.pc = "stop"
    /\ StopProcess("failed")       \* the result is ignored by every caller
    /\ UNCHANGED <<app, queue, last, os, on>>

-----------------------------------------------------------------------------
(* Processes, the Server, and the end of the Client.                       *)

Exit(p) ==
    /\ proc[p] = "up"
    /\ proc' = [proc EXCEPT ![p] = IF on /\ p \notin lost THEN "exited" ELSE "none"]
    /\ loaded' = [loaded EXCEPT ![p] = NoConfig] /\ lost' = lost \ {p} /\ unmarked' = unmarked \ {p}
    /\ UNCHANGED <<app, sup, disk, waiter, on>>

\* A process that is killed ends, one that is interrupted may.
Die(p) ==
    /\ proc[p] = "killed" \/ (w.pc = "await" /\ w.pid = p /\ proc[p] = "up")
    /\ proc' = [proc EXCEPT ![p] = "exited"]
    /\ loaded' = [loaded EXCEPT ![p] = NoConfig] /\ unmarked' = unmarked \ {p}
    /\ UNCHANGED <<app, sup, disk, waiter, lost, on>>

\* The waiter, which runs once restart has the handle: removePIDIf compares the marker...
WaiterRead(p) ==
    /\ proc[p] \in {"exited", "noticed"} /\ waiter[p] = "wait" /\ ~(w.pc = "mark" /\ w.pid = p)
    /\ \/ waiter' = [waiter EXCEPT ![p] = "clear"]                      \* another's, or an error
       \/ disk.pid = p /\ waiter' = [waiter EXCEPT ![p] = "remove"]
    /\ UNCHANGED <<app, sup, disk, proc, loaded, unmarked, lost, on>>

\* ...and then removes the file, whichever marker it holds by now...
WaiterRemove(p) ==
    /\ waiter[p] = "remove" /\ waiter' = [waiter EXCEPT ![p] = "clear"]
    /\ \/ UNCHANGED <<disk, unmarked>>                                  \* an error
       \/ /\ disk' = [disk EXCEPT !.pid = NoPid]
          /\ unmarked' = unmarked \cup {r \in Pid \ {p} : disk.pid = r /\ proc[r] = "up"}
    /\ UNCHANGED <<app, sup, proc, loaded, lost, on>>

\* Mutant: the handle of a process that has exited is kept.
WaiterKeeps(p) ==
    /\ waiter[p] = "clear" /\ waiter' = [waiter EXCEPT ![p] = "wait"]
    /\ proc' = [proc EXCEPT ![p] = "none"]
    /\ UNCHANGED <<app, sup, disk, loaded, unmarked, lost, on>>

\* Mutant: the handle is cleared without a look at whose it is.
WaiterClearsAny(p) ==
    /\ waiter[p] = "clear" /\ waiter' = [waiter EXCEPT ![p] = "wait"]
    /\ proc' = [proc EXCEPT ![p] = "none"] /\ handle' = NoPid
    /\ UNCHANGED <<app, queue, w, last, disk, loaded, unmarked, lost, on>>

\* ...and at last the handle, if it is still that of the process.
WaiterClear(p) ==
    /\ waiter[p] = "clear" /\ waiter' = [waiter EXCEPT ![p] = "wait"]
    /\ proc' = [proc EXCEPT ![p] = "none"] /\ handle' = IF handle = p THEN NoPid ELSE handle
    /\ UNCHANGED <<app, queue, w, last, disk, loaded, unmarked, lost, on>>

\* The session expires, is replaced by another Client's, or the account is disabled.
EndSession ==
    /\ server.valid
    /\ server' = [server EXCEPT !.valid = FALSE]
    /\ UNCHANGED <<me, sock, call, sup, os, on>>

\* The Client's process is gone: frpc goes on, without a parent; what it was doing is forgotten.
Gone ==
    /\ on /\ on' = FALSE
    /\ me' = NoSession /\ sock' = Socket("off") /\ call' = [t \in Thread |-> NoCall]
    /\ queue' = <<>> /\ w' = Resting /\ last' = NoConfig /\ handle' = NoPid
    /\ proc' = [p \in Pid |-> IF proc[p] = "up" THEN "up" ELSE "none"]
    /\ waiter' = [p \in Pid |-> "wait"]
    /\ loaded' = [p \in Pid |-> IF proc[p] = "up" THEN loaded[p] ELSE NoConfig]
    /\ unmarked' = {} /\ lost' = lost \cup {p \in Pid : proc[p] = "up" /\ disk.pid # p}
    /\ UNCHANGED <<server, disk>>

Crash == Gone
Quit(t) == At(t, "quit") /\ Gone

\* RecoverOrphan ends the process that the marker names and removes the marker and the files.
Recover ==
    /\ ~on /\ on' = TRUE /\ disk' = Clean
    /\ proc' = [p \in Pid |-> IF p = disk.pid THEN "none" ELSE proc[p]]
    /\ loaded' = [p \in Pid |-> IF p = disk.pid THEN NoConfig ELSE loaded[p]]
    /\ lost' = lost \ {disk.pid}
    /\ UNCHANGED <<app, sup, waiter, unmarked>>

\* It fails before it has ended the process, or at one of the files: the Client goes on all the
\* same.
RecoverFails ==
    /\ ~on /\ on' = TRUE
    /\ \/ /\ disk.pid # NoPid /\ lost' = {p \in Pid : proc[p] = "up"}
          /\ UNCHANGED <<disk, proc, loaded>>
       \/ /\ proc' = [p \in Pid |-> IF p = disk.pid THEN "none" ELSE proc[p]]
          /\ loaded' = [p \in Pid |-> IF p = disk.pid THEN NoConfig ELSE loaded[p]]
          /\ lost' = lost \ {disk.pid}
          /\ disk' \in {disk, [disk EXCEPT !.pid = NoPid], [disk EXCEPT !.pid = NoPid, !.secrets = NoSession]}
    /\ UNCHANGED <<app, sup, waiter, unmarked>>

-----------------------------------------------------------------------------
Ask == \E t \in Thread : \/ StartLogin(t) \/ StartCall(t, Logout) \/ StartCall(t, Sync)
                         \/ Receive(t, Invalidate) \/ Receive(t, Sync) \/ Receive(t, Shutdown)
                         \/ StartTerminate(t)

Step(t) == \/ LoginAnswer(t) \/ StopSocket(t) \/ StartSocket(t) \/ SetSession(t) \/ LeaveServer(t)
           \/ Forget(t) \/ Fetch(t) \/ Inject(t) \/ Enqueue(t)
           \/ ClearSecrets(t) \/ ClearConfig(t) \/ DropSnapshot(t)

Work == \/ Take \/ WriteSecrets \/ Verify \/ Replace \/ Reload \/ Restart \/ Await \/ Kill \/ Hang
        \/ StartProcess \/ MarkProcess \/ Rollback \/ Commit \/ Fail \/ StopOperation

Waiter(p) == WaiterRead(p) \/ WaiterRemove(p) \/ WaiterClear(p)

Disturbance == \/ EndSession \/ Disconnect \/ Crash \/ RecoverFails
               \/ (\E t \in Thread : GiveUp(t) \/ ClearFails(t))
               \/ \E p \in Pid : Exit(p)

Progress == \/ Recover \/ Work
            \/ \E t \in Thread : Step(t) \/ Quit(t) \/ Dial(t) \/ Heartbeat(t)
            \/ \E p \in Pid : Waiter(p) \/ Die(p)

Next == Ask \/ Disturbance \/ Progress

\* Goroutines are scheduled, a killed process ends, and the Server can be reached in the end.
Fairness ==
    /\ WF_vars(Work) /\ WF_vars(Recover) /\ \A t \in Thread : WF_vars(Step(t))
    /\ WF_vars(\E t \in Thread : Dial(t) \/ Heartbeat(t))
    /\ \A p \in Pid : WF_vars(Waiter(p)) /\ WF_vars(proc[p] = "killed" /\ Die(p))

Spec == Init /\ [][Next]_vars /\ Fairness

-----------------------------------------------------------------------------
(* Properties.                                                             *)

\* Every variable has its type; a goroutine of the Supervisor or of a process knows only
\* processes that are there.
ClientTypeOK ==
    /\ server \in [ses : 0..MaxSession, valid : BOOLEAN] /\ me \in 0..MaxSession
    /\ sock \in [st : {"off", "dial", "open"}, ses : 0..MaxSession]
    /\ \A t \in Thread : call[t].cfg \in Config \cup {[NoConfig EXCEPT !.ses = s] : s \in 0..MaxSession}
    /\ \A i \in DOMAIN queue : queue[i].by \in Thread \cup {NoThread}
    /\ handle \in Pid \cup {NoPid} /\ (handle # NoPid => proc[handle] # "none")
    /\ disk.secrets \in 0..MaxSession /\ disk.pid \in Pid \cup {NoPid}
    /\ proc \in [Pid -> {"none", "up", "killed", "exited", "noticed"}]
    /\ waiter \in [Pid -> {"wait", "remove", "clear"}]
    /\ unmarked \subseteq Pid /\ lost \subseteq Pid /\ on \in BOOLEAN

\* restart, stopProcess and the waiters: while the Client runs, every frpc that it has started is
\* the one it has the handle of, or the one being started or stopped; none is left behind by a
\* restart, an exit, a time-out or the late waiter of an earlier one, so there is no second one
\* (acceptance standard, FRPC-002). When the Client is gone, the marker names it (FRPC-010), unless
\* it had none: then it is counted as lost.
OneFrpc ==
    \A p \in Pid \ lost : proc[p] = "up" => IF on THEN p \in {handle, w.pid} ELSE disk.pid = p

\* writePID and removePIDIf: from its start on frpc has its marker, the only way for the next start
\* of the Client to find it, except where the waiter of an earlier process has removed it: that
\* waiter compares the marker and removes the file without a lock.
Marked ==
    \A p \in Pid \ (lost \cup unmarked) :
        proc[p] = "up" => disk.pid = p \/ (w.pc = "mark" /\ w.pid = p)

\* apply: when an operation has failed and put the old file back, frpc does not run with the new
\* one, and the old one is still in place unless it has been cleared (FRPC-005), whatever exits,
\* ends or is cleared meanwhile. Not when the old file could not be written, whose error is ignored
\* (w.undo = "error"), when the rename reported an error after replacing the file (no rollback), or
\* when the binary is refused in the rollback, which apply reports ("unrestored").
RolledBack ==
    w.pc = "failed" /\ w.undo = "yes" =>
        /\ disk.conf \in {w.old, NoConfig}
        /\ handle # NoPid /\ proc[handle] = "up" => loaded[handle] \in {w.old, NoConfig}

\* Enqueue, Apply and Stop: callers that give up keep nobody waiting; whatever is queued is done,
\* unless the Supervisor waits for a message that restart has taken.
QueueDrains == queue # <<>> ~> queue = <<>> \/ w.pc = "hang"

\* runWebSocket and Proxy: a session that the Server does not honour any more is given up by the
\* Client, also when the notification is lost and whatever other calls run (AUTH-006); unless
\* the socket waits for a Supervisor that hangs.
EndNoticed == \A s \in Session : me = s /\ ~Honoured(s) ~> me # s \/ w.pc = "hang"

\* The acceptance standard's FRPC-009: when the session has ended and every call has returned,
\* frpc does not run and its credentials are gone from the disk.
EndedIsStopped ==
    on /\ me = NoSession /\ queue = <<>> /\ w = Resting /\ (\A t \in Thread : call[t] = NoCall) =>
        disk.secrets = NoSession /\ \A p \in Pid \ lost : proc[p] # "up"

=============================================================================
