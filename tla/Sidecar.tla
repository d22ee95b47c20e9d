------------------------------ MODULE Sidecar ------------------------------
(***************************************************************************)
(* The desktop application around the tunnel program: the connect and      *)
(* disconnect commands of sidecar.rs, the reader thread of each tunnel,    *)
(* the reconnect threads, the privileged helper daemon of macOS, the PID   *)
(* file of a crashed application and the status.                            *)
(*                                                                         *)
(* Commands are synchronous and run on the main thread (caller 0), one at  *)
(* a time.  A reconnect thread, named by the tunnel whose loss started it, *)
(* calls connect on its own.  They share the fields of AppState, each      *)
(* under a lock of its own.                                                *)
(***************************************************************************)
EXTENDS Integers, FiniteSets

CONSTANTS
    MaxTunnels,   \* how many tunnel processes a behaviour may start
    MaxCalls,     \* how many commands the user gives
    MaxFails,     \* how many tunnels may die by themselves, or starts fail
    MaxDowns,     \* how often the application ends and is started again
    Paths         \* subset of {"child", "helper"}: who runs the tunnel

ASSUME Bounds == /\ MaxTunnels \in Nat \ {0} /\ MaxCalls \in Nat
                 /\ MaxFails \in Nat /\ MaxDowns \in Nat
                 /\ Paths \subseteq {"child", "helper"} /\ Paths # {}

Tunnels == 1..MaxTunnels
Callers == 0..MaxTunnels        \* 0: the main thread
Absent == 0

Active == {"connecting", "connected", "reconnecting"}
Statuses == Active \union {"disconnected", "error"}

\* The races between threads that nothing in the code settles, kept apart so
\* that a property can say which of them it does not survive:
\*   "flag"    a command finds a reconnect thread whose flag it cannot set, or
\*             that does not look at its flag again (the exit handler sets none);
\*   "line"    a tunnel's "Connected" is dealt with after the user's disconnect;
\*   "start"   a tunnel connects or ends before the connect that started it is over;
\*   "other"   a tunnel is started while a thread of an earlier one is at work;
\*   "two"     connect finds no tunnel while another connect is on its way.
Races == {"flag", "line", "start", "other", "two"}

VARIABLES
    path,       \* child process, or helper daemon (macOS 13 and later)
    daemon,     \* the helper daemon: absent, dead (no socket), old or ok
    app,        \* "up" or "down"
    st,         \* AppState: child, stream, status, port, last, token
    pidFile,    \* tunnel recorded in the PID file
    cancelled,  \* reconnect threads whose cancel flag is set
    calls,      \* each caller's command, its place in it and its tunnel
    tun,        \* each tunnel: process, lines said, lines heard, rules pushed
    shut,       \* tunnels whose helper socket the application has closed
    anchors,    \* tunnels whose pf anchor is in place
    dog,        \* the helper's watchdog of each tunnel
    reader,     \* the reader thread of each tunnel, and the child it reaps
    recon,      \* the reconnect thread started at the loss of each tunnel
    wanted,     \* the user's last command: "on" or "off"
    orphans,    \* tunnels that ran when the application ended, stored or loose
    races,      \* which of the races below have happened in this run of the application
    used        \* budgets spent: calls, fails, downs

svars == <<path, daemon, app, st, pidFile, cancelled, calls, tun, shut, anchors,
           dog, reader, recon, wanted, orphans, races, used>>

NoCommand == [op |-> "none", pc |-> "idle", tun |-> Absent]
NewState == [child |-> Absent, stream |-> Absent, status |-> "disconnected",
             port |-> Absent, last |-> FALSE, token |-> Absent]

STypeOK ==
    /\ path \in Paths /\ daemon \in {"absent", "dead", "old", "ok"}
    /\ app \in {"up", "down"}
    /\ st \in [child : Callers, stream : Callers, status : Statuses,
               port : Callers, last : BOOLEAN, token : Callers]
    /\ pidFile \in Callers /\ cancelled \subseteq Tunnels
    /\ calls \in [Callers -> [op : {"none", "connect", "disconnect", "exit"},
                              pc : {"idle", "cancel", "check", "start", "pid",
                                    "store", "status", "forget", "stream",
                                    "child", "wait", "done"},
                              tun : Callers]]
    /\ tun \in [Tunnels -> [proc : {"none", "run", "up", "term", "gone"},
                            said : 0..2, heard : 0..2, rules : BOOLEAN]]
    /\ shut \subseteq Tunnels /\ anchors \subseteq Tunnels
    /\ dog \in [Tunnels -> {"off", "watch", "kill"}]
    /\ reader \in [Tunnels -> [pc : {"off", "read", "resolve", "reap", "port", "status",
                                     "profile", "again", "fail", "done"}, took : Callers]]
    /\ recon \in [Tunnels -> {"off", "tell", "wait", "tick", "slept", "now", "clear",
                              "try", "done"}]
    /\ wanted \in {"on", "off"} /\ orphans \in [Tunnels -> {"no", "kept", "loose"}]
    /\ races \subseteq Races
    /\ used \in [calls : 0..MaxCalls, fails : 0..MaxFails, downs : 0..MaxDowns]

SInit ==
    /\ path \in Paths
    /\ daemon \in IF path = "helper" THEN {"absent", "old"} ELSE {"absent"}
    /\ app = "up" /\ st = NewState /\ pidFile = Absent /\ cancelled = {}
    /\ calls = [c \in Callers |-> NoCommand]
    /\ tun = [t \in Tunnels |-> [proc |-> "none", said |-> 0, heard |-> 0, rules |-> FALSE]]
    /\ shut = {} /\ anchors = {} /\ dog = [t \in Tunnels |-> "off"]
    /\ reader = [t \in Tunnels |-> [pc |-> "off", took |-> Absent]]
    /\ recon = [t \in Tunnels |-> "off"]
    /\ wanted = "off" /\ orphans = [t \in Tunnels |-> "no"]
    /\ races = {}
    /\ used = [calls |-> 0, fails |-> 0, downs |-> 0]

-----------------------------------------------------------------------------
(* What is at work, and what is at rest.                                   *)

Alive(t) == tun[t].proc \in {"run", "up", "term"}

\* The child lock is held across a wait for a process in two places.
ChildLocked == \/ calls[0].pc = "wait"
               \/ \E t \in Tunnels : reader[t].pc = "reap"

\* The reader's stream is at its end: the process has ended, or the socket is closed.
AtEnd(t) == tun[t].proc = "gone" \/ t \in shut

Reading(t) == reader[t].pc = "read" /\ (tun[t].heard < tun[t].said \/ AtEnd(t))

\* No thread is between two steps: what is left waits for a process, for a
\* countdown, for the helper daemon or for the user.
Rest ==
    /\ \A c \in Callers : \/ calls[c].pc = "idle"
                          \/ calls[c].pc = "wait" /\ tun[calls[c].tun].proc # "gone"
    /\ \A t \in Tunnels : \/ reader[t].pc \in {"off", "done"}
                          \/ reader[t].pc = "reap" /\ tun[reader[t].took].proc # "gone"
                          \/ reader[t].pc = "read" /\ ~Reading(t)
    /\ \A t \in Tunnels : recon[t] \in {"off", "wait", "slept", "try", "done"}

Race(r, happens) == races' = IF happens THEN races \union {r} ELSE races

Fail == used.fails < MaxFails /\ used' = [used EXCEPT !.fails = @ + 1]

-----------------------------------------------------------------------------
(* helper_ipc.rs: what ensure_helper_running leaves of the daemon.         *)

\* register(): installs an absent daemon; otherwise nothing changes.
Register(d) == IF d = "absent" THEN {"absent", "dead", "ok"} ELSE {d}

\* restart_helper: unregister (which may fail), register, wait for the socket.
RestartHelper(d) == {[daemon |-> "ok", ok |-> TRUE]}
    \union {[daemon |-> f, ok |-> FALSE] : f \in {d, "absent", "dead"}}

\* A daemon without a socket, or of an older protocol, is restarted.
EnsureHelperRunning(d) ==
    UNION {CASE r = "ok"     -> {[daemon |-> "ok", ok |-> TRUE]}
             [] r = "absent" -> {[daemon |-> "absent", ok |-> FALSE]}
             [] OTHER        -> RestartHelper(r) : r \in Register(d)}

-----------------------------------------------------------------------------
(* connect, run by the main thread or by a reconnect thread.               *)

At(c, op, pc) == app = "up" /\ calls[c].op = op /\ calls[c].pc = pc
GoTo(c, pc) == calls' = [calls EXCEPT ![c].pc = pc]
CallOver(c) == calls' = [calls EXCEPT ![c] = NoCommand]

\* What a failed connect means to its caller: the user is told; a reconnect thread
\* puts its token back, says so and goes on counting down.
ConnectFailed(c) ==
    /\ CallOver(c)
    /\ IF c = 0
       THEN UNCHANGED <<st, recon>>
       ELSE /\ st' = [st EXCEPT !.token = c]
            /\ recon' = [recon EXCEPT ![c] = "tell"]

\* The token in force is taken and its flag set.
TakeToken ==
    /\ cancelled' = cancelled \union ({st.token} \ {Absent})
    /\ st' = [st EXCEPT !.token = Absent]

\* The reconnect threads that these flags do not stop before their next write.
AtLarge(flags) == {t \in Tunnels : \/ recon[t] \in {"tell", "tick", "now", "clear", "try"}
                                   \/ recon[t] \in {"wait", "slept"} /\ t \notin flags}

ConnectCancel(c) ==
    /\ At(c, "connect", "cancel")
    /\ TakeToken
    /\ Race("flag", c = 0 /\ AtLarge(cancelled') # {})
    /\ GoTo(c, "check")
    /\ UNCHANGED <<path, daemon, app, pidFile, tun, shut, anchors, dog, reader,
                   recon, wanted, orphans, used>>

ConnectCheck(c) ==
    /\ At(c, "connect", "check")
    /\ ~ChildLocked
    /\ IF st.child # Absent \/ st.stream # Absent
       THEN ConnectFailed(c)
       ELSE GoTo(c, "start") /\ UNCHANGED <<st, recon>>
    /\ Race("two", \E d \in Callers \ {c} : calls[d].op = "connect")
    /\ UNCHANGED <<path, daemon, app, pidFile, cancelled, tun, shut, anchors, dog,
                   reader, wanted, orphans, used>>

\* The tunnels are numbered in the order they are started.
Fresh == {t \in Tunnels : tun[t].proc = "none" /\ \A u \in 1..(t - 1) : tun[u].proc # "none"}

\* Both ways start the reader before connect has stored its handle.
Started(t) ==
    /\ tun' = [tun EXCEPT ![t].proc = "run"]
    /\ reader' = [reader EXCEPT ![t].pc = "read"]

\* Of the threads of earlier tunnels, one other than the caller is at work.
Others(c) == \/ \E t \in Tunnels : reader[t].pc \notin {"off", "done"}
             \/ AtLarge(cancelled) \ {c} # {}

\* ensure_helper_running and start_tunnel; the daemon starts the process and
\* the watchdog of its socket.
ConnectHelper(c) ==
    /\ At(c, "connect", "start") /\ path = "helper"
    /\ \E r \in EnsureHelperRunning(daemon) :
         /\ daemon' = r.daemon
         /\ IF r.ok
            THEN \E t \in Fresh :
                   /\ Started(t)
                   /\ dog' = [dog EXCEPT ![t] = "watch"]
                   /\ calls' = [calls EXCEPT ![c].pc = "store", ![c].tun = t]
                   /\ UNCHANGED <<st, recon, used>>
            ELSE Fail /\ ConnectFailed(c) /\ UNCHANGED <<tun, reader, dog>>
    /\ Race("other", Others(c))
    /\ UNCHANGED <<path, app, pidFile, cancelled, shut, anchors, wanted, orphans>>

\* Without the helper the application starts the process itself.
ConnectSpawn(c) ==
    /\ At(c, "connect", "start") /\ path = "child"
    /\ \/ \E t \in Fresh :
            /\ tun' = [tun EXCEPT ![t].proc = "run"]
            /\ calls' = [calls EXCEPT ![c].pc = "pid", ![c].tun = t]
            /\ UNCHANGED <<st, recon, used>>
       \/ Fail /\ ConnectFailed(c) /\ UNCHANGED tun
    /\ Race("other", Others(c))
    /\ UNCHANGED <<path, daemon, app, pidFile, cancelled, shut, anchors, dog, reader,
                   wanted, orphans>>

\* Mutant: the PID file is not written.
ConnectPid_Fault(c) ==
    /\ At(c, "connect", "pid")
    /\ UNCHANGED pidFile
    /\ reader' = [reader EXCEPT ![calls[c].tun].pc = "read"]
    /\ GoTo(c, "store")
    /\ UNCHANGED <<path, daemon, app, st, cancelled, tun, shut, anchors, dog, recon,
                   wanted, orphans, races, used>>

\* The PID file is written, then the reader thread starts.
ConnectPid(c) ==
    /\ At(c, "connect", "pid")
    /\ pidFile' = calls[c].tun
    /\ reader' = [reader EXCEPT ![calls[c].tun].pc = "read"]
    /\ GoTo(c, "store")
    /\ UNCHANGED <<path, daemon, app, st, cancelled, tun, shut, anchors, dog, recon,
                   wanted, orphans, races, used>>

ConnectStore(c) ==
    /\ At(c, "connect", "store")
    /\ IF path = "helper"
       THEN st' = [st EXCEPT !.stream = calls[c].tun]
       ELSE ~ChildLocked /\ st' = [st EXCEPT !.child = calls[c].tun]
    /\ GoTo(c, "status")
    /\ UNCHANGED <<path, daemon, app, pidFile, cancelled, tun, shut, anchors, dog,
                   reader, recon, wanted, orphans, races, used>>

\* A reconnect thread whose connect returned Ok ends there.
ConnectStatus(c) ==
    /\ At(c, "connect", "status")
    /\ st' = [st EXCEPT !.status = "connecting"]
    /\ recon' = IF c = 0 THEN recon ELSE [recon EXCEPT ![c] = "done"]
    /\ CallOver(c)
    /\ UNCHANGED <<path, daemon, app, pidFile, cancelled, tun, shut, anchors, dog,
                   reader, wanted, orphans, races, used>>

-----------------------------------------------------------------------------
(* disconnect, and the exit handler of lib.rs, which shares its middle.    *)

DisconnectCancel ==
    /\ At(0, "disconnect", "cancel")
    /\ TakeToken
    /\ Race("flag", AtLarge(cancelled') # {})
    /\ GoTo(0, "forget")
    /\ UNCHANGED <<path, daemon, app, pidFile, tun, shut, anchors, dog, reader,
                   recon, wanted, orphans, used>>

\* The losses that were seen before the profile was forgotten, and whose token
\* was not there to be taken.
Seen == {t \in Tunnels : reader[t].pc = "again"} \union AtLarge(cancelled)

\* Mutant: disconnect keeps the profile.
DisconnectForget_Fault ==
    /\ At(0, "disconnect", "forget")
    /\ st' = [st EXCEPT !.last = @]
    /\ Race("flag", Seen # {})
    /\ GoTo(0, "stream")
    /\ UNCHANGED <<path, daemon, app, pidFile, cancelled, tun, shut, anchors, dog,
                   reader, recon, wanted, orphans, used>>

\* The profile is forgotten before the tunnel is told to stop, so that its
\* reader does not take the end of the stream for a loss.
DisconnectForget ==
    /\ At(0, "disconnect", "forget")
    /\ st' = [st EXCEPT !.last = FALSE]
    /\ Race("flag", Seen # {})
    /\ GoTo(0, "stream")
    /\ UNCHANGED <<path, daemon, app, pidFile, cancelled, tun, shut, anchors, dog,
                   reader, recon, wanted, orphans, used>>

\* The helper's socket: the quit byte, shutdown, status and handle.
CloseStream(op) ==
    /\ At(0, op, "stream")
    /\ IF st.stream = Absent
       THEN UNCHANGED <<st, shut>>
       ELSE /\ shut' = shut \union {st.stream}
            /\ st' = [st EXCEPT !.stream = Absent,
                               !.status = IF op = "exit" THEN @ ELSE "disconnected"]
    /\ GoTo(0, "child")
    /\ Race("flag", op = "exit" /\ AtLarge(cancelled) # {})
    /\ UNCHANGED <<path, daemon, app, pidFile, cancelled, tun, anchors, dog, reader,
                   recon, wanted, orphans, used>>

\* The child: SIGTERM to its group, then a wait under the lock.
StopChild(op) ==
    /\ At(0, op, "child")
    /\ ~ChildLocked
    /\ IF st.child = Absent
       THEN GoTo(0, "done") /\ UNCHANGED <<st, tun>>
       ELSE /\ st' = [st EXCEPT !.child = Absent]
            /\ tun' = [tun EXCEPT ![st.child].proc = IF @ = "gone" THEN @ ELSE "term"]
            /\ calls' = [calls EXCEPT ![0].pc = "wait", ![0].tun = st.child]
    /\ UNCHANGED <<path, daemon, app, pidFile, cancelled, shut, anchors, dog, reader,
                   recon, wanted, orphans, races, used>>

\* wait_with_timeout: the process ended, or it is killed after three seconds
\* and leaves its firewall rules behind.  The PID file goes with it.
ChildStopped(op) ==
    /\ At(0, op, "wait")
    /\ \/ tun[calls[0].tun].proc = "gone" /\ UNCHANGED <<tun, used>>
       \/ /\ tun[calls[0].tun].proc # "gone" /\ Fail
          /\ tun' = [tun EXCEPT ![calls[0].tun].proc = "gone"]
    /\ pidFile' = Absent
    /\ GoTo(0, "done")
    /\ UNCHANGED <<path, daemon, app, st, cancelled, shut, anchors, dog, reader,
                   recon, wanted, orphans, races>>

DisconnectDone ==
    /\ At(0, "disconnect", "done")
    /\ st' = [st EXCEPT !.port = Absent, !.status = "disconnected"]
    /\ CallOver(0)
    /\ UNCHANGED <<path, daemon, app, pidFile, cancelled, tun, shut, anchors, dog,
                   reader, recon, wanted, orphans, races, used>>

-----------------------------------------------------------------------------
(* The reader of a tunnel: the stderr thread, or the helper event thread.  *)

\* handle_stats_port_line: the port is stored and the persisted rules are
\* pushed before the next line is read.
ReadPort(t) ==
    /\ app = "up" /\ reader[t].pc = "read" /\ tun[t].heard = 0 /\ tun[t].said > 0
    /\ st' = [st EXCEPT !.port = t]
    /\ tun' = [tun EXCEPT ![t].heard = 1, ![t].rules = TRUE]
    /\ UNCHANGED <<path, daemon, app, pidFile, cancelled, calls, shut, anchors, dog,
                   reader, recon, wanted, orphans, races, used>>

\* "Connected to server.": the profile is kept for a reconnect, the server's name
\* is resolved, and only then the status is set.
KeepProfile(t) ==
    /\ app = "up" /\ reader[t].pc = "read" /\ tun[t].heard = 1 /\ tun[t].said = 2
    /\ st' = [st EXCEPT !.last = TRUE]
    /\ reader' = [reader EXCEPT ![t].pc = "resolve"]
    /\ Race("line", wanted = "off")
    /\ UNCHANGED <<path, daemon, app, pidFile, cancelled, calls, tun, shut, anchors, dog,
                   recon, wanted, orphans, used>>

ReadConnected(t) ==
    /\ app = "up" /\ reader[t].pc = "resolve"
    /\ st' = [st EXCEPT !.status = "connected"]
    /\ tun' = [tun EXCEPT ![t].heard = 2]
    /\ reader' = [reader EXCEPT ![t].pc = "read"]
    /\ Race("line", wanted = "off")
    /\ UNCHANGED <<path, daemon, app, pidFile, cancelled, calls, shut, anchors, dog,
                   recon, wanted, orphans, used>>

\* The end of the helper's stream clears the handle, whosever it is.
HelperEof(t) ==
    /\ app = "up" /\ path = "helper" /\ reader[t].pc = "read" /\ AtEnd(t)
    /\ tun[t].heard = tun[t].said \/ t \in shut
    /\ st' = [st EXCEPT !.stream = Absent]
    /\ reader' = [reader EXCEPT ![t].pc = "port"]
    /\ UNCHANGED <<path, daemon, app, pidFile, cancelled, calls, tun, shut, anchors,
                   dog, recon, wanted, orphans, races, used>>

\* Mutant: the ended child stays stored.
ChildEof_Fault(t) ==
    /\ app = "up" /\ path = "child" /\ reader[t].pc = "read" /\ AtEnd(t)
    /\ tun[t].heard = tun[t].said /\ ~ChildLocked
    /\ UNCHANGED st
    /\ reader' = [reader EXCEPT ![t] = IF st.child = Absent
                                      THEN [pc |-> "port", took |-> Absent]
                                      ELSE [pc |-> "reap", took |-> st.child]]
    /\ UNCHANGED <<path, daemon, app, pidFile, cancelled, calls, tun, shut, anchors,
                   dog, recon, wanted, orphans, races, used>>

\* The end of stderr takes the child, whichever is stored, and waits for it
\* under the lock.
ChildEof(t) ==
    /\ app = "up" /\ path = "child" /\ reader[t].pc = "read" /\ AtEnd(t)
    /\ tun[t].heard = tun[t].said /\ ~ChildLocked
    /\ st' = [st EXCEPT !.child = Absent]
    /\ reader' = [reader EXCEPT ![t] = IF st.child = Absent
                                      THEN [pc |-> "port", took |-> Absent]
                                      ELSE [pc |-> "reap", took |-> st.child]]
    /\ UNCHANGED <<path, daemon, app, pidFile, cancelled, calls, tun, shut, anchors,
                   dog, recon, wanted, orphans, races, used>>

Reaped(t) ==
    /\ app = "up" /\ reader[t].pc = "reap" /\ tun[reader[t].took].proc = "gone"
    /\ reader' = [reader EXCEPT ![t] = [pc |-> "port", took |-> Absent]]
    /\ UNCHANGED <<path, daemon, app, st, pidFile, cancelled, calls, tun, shut,
                   anchors, dog, recon, wanted, orphans, races, used>>

ClearPort(t) ==
    /\ app = "up" /\ reader[t].pc = "port"
    /\ st' = [st EXCEPT !.port = Absent]
    /\ reader' = [reader EXCEPT ![t].pc = "status"]
    /\ UNCHANGED <<path, daemon, app, pidFile, cancelled, calls, tun, shut, anchors,
                   dog, recon, wanted, orphans, races, used>>

\* The status, then the profile are read, and acted on in a later step.
LookStatus(t) ==
    /\ app = "up" /\ reader[t].pc = "status"
    /\ reader' = [reader EXCEPT ![t].pc = CASE st.status = "connected"  -> "profile"
                                           [] st.status = "connecting" -> "fail"
                                           [] OTHER                    -> "done"]
    /\ UNCHANGED <<path, daemon, app, st, pidFile, cancelled, calls, tun, shut,
                   anchors, dog, recon, wanted, orphans, races, used>>

LookProfile(t) ==
    /\ app = "up" /\ reader[t].pc = "profile"
    /\ reader' = [reader EXCEPT ![t].pc = IF st.last THEN "again" ELSE "fail"]
    /\ UNCHANGED <<path, daemon, app, st, pidFile, cancelled, calls, tun, shut,
                   anchors, dog, recon, wanted, orphans, races, used>>

ExitedUnexpectedly(t) ==
    /\ app = "up" /\ reader[t].pc = "fail"
    /\ st' = [st EXCEPT !.status = "error"]
    /\ reader' = [reader EXCEPT ![t].pc = "done"]
    /\ UNCHANGED <<path, daemon, app, pidFile, cancelled, calls, tun, shut, anchors,
                   dog, recon, wanted, orphans, races, used>>

-----------------------------------------------------------------------------
(* spawn_reconnect_thread.  Its countdown looks at the flag and writes the *)
(* status every second, five times: one such round stands for the five.    *)

SpawnReconnect(t) ==
    /\ app = "up" /\ reader[t].pc = "again"
    /\ st' = [st EXCEPT !.token = t]
    /\ recon' = [recon EXCEPT ![t] = "tell"]
    /\ Race("flag", calls[0].op = "exit")
    /\ reader' = [reader EXCEPT ![t].pc = "done"]
    /\ UNCHANGED <<path, daemon, app, pidFile, cancelled, calls, tun, shut, anchors,
                   dog, wanted, orphans, used>>

\* Unused tunnels beyond the connects under way: the bound on starts.
Room == Cardinality({t \in Tunnels : tun[t].proc = "none"})
          > Cardinality({c \in Callers : calls[c].op = "connect"})
            + Cardinality({t \in Tunnels : recon[t] \in {"now", "clear"}})

\* The flag is looked at in the countdown and once more after it.
ReconnectLooks(t) ==
    /\ app = "up"
    /\ \/ t \in cancelled /\ recon[t] \in {"wait", "slept"}
          /\ recon' = [recon EXCEPT ![t] = "done"]
       \/ t \notin cancelled /\ recon[t] = "wait"
          /\ recon' = [recon EXCEPT ![t] = "tick"]
       \/ t \notin cancelled /\ recon[t] = "slept" /\ Room
          /\ recon' = [recon EXCEPT ![t] = "now"]
    /\ UNCHANGED <<path, daemon, app, st, pidFile, cancelled, calls, tun, shut,
                   anchors, dog, reader, wanted, orphans, races, used>>

\* "reconnecting" is written at the start, in the countdown and before the attempt.
ReconnectTells(t) ==
    /\ app = "up" /\ recon[t] \in {"tell", "tick", "now"}
    /\ st' = [st EXCEPT !.status = "reconnecting"]
    /\ recon' = [recon EXCEPT ![t] = CASE @ = "tell" -> "wait"
                                        [] @ = "tick" -> "slept"
                                        [] @ = "now"  -> "clear"]
    /\ UNCHANGED <<path, daemon, app, pidFile, cancelled, calls, tun, shut, anchors,
                   dog, reader, wanted, orphans, races, used>>

\* The token is taken down and connect is called.
ReconnectNow(t) ==
    /\ app = "up" /\ recon[t] = "clear"
    /\ st' = [st EXCEPT !.token = Absent]
    /\ recon' = [recon EXCEPT ![t] = "try"]
    /\ calls' = [calls EXCEPT ![t] = [op |-> "connect", pc |-> "cancel", tun |-> Absent]]
    /\ UNCHANGED <<path, daemon, app, pidFile, cancelled, tun, shut, anchors, dog,
                   reader, wanted, orphans, races, used>>

-----------------------------------------------------------------------------
(* The tunnel process (external: the program of cmd/tunnel) and the        *)
(* helper daemon's handler of its connection.                              *)

\* The connect that started the tunnel is not over.
Starting(t) == \E c \in Callers : calls[c].op = "connect" /\ calls[c].tun = t

\* The two lines that matter; the firewall is set up before the second.
Says(t) ==
    /\ tun[t].proc = "run"
    /\ Race("start", tun[t].said = 1 /\ Starting(t))
    /\ tun' = [tun EXCEPT ![t].said = @ + 1,
                         ![t].proc = IF tun[t].said = 1 THEN "up" ELSE @]
    /\ anchors' = IF tun[t].said = 1 THEN anchors \union {t} ELSE anchors
    /\ UNCHANGED <<path, daemon, app, st, pidFile, cancelled, calls, shut, dog, reader,
                   recon, wanted, orphans, used>>

\* It dies by itself (also while the application is down), or when told to.
Ends(t) ==
    /\ \/ tun[t].proc \in {"run", "up"} /\ Fail
       \/ tun[t].proc = "term" /\ UNCHANGED used
    /\ tun' = [tun EXCEPT ![t].proc = "gone"]
    /\ anchors' = anchors \ {t}
    /\ Race("start", Starting(t))
    /\ UNCHANGED <<path, daemon, app, st, pidFile, cancelled, calls, shut, dog, reader,
                   recon, wanted, orphans>>

\* handle_connection's watchdog: a read of the socket returns when the
\* application closes it or, after the process ended, when the handler does.
WatchdogTerm(t) ==
    /\ dog[t] = "watch" /\ AtEnd(t)
    /\ dog' = [dog EXCEPT ![t] = "kill"]
    /\ tun' = [tun EXCEPT ![t].proc = IF @ = "gone" THEN @ ELSE "term"]
    /\ UNCHANGED <<path, daemon, app, st, pidFile, cancelled, calls, shut, anchors,
                   reader, recon, wanted, orphans, races, used>>

\* Every anchor whose name begins with netferry- is flushed.  (The application
\* runs the same code without the rights to use pfctl: it changes nothing.)
CleanStalePfAnchors(left) == left \ Tunnels

\* Three seconds after the signal.
WatchdogKill(t) ==
    /\ dog[t] = "kill"
    /\ dog' = [dog EXCEPT ![t] = "off"]
    /\ tun' = [tun EXCEPT ![t].proc = "gone"]
    /\ anchors' = CleanStalePfAnchors(anchors)
    /\ UNCHANGED <<path, daemon, app, st, pidFile, cancelled, calls, shut, reader,
                   recon, wanted, orphans, races, used>>

-----------------------------------------------------------------------------
(* The application ends and starts again.                                  *)

\* Its threads, its state and its sockets are gone; child processes are not.
AppGone ==
    /\ app' = "down"
    /\ st' = NewState /\ cancelled' = {}
    /\ calls' = [c \in Callers |-> NoCommand]
    /\ reader' = [t \in Tunnels |-> [pc |-> "off", took |-> Absent]]
    /\ recon' = [t \in Tunnels |-> "off"]
    /\ shut' = IF path = "helper" THEN {t \in Tunnels : tun[t].proc # "none"} ELSE {}
    /\ orphans' = [t \in Tunnels |->
                     IF ~Alive(t) THEN orphans[t]
                     ELSE IF path = "helper" \/ (st.child = t /\ "two" \notin races)
                          THEN "kept" ELSE "loose"]
    /\ wanted' = "off" /\ races' = {}
    /\ UNCHANGED <<path, daemon, pidFile, tun, anchors, dog>>

ExitDone ==
    /\ At(0, "exit", "done")
    /\ AppGone
    /\ UNCHANGED used

Crash ==
    /\ app = "up" /\ used.downs < MaxDowns
    /\ used' = [used EXCEPT !.downs = @ + 1]
    /\ AppGone

\* kill_stale_tunnel: SIGTERM to the recorded group, two seconds, SIGKILL.
Restart ==
    /\ app = "down"
    /\ app' = "up"
    /\ pidFile' = Absent
    /\ IF pidFile # Absent /\ Alive(pidFile)
       THEN \E clean \in BOOLEAN :
              /\ tun' = [tun EXCEPT ![pidFile].proc = "gone"]
              /\ anchors' = IF clean THEN anchors \ {pidFile} ELSE anchors
       ELSE UNCHANGED <<tun, anchors>>
    /\ UNCHANGED <<path, daemon, st, cancelled, calls, shut, dog, reader, recon,
                   wanted, orphans, races, used>>

-----------------------------------------------------------------------------
(* The user: the window, the tray and the application menu.  Each calls      *)
(* connect and disconnect by the status it shows, which may be an old one.  *)

Call(op, pc, want) ==
    /\ app = "up" /\ calls[0].pc = "idle" /\ used.calls < MaxCalls
    /\ used' = [used EXCEPT !.calls = @ + 1]
    /\ calls' = [calls EXCEPT ![0] = [op |-> op, pc |-> pc, tun |-> Absent]]
    /\ wanted' = want
    /\ UNCHANGED <<path, daemon, app, st, pidFile, cancelled, tun, shut, anchors, dog,
                   reader, recon, orphans, races>>

UserConnect == Room /\ Call("connect", "cancel", "on")
UserDisconnect == Call("disconnect", "cancel", "off")

Quit ==
    /\ app = "up" /\ calls[0].pc = "idle" /\ used.downs < MaxDowns
    /\ used' = [used EXCEPT !.downs = @ + 1]
    /\ calls' = [calls EXCEPT ![0] = [op |-> "exit", pc |-> "stream", tun |-> Absent]]
    /\ UNCHANGED <<path, daemon, app, st, pidFile, cancelled, tun, shut, anchors, dog,
                   reader, recon, wanted, orphans, races>>

-----------------------------------------------------------------------------
Connect(c) == \/ ConnectCancel(c) \/ ConnectCheck(c) \/ ConnectHelper(c) \/ ConnectSpawn(c)
              \/ ConnectPid(c) \/ ConnectStore(c) \/ ConnectStatus(c)

Stop == \/ DisconnectCancel \/ DisconnectForget \/ DisconnectDone
        \/ \E op \in {"disconnect", "exit"} :
              CloseStream(op) \/ StopChild(op) \/ ChildStopped(op)
        \/ ExitDone

Reader(t) == \/ ReadPort(t) \/ KeepProfile(t) \/ ReadConnected(t) \/ HelperEof(t)
             \/ ChildEof(t) \/ Reaped(t) \/ ClearPort(t) \/ LookStatus(t) \/ LookProfile(t)
             \/ ExitedUnexpectedly(t) \/ SpawnReconnect(t)

Reconnect(t) == ReconnectLooks(t) \/ ReconnectTells(t) \/ ReconnectNow(t)

User == UserConnect \/ UserDisconnect \/ Quit

SNext == \/ \E c \in Callers : Connect(c)
        \/ Stop \/ User \/ Crash \/ Restart
        \/ \E t \in Tunnels : \/ Reader(t) \/ Reconnect(t)
                              \/ Says(t) \/ Ends(t) \/ WatchdogTerm(t) \/ WatchdogKill(t)

\* Threads that can run do run, a process that got SIGTERM ends or is killed
\* by whoever waits for it, and a tunnel gets on with its connection.
SFairness ==
    /\ \A c \in Callers : WF_svars(Connect(c))
    /\ WF_svars(Stop)
    /\ \A t \in Tunnels : /\ WF_svars(Reader(t)) /\ WF_svars(Reconnect(t)) /\ WF_svars(Says(t))
                          /\ WF_svars(tun[t].proc = "term" /\ Ends(t))
                          /\ WF_svars(WatchdogTerm(t)) /\ WF_svars(WatchdogKill(t))

SSpec == SInit /\ [][SNext]_svars /\ SFairness

-----------------------------------------------------------------------------
(* Properties.                                                             *)

Handle == IF path = "helper" THEN st.stream ELSE st.child
Calm == app = "up" /\ Rest /\ calls[0].pc = "idle"

\* After the user's disconnect nothing brings the tunnel back: no process runs
\* that was not told to stop, no reconnect thread counts down to a new one and
\* the status is not that of a connection (sidecar.rs, disconnect against the
\* reader and the reconnect threads).
Down == /\ st.status \notin Active
        /\ \A t \in Tunnels : tun[t].proc \in {"run", "up"} => t \in shut \/ orphans[t] # "no"
        /\ \A t \in Tunnels : recon[t] \in {"wait", "slept"} => t \in cancelled

StaysDown == Calm /\ wanted = "off" /\ races \intersect {"flag", "line", "two"} = {} => Down

\* The same of every disconnect.
StaysDownAlways == Calm /\ wanted = "off" => Down

\* When the threads have caught up, "connected" means a stored tunnel that is
\* up, with its stats port known and its rules pushed; "connecting" one that
\* is starting; any other status means that no tunnel is stored.
StatusTrue ==
    /\ st.status = "connected" => /\ Handle # Absent /\ tun[Handle].proc = "up"
                                  /\ st.port = Handle /\ tun[Handle].rules
    /\ st.status = "connecting" => Handle # Absent /\ tun[Handle].proc = "run"
    /\ Handle # Absent => st.status \in {"connecting", "connected"}

StatusHonest == Calm /\ races = {} => StatusTrue

\* The same whatever the race.
StatusHonestAlways == Calm => StatusTrue

\* A tunnel that the application had stored when it ended does not outlive the
\* next one (sidecar.rs, kill_stale_tunnel; the helper's handle_connection):
\* until it is gone the PID file names it, and no application has started in
\* the meantime, or the helper's watchdog looks at a socket that is closed.
OrphanFound(t) == CASE path = "child"  -> app = "down" /\ pidFile = t
                    [] path = "helper" -> t \in shut /\ dog[t] # "off"

OrphansFound == \A t \in Tunnels : orphans[t] = "kept" /\ Alive(t) => OrphanFound(t)

\* The same of every tunnel that had been started.
EveryOrphanFound == \A t \in Tunnels : orphans[t] # "no" /\ Alive(t) => OrphanFound(t)

\* A command returns: the main thread is not left waiting for a lock held
\* across the wait for a tunnel.
CommandReturns == (calls[0].pc # "idle") ~> (calls[0].pc = "idle")

\* The reconnect thread "retries connecting until it succeeds": a lost
\* connection is either up again or the user has given a command.
RetriesUntilConnected ==
    (st.status = "reconnecting" /\ calls[0].pc = "idle")
        ~> (st.status = "connected" \/ calls[0].pc # "idle" \/ app = "down")

\* "reconnecting" is shown only while a reconnect thread is at it.
ReconnectGoesOn ==
    Calm /\ st.status = "reconnecting" =>
        \E t \in Tunnels : recon[t] \notin {"off", "done"} /\ t \notin cancelled

\* The anchors of a tunnel that is up are left alone by the watchdog of an
\* older tunnel, which removes leftovers.
AnchorsKept == \A t \in Tunnels : tun[t].proc = "up" => t \in anchors

\* The reader of a tunnel takes no other tunnel's process out of the state.
ReapsItsOwn == \A t \in Tunnels : reader[t].took \in {Absent, t}
=============================================================================
