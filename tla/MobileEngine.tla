---------------------------- MODULE MobileEngine ----------------------------
(***************************************************************************)
(* The mobile tunnel engine, mobile/engine.go, with the life cycle of its  *)
(* sessions (mobile/tunnel.go) and TUN forwarders (mobile/tun.go).         *)
(*                                                                         *)
(* Per engine four threads of control take part: the native thread that    *)
(* calls Start or StartWithTUN, the one that calls Stop, and the goroutines*)
(* reconnectWatcher and statsLoop that a successful Start spawns.  Each    *)
(* section under e.mu is one action; between sections everything else may  *)
(* run.  All engines of a process share the socket-protection hook         *)
(* (sshconn.SetDialFunc).                                                  *)
(*                                                                         *)
(* A session is "live" until all of its mux clients have returned, then    *)
(* "dead", and "closed" after tunnelSession.Close.  The native side starts *)
(* an engine only when its last Start failed or a Stop has returned.       *)
(*                                                                         *)
(* Channels are numbered: every Start that is not refused makes a new      *)
(* stopCh.  A goroutine blocked in select waits on the channel that was    *)
(* current when it entered the select.                                     *)
(***************************************************************************)
EXTENDS Naturals, FiniteSets

\* Definitions named X_Y are faulty variants of X, used by no specification.

CONSTANTS
    Engines,    \* engine instances of one process
    Conns,      \* SSH connections dialed for a session (pool and ctrl)
    MaxStarts,  \* bound: Start calls per engine
    MaxStops,   \* bound: Stop calls per engine
    MaxSess,    \* bound: sessions established per engine
    UseTUN,     \* whether the engines are started with StartWithTUN
    StopDuringStart  \* whether Stop may be called while Start is running

ASSUME BoundsAssumption ==
    /\ Conns \in Nat \ {0} /\ MaxStarts \in Nat /\ MaxStops \in Nat
    /\ MaxSess \in Nat /\ UseTUN \in BOOLEAN
    /\ StopDuringStart \in BOOLEAN

Sessions == 1 .. MaxSess
Files == 1 .. MaxStarts
None == 0
Nil == "nil"

VARIABLES
    pc,          \* per engine: where each thread of control is
    state,       \* e.state
    tunnel,      \* e.tunnel
    stopCh,      \* e.stopCh; 0 is the nil channel
    closed,      \* per engine: the stop channels that are closed
    sel,         \* per engine: the channel watcher and stats loop select on
    tunFile,     \* e.tunFile (and e.useTUN: set together)
    own,         \* per engine and builder: its local session variable
    dials,       \* per engine and builder: connections dialed so far
    sess,        \* per engine: the sessions made so far
    attached,    \* per engine and session: who made its tunFwd
    fwds,        \* per engine: forwarders not closed, <<maker, session>>
    fd,          \* per engine: the TUN file of the Start call in progress
    files,       \* per engine: TUN files that are open
    hook,        \* the engine whose dial function is set, or Nil
    bare,        \* engines that dialed without a hook while not stopped
    starts, stops, down  \* calls so far; the native side sees it stopped

callVars == <<starts, stops, down>>
tunVars == <<tunFile, fd, files, attached, fwds>>
buildVars == <<own, dials>>
chVars == <<stopCh, closed, sel>>
vars == <<pc, state, tunnel, chVars, sess, tunVars, buildVars, hook, bare, callVars>>

Builders == {"start", "watch"}

Init ==
    /\ pc = [e \in Engines |-> [start |-> "idle", stop |-> "idle",
                                watch |-> "none", stats |-> "none"]]
    /\ state = [e \in Engines |-> "disconnected"]
    /\ tunnel = [e \in Engines |-> None]
    /\ stopCh = [e \in Engines |-> 0]
    /\ closed = [e \in Engines |-> {}]
    /\ sel = [e \in Engines |-> [watch |-> 0, stats |-> 0]]
    /\ tunFile = [e \in Engines |-> None]
    /\ own = [e \in Engines |-> [p \in Builders |-> None]]
    /\ dials = [e \in Engines |-> [p \in Builders |-> 0]]
    /\ sess = [e \in Engines |-> [s \in Sessions |-> "unused"]]
    /\ attached = [e \in Engines |-> [s \in Sessions |-> Nil]]
    /\ fwds = [e \in Engines |-> {}]
    /\ fd = [e \in Engines |-> None]
    /\ files = [e \in Engines |-> {}]
    /\ hook = Nil /\ bare = {}
    /\ starts = [e \in Engines |-> 0] /\ stops = [e \in Engines |-> 0]
    /\ down = [e \in Engines |-> TRUE]

Stopped(e) == stopCh[e] \in closed[e]

Goto(e, p, l) == pc' = [pc EXCEPT ![e][p] = l]

\* tunnelSession.Close: the forwarder it knows of, and the connections.
CloseSession(e, s) ==
    IF s = None
      THEN UNCHANGED <<sess, fwds>>
      ELSE /\ sess' = [sess EXCEPT ![e][s] = "closed"]
           /\ fwds' = [fwds EXCEPT ![e] = @ \ {<<attached[e][s], s>>}]

-----------------------------------------------------------------------------
(***************************************************************************)
(* newTunnelSession, run by Start and by reconnectLoop.                    *)
(***************************************************************************)

\* setDialFunc, called before every attempt
DialFunc(e) == e

MoreToDial(e, p) == dials[e][p] < Conns

\* sshconn.Dial for one of the session's connections, through the hook.
Dial(e, p) ==
    /\ pc[e][p] = "dial" /\ MoreToDial(e, p)
    /\ dials' = [dials EXCEPT ![e][p] = @ + 1]
    /\ bare' = IF hook = Nil /\ ~Stopped(e) THEN bare \cup {e} ELSE bare
    /\ UNCHANGED <<pc, state, tunnel, chVars, sess, tunVars, own, hook, callVars>>

\* Deployed, mux clients and local proxies up.
Established(e, p, s) ==
    /\ pc[e][p] = "dial" /\ dials[e][p] = Conns
    /\ sess[e][s] = "unused" /\ \A t \in Sessions : t < s => sess[e][t] # "unused"
    /\ sess' = [sess EXCEPT ![e][s] = "live"]
    /\ own' = [own EXCEPT ![e][p] = s]
    /\ Goto(e, p, IF p = "start" THEN "publish" ELSE "forward")
    /\ UNCHANGED <<state, tunnel, chVars, tunVars, dials, hook, bare, callVars>>

\* reconnectLoop enters its select
Sleep(e) ==
    /\ Goto(e, "watch", "sleep")
    /\ sel' = [sel EXCEPT ![e].watch = stopCh[e]]
    /\ UNCHANGED <<stopCh, closed>>

\* An error closes what was dialed.  Start clears the hook and reports an
\* error, without e.mu; reconnectLoop tries again.
StartFail(e) ==
    /\ pc[e].start = "dial"
    /\ hook' = Nil
    /\ state' = [state EXCEPT ![e] = "error"]
    /\ Goto(e, "start", "undo")
    /\ UNCHANGED <<tunnel, chVars, sess, tunVars, buildVars, bare, callVars>>

RetryFail(e) ==
    /\ pc[e].watch = "dial"
    /\ Sleep(e)
    /\ UNCHANGED <<state, tunnel, sess, tunVars, buildVars, hook, bare, callVars>>

-----------------------------------------------------------------------------
(***************************************************************************)
(* Start and StartWithTUN.                                                 *)
(***************************************************************************)
StartCall(e) ==
    /\ pc[e].start = "idle" /\ pc[e].stop = "idle" /\ down[e]
    /\ starts[e] < MaxStarts
    /\ starts' = [starts EXCEPT ![e] = @ + 1]
    /\ down' = [down EXCEPT ![e] = FALSE]
    /\ IF UseTUN THEN /\ fd' = [fd EXCEPT ![e] = starts'[e]]
                      /\ tunFile' = [tunFile EXCEPT ![e] = starts'[e]]
                      /\ files' = [files EXCEPT ![e] = @ \cup {starts'[e]}]
                 ELSE UNCHANGED <<fd, tunFile, files>>
    /\ Goto(e, "start", "enter")
    /\ UNCHANGED <<state, tunnel, chVars, sess, attached, fwds, buildVars, hook,
                   bare, stops>>

\* "engine already running"
MayEnter(e) == state[e] \notin {"connecting", "connected", "reconnecting"}

StartEnter(e) ==
    /\ pc[e].start = "enter" /\ MayEnter(e)
    /\ stopCh' = [stopCh EXCEPT ![e] = @ + 1]
    /\ state' = [state EXCEPT ![e] = "connecting"]
    /\ hook' = DialFunc(e)
    /\ dials' = [dials EXCEPT ![e].start = 0]
    /\ Goto(e, "start", "dial")
    /\ UNCHANGED <<tunnel, closed, sel, sess, tunVars, own, bare, callVars>>

\* Running already, or the configuration does not parse.
StartRefused(e) ==
    /\ pc[e].start = "enter"
    /\ Goto(e, "start", "undo")
    /\ UNCHANGED <<state, tunnel, chVars, sess, tunVars, buildVars, hook, bare, callVars>>

\* StartWithTUN's error path: forget the TUN file and close it.
Undone(e) ==
    /\ tunFile' = [tunFile EXCEPT ![e] = IF UseTUN THEN None ELSE @]
    /\ files' = [files EXCEPT ![e] = @ \ {fd[e]}]

StartUndo(e) ==
    /\ pc[e].start = "undo"
    /\ Undone(e)
    /\ fd' = [fd EXCEPT ![e] = None]
    /\ down' = [down EXCEPT ![e] = TRUE]
    /\ Goto(e, "start", "idle")
    /\ UNCHANGED <<state, tunnel, chVars, sess, attached, fwds, buildVars, hook,
                   bare, starts, stops>>

StartPublish(e) ==
    /\ pc[e].start = "publish"
    /\ tunnel' = [tunnel EXCEPT ![e] = own[e].start]
    /\ state' = [state EXCEPT ![e] = "connected"]
    /\ own' = [own EXCEPT ![e].start = None]
    /\ Goto(e, "start", "spawn")
    /\ UNCHANGED <<chVars, sess, tunVars, dials, hook, bare, callVars>>

StartSpawn(e) ==
    /\ pc[e].start = "spawn"
    /\ pc' = [pc EXCEPT ![e].start = IF UseTUN THEN "attach" ELSE "idle",
                        ![e].watch = "watch", ![e].stats = "run"]
    /\ sel' = [sel EXCEPT ![e].stats = stopCh[e]]
    /\ UNCHANGED <<state, tunnel, stopCh, closed, sess, tunVars, buildVars, hook, bare, callVars>>

\* StartWithTUN reads e.tunnel again after Start has returned.
StartAttach(e) ==
    /\ pc[e].start = "attach"
    /\ own' = [own EXCEPT ![e].start = tunnel[e]]
    /\ Goto(e, "start", IF tunnel[e] = None THEN "abort" ELSE "forward")
    /\ UNCHANGED <<state, tunnel, chVars, sess, tunVars, dials, hook, bare, callVars>>

\* newTunForwarder and setTunForwarder: the previous forwarder of the
\* session, if there is one, is forgotten.
AddForwarder(e, p, s) ==
    /\ attached' = [attached EXCEPT ![e][s] = p]
    /\ fwds' = [fwds EXCEPT ![e] = @ \cup {<<p, s>>}]

StartForward(e) ==
    /\ pc[e].start = "forward"
    /\ AddForwarder(e, "start", own[e].start)
    /\ own' = [own EXCEPT ![e].start = None]
    /\ fd' = [fd EXCEPT ![e] = None]
    /\ Goto(e, "start", "idle")
    /\ UNCHANGED <<state, tunnel, chVars, sess, tunFile, files, dials, hook, bare, callVars>>

StartForwardFail(e) ==
    /\ pc[e].start = "forward"
    /\ own' = [own EXCEPT ![e].start = None]
    /\ Goto(e, "start", "abort")
    /\ UNCHANGED <<state, tunnel, chVars, sess, tunVars, dials, hook, bare, callVars>>

-----------------------------------------------------------------------------
(***************************************************************************)
(* Stop, called by the native side or by StartWithTUN when it gives up.    *)
(***************************************************************************)
StopLock(e, p) ==
    /\ \/ p = "stop" /\ pc[e].stop = "idle" /\ stops[e] < MaxStops
          /\ (StopDuringStart \/ pc[e].start = "idle")
       \/ p = "start" /\ pc[e].start = "abort"
    /\ stops' = IF p = "stop" THEN [stops EXCEPT ![e] = @ + 1] ELSE stops
    /\ closed' = IF stopCh[e] # 0 THEN [closed EXCEPT ![e] = @ \cup {stopCh[e]}] ELSE closed
    /\ CloseSession(e, tunnel[e])
    /\ tunnel' = [tunnel EXCEPT ![e] = None]
    /\ files' = [files EXCEPT ![e] = @ \ {tunFile[e]}]
    /\ tunFile' = [tunFile EXCEPT ![e] = None]
    /\ state' = [state EXCEPT ![e] = "disconnected"]
    /\ Goto(e, p, "stopwait")
    /\ UNCHANGED <<stopCh, sel, attached, fd, buildVars, hook, bare, starts, down>>

\* stoppedW.Wait
GoroutinesDone(e) == pc[e].watch = "none" /\ pc[e].stats = "none"

StopReturn(e, p) ==
    /\ pc[e][p] = "stopwait" /\ GoroutinesDone(e)
    /\ hook' = Nil
    /\ down' = [down EXCEPT ![e] = TRUE]
    /\ fd' = IF p = "start" THEN [fd EXCEPT ![e] = None] ELSE fd
    /\ Goto(e, p, "idle")
    /\ UNCHANGED <<state, tunnel, chVars, sess, tunFile, files, attached, fwds,
                   buildVars, bare, starts, stops>>

-----------------------------------------------------------------------------
(***************************************************************************)
(* reconnectWatcher with reconnectLoop, and statsLoop.                     *)
(***************************************************************************)
Watch(e) ==
    /\ pc[e].watch = "watch"
    /\ own' = [own EXCEPT ![e].watch = tunnel[e]]
    /\ Goto(e, "watch", IF tunnel[e] = None THEN "none" ELSE "wait")
    /\ UNCHANGED <<state, tunnel, chVars, sess, tunVars, dials, hook, bare, callVars>>

\* session.Wait returned; a closed stopCh means the user stopped the engine.
SessionEnded(e) ==
    /\ pc[e].watch = "wait" /\ sess[e][own[e].watch] # "live"
    /\ own' = [own EXCEPT ![e].watch = None]
    /\ Goto(e, "watch", IF Stopped(e) THEN "none" ELSE "clean")
    /\ UNCHANGED <<state, tunnel, chVars, sess, tunVars, dials, hook, bare, callVars>>

Cleaned_Kept(e) == tunnel[e]

Cleaned(e) == None

Clean(e) ==
    /\ pc[e].watch = "clean"
    /\ CloseSession(e, tunnel[e])
    /\ tunnel' = [tunnel EXCEPT ![e] = Cleaned(e)]
    /\ state' = [state EXCEPT ![e] = "reconnecting"]
    /\ Sleep(e)
    /\ UNCHANGED <<tunFile, fd, files, attached, buildVars, hook, bare, callVars>>

Cancelled(e) ==
    /\ pc[e].watch = "sleep" /\ sel[e].watch \in closed[e]
    /\ Goto(e, "watch", "none")
    /\ UNCHANGED <<state, tunnel, chVars, sess, tunVars, buildVars, hook, bare, callVars>>

\* The select takes the timer only if stopCh was not closed before it fired.
TimerWins(e) == sel[e].watch \notin closed[e]

Timer(e) ==
    /\ pc[e].watch = "sleep" /\ TimerWins(e)
    /\ hook' = DialFunc(e)
    /\ dials' = [dials EXCEPT ![e].watch = 0]
    /\ Goto(e, "watch", "dial")
    /\ UNCHANGED <<state, tunnel, chVars, sess, tunVars, own, bare, callVars>>

Rewire_Never(e) == FALSE

\* useTUN && tunFile != nil
Rewire(e) == tunFile[e] # None

WatchForward(e) ==
    /\ pc[e].watch = "forward"
    /\ IF Rewire(e) THEN AddForwarder(e, "watch", own[e].watch)
                    ELSE UNCHANGED <<attached, fwds>>
    /\ Goto(e, "watch", "publish")
    /\ UNCHANGED <<state, tunnel, chVars, sess, tunFile, fd, files, buildVars,
                   hook, bare, callVars>>

Dropped_Open(e, s) == UNCHANGED <<sess, fwds>>

\* session.Close after the forwarder could not be made
Dropped(e, s) == CloseSession(e, s)

WatchForwardFail(e) ==
    /\ pc[e].watch = "forward" /\ Rewire(e)
    /\ Dropped(e, own[e].watch)
    /\ own' = [own EXCEPT ![e].watch = None]
    /\ Sleep(e)
    /\ UNCHANGED <<state, tunnel, tunFile, fd, files, attached, dials,
                   hook, bare, callVars>>

WatchPublish(e) ==
    /\ pc[e].watch = "publish"
    /\ tunnel' = [tunnel EXCEPT ![e] = own[e].watch]
    /\ state' = [state EXCEPT ![e] = "connected"]
    /\ own' = [own EXCEPT ![e].watch = None]
    /\ Goto(e, "watch", "watch")
    /\ UNCHANGED <<chVars, sess, tunVars, dials, hook, bare, callVars>>

\* A tick of statsLoop reports and selects on e.stopCh again, which is still the
\* same channel: Start replaces it only after Stop has waited for this loop.
StatsExit(e) ==
    /\ pc[e].stats = "run" /\ sel[e].stats \in closed[e]
    /\ Goto(e, "stats", "none")
    /\ UNCHANGED <<state, tunnel, chVars, sess, tunVars, buildVars, hook, bare, callVars>>

-----------------------------------------------------------------------------
\* The network kills a session (NotifyNetworkChange does it to e.tunnel).
SessionDies(e, s) ==
    /\ sess[e][s] = "live"
    /\ sess' = [sess EXCEPT ![e][s] = "dead"]
    /\ UNCHANGED <<pc, state, tunnel, chVars, tunVars, buildVars, hook, bare, callVars>>

NotifyNetworkChange(e) == tunnel[e] # None /\ SessionDies(e, tunnel[e])

StartStep(e) ==
    \/ StartEnter(e) \/ StartRefused(e) \/ StartUndo(e) \/ StartPublish(e)
    \/ StartSpawn(e) \/ StartAttach(e) \/ StartForward(e) \/ StartForwardFail(e)
    \/ StartFail(e) \/ Dial(e, "start") \/ \E s \in Sessions : Established(e, "start", s)
    \/ pc[e].start = "abort" /\ StopLock(e, "start")

WatchStep(e) ==
    \/ Watch(e) \/ SessionEnded(e) \/ Clean(e) \/ Cancelled(e) \/ Timer(e)
    \/ WatchForward(e) \/ WatchForwardFail(e) \/ WatchPublish(e)
    \/ RetryFail(e) \/ Dial(e, "watch") \/ \E s \in Sessions : Established(e, "watch", s)

StopStep(e) == \E p \in {"start", "stop"} : StopReturn(e, p)

Next ==
    \E e \in Engines :
        \/ StartCall(e) \/ StopLock(e, "stop")
        \/ StartStep(e) \/ WatchStep(e) \/ StopStep(e) \/ StatsExit(e)
        \/ NotifyNetworkChange(e) \/ \E s \in Sessions : SessionDies(e, s)

Spec == Init /\ [][Next]_vars

\* Goroutines and native threads run on; nothing is assumed of the network or
\* of when Start and Stop are called.
Fairness ==
    \A e \in Engines : /\ WF_vars(StartStep(e)) /\ WF_vars(WatchStep(e))
                       /\ WF_vars(StopStep(e)) /\ WF_vars(StatsExit(e))
FairSpec == Spec /\ Fairness

-----------------------------------------------------------------------------
(***************************************************************************)
(* Properties.                                                             *)
(***************************************************************************)
StartPCs == {"idle", "enter", "dial", "undo", "publish", "spawn", "attach",
             "forward", "abort", "stopwait"}
WatchPCs == {"none", "watch", "wait", "clean", "sleep", "dial", "forward", "publish"}

\* Types, and which local variables are set where.
TypeOK ==
    /\ pc \in [Engines -> [start : StartPCs, stop : {"idle", "stopwait"},
                           watch : WatchPCs, stats : {"none", "run"}]]
    /\ state \in [Engines -> {"disconnected", "connecting", "connected",
                              "reconnecting", "error"}]
    /\ tunnel \in [Engines -> Sessions \cup {None}]
    /\ stopCh \in [Engines -> 0 .. MaxStarts] /\ closed \in [Engines -> SUBSET (1 .. MaxStarts)]
    /\ sel \in [Engines -> [watch : 0 .. MaxStarts, stats : 0 .. MaxStarts]]
    /\ down \in [Engines -> BOOLEAN]
    /\ tunFile \in [Engines -> Files \cup {None}] /\ fd \in [Engines -> Files \cup {None}]
    /\ files \in [Engines -> SUBSET Files]
    /\ own \in [Engines -> [Builders -> Sessions \cup {None}]]
    /\ dials \in [Engines -> [Builders -> 0 .. Conns]]
    /\ sess \in [Engines -> [Sessions -> {"unused", "live", "dead", "closed"}]]
    /\ attached \in [Engines -> [Sessions -> Builders \cup {Nil}]]
    /\ fwds \in [Engines -> SUBSET (Builders \X Sessions)]
    /\ hook \in Engines \cup {Nil} /\ bare \subseteq Engines
    /\ starts \in [Engines -> 0 .. MaxStarts] /\ stops \in [Engines -> 0 .. MaxStops]

\* The state reported to the platform agrees with e.tunnel although Start
\* sets "error" without the lock and Stop, Start and the watcher interleave:
\* "connected" exactly when a tunnel is set.
StateMatchesTunnel == \A e \in Engines : state[e] = "connected" <=> tunnel[e] # None

\* Start never spawns a second watcher or stats loop beside a running one.
SpawnOnce ==
    [][\A e \in Engines : pc[e].start = "spawn" /\ pc'[e].start # "spawn" =>
          pc[e].watch = "none" /\ pc[e].stats = "none"]_vars

\* No session is leaked: one that was not closed is e.tunnel or in the hands
\* of the Start call or the watcher that is about to publish it.
SessionOwned ==
    \A e \in Engines, s \in Sessions :
        sess[e][s] \in {"live", "dead"} =>
            \/ s = tunnel[e]
            \/ pc[e].start = "publish" /\ s = own[e].start
            \/ pc[e].watch \in {"forward", "publish"} /\ s = own[e].watch

\* newTunnelSession: "Socket protection (SetDialFunc) must be set by the
\* caller (Engine) before calling newTunnelSession so it persists across
\* reconnections": an engine that was not stopped never dials around it.
ProtectedDial == bare = {}

\* A connected engine that owns a TUN file forwards its packets through the
\* current tunnel, also after reconnects, once StartWithTUN has returned.
Forwarding ==
    \A e \in Engines :
        (state[e] = "connected" /\ tunFile[e] # None /\ pc[e].start = "idle") =>
            attached[e][tunnel[e]] # Nil

\* The engine is the owner of the TUN file descriptor: one that is open is
\* e.tunFile, for Stop to close, unless a Start call is about to close it.
FdOwned ==
    \A e \in Engines : \A f \in files[e] :
        f = tunFile[e] \/ (f = fd[e] /\ pc[e].start \in {"undo", "enter"})

\* "StartWithTUN ... forwards TCP/DNS through the tunnel": no forwarder of a
\* session other than the engine's current or next one takes packets from an
\* open TUN file.
OneForwarder ==
    \A e \in Engines : tunFile[e] # None =>
        \A f \in fwds[e] :
            /\ sess[e][f[2]] # "closed"
            /\ attached[e][f[2]] = f[1]

\* "Stop shuts down the tunnel and releases all resources."
ReleasedAfterStop ==
    \A e \in Engines :
        (Stopped(e) /\ down[e] /\ pc[e].start = "idle" /\ pc[e].stop = "idle") =>
            /\ tunnel[e] = None /\ files[e] = {}
            /\ \A s \in Sessions : sess[e][s] \notin {"live", "dead"}

\* Stop, "waiting for goroutines (which may take seconds during reconnect)",
\* returns.
StopReturns ==
    \A e \in Engines : pc[e].stop = "stopwait" ~> pc[e].stop = "idle"

\* It does when no session is being set up at the time it waits.
StopReturnsWhenUp ==
    \A e \in Engines :
        (/\ pc[e].stop = "stopwait" /\ tunnel[e] = None
         /\ pc[e].start \notin {"dial", "publish", "spawn"}
         /\ pc[e].watch \notin {"dial", "forward", "publish"})
        ~> pc[e].stop = "idle"

\* A session that ended is replaced or cleaned up, not kept as e.tunnel,
\* unless the engine was stopped meanwhile.
DeadReplaced ==
    \A e \in Engines, s \in Sessions :
        (tunnel[e] = s /\ sess[e][s] = "dead") ~> (tunnel[e] # s \/ Stopped(e))
=============================================================================
