--------------------------- MODULE TunnelSession ---------------------------
(***************************************************************************)
(* The terminal UI's tunnel session: the connect, ready, drop, reconnect   *)
(* lifecycle of internal/tui/session.go, the engine it drives              *)
(* (cmd/tunnel/engine.go, Engine.Run) and the host state both leave        *)
(* behind: firewall rules, the IPv6 lock-down and, with the Windows SOCKS5 *)
(* method, the DNS server of the network interface.                        *)
(*                                                                         *)
(* Actors: the UI goroutine (Connect, Disconnect, SetRules, quitting), one *)
(* loop goroutine per Connect and one Run goroutine per engine.  A step    *)
(* ends where the code releases a lock, blocks, or touches the host.       *)
(*                                                                         *)
(* The firewall is abstracted to which engine's rules are installed and    *)
(* whether they redirect DNS; Method selects how its Setup, Restore,       *)
(* DisableDNS and CleanStaleAnchors behave.                                *)
(***************************************************************************)
EXTENDS Integers, Sequences, FiniteSets

CONSTANTS
  Method,          \* firewall method in use
  RedialNeedsDNS,  \* an SSH endpoint is a host name (backend.redialNeedsDNS)
  LockdownIPv6,    \* --no-ipv6 without --no-ipv6-lockdown
  CanQuit,         \* the user may leave the UI
  Prompt,          \* a loop that was stopped ends before the next one is stopped
  MaxConnects,     \* bound on calls of Connect
  MaxDisconnects,  \* bound on calls of Disconnect
  MaxEngines,      \* bound on engines created
  MaxRules         \* bound on calls of SetRules

ASSUME SessionAssumption ==
  /\ Method \in {"pf", "nft", "iptables", "windivert", "socks5"}
  /\ {RedialNeedsDNS, LockdownIPv6, CanQuit, Prompt} \subseteq BOOLEAN
  /\ {MaxConnects, MaxDisconnects, MaxEngines, MaxRules} \subseteq Nat

VARIABLES
  status,   \* Session.state.Status
  gen,      \* Session.gen
  stopCh,   \* Session.stopCh: the loop it stops, 0 for nil
  closed,   \* loops whose stop channel was closed
  eng,      \* Session.eng, 0 for nil
  rules,    \* Session.rules, as a version number
  loop,     \* loop goroutines
  run,      \* engines
  fw,       \* rules of each engine that are installed on the host
  ipv6,     \* TRUE while IPv6 is disabled on the host's interfaces
  dns,      \* DNS server of the host's interface
  ui        \* what the UI goroutine is doing

session == <<status, gen, stopCh, closed, eng, rules>>
host    == <<fw, ipv6, dns>>
vars    == <<session, loop, run, host, ui>>

Loops   == 1 .. MaxConnects
Engines == 1 .. MaxEngines

ActiveStatuses  == {"connecting", "connected", "reconnecting"}
SettledStatuses == {"disconnected", "error"}
Active == status \in ActiveStatuses

LoopSteps == {"none", "start", "adopt", "apply", "select", "wait", "stopping",
              "ended", "decide", "countdown", "exit", "done"}
Phases    == {"none", "new", "connecting", "cleaned", "up", "dropping",
              "reinstall", "returned"}

NewLoop   == [pc |-> "none", gen |-> 0, e |-> 0, last |-> 0, ever |-> FALSE,
              rules |-> 0, todo |-> <<>>, final |-> "disconnected"]
NewEngine == [phase |-> "none", ok |-> FALSE, result |-> "none",
              stop |-> FALSE, kept |-> FALSE, rules |-> 0, prevDNS |-> "host"]

Init ==
  /\ status = "disconnected" /\ gen = 0 /\ stopCh = 0 /\ closed = {}
  /\ eng = 0 /\ rules = 0
  /\ loop = [l \in Loops |-> NewLoop]
  /\ run = [e \in Engines |-> NewEngine]
  /\ fw = [e \in Engines |-> "none"] /\ ipv6 = FALSE /\ dns = "host"
  /\ ui = [pc |-> "idle", e |-> 0, disconnects |-> 0]

\* The process exists; once it is gone its goroutines are, too.
Alive == ui.pc \notin {"exited", "timedout"}

At(l, pc)    == Alive /\ loop[l].pc = pc
In(e, phase) == Alive /\ run[e].phase = phase

---------------------------------------------------------------------------
(* The firewall methods                                                    *)

NoRules == [e \in Engines |-> "none"]

\* These methods keep their rules under one fixed name on the host, so each
\* engine replaces and removes whatever is there.  pf has an anchor and
\* WinDivert a handle per engine.
Shared == Method \in {"nft", "iptables", "socks5"}

\* Mutation: Restore that flushes every anchor.
Restored_AllAnchors(e) == NoRules

\* Method.Restore called by engine e.
Restored(e) == IF Shared THEN NoRules ELSE [fw EXCEPT ![e] = "none"]

\* Mutation: stale anchors are not flushed.
CleanStaleAnchors_Never == fw

\* CleanStaleAnchors: a no-op on Windows.
CleanStaleAnchors ==
  IF Method \in {"windivert", "socks5"} THEN fw ELSE NoRules

\* Method.Setup of engine e that succeeds.
Installed(e, kind) ==
  [(IF Shared THEN NoRules ELSE fw) EXCEPT ![e] = kind]

\* A Setup that fails: nft and pf load their rules at once, iptables and
\* tproxy run one command after the other and stop at the first that fails,
\* the SOCKS5 method ignores errors.
SetupFailures(e) ==
  CASE Method = "iptables" -> {Installed(e, "partial")}
    [] Method = "socks5"   -> {}
    [] OTHER               -> {IF Shared THEN NoRules ELSE fw}

\* winMethod.Restore puts back the DNS server its own Setup found.
RestoredDNS(e) == IF Method = "socks5" THEN run[e].prevDNS ELSE dns

\* fw.Restore and RestoreSystemIPv6, as Run's deferred function and
\* keptFirewall do them.
RestoreHost(e) ==
  /\ fw' = Restored(e)
  /\ dns' = RestoredDNS(e)
  /\ ipv6' = IF LockdownIPv6 THEN FALSE ELSE ipv6

---------------------------------------------------------------------------
(* Engine.Run                                                              *)

Returned(e, result) ==
  run' = [run EXCEPT ![e].phase = "returned", ![e].result = result]

\* connectBackend or the wait for the server's routes fails, or there is
\* nothing to proxy.  stopCh is not looked at so far.
ConnectFails(e) ==
  /\ In(e, "connecting")
  /\ Returned(e, "error")
  /\ UNCHANGED <<session, loop, host, ui>>

\* connectBackend succeeded; stale rules and IPv6 state are removed.
Clean(e) ==
  /\ In(e, "connecting")
  /\ run' = [run EXCEPT ![e].phase = "cleaned"]
  /\ fw' = CleanStaleAnchors
  /\ ipv6' = FALSE
  /\ UNCHANGED <<session, loop, dns, ui>>

\* The method lacks a feature or the DNS listener cannot be opened.
ValidationFails(e) ==
  /\ In(e, "cleaned")
  /\ Returned(e, "error")
  /\ UNCHANGED <<session, loop, host, ui>>

\* fw.Setup fails: Run returns before the deferred restore is registered.
SetupFails(e) ==
  /\ In(e, "cleaned")
  /\ fw' \in SetupFailures(e)
  /\ Returned(e, "error")
  /\ UNCHANGED <<session, loop, ipv6, dns, ui>>

\* fw.Setup, DisableSystemIPv6, signalReady.
SetupDone(e) ==
  /\ In(e, "cleaned")
  /\ fw' = Installed(e, "full")
  /\ ipv6' = LockdownIPv6
  /\ dns' = IF Method = "socks5" THEN "tunnel" ELSE dns
  /\ run' = [run EXCEPT ![e].phase = "up", ![e].ok = TRUE, ![e].prevDNS = dns]
  /\ UNCHANGED <<session, loop, ui>>

\* The stop channel was closed: the deferred restore runs before the caller
\* sees Run return.
RunStops(e) ==
  /\ In(e, "up") /\ run[e].stop
  /\ RestoreHost(e)
  /\ Returned(e, "nil")
  /\ UNCHANGED <<session, loop, ui>>

\* The local proxy listener ends.
ProxyEnds(e) ==
  /\ In(e, "up")
  /\ RestoreHost(e)
  /\ Returned(e, "nil")
  /\ UNCHANGED <<session, loop, ui>>

\* The mux died or the network changed: prepareReconnectExit.
Drop(e) ==
  /\ In(e, "up")
  /\ run' = [run EXCEPT ![e].phase = "dropping"]
  /\ UNCHANGED <<session, loop, host, ui>>

\* DisableDNSRedirect is called and the method has one.
DisablesDNS == RedialNeedsDNS /\ Method \in {"pf", "nft", "iptables"}

\* nft and iptables remove all their rules first and then install them again.
RemovesFirst(e) == DisablesDNS /\ Shared /\ run[e].phase = "dropping"

\* The rules after the next command of DisableDNSRedirect, whose error is
\* only logged: nothing to change, pf's reload of its anchor, or the two steps
\* of nft and iptables.
NextRules(e) ==
  CASE ~DisablesDNS    -> {fw}
    [] RemovesFirst(e) -> {NoRules}
    [] OTHER           -> {Installed(e, "nodns")} \union
                          (IF Shared THEN SetupFailures(e) ELSE {fw})

\* prepareReconnectExit: the rules stay for the session to take over.
Kept(r) == [r EXCEPT !.phase = "returned", !.result = "drop", !.kept = TRUE]

KeepRules(e) ==
  /\ Alive /\ run[e].phase \in {"dropping", "reinstall"}
  /\ fw' \in NextRules(e)
  /\ run' = [run EXCEPT ![e] = IF RemovesFirst(e)
                               THEN [@ EXCEPT !.phase = "reinstall"]
                               ELSE Kept(@)]
  /\ UNCHANGED <<session, loop, ipv6, dns, ui>>

---------------------------------------------------------------------------
(* Session.loop                                                            *)

Stale(l) == gen # loop[l].gen

\* Session.update: ignored for a stale generation.
Updated(l, s) == IF Stale(l) THEN status ELSE s

\* Session.finish: a stale loop still settles, unless a newer Connect runs.
Finished(l, s) == IF Stale(l) /\ stopCh # 0 THEN status ELSE s

Goto(l, pc) == loop' = [loop EXCEPT ![l].pc = pc]

\* The loop ends: what is left to do, in order.
Exit(l, todo, final) ==
  loop' = [loop EXCEPT ![l].pc = "exit", ![l].todo = todo, ![l].final = final]

\* s.start fails.
StartFails(l) ==
  /\ At(l, "start")
  /\ \/ /\ ~loop[l].ever
        /\ Exit(l, <<"release", "finish">>, "error")
        /\ UNCHANGED status
     \/ /\ loop[l].ever
        /\ status' = Updated(l, "reconnecting")
        /\ Goto(l, "countdown")
  /\ UNCHANGED <<gen, stopCh, closed, eng, rules, run, host, ui>>

\* s.start returns a new engine.
StartEngine(l, e) ==
  /\ At(l, "start")
  /\ In(e, "none") /\ \A f \in 1 .. (e - 1) : run[f].phase # "none"
  /\ loop' = [loop EXCEPT ![l].pc = "adopt", ![l].e = e]
  /\ run' = [run EXCEPT ![e].phase = "new"]
  /\ UNCHANGED <<session, host, ui>>

\* Mutation: no generation check before the engine is adopted.
Adopt_Unchecked(l) ==
  /\ At(l, "adopt")
  /\ eng' = loop[l].e
  /\ loop' = [loop EXCEPT ![l].pc = "apply", ![l].rules = rules]
  /\ UNCHANGED <<status, gen, stopCh, closed, rules, run, host, ui>>

\* The engine becomes the session's, unless the session moved on.
Adopt(l) ==
  /\ At(l, "adopt")
  /\ IF Stale(l)
     THEN /\ Exit(l, <<"release">>, "disconnected")
          /\ run' = [run EXCEPT ![loop[l].e].phase = "returned"]
          /\ UNCHANGED eng
     ELSE /\ eng' = loop[l].e
          /\ loop' = [loop EXCEPT ![l].pc = "apply", ![l].rules = rules]
          /\ UNCHANGED run
  /\ UNCHANGED <<status, gen, stopCh, closed, rules, host, ui>>

\* applyRules with the rules read under the lock, then go eng.Run.
ApplyAndRun(l) ==
  LET e == loop[l].e IN
  /\ At(l, "apply")
  /\ run' = [run EXCEPT ![e].rules = loop[l].rules, ![e].phase = "connecting"]
  /\ Goto(l, "select")
  /\ UNCHANGED <<session, host, ui>>

ReadyChClosed(e) == run[e].ok \/ run[e].phase = "returned"

\* The first select: the engine is ready.
SelectReady(l) ==
  LET e == loop[l].e IN
  /\ At(l, "select") /\ ReadyChClosed(e)
  /\ IF run[e].ok
     THEN /\ loop' = [loop EXCEPT ![l].pc = "wait", ![l].last = 0,
                                  ![l].ever = TRUE]
          /\ status' = Updated(l, "connected")
     ELSE Goto(l, "wait") /\ UNCHANGED status
  /\ UNCHANGED <<gen, stopCh, closed, eng, rules, run, host, ui>>

\* The first select sees the stop channel: the second one will, too.
SelectStop(l) ==
  /\ At(l, "select") /\ l \in closed
  /\ Goto(l, "wait")
  /\ UNCHANGED <<session, run, host, ui>>

\* Either select receives Run's result.
ReceiveDone(l) ==
  /\ \E pc \in {"select", "wait", "stopping"} : At(l, pc)
  /\ run[loop[l].e].phase = "returned"
  /\ Goto(l, "ended")
  /\ UNCHANGED <<session, run, host, ui>>

\* The second select sees the stop channel and closes the engine's.
WaitStop(l) ==
  /\ At(l, "wait") /\ l \in closed
  /\ Goto(l, "stopping")
  /\ run' = [run EXCEPT ![loop[l].e].stop = TRUE]
  /\ UNCHANGED <<session, host, ui>>

\* eng.Close; s.eng is cleared.
CloseEngine(l) ==
  /\ At(l, "ended")
  /\ eng' = IF eng = loop[l].e THEN 0 ELSE eng
  /\ Goto(l, "decide")
  /\ UNCHANGED <<status, gen, stopCh, closed, rules, run, host, ui>>

\* The user stopped, the first connection failed, or it is time to retry.
\* lastEng becomes this engine when it kept its rules.
Decide(l) ==
  LET me   == loop[l]
      last == IF run[me.e].result = "drop" THEN me.e ELSE me.last
      pc   == IF l \notin closed /\ me.ever THEN "countdown" ELSE "exit"
  IN
  /\ At(l, "decide")
  /\ loop' = [loop EXCEPT
       ![l].pc = pc, ![l].last = last,
       ![l].todo = IF pc = "exit" THEN <<"release", "finish">> ELSE <<>>,
       ![l].final = IF l \in closed THEN "disconnected" ELSE "error"]
  /\ status' = IF pc = "countdown" THEN Updated(l, "reconnecting") ELSE status
  /\ UNCHANGED <<gen, stopCh, closed, eng, rules, run, host, ui>>

\* countdown sees the stop channel: finish comes before release here.
CountdownStop(l) ==
  /\ At(l, "countdown") /\ l \in closed
  /\ Exit(l, <<"finish", "release">>, "disconnected")
  /\ UNCHANGED <<session, run, host, ui>>

\* The countdown runs out.
CountdownEnd(l) ==
  /\ At(l, "countdown") /\ l \notin closed
  /\ status' = Updated(l, "reconnecting")
  /\ Goto(l, "start")
  /\ UNCHANGED <<gen, stopCh, closed, eng, rules, run, host, ui>>

\* release: ReleaseFirewall of lastEng, a no-op unless it kept its rules.
Release(l) ==
  LET e == loop[l].last IN
  /\ At(l, "exit") /\ loop[l].todo # <<>> /\ Head(loop[l].todo) = "release"
  /\ loop' = [loop EXCEPT ![l].todo = Tail(@), ![l].last = 0]
  /\ IF e # 0 /\ run[e].kept
     THEN RestoreHost(e) /\ run' = [run EXCEPT ![e].kept = FALSE]
     ELSE UNCHANGED <<host, run>>
  /\ UNCHANGED <<session, ui>>

Finish(l) ==
  /\ At(l, "exit") /\ loop[l].todo # <<>> /\ Head(loop[l].todo) = "finish"
  /\ loop' = [loop EXCEPT ![l].todo = Tail(@)]
  /\ status' = Finished(l, loop[l].final)
  /\ UNCHANGED <<gen, stopCh, closed, eng, rules, run, host, ui>>

LoopReturns(l) ==
  /\ At(l, "exit") /\ loop[l].todo = <<>>
  /\ Goto(l, "done")
  /\ UNCHANGED <<session, run, host, ui>>

---------------------------------------------------------------------------
(* The UI goroutine                                                        *)

Connect(l) ==
  /\ ui.pc = "idle" /\ ~Active
  /\ loop[l].pc = "none" /\ \A k \in 1 .. (l - 1) : loop[k].pc # "none"
  /\ gen' = gen + 1
  /\ stopCh' = l
  /\ status' = "connecting"
  /\ loop' = [loop EXCEPT ![l].pc = "start", ![l].gen = gen + 1]
  /\ UNCHANGED <<closed, eng, rules, run, host, ui>>

\* Only the newest loop is left.
OlderEnded == \A k, l \in Loops : k < l /\ loop[l].pc # "none" => loop[k].pc = "done"

\* The first critical section of Disconnect.
CloseStop ==
  /\ Prompt => OlderEnded
  /\ closed' = closed \union ({stopCh} \ {0})
  /\ stopCh' = 0
  /\ gen' = gen + 1

\* Mutation: Disconnect leaves the status to the loop.
AfterStop_NotSettled(then) == then

\* With no engine to report back, Disconnect settles the state itself.
AfterStop(then) == IF eng = 0 THEN "settle" ELSE then

\* The pages call Disconnect while the session is active.
Disconnect ==
  /\ ui.pc = "idle" /\ Active /\ ui.disconnects < MaxDisconnects
  /\ CloseStop
  /\ ui' = [ui EXCEPT !.pc = AfterStop("idle"), !.disconnects = @ + 1]
  /\ UNCHANGED <<status, eng, rules, loop, run, host>>

Settle ==
  /\ ui.pc \in {"settle", "quitsettle"}
  /\ status' = IF status = "error" THEN status ELSE "disconnected"
  /\ ui' = [ui EXCEPT !.pc = IF @ = "settle" THEN "idle" ELSE "quit"]
  /\ UNCHANGED <<gen, stopCh, closed, eng, rules, loop, run, host>>

\* SetRules stores the rules and then hands them to the engine it saw.
SetRules ==
  /\ ui.pc = "idle" /\ rules < MaxRules
  /\ rules' = rules + 1
  /\ ui' = [ui EXCEPT !.pc = IF eng = 0 THEN "idle" ELSE "apply", !.e = eng]
  /\ UNCHANGED <<status, gen, stopCh, closed, eng, loop, run, host>>

ApplyRules ==
  /\ ui.pc = "apply"
  /\ run' = [run EXCEPT ![ui.e].rules = rules]
  /\ ui' = [ui EXCEPT !.pc = "idle", !.e = 0]
  /\ UNCHANGED <<session, loop, host>>

\* tui.Run after the program loop: disconnect an active session and wait.
Quit ==
  /\ ui.pc = "idle" /\ CanQuit
  /\ IF Active
     THEN CloseStop /\ ui' = [ui EXCEPT !.pc = IF eng = 0 THEN "quitsettle"
                                                          ELSE "quit"]
     ELSE ui' = [ui EXCEPT !.pc = "exited"] /\ UNCHANGED <<closed, stopCh, gen>>
  /\ UNCHANGED <<status, eng, rules, loop, run, host>>

\* Neither Active nor an engine: Run returns and the process ends.
QuitReturns ==
  /\ ui.pc = "quit" /\ ~Active /\ eng = 0
  /\ ui' = [ui EXCEPT !.pc = "exited"]
  /\ UNCHANGED <<session, loop, run, host>>

\* The 15 second deadline.
QuitDeadline ==
  /\ ui.pc = "quit" /\ (Active \/ eng # 0)
  /\ ui' = [ui EXCEPT !.pc = "timedout"]
  /\ UNCHANGED <<session, loop, run, host>>

---------------------------------------------------------------------------
LoopStep(l) ==
  \/ StartFails(l) \/ \E e \in Engines : StartEngine(l, e)
  \/ Adopt(l) \/ ApplyAndRun(l)
  \/ SelectReady(l) \/ SelectStop(l) \/ ReceiveDone(l) \/ WaitStop(l)
  \/ CloseEngine(l) \/ Decide(l) \/ CountdownStop(l) \/ CountdownEnd(l)
  \/ Release(l) \/ Finish(l) \/ LoopReturns(l)

DialStep(e) == ConnectFails(e) \/ Clean(e)

RunStep(e) ==
  \/ ValidationFails(e) \/ SetupFails(e) \/ SetupDone(e) \/ RunStops(e)
  \/ KeepRules(e)

UIStep == Settle \/ ApplyRules \/ QuitReturns \/ QuitDeadline

UserStep == (\E l \in Loops : Connect(l)) \/ Disconnect \/ SetRules \/ Quit

Next ==
  \/ \E l \in Loops : LoopStep(l)
  \/ \E e \in Engines : DialStep(e) \/ RunStep(e) \/ ProxyEnds(e) \/ Drop(e)
  \/ UIStep
  \/ UserStep

Spec == Init /\ [][Next]_vars

\* Goroutines that can take a step do; links, proxies and users are free, and
\* connectBackend need not return (DialStep): a dial has a timeout of 30 s, but
\* the SSH handshake over TCP has none.
Fairness ==
  /\ \A l \in Loops : WF_vars(LoopStep(l))
  /\ \A e \in Engines : WF_vars(RunStep(e))
  /\ WF_vars(UIStep)

FairSpec == Spec /\ Fairness

---------------------------------------------------------------------------
(* Properties                                                              *)

Kinds == {"none", "full", "nodns", "partial"}

\* Types.  Session.stopCh is never a closed channel, or the next Disconnect
\* would close it again and panic.
TypeOK ==
  /\ status \in ActiveStatuses \union SettledStatuses
  /\ gen \in 0 .. (MaxConnects + MaxDisconnects + 1)
  /\ closed \subseteq Loops
  /\ stopCh \in {0} \union (Loops \ closed)
  /\ eng \in 0 .. MaxEngines
  /\ rules \in 0 .. MaxRules
  /\ loop \in [Loops ->
       [pc: LoopSteps, gen: 0 .. (MaxConnects + MaxDisconnects + 1),
        e: 0 .. MaxEngines, last: 0 .. MaxEngines, ever: BOOLEAN,
        rules: 0 .. MaxRules,
        todo: {<<>>, <<"release">>, <<"finish">>, <<"release", "finish">>,
               <<"finish", "release">>},
        final: SettledStatuses]]
  /\ run \in [Engines ->
       [phase: Phases, ok: BOOLEAN, result: {"none", "nil", "error", "drop"},
        stop: BOOLEAN, kept: BOOLEAN, rules: 0 .. MaxRules,
        prevDNS: {"host", "tunnel"}]]
  /\ fw \in [Engines -> Kinds]
  /\ ipv6 \in BOOLEAN
  /\ dns \in {"host", "tunnel"}
  /\ ui \in [pc: {"idle", "settle", "quitsettle", "apply", "quit", "exited",
                  "timedout"},
             e: 0 .. MaxEngines, disconnects: 0 .. MaxDisconnects]

Running(e) == run[e].phase \notin {"none", "new", "returned"}

\* An engine inside Run is the session's engine, or the loop that runs it was
\* told to stop: nobody's tunnel is forgotten, however Connect and Disconnect
\* overlap with loops that are still on their way out (Session.gen,
\* currentLocked).
EngineOwned ==
  \A e \in Engines :
    Running(e) /\ eng # e => \E l \in closed : loop[l].e = e

\* At most one engine is inside Run, and it is the session's engine.  Without
\* Prompt this fails: "A stale generation still settles when the session is
\* not already running something newer", but Disconnect clears stopCh while
\* that newer engine still runs, and Connect starts another one (finish).
OneEngine == \A e \in Engines : Running(e) => eng = e

NoLoop == \A l \in Loops : loop[l].pc \in {"none", "done"}

\* When no loop is left and the UI is idle, the host is as it was: no rules,
\* IPv6 enabled, its own DNS server (ReleaseFirewall, Run's deferred restore).
HostRestored ==
  NoLoop /\ ui.pc = "idle" => fw = NoRules /\ ~ipv6 /\ dns = "host"

\* When no loop is left, the status says so and Connect is possible again:
\* a stale loop's finish still settles the state it is responsible for.
StatusSettled ==
  NoLoop /\ ui.pc = "idle" => status \in SettledStatuses /\ eng = 0

\* A settled session becomes active through Connect only: no late update of
\* a loop that was told to stop brings it back (Session.update).
NoResurrection ==
  [][(status \in SettledStatuses /\ status' \in ActiveStatuses)
        => (status' = "connecting" /\ stopCh' # 0 /\ gen' = gen + 1)]_vars

\* While an engine dials a host name, no DNS redirect of an earlier engine
\* is in the way (prepareReconnectExit, DisableDNSRedirect).
RedialResolves ==
  RedialNeedsDNS =>
    \A e \in Engines : run[e].phase = "connecting" =>
      \A f \in Engines : fw[f] # "full"

\* While the session is connected and its engine is up, the engine's rules
\* are installed ("firewall installed, proxy listening, mux up").
Captured ==
  \A l \in Loops :
    LET e == loop[l].e IN
    status = "connected" /\ ~Stale(l) /\ loop[l].pc = "wait"
      /\ run[e].phase = "up"
    => fw[e] # "none"

\* While the session waits to reconnect after a drop, rules are installed:
\* they are "kept installed until the next engine replaces them".
KeptRules ==
  \A l \in Loops :
    loop[l].pc = "countdown" /\ loop[l].last # 0 /\ l \notin closed
    => fw # NoRules

\* Once neither the loop nor SetRules is applying rules, the session's
\* engine has the latest ones ("before Run, and live").
LatestRules ==
  ui.pc = "idle" /\ eng # 0
    /\ (\A l \in Loops : loop[l].e = eng => loop[l].pc # "apply")
  => run[eng].rules = rules

\* When the UI returns without having hit its deadline, no rules are left
\* ("and its firewall rules removed").
QuitReleases == ui.pc = "exited" => fw = NoRules

DisconnectDone == status \in SettledStatuses \/ stopCh # 0 \/ ~Alive

\* After Disconnect, whatever the loop was waiting for, the status settles or
\* the user has connected again - unless connectBackend of an engine never
\* returns: Run does not look at the stop channel before it has.
DisconnectSettles ==
  stopCh = 0 ~> (\/ DisconnectDone
                 \/ \E e \in Engines : [](run[e].phase = "connecting"))

\* The same without the exception.
DisconnectSettlesAlways == stopCh = 0 ~> DisconnectDone
=============================================================================
