----------------------------- MODULE NetMonitor ------------------------------
(***************************************************************************)
(* netmon.Watch (internal/netmon): messages about links and addresses are  *)
(* read from a routing socket one at a time; the first seconds' are thrown *)
(* away; for any other the fingerprint of the interfaces is sampled until  *)
(* it is back at that of the start, has settled on another network, or the *)
(* window is over.  While it samples, messages wait in the socket.         *)
(*                                                                         *)
(* A sample and the sleep before it are one step; between two samples the  *)
(* network may change once.                                                *)
(***************************************************************************)
EXTENDS Naturals, FiniteSets, Sequences

CONSTANTS
    Ifaces,       \* interfaces that are not loopback
    States,       \* States[i]: what interface i may be: up, and its addresses
    LinkLocals,   \* link-local addresses
    MaxPolls,     \* fingerprintMaxPolls
    StableCount,  \* fingerprintStableCount
    SocketRoom,   \* messages the socket holds
    MaxChanges,
    Graceless     \* no change before the first seconds are over

ASSUME NetMonitorAssumption ==
    /\ MaxPolls \in Nat /\ StableCount \in 1..MaxPolls
    /\ MaxChanges \in Nat /\ SocketRoom \in Nat \ {0} /\ Graceless \in BOOLEAN

VARIABLES
    ifs,       \* state of the interfaces
    queued,    \* messages in the socket
    grace,     \* the first five seconds
    watch,     \* "read", "wait"; returned: "changed", "stopped", "error"
    baseline, polls, streak, last,
    fresh,     \* the network may change before the next sample
    home,      \* history: the routable addresses at the start,
    seen,      \* those of the last sample, and
    away,      \* the samples in a row that were not at home
    shutdown,  \* netmonDone is closed
    changes

nvars == <<ifs, queued, grace, watch, baseline, polls, streak, last, fresh,
           home, seen, away, shutdown, changes>>

\* computeFingerprint: the interfaces that are up with their routable
\* addresses, if there are any.
Fingerprint_Fault(s) == {<<i, s[i].addrs>> : i \in {j \in Ifaces : s[j].up /\ s[j].addrs # {}}}
Fingerprint(s) ==
    {<<i, s[i].addrs \ LinkLocals>> :
        i \in {j \in Ifaces : s[j].up /\ s[j].addrs \ LinkLocals # {}}}
Unknown == {}
Addresses(s) == UNION {s[i].addrs \ LinkLocals : i \in {j \in Ifaces : s[j].up}}
history == <<home, seen, away>>

NInit ==
    /\ ifs \in [Ifaces -> UNION {States[i] : i \in Ifaces}]
    /\ \A i \in Ifaces : ifs[i] \in States[i]
    /\ baseline = Fingerprint(ifs)
    /\ queued = 0 /\ grace = TRUE /\ watch = "read"
    /\ polls = 0 /\ streak = 0 /\ last = Unknown /\ fresh = TRUE
    /\ home = Addresses(ifs) /\ seen = home /\ away = 0
    /\ shutdown = FALSE /\ changes = 0

\* The environment: an interface changes, and the kernel sends a message; one
\* that finds no room makes the next read fail.
IfaceChanges(i, s) ==
    /\ s \in States[i] /\ s # ifs[i] /\ changes < MaxChanges
    /\ fresh /\ (Graceless => ~grace)
    /\ ifs' = [ifs EXCEPT ![i] = s]
    /\ queued' = queued + 1 /\ changes' = changes + 1 /\ fresh' = FALSE
    /\ UNCHANGED <<grace, watch, baseline, polls, streak, last, history, shutdown>>

GraceOver ==
    /\ grace /\ grace' = FALSE /\ fresh' = TRUE
    /\ UNCHANGED <<ifs, queued, watch, baseline, polls, streak, last, history, shutdown, changes>>

Shutdown ==
    /\ ~shutdown /\ shutdown' = TRUE
    /\ UNCHANGED <<ifs, queued, grace, watch, baseline, polls, streak, last, fresh, history, changes>>

\* Watch: one message is read.
ReadMessage ==
    /\ watch = "read" /\ queued \in 1..SocketRoom
    /\ queued' = queued - 1 /\ fresh' = TRUE
    /\ watch' = IF grace THEN "read" ELSE "wait"
    /\ polls' = 0 /\ streak' = 0 /\ last' = Unknown
    /\ UNCHANGED <<ifs, grace, baseline, history, shutdown, changes>>

\* Any error but a timeout or a signal ends Watch; the engine reconnects.
ReadFails ==
    /\ watch = "read" /\ queued > SocketRoom
    /\ watch' = "error"
    /\ UNCHANGED <<ifs, queued, grace, baseline, polls, streak, last, fresh, history, shutdown, changes>>

WatchStops ==
    /\ watch \in {"read", "wait"} /\ shutdown
    /\ watch' = IF watch = "wait" THEN "read" ELSE "stopped"
    /\ UNCHANGED <<ifs, queued, grace, baseline, polls, streak, last, fresh, history, shutdown, changes>>

\* waitForStableFingerprint: one turn of its loop.
Streak(cur) == IF cur = Unknown THEN 0 ELSE IF cur = last THEN streak + 1 ELSE 1
Exhausted_Fault == "read"
Exhausted == "changed"
Sample ==
    LET cur == Fingerprint(ifs) IN
    /\ watch = "wait" /\ fresh' = TRUE
    /\ seen' = Addresses(ifs) /\ away' = IF Addresses(ifs) = home THEN 0 ELSE away + 1
    /\ last' = cur /\ streak' = Streak(cur) /\ polls' = polls + 1
    /\ watch' = IF cur = baseline THEN "read"
                ELSE IF Streak(cur) >= StableCount THEN "changed"
                ELSE IF polls + 1 >= MaxPolls THEN Exhausted ELSE "wait"
    /\ UNCHANGED <<ifs, queued, grace, baseline, home, shutdown, changes>>

WatchStep == ReadMessage \/ ReadFails \/ WatchStops \/ Sample

NNext ==
    \/ \E i \in Ifaces : \E s \in States[i] : IfaceChanges(i, s)
    \/ GraceOver \/ Shutdown \/ WatchStep

\* Watch runs, and time passes.
NFairness == WF_nvars(WatchStep) /\ WF_nvars(GraceOver)
NSpec == NInit /\ [][NNext]_nvars /\ NFairness

(***************************************************************************)
(* Properties.                                                             *)
(***************************************************************************)
\* An outage that is shorter than the window and ends on the same network is
\* not taken for a change: a change is reported after StableCount samples
\* with the address of another network, or a window without any.
FlapIgnored == watch = "changed" =>
    \/ away >= MaxPolls
    \/ away >= StableCount /\ seen \notin {home, {}}

\* A network that differs from the one at the start for good is reported,
\* whatever it went through before, unless the engine ends.  (The first
\* seconds are an exception: Graceless.)
SwitchReported ==
    []<>(Fingerprint(ifs) = baseline) \/ <>(watch \in {"changed", "stopped", "error"})
=============================================================================
