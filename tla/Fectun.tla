------------------------------- MODULE Fectun --------------------------------
(***************************************************************************)
(* The fectun transport of the first hop (sshconn/fectun.go) to one host:  *)
(* the table of shared clients with reference counts and idle timers, the  *)
(* key cached for the host with its generation, the dial that tries the    *)
(* cached key, bootstraps the daemon and finally restarts it, and the      *)
(* daemon on the host (cmd/server/fectun.go) with its key file.            *)
(*                                                                         *)
(* Every dialer is a goroutine (a pool member connecting or reconnecting). *)
(* Locked sections are single steps; fectunPeer.mu is held during a        *)
(* bootstrap and so is a variable.  A callback of an idle timer that has   *)
(* fired may still have to wait for the lock, so firing and running are    *)
(* two steps.  Rates, shards and addresses are left out.                   *)
(***************************************************************************)
EXTENDS Naturals, FiniteSets, TLC

CONSTANTS
    Dialers,
    MaxKeys,     \* bound on the keys the host generates
    MaxClients,  \* bound on the clients created
    MaxDials,    \* bound on the calls of fectunFirstHop
    MaxFaults,   \* bound on faults
    None

Keys == 1..MaxKeys
Clients == 1..MaxClients

VARIABLES
    entry,    \* entry[c]: fectunEntry, created in order
    table,    \* fectunClients.m: key -> entry, or 0
    peer,     \* fectunPeer: key (0 for none) and gen
    lock,     \* holder of fectunPeer.mu during a bootstrap
    dial,     \* dial[d]: the call of fectunFirstHop, or the stream it returned
    daemon,   \* the daemon: running, its key, and which one it is
    keyfile,  \* the key file on the host, 0 when there is none
    keys,     \* keys generated so far
    dials, faults, boots, restarts   \* history: calls, faults, completed
              \* bootstraps, and daemons stopped to be replaced

vars == <<entry, table, peer, lock, dial, daemon, keyfile, keys, dials, faults,
          boots, restarts>>

ASSUME FectunAssumption ==
    /\ MaxKeys \in Nat \ {0} /\ MaxClients \in Nat \ {0}
    /\ IsFiniteSet(Dialers) /\ None \notin Dialers /\ None \notin Clients

NoEntry == [st |-> "none", key |-> 0, refs |-> 0, idle |-> FALSE, late |-> 0, est |-> 0]
NoDial == [pc |-> "idle", phase |-> 0, key |-> 0, seen |-> 0, ent |-> 0]

Init ==
    /\ entry = [c \in Clients |-> NoEntry]
    /\ table = [k \in Keys |-> 0]
    /\ peer = [key |-> 0, gen |-> 0]
    /\ lock = None
    /\ dial = [d \in Dialers |-> NoDial]
    /\ daemon = [up |-> FALSE, key |-> 0, epoch |-> 0]
    /\ keyfile = 0 /\ keys = 0
    /\ dials = 0 /\ faults = 0 /\ boots = 0 /\ restarts = 0

host == <<daemon, keyfile, keys>>
counts == <<dials, faults, boots, restarts>>

(***************************************************************************)
(* The library and the network: a handshake succeeds if a daemon runs with *)
(* the client's key and the client has no session with an earlier daemon.  *)
(***************************************************************************)
Reachable(c) ==
    /\ daemon.up /\ entry[c].key = daemon.key
    /\ entry[c].est \in {0, daemon.epoch}

Fault == faults < MaxFaults /\ faults' = faults + 1

(***************************************************************************)
(* fectunFirstHop begins: the cached key is tried first.                   *)
(***************************************************************************)
Current(d) ==
    /\ dial[d].pc = "idle" /\ lock = None /\ dials < MaxDials
    /\ dial' = [dial EXCEPT ![d] =
         [NoDial EXCEPT !.pc = IF peer.key = 0 THEN "refresh" ELSE "try",
                        !.phase = IF peer.key = 0 THEN 1 ELSE 0,
                        !.key = peer.key, !.seen = peer.gen]]
    /\ dials' = dials + 1
    /\ UNCHANGED <<entry, table, peer, lock, host, faults, boots, restarts>>

(***************************************************************************)
(* dialFectun: the client of the table, or a new one.                      *)
(***************************************************************************)
Created == {c \in Clients : entry[c].st # "none"}

Taken(e) == [e EXCEPT !.idle = FALSE, !.refs = @ + 1]

DialFectun(d) ==
    LET k == dial[d].key
        c == IF table[k] # 0 THEN table[k] ELSE Cardinality(Created) + 1
    IN  /\ dial[d].pc = "try" /\ c \in Clients
        /\ entry' = [entry EXCEPT ![c] =
             Taken(IF table[k] # 0 THEN @ ELSE [NoEntry EXCEPT !.st = "live", !.key = k])]
        /\ table' = [table EXCEPT ![k] = c]
        /\ dial' = [dial EXCEPT ![d].pc = "handshake", ![d].ent = c]
        /\ UNCHANGED <<peer, lock, host, counts>>

HandshakeOk(d) ==
    /\ dial[d].pc = "handshake" /\ Reachable(dial[d].ent)
    /\ entry' = [entry EXCEPT ![dial[d].ent].est = daemon.epoch]
    /\ dial' = [dial EXCEPT ![d] = [NoDial EXCEPT !.pc = "up", !.ent = dial[d].ent]]
    /\ UNCHANGED <<table, peer, lock, host, counts>>

(***************************************************************************)
(* fectunConn.Close with release, on entry c.                              *)
(***************************************************************************)

Released(c) ==
    LET e == entry[c]
        n == e.refs - 1
    IN  IF n > 0 THEN [e EXCEPT !.refs = n]
        ELSE IF table[e.key] # c THEN [e EXCEPT !.refs = n, !.st = "closed"]
        ELSE [e EXCEPT !.refs = n, !.idle = TRUE]

\* A failed handshake: because the peer is not reachable, or by packet loss.
HandshakeFails(d) ==
    /\ dial[d].pc = "handshake"
    /\ \/ ~Reachable(dial[d].ent) /\ faults' = faults
       \/ Reachable(dial[d].ent) /\ Fault
    /\ entry' = [entry EXCEPT ![dial[d].ent] = Released(dial[d].ent)]
    /\ dial' = [dial EXCEPT ![d].pc = "evict"]
    /\ UNCHANGED <<table, peer, lock, host, dials, boots, restarts>>

\* The stream of an SSH connection is closed, by its user or because it died.
Close(d) ==
    /\ dial[d].pc = "up"
    /\ entry' = [entry EXCEPT ![dial[d].ent] = Released(dial[d].ent)]
    /\ dial' = [dial EXCEPT ![d] = NoDial]
    /\ UNCHANGED <<table, peer, lock, host, counts>>

(***************************************************************************)
(* evict, and what fectunFirstHop does after a failed try: bootstrap, then *)
(* restart, then give up.                                                  *)
(***************************************************************************)
After(d) ==
    IF dial[d].phase = 2 THEN NoDial
    ELSE [dial[d] EXCEPT !.pc = "refresh", !.phase = @ + 1, !.ent = 0]

Evict(d) ==
    LET c == dial[d].ent
        k == entry[c].key
    IN  /\ dial[d].pc = "evict"
        /\ IF table[k] # c THEN UNCHANGED <<table, entry>>
           ELSE /\ table' = [table EXCEPT ![k] = 0]
                /\ entry' = IF entry[c].refs = 0
                            THEN [entry EXCEPT ![c].idle = FALSE, ![c].st = "closed"]
                            ELSE entry
        /\ dial' = [dial EXCEPT ![d] = After(d)]
        /\ UNCHANGED <<peer, lock, host, counts>>

(***************************************************************************)
(* The idle timer: it fires, its callback gets the lock, and closes the    *)
(* client after releasing it.                                              *)
(***************************************************************************)
TimerFires(c) ==
    /\ entry[c].idle
    /\ entry' = [entry EXCEPT ![c].idle = FALSE, ![c].late = @ + 1]
    /\ UNCHANGED <<table, peer, lock, dial, host, counts>>

Spared_Used(c) == table[entry[c].key] # c

Spared(c) == entry[c].refs > 0 \/ table[entry[c].key] # c

TimerRuns(c) ==
    /\ entry[c].late > 0
    /\ IF Spared(c)
       THEN /\ entry' = [entry EXCEPT ![c].late = @ - 1]
            /\ table' = table
       ELSE /\ entry' = [entry EXCEPT ![c].late = @ - 1, ![c].st = "closing"]
            /\ table' = [table EXCEPT ![entry[c].key] = 0]
    /\ UNCHANGED <<peer, lock, dial, host, counts>>

CloseIdle(c) ==
    /\ entry[c].st = "closing"
    /\ entry' = [entry EXCEPT ![c].st = "closed"]
    /\ UNCHANGED <<table, peer, lock, dial, host, counts>>

(***************************************************************************)
(* fectunPeer.refresh: the bootstrap runs under the lock of the peer,      *)
(* unless somebody else has made one since the key was read.               *)
(***************************************************************************)

Newer(d) == peer.gen # dial[d].seen /\ peer.key # 0

Refresh(d) ==
    /\ dial[d].pc = "refresh" /\ lock = None
    /\ IF Newer(d)
       THEN /\ dial' = [dial EXCEPT ![d].pc = "try",
                          ![d].key = peer.key, ![d].seen = peer.gen]
            /\ lock' = lock
       ELSE /\ dial' = [dial EXCEPT ![d].pc = IF dial[d].phase = 2 THEN "stop" ELSE "boot"]
            /\ lock' = d
    /\ UNCHANGED <<entry, table, peer, host, counts>>

\* runFectunUp with --fectun-restart: stopFectunDaemon, under the file lock.
StopDaemon(d) ==
    /\ dial[d].pc = "stop"
    /\ daemon' = [daemon EXCEPT !.up = FALSE]
    /\ dial' = [dial EXCEPT ![d].pc = "boot"]
    /\ restarts' = restarts + 1
    /\ UNCHANGED <<entry, table, peer, lock, keyfile, keys, dials, faults, boots>>

\* The rest of runFectunUp: load or create the key, start the daemon unless
\* the port is in use, report the key; refresh stores it.
FectunUp(d) ==
    LET k == IF keyfile # 0 THEN keyfile ELSE keys + 1
    IN  /\ dial[d].pc = "boot" /\ k \in Keys
        /\ keyfile' = k /\ keys' = IF keyfile # 0 THEN keys ELSE k
        /\ daemon' = IF daemon.up THEN daemon
                     ELSE [up |-> TRUE, key |-> k, epoch |-> daemon.epoch + 1]
        /\ peer' = [key |-> k, gen |-> peer.gen + 1]
        /\ lock' = None
        /\ dial' = [dial EXCEPT ![d].pc = "try", ![d].key = k, ![d].seen = peer.gen + 1]
        /\ boots' = boots + 1
        /\ UNCHANGED <<entry, table, dials, faults, restarts>>

\* The TCP connection, the deployment or the start of the daemon fails: the
\* dial returns the error, and the cached key stays as it was.
BootFails(d) ==
    /\ dial[d].pc = "boot" /\ Fault
    /\ lock' = None
    /\ dial' = [dial EXCEPT ![d] = NoDial]
    /\ UNCHANGED <<entry, table, peer, host, dials, boots, restarts>>

(***************************************************************************)
(* What happens on the host: the daemon ends (idle for ten minutes, or the *)
(* host goes down), another device restarts it, the deploy directory with  *)
(* the key file is deleted.                                                *)
(***************************************************************************)
DaemonExits ==
    /\ daemon.up /\ Fault
    /\ daemon' = [daemon EXCEPT !.up = FALSE]
    /\ UNCHANGED <<entry, table, peer, lock, dial, keyfile, keys, dials, boots, restarts>>

DaemonReplaced ==
    /\ daemon.up /\ keyfile = daemon.key /\ Fault
    /\ daemon' = [daemon EXCEPT !.epoch = @ + 1]
    /\ UNCHANGED <<entry, table, peer, lock, dial, keyfile, keys, dials, boots, restarts>>

KeyFileLost ==
    /\ keyfile # 0 /\ keys < MaxKeys /\ Fault
    /\ keyfile' = 0
    /\ UNCHANGED <<entry, table, peer, lock, dial, daemon, keys, dials, boots, restarts>>

DialStep(d) ==
    \/ DialFectun(d) \/ HandshakeOk(d) \/ HandshakeFails(d) \/ Evict(d)
    \/ Refresh(d) \/ StopDaemon(d) \/ FectunUp(d) \/ BootFails(d)

TimerStep(c) == TimerFires(c) \/ TimerRuns(c) \/ CloseIdle(c)

Next ==
    \/ \E d \in Dialers : Current(d) \/ DialStep(d) \/ Close(d)
    \/ \E c \in Clients : TimerStep(c)
    \/ DaemonExits \/ DaemonReplaced \/ KeyFileLost

\* Dials go on, timers expire, their callbacks run, and the keepalive ends an
\* SSH connection whose peer is gone.  Nobody has to dial or to close.
Fairness ==
    /\ \A d \in Dialers : /\ WF_vars(DialStep(d))
                          /\ WF_vars(Close(d) /\ ~Reachable(dial[d].ent))
    /\ \A c \in Clients : WF_vars(TimerStep(c))

Spec == Init /\ [][Next]_vars /\ Fairness

(***************************************************************************)
(* Properties.                                                             *)
(***************************************************************************)
TypeOK ==
    /\ \A c \in Clients : /\ entry[c].st \in {"none", "live", "closing", "closed"}
                          /\ entry[c].refs \in 0..Cardinality(Dialers)
                          /\ entry[c].idle \in BOOLEAN /\ entry[c].late \in Nat
    /\ table \in [Keys -> 0..MaxClients]
    /\ lock \in Dialers \cup {None}
    /\ peer.key \in 0..MaxKeys /\ peer.gen \in Nat

\* The table of clients, with its counts, timers and late callbacks, keeps the
\* promise of SharedClient: no stream is ever on a closed client, a client is
\* closed once, and only one per key is handed out.
Abs == INSTANCE SharedClient WITH
    Clients <- Clients,
    offered <- [k \in Keys |-> IF table[k] = 0 THEN None ELSE table[k]],
    holds <- [d \in Dialers |->
                IF dial[d].pc \in {"handshake", "up"} THEN dial[d].ent ELSE None],
    closed <- {c \in Clients : entry[c].st \in {"closing", "closed"}}

ClientShared == Abs!Spec

\* A reconnect storm costs one bootstrap and not one per pool member: beyond
\* the first one there is at most one bootstrap for each fault, whatever the
\* number of dialers that meet it, and one more for each restart, which leaves
\* the other connections' client in the table with a session the new daemon
\* does not know.  (When the key file is lost the daemon still has the old key
\* and only a restart helps: bootstraps may then alternate.)
StormCostsOne == keys <= 1 => boots <= 1 + faults + restarts

\* A client on which no stream is left is closed, or used again.
IdleClosed ==
    \A c \in Clients :
        (entry[c].st \in {"live", "closing"} /\ entry[c].refs = 0)
            ~> (entry[c].st = "closed" \/ entry[c].refs > 0)
=============================================================================
