------------------------------- MODULE Dialing -------------------------------
(***************************************************************************)
(* sshconn.Dial (internal/sshconn/client.go) under the firewall of the     *)
(* engine.  The members of a pool and their ctrl connections dial on their *)
(* own: directly, hop by hop through jump hosts, or through a ProxyCommand.*)
(* Only the first hop is a connection of this host.  Engine.Run excludes   *)
(* from capture the addresses connectBackend got with its first dial, and  *)
(* when the tunnel is lost it leaves the rules up for the next one, which  *)
(* dials before it replaces them.                                          *)
(*                                                                         *)
(* An SSH client stays until it is closed; the handle of a dial closes the *)
(* last one of its chain.                                                  *)
(***************************************************************************)
EXTENDS Naturals, FiniteSetsExt

CONSTANTS
    Members,      \* dials of one engine: pool members, ctrl connections
    First,        \* the first of them
    Routes,       \* "direct", "jump", "command"
    Jumps,        \* jump hosts of the route "jump"
    HopAddrs,     \* addresses the first hop's name resolves to
    MaxHopDials

ASSUME DialingAssumption ==
    /\ First \in Members /\ Routes \subseteq {"direct", "jump", "command"}
    /\ Jumps \in Nat \ {0} /\ MaxHopDials \in Nat

Zero == "0.0.0.0"     \* address of a connection inside an SSH channel
Empty == ""           \* address of a connection through a subprocess

VARIABLES
    route,     \* how this tunnel reaches its server
    chain,     \* chain[m]: SSH clients so far, peer of the raw connection
    left,      \* SSH clients that nobody can close any more
    engine,    \* "connect", "setup", "ready", "failed"
    backend,   \* the addresses connectBackend returns
    rules,     \* rules are installed
    excluded,  \* addresses they let pass
    hopDials

jvars == <<route, chain, left, engine, backend, rules, excluded, hopDials>>

NoChain == [st |-> "none", hops |-> 0, addr |-> Empty]
Hops == IF route = "jump" THEN Jumps + 1 ELSE 1

JInit ==
    /\ route \in Routes
    /\ chain = [m \in Members |-> NoChain]
    /\ left = 0 /\ engine = "connect" /\ backend = {}
    /\ rules = FALSE /\ excluded = {} /\ hopDials = 0

\* connectBackend dials the first, then the others; a member that lost its
\* connection dials while the engine runs.
MayDial(m) ==
    /\ chain[m].st = "none" /\ hopDials < MaxHopDials /\ engine # "failed"
    /\ engine = "connect" /\ m # First => chain[First].st = "up"

\* firstHopClient: a raw connection to one of the addresses of the name.  One
\* that the rules capture ends in the local proxy.
FirstHop(m, a) ==
    /\ MayDial(m) /\ route # "command"
    /\ chain' = [chain EXCEPT ![m] =
           [st |-> IF rules /\ a \notin excluded THEN "captured"
                   ELSE IF Hops = 1 THEN "up" ELSE "dialing",
            hops |-> 1, addr |-> a]]
    /\ hopDials' = hopDials + 1
    /\ UNCHANGED <<route, left, engine, backend, rules, excluded>>

\* dialViaProxyCommand: a subprocess, and one SSH client over its pipes.
ViaProxyCommand(m) ==
    /\ MayDial(m) /\ route = "command"
    /\ chain' = [chain EXCEPT ![m] = [st |-> "up", hops |-> 1, addr |-> Empty]]
    /\ hopDials' = hopDials + 1
    /\ UNCHANGED <<route, left, engine, backend, rules, excluded>>

\* dialViaExplicitJumps and dialViaProxyJump: the next hop through the last.
NextHop(m) ==
    /\ chain[m].st = "dialing"
    /\ chain' = [chain EXCEPT ![m].hops = @ + 1,
                              ![m].st = IF chain[m].hops + 1 = Hops THEN "up" ELSE @]
    /\ UNCHANGED <<route, left, engine, backend, rules, excluded, hopDials>>

\* Closing the client of a dial: those of the jump hosts before it stay.
Unclosed(m) == IF chain[m].st = "up" THEN chain[m].hops - 1 ELSE 0

\* A hop fails: the error is returned without closing the clients so far.
\* connectBackend closes what it dialed before and is called again later.
HopFails(m) ==
    /\ chain[m].st = "dialing"
    /\ IF engine = "connect"
       THEN /\ chain' = [n \in Members |-> NoChain]
            /\ left' = left + chain[m].hops + MapThenSumSet(Unclosed, Members)
       ELSE /\ chain' = [chain EXCEPT ![m] = NoChain]
            /\ left' = left + chain[m].hops
    /\ UNCHANGED <<route, engine, backend, rules, excluded, hopDials>>

\* The connection of a member dies.
MemberLost(m) ==
    /\ chain[m].st = "up" /\ engine \in {"setup", "ready"}
    /\ chain' = [chain EXCEPT ![m] = NoChain] /\ left' = left + Unclosed(m)
    /\ UNCHANGED <<route, engine, backend, rules, excluded, hopDials>>

\* connectBackend returns the server's address and the one dialed; for an
\* SSH channel the former is zero, for a subprocess it is empty.
RemoteIP == IF route = "jump" THEN Zero ELSE chain[First].addr
FirstHopIP_Fault == {}
FirstHopIP == IF route = "command" THEN {} ELSE {chain[First].addr}
Connected ==
    /\ engine = "connect" /\ \A m \in Members : chain[m].st = "up"
    /\ engine' = "setup" /\ backend' = {RemoteIP} \union FirstHopIP
    /\ UNCHANGED <<route, chain, left, rules, excluded, hopDials>>

\* Engine.Run installs new rules with these addresses excluded.  An empty one
\* makes a prefix without an address, which no firewall accepts.
SetupRules ==
    /\ engine = "setup"
    /\ IF Empty \in backend
       THEN engine' = "failed" /\ UNCHANGED <<rules, excluded>>
       ELSE engine' = "ready" /\ rules' = TRUE /\ excluded' = backend
    /\ UNCHANGED <<route, chain, left, backend, hopDials>>

\* The tunnel ends.  When it was lost the rules stay for the next engine.
TunnelEnds(lost) ==
    /\ engine = "ready" /\ engine' = "connect"
    /\ chain' = [m \in Members |-> NoChain]
    /\ left' = left + MapThenSumSet(Unclosed, Members)
    /\ rules' = lost /\ excluded' = IF lost THEN excluded ELSE {}
    /\ UNCHANGED <<route, backend, hopDials>>

JNext ==
    \/ \E m \in Members : \/ \E a \in HopAddrs : FirstHop(m, a)
                          \/ ViaProxyCommand(m) \/ NextHop(m) \/ HopFails(m) \/ MemberLost(m)
    \/ Connected \/ SetupRules \/ \E lost \in BOOLEAN : TunnelEnds(lost)

JSpec == JInit /\ [][JNext]_jvars

(***************************************************************************)
(* Properties.                                                             *)
(***************************************************************************)
\* The tunnel's own connections are never captured by its own rules: not
\* those of pool members that reconnect while it runs, and not those made
\* under the rules an earlier engine left.
CarrierExempt == \A m \in Members : chain[m].st # "captured"

\* A tunnel whose connections are up can install its rules.
RulesAccepted == engine # "failed"

\* Every open SSH client is one somebody will close.
HopsClosed == left = 0
=============================================================================
