------------------------------ MODULE Datagrams ------------------------------
(***************************************************************************)
(* The datagram side of the proxies: the table of UDP flows of the TPROXY  *)
(* listener with its cleanup and its receivers (proxy/udp_tproxy.go), the  *)
(* UDP association of a SOCKS5 client (socks5_udp.go, tunnel_resolver.go), *)
(* the DNS interceptor (dns.go), and what the server does with their       *)
(* streams (handleUDP and handleDNS).                                      *)
(*                                                                         *)
(* Flows and channels are numbered as they are opened; a channel is the    *)
(* UDPChannel of a flow or of the association.  Locked sections are single *)
(* steps.  Datagrams carry no data: what matters is where they can go.     *)
(***************************************************************************)
EXTENDS Naturals, FiniteSets, TLC

CONSTANTS
    Keys,         \* flow keys: source and destination
    MaxChans,     \* bound on the channels opened
    Queries,      \* DNS queries
    FilterAAAA,   \* IPv6 is locked down
    Modes,        \* which of the proxies a behaviour uses ("tcp": none of these)
    None

ASSUME DatagramsAssumption ==
    /\ MaxChans \in Nat /\ FilterAAAA \in BOOLEAN
    /\ Modes \subseteq {"tproxy", "socks5", "dns", "tcp"} /\ None \notin Keys

Chans == 1..MaxChans

VARIABLES
    mode,     \* the proxy in use
    chan,     \* chan[c]: key, client's end, server's end, its receiver, record
    flows,    \* flows[k]: the flow of key k, or 0
    loop,     \* the receive loop: pc, key, channel
    stale,    \* flows whose lastSeen is older than udpFlowIdleTimeout
    assoc,    \* the association: open, its channel (r.tunnels), direct socket
    query,    \* query[q]: kind, pc, answer
    channels, \* ActiveTCP, as far as channels are counted in it
    robbed,   \* history: flows deleted by the receiver of an earlier flow
    cut       \* history: channels the server ended first

dvars == <<mode, chan, flows, loop, stale, assoc, query, channels, robbed, cut>>

NoChan == [st |-> "none", key |-> None, sv |-> "none", recv |-> "none", rec |-> "none"]
Idle == [pc |-> "recv", key |-> None, ch |-> 0]

DInit ==
    /\ mode \in Modes
    /\ chan = [c \in Chans |-> NoChan]
    /\ flows = [k \in Keys |-> 0]
    /\ loop = Idle
    /\ stale = {}
    /\ assoc = [open |-> mode = "socks5", ch |-> 0, direct |-> "none", peer |-> FALSE]
    /\ query = [q \in Queries |-> [kind |-> "none", pc |-> "none", ans |-> 0]]
    /\ channels = 0 /\ robbed = {} /\ cut = {}

Opened == {c \in Chans : chan[c].st # "none"}
NextChan == Cardinality(Opened) + 1

(***************************************************************************)
(* OpenUDP and UDPChannel.Close, which acts once.                          *)
(***************************************************************************)
OpenUDP(k) == [NoChan EXCEPT !.st = "open", !.key = k, !.sv = "run"]

Closed(c) == [chan EXCEPT ![c].st = "closed"]

Released(cs) == channels - Cardinality({c \in cs : chan[c].st = "open"})

(***************************************************************************)
(* The receive loop of ListenUDPTProxy: look the flow up, open one if      *)
(* there is none, send.                                                    *)
(***************************************************************************)
Recvmsg(k) ==
    /\ mode = "tproxy" /\ loop.pc = "recv"
    /\ IF flows[k] # 0
       THEN /\ loop' = [pc |-> "send", key |-> k, ch |-> flows[k]]
            /\ stale' = stale \ {flows[k]}
       ELSE loop' = [pc |-> "open", key |-> k, ch |-> 0] /\ stale' = stale
    /\ UNCHANGED <<mode, chan, flows, assoc, query, channels, robbed, cut>>

OpenFlow ==
    /\ loop.pc = "open"
    /\ \/ /\ loop' = Idle
          /\ UNCHANGED <<chan, channels>>
       \/ /\ NextChan \in Chans
          /\ chan' = [chan EXCEPT ![NextChan] = [OpenUDP(loop.key) EXCEPT !.rec = "open"]]
          /\ loop' = [loop EXCEPT !.pc = "install", !.ch = NextChan]
          /\ channels' = channels + 1
    /\ UNCHANGED <<mode, flows, stale, assoc, query, robbed, cut>>

InstallFlow ==
    /\ loop.pc = "install"
    /\ flows' = [flows EXCEPT ![loop.key] = loop.ch]
    /\ chan' = [chan EXCEPT ![loop.ch].recv = "run"]
    /\ loop' = [loop EXCEPT !.pc = "send"]
    /\ UNCHANGED <<mode, stale, assoc, query, channels, robbed, cut>>

\* SendTo; when it fails the datagram is lost and the loop goes on.
SendTo ==
    /\ loop.pc = "send" /\ loop' = Idle
    /\ UNCHANGED <<mode, chan, flows, stale, assoc, query, channels, robbed, cut>>

(***************************************************************************)
(* The cleanup goroutine: every flow of the table nobody has sent on for   *)
(* two minutes.                                                            *)
(***************************************************************************)
TimePasses(c) ==
    /\ chan[c].st = "open" /\ mode = "tproxy"
    /\ stale' = stale \cup {c}
    /\ UNCHANGED <<mode, chan, flows, loop, assoc, query, channels, robbed, cut>>

Cleanup(old) ==
    /\ chan' = [c \in Chans |-> IF c \in old THEN [chan[c] EXCEPT !.st = "closed", !.rec = "closed"]
                                ELSE chan[c]]
    /\ flows' = [k \in Keys |-> IF flows[k] \in old THEN 0 ELSE flows[k]]

CleanupTick ==
    LET old == {flows[k] : k \in Keys} \cap stale
    IN  /\ old # {}
        /\ Cleanup(old)
        /\ channels' = Released(old)
        /\ UNCHANGED <<mode, loop, stale, assoc, query, robbed, cut>>

(***************************************************************************)
(* udpFlowReceiver: Recv fails once either end has closed the stream; then *)
(* the channel is closed and recorded, and the table entry deleted by key. *)
(***************************************************************************)
Recv(c) == chan[c].recv = "run" /\ (chan[c].st = "closed" \/ chan[c].sv = "end")

ReceiverEnds(c) ==
    /\ mode = "tproxy" /\ Recv(c)
    /\ chan' = [Closed(c) EXCEPT ![c].rec = "closed", ![c].recv = "delete"]
    /\ channels' = Released({c})
    /\ UNCHANGED <<mode, flows, loop, stale, assoc, query, robbed, cut>>

Deleted(k) == [flows EXCEPT ![k] = 0]

DeleteFlow(c) ==
    LET k == chan[c].key
    IN  /\ chan[c].recv = "delete"
        /\ flows' = Deleted(k)
        /\ chan' = [chan EXCEPT ![c].recv = "done"]
        /\ robbed' = robbed \cup ({flows[k]} \ {0, c})
        /\ UNCHANGED <<mode, loop, stale, assoc, query, channels, cut>>

(***************************************************************************)
(* handleUDP on the server ends when it reads the close of the channel, or *)
(* cannot open its socket; its return closes the stream.                   *)
(***************************************************************************)
HandleUDP(c) ==
    /\ chan[c].sv = "run"
    /\ chan' = [chan EXCEPT ![c].sv = "end"]
    /\ cut' = IF chan[c].st = "open" THEN cut \cup {c} ELSE cut
    /\ UNCHANGED <<mode, flows, loop, stale, assoc, query, channels, robbed>>

(***************************************************************************)
(* A SOCKS5 association: the read loop resolves the destination, gets the  *)
(* channel or the direct socket, and sends.  Only the client's datagrams   *)
(* are taken, and the first one tells where replies go.                    *)
(***************************************************************************)
ReadFromUDP ==
    /\ mode = "socks5" /\ assoc.open /\ loop.pc = "recv"
    /\ \E pc \in {"recv", "resolve", "direct"} :   \* blocked or malformed; tunnel; direct
         loop' = [loop EXCEPT !.pc = pc]
    /\ assoc' = [assoc EXCEPT !.peer = TRUE]
    /\ UNCHANGED <<mode, chan, flows, stale, query, channels, robbed, cut>>

Resolve ==
    /\ loop.pc = "resolve"
    /\ \E pc \in {"recv", "channel"} : loop' = [loop EXCEPT !.pc = pc]
    /\ UNCHANGED <<mode, chan, flows, stale, assoc, query, channels, robbed, cut>>

MayOpen == assoc.open

\* tunnelChannel, under the lock of the relay.
TunnelChannel ==
    /\ loop.pc = "channel"
    /\ IF ~MayOpen
       THEN loop' = Idle /\ UNCHANGED <<chan, assoc, channels>>
       ELSE IF assoc.ch # 0
       THEN loop' = [loop EXCEPT !.pc = "send", !.ch = assoc.ch] /\ UNCHANGED <<chan, assoc, channels>>
       ELSE \/ loop' = Idle /\ UNCHANGED <<chan, assoc, channels>>
            \/ /\ NextChan \in Chans
               /\ chan' = [chan EXCEPT ![NextChan] = [OpenUDP(None) EXCEPT !.recv = "run"]]
               /\ assoc' = [assoc EXCEPT !.ch = NextChan]
               /\ loop' = [loop EXCEPT !.pc = "send", !.ch = NextChan]
               /\ channels' = channels + 1
    /\ UNCHANGED <<mode, flows, stale, query, robbed, cut>>

DirectConn ==
    /\ loop.pc = "direct"
    /\ loop' = Idle
    /\ assoc' = IF MayOpen THEN [assoc EXCEPT !.direct = "open"] ELSE assoc
    /\ UNCHANGED <<mode, chan, flows, stale, query, channels, robbed, cut>>

\* The goroutine of the channel: Recv fails, the entry goes if it is still its.
ChannelEnds(c) ==
    /\ mode = "socks5" /\ Recv(c)
    /\ chan' = [chan EXCEPT ![c].recv = "done"]
    /\ assoc' = IF assoc.ch = c THEN [assoc EXCEPT !.ch = 0] ELSE assoc
    /\ UNCHANGED <<mode, flows, loop, stale, query, channels, robbed, cut>>

\* The control connection ends: udpRelay.close.
CloseRelay ==
    /\ assoc.open
    /\ assoc' = [assoc EXCEPT !.open = FALSE,
                              !.direct = IF @ = "open" THEN "closed" ELSE @]
    /\ IF assoc.ch # 0
       THEN chan' = Closed(assoc.ch) /\ channels' = Released({assoc.ch})
       ELSE UNCHANGED <<chan, channels>>
    /\ UNCHANGED <<mode, flows, loop, stale, query, robbed, cut>>

(***************************************************************************)
(* ServeDNS: a query arrives; an AAAA query is answered on the spot when   *)
(* IPv6 is locked down; else it goes to the server, whose answer, SERVFAIL *)
(* of its own included, goes back, or SERVFAIL if the request fails.       *)
(***************************************************************************)
ReadQuery(q, kind) ==
    /\ mode = "dns" /\ query[q].pc = "none"
    /\ query' = [query EXCEPT ![q] =
         [kind |-> kind,
          pc |-> IF kind = "AAAA" /\ FilterAAAA THEN "done" ELSE "request",
          ans |-> IF kind = "AAAA" /\ FilterAAAA THEN 1 ELSE 0]]
    /\ UNCHANGED <<mode, chan, flows, loop, stale, assoc, channels, robbed, cut>>

\* handleDNS: the upstream answers, or forwardDNS returns a SERVFAIL, which a
\* query of less than twelve bytes does not get (an empty message is sent).
HandleDNS(q) ==
    /\ query[q].pc = "request"
    /\ \E pc \in {"answer"} \cup (IF query[q].kind = "short" THEN {"error"} ELSE {}) :
         query' = [query EXCEPT ![q].pc = pc]
    /\ UNCHANGED <<mode, chan, flows, loop, stale, assoc, channels, robbed, cut>>

\* DNSRequest fails: no tunnel, all attempts timed out or rejected.
DNSRequestFails(q) ==
    /\ query[q].pc = "request"
    /\ query' = [query EXCEPT ![q].pc = "error"]
    /\ UNCHANGED <<mode, chan, flows, loop, stale, assoc, channels, robbed, cut>>

DNSAnswer(q) ==
    /\ query[q].pc = "answer"
    /\ query' = [query EXCEPT ![q].pc = "done", ![q].ans = @ + 1]
    /\ UNCHANGED <<mode, chan, flows, loop, stale, assoc, channels, robbed, cut>>

BuildDNSServFail_None(q) == 0

BuildDNSServFail(q) == IF query[q].kind = "short" THEN 0 ELSE 1

DNSFails(q) ==
    /\ query[q].pc = "error"
    /\ query' = [query EXCEPT ![q].pc = "done", ![q].ans = @ + BuildDNSServFail(q)]
    /\ UNCHANGED <<mode, chan, flows, loop, stale, assoc, channels, robbed, cut>>

TProxyStep == OpenFlow \/ InstallFlow \/ SendTo
SocksStep == Resolve \/ TunnelChannel \/ DirectConn
DNSStep(q) == HandleDNS(q) \/ DNSRequestFails(q) \/ DNSAnswer(q) \/ DNSFails(q)

DNext ==
    \/ \E k \in Keys : Recvmsg(k)
    \/ TProxyStep \/ CleanupTick
    \/ \E c \in Chans : TimePasses(c) \/ ReceiverEnds(c) \/ DeleteFlow(c) \/ HandleUDP(c) \/ ChannelEnds(c)
    \/ ReadFromUDP \/ SocksStep \/ CloseRelay
    \/ \E q \in Queries : DNSStep(q) \/ \E kind \in {"A", "AAAA", "short"} : ReadQuery(q, kind)

\* The goroutines run and the cleanup ticks.  Nobody has to send a datagram,
\* and the server ends a channel only when it has been closed.
DFairness ==
    /\ WF_dvars(TProxyStep) /\ WF_dvars(SocksStep) /\ WF_dvars(CleanupTick)
    /\ \A c \in Chans : /\ WF_dvars(ReceiverEnds(c)) /\ WF_dvars(DeleteFlow(c))
                        /\ WF_dvars(ChannelEnds(c))
                        /\ WF_dvars(HandleUDP(c) /\ chan[c].st = "closed")
    /\ \A q \in Queries : WF_dvars(DNSStep(q))

DSpec == DInit /\ [][DNext]_dvars /\ DFairness

(***************************************************************************)
(* Properties.                                                             *)
(***************************************************************************)

\* The cleanup can reach every flow that is open: a flow that is not being
\* opened right now is in the table, unless the receiver of an earlier flow of
\* the same key has deleted it there.
FlowsReachable ==
    \A c \in Chans :
        (/\ mode = "tproxy" /\ chan[c].st = "open" /\ c \notin robbed
         /\ chan[c].recv = "run")
            => flows[chan[c].key] = c

\* When an association has ended, none of its channels or sockets is open,
\* except a channel the server ended first, and none is opened any more.
AssociationClosed ==
    (mode = "socks5" /\ ~assoc.open) =>
        /\ assoc.direct # "open"
        /\ \A c \in Chans : chan[c].st = "open" => c \in cut

\* A key does not stay bound to a channel that is closed: datagrams would be
\* sent into it for ever.
NoDeadFlow ==
    \A k \in Keys, c \in Chans :
        (flows[k] = c /\ chan[c].st = "closed") ~> (flows[k] # c)

\* Every well-formed DNS query is answered, once.
QueryAnswered ==
    \A q \in Queries :
        (query[q].pc # "none" /\ query[q].kind # "short") ~> (query[q].ans = 1)

\* "how long a UDP flow can be idle before cleanup": an idle flow is closed.
IdleFlowClosed ==
    \A c \in Chans : (c \in stale /\ chan[c].st = "open") ~> (c \notin stale \/ chan[c].st = "closed")
=============================================================================
