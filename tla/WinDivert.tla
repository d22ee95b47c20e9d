------------------------------ MODULE WinDivert ------------------------------
(***************************************************************************)
(* winDivertMethod (internal/firewall/windivert.go): every outbound packet *)
(* of the host passes processPacket, which sends those of the subnets to   *)
(* the local proxy, remembers their destination in connTrack under the     *)
(* application's source port, and puts it back as the source of the        *)
(* answers.  QueryOrigDst tells the proxy where a connection was going.    *)
(* cleanupLoop removes old entries.                                        *)
(*                                                                         *)
(* Time is counted in ticks of the cleanup; a packet is handled in one     *)
(* step, as interceptLoop handles one at a time.                           *)
(***************************************************************************)
EXTENDS Capture

CONSTANTS
    Conns,        \* connections and queries of applications
    SrcPorts,     \* local ephemeral ports
    Targets,      \* what applications open: protocol, address, port
    WSubnets, WExcludes,   \* as given to Setup
    WBlockIPv6, WDNS,      \* --no-ipv6; a DNS listener exists
    ProxyIPv6,    \* the host has an IPv6 address for the proxy
    Ttl,          \* ticks after which an entry is removed: two minutes
    MaxTicks, MaxOpens

ASSUME WinDivertAssumption ==
    /\ WBlockIPv6 \in BOOLEAN /\ WDNS \in BOOLEAN /\ ProxyIPv6 \in BOOLEAN
    /\ Targets \subseteq {"tcp", "udp"} \X Addr \X Ports
    /\ Ttl \in Nat \ {0} /\ MaxTicks \in Nat /\ MaxOpens \in Nat

VARIABLES
    running,    \* the intercept and cleanup goroutines run
    connTrack,  \* [proto, ver, sport] -> the destination and the entry's age
    conn,       \* what each connection is and what became of its packets
    ticks, opens

wvars == <<running, connTrack, conn, ticks, opens>>

NoConn == [st |-> "none", proto |-> "tcp", dst |-> CHOOSE a \in Addr : TRUE, dport |-> 0,
           sport |-> 0, via |-> "none", told |-> <<>>, quiet |-> 0, broken |-> FALSE]

\* Setup: the goroutines start with an empty table.
WInit ==
    /\ running = TRUE /\ connTrack = <<>> /\ ticks = 0 /\ opens = 0
    /\ conn = [c \in Conns |-> NoConn]

Key(proto, ver, sport) == [proto |-> proto, ver |-> ver, sport |-> sport]
KeyOf(k) == Key(k.proto, Fam[k.dst], k.sport)

(***************************************************************************)
(* processPacket.                                                          *)
(***************************************************************************)
\* The first subnet that contains the address decides, its port range too.
ShouldIntercept(dst, dport) ==
    LET within == {i \in DOMAIN WSubnets : dst \in WSubnets[i].net} IN
    /\ dst \notin WExcludes /\ within # {}
    /\ LET s == WSubnets[Least(within)] IN HasPortRange(s) => dport \in InRange(s)
ProxyIPForVer(ver) == ver = 4 \/ ProxyIPv6
Dropped(dst) == WBlockIPv6 /\ Fam[dst] = 6 /\ dst \notin LinkLocal
Outbound(proto, dst, dport) ==
    CASE ~running -> "direct"
      [] running /\ Dropped(dst) -> "reject"
      [] OTHER -> IF ~ShouldIntercept(dst, dport) \/ ~ProxyIPForVer(Fam[dst]) THEN "direct"
                  ELSE IF proto = "tcp" THEN "proxy"
                  ELSE IF dport = 53 /\ WDNS THEN "dns" ELSE "direct"
Captured(via) == via \in {"proxy", "dns"}

\* connTrack.Store: the newest packet's destination, however old the entry.
Remembered(k) ==
    [key \in DOMAIN connTrack \union {KeyOf(k)} |->
        IF key = KeyOf(k) THEN [dst |-> k.dst, dport |-> k.dport, age |-> 0] ELSE connTrack[key]]
Store_Fault(k, via) ==
    IF Captured(via) /\ KeyOf(k) \notin DOMAIN connTrack THEN Remembered(k) ELSE connTrack
Store(k, via) == IF Captured(via) THEN Remembered(k) ELSE connTrack

\* An application opens a connection, or asks a DNS server, from a port that
\* no other of its kind uses.
Open(c, proto, dst, dport, sport) ==
    LET k == [NoConn EXCEPT !.st = "open", !.proto = proto, !.dst = dst, !.dport = dport,
                            !.sport = sport, !.via = Outbound(proto, dst, dport)] IN
    /\ conn[c].st = "none" /\ opens < MaxOpens
    /\ \A d \in Conns : conn[d].st = "open" => KeyOf(conn[d]) # KeyOf(k)
    /\ conn' = [conn EXCEPT ![c] = k] /\ opens' = opens + 1
    /\ connTrack' = Store(k, k.via)
    /\ UNCHANGED <<running, ticks>>

\* A later packet of the application.
AppSends(c) ==
    LET via == Outbound(conn[c].proto, conn[c].dst, conn[c].dport) IN
    /\ conn[c].st = "open"
    /\ conn' = [conn EXCEPT ![c].quiet = 0, ![c].via = via]
    /\ connTrack' = Store(conn[c], via)
    /\ UNCHANGED <<running, ticks, opens>>

\* The proxy, which listens on an IPv4 address, accepts and asks QueryOrigDst:
\* the IPv4 entry of the port first.
QueryOrigDst(sport) ==
    LET found == {v \in {4, 6} : Key("tcp", v, sport) \in DOMAIN connTrack} IN
    IF found = {} THEN <<>>
    ELSE LET e == connTrack[Key("tcp", Least(found), sport)] IN <<e.dst, e.dport>>
Accepts(c) ==
    /\ conn[c].st = "open" /\ conn[c].via = "proxy" /\ conn[c].quiet = 0
    /\ Fam[conn[c].dst] = 4 /\ conn[c].told = <<>>
    /\ QueryOrigDst(conn[c].sport) # <<>>
    /\ conn' = [conn EXCEPT ![c].told = QueryOrigDst(conn[c].sport)]
    /\ UNCHANGED <<running, connTrack, ticks, opens>>

\* A packet of the proxy to the application: the reverse translation, or
\* unchanged, and then the application does not know its source.
Restored(k) ==
    IF KeyOf(k) \in DOMAIN connTrack
    THEN <<connTrack[KeyOf(k)].dst, connTrack[KeyOf(k)].dport>> ELSE <<>>
ProxySends(c) ==
    /\ conn[c].st = "open" /\ Captured(conn[c].via) /\ Fam[conn[c].dst] = 4
    /\ conn[c].proto = "tcp" => conn[c].told # <<>>
    /\ conn' = [conn EXCEPT ![c].broken =
                    @ \/ ~running \/ Restored(conn[c]) # <<conn[c].dst, conn[c].dport>>]
    /\ UNCHANGED <<running, connTrack, ticks, opens>>

Close(c) ==
    /\ conn[c].st = "open" /\ conn' = [conn EXCEPT ![c] = NoConn]
    /\ UNCHANGED <<running, connTrack, ticks, opens>>

\* cleanupLoop: entries created more than two minutes ago go.
Younger(ct) == [k \in {j \in DOMAIN ct : ct[j].age <= Ttl} |-> ct[k]]
CleanupLoop ==
    /\ running /\ ticks < MaxTicks /\ ticks' = ticks + 1
    /\ connTrack' = Younger([k \in DOMAIN connTrack |-> [connTrack[k] EXCEPT !.age = @ + 1]])
    /\ conn' = [c \in Conns |-> IF conn[c].st = "open" THEN [conn[c] EXCEPT !.quiet = @ + 1]
                                ELSE conn[c]]
    /\ UNCHANGED <<running, opens>>

\* Restore: both goroutines end, packets are no longer diverted.
WRestore ==
    /\ running /\ running' = FALSE
    /\ UNCHANGED <<connTrack, conn, ticks, opens>>

WNext ==
    \/ \E c \in Conns : \/ AppSends(c) \/ Accepts(c) \/ ProxySends(c) \/ Close(c)
                        \/ \E t \in Targets, s \in SrcPorts : Open(c, t[1], t[2], t[3], s)
    \/ CleanupLoop \/ WRestore

WSpec == WInit /\ [][WNext]_wvars

(***************************************************************************)
(* Properties.                                                             *)
(***************************************************************************)
\* The proxy dials the destination the application asked for, also when a
\* source port is used again while the entry of an earlier connection is
\* still there, and when the same port is in use over IPv6.
OrigDstRight == \A c \in Conns :
    conn[c].st = "open" /\ conn[c].told # <<>> => conn[c].told = <<conn[c].dst, conn[c].dport>>

\* Answers to a connection whose application has sent within two minutes
\* come from where the application expects them.
ReplyTranslated == [][\A c \in Conns :
    ProxySends(c) /\ running /\ conn[c].quiet <= Ttl => conn'[c].broken = conn[c].broken]_wvars

\* The same for every open connection.
AnswersArrive == running => \A c \in Conns : ~conn[c].broken

\* Every packet goes where the arguments of Setup say.
DivertExact == running => \A p \in Packets :
    ~p.own => Promised("windivert", [subnets |-> WSubnets, excludes |-> WExcludes, dns |-> {},
                          blockIPv6 |-> WBlockIPv6, blockUDP |-> FALSE], p,
                       Outbound(p.proto, p.dst, p.dport))
=============================================================================
