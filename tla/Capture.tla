------------------------------ MODULE Capture --------------------------------
(***************************************************************************)
(* What the rules written by the firewall methods do to a packet that      *)
(* leaves the host (internal/firewall: nft.go, tproxy.go, pf.go).  A rule  *)
(* is what it matches and its action; a method's build function is the     *)
(* sequence of its rules in the order of the text it generates.  The       *)
(* evaluation of a chain by the kernel (first match), by pf (last match,   *)
(* or the first "quick" one) and the order of the hooks are external.      *)
(*                                                                         *)
(* A CIDR is the set of addresses in it.  A packet is identified by what   *)
(* the rules look at; own packets are the tunnel's direct dials, which     *)
(* carry the bypass mark on Linux and come from root on macOS.             *)
(***************************************************************************)
EXTENDS Naturals, Sequences, FiniteSets

CONSTANTS
    Addr,        \* destination addresses
    Fam,         \* Fam[a]: 4 or 6
    Local,       \* addresses of the host itself
    LinkLocal,   \* ::1, fe80::/10 and ff00::/8
    Ports,       \* destination ports
    ProxyPort    \* the port of the TCP proxy

ASSUME CaptureAssumption ==
    /\ Fam \in [Addr -> {4, 6}] /\ Local \subseteq Addr
    /\ LinkLocal \subseteq {a \in Addr : Fam[a] = 6}
    /\ Ports \subseteq Nat /\ {53, 67, 547, ProxyPort} \subseteq Ports

Packets == [dst : Addr, proto : {"tcp", "udp"}, dport : Ports, own : BOOLEAN]

Least(S) == CHOOSE i \in S : \A j \in S : i <= j
Greatest(S) == CHOOSE i \in S : \A j \in S : j <= i
Image(f(_), s) == [i \in DOMAIN s |-> f(s[i])]
If(c, s) == IF c THEN s ELSE <<>>

(***************************************************************************)
(* Rules: what a packet must be, and what is done with it.                 *)
(***************************************************************************)
Protos == {"tcp", "udp"}
Acts == {"return", "proxy", "dns", "mark", "reject",       \* Linux
         "pass", "lo0", "block"}                           \* and pf
Anyone == BOOLEAN   \* whoever sends it
Rule == [net : SUBSET Addr, proto : SUBSET Protos, ports : SUBSET Ports,
         who : SUBSET BOOLEAN, act : Acts, quick : BOOLEAN]
On(net, proto, ports, who, act) ==
    [net |-> net, proto |-> proto, ports |-> ports, who |-> who, act |-> act, quick |-> FALSE]
Quick(net, proto, ports, who, act) ==
    [net |-> net, proto |-> proto, ports |-> ports, who |-> who, act |-> act, quick |-> TRUE]
Matches(r, p) == /\ p.dst \in r.net /\ p.proto \in r.proto
                 /\ p.dport \in r.ports /\ p.own \in r.who
Hits(rules, p) == {i \in DOMAIN rules : Matches(rules[i], p)}

\* nftables and iptables: the first rule that matches.
FirstMatch(rules, p) ==
    LET hits == Hits(rules, p) IN
    IF hits = {} THEN "return" ELSE rules[Least(hits)].act

\* pf: the last rule that matches, but a quick one ends the evaluation.
PfMatch(rules, p) ==
    LET hits == Hits(rules, p)
        quick == {i \in hits : rules[i].quick} IN
    CASE hits = {} -> "pass"
      [] quick # {} -> rules[Least(quick)].act
      [] OTHER -> rules[Greatest(hits)].act

(***************************************************************************)
(* SubnetRule, a CIDR with its ports: HasPortRange and the port expressions *)
(* of the methods.  SplitByFamily and its like.                            *)
(***************************************************************************)
CIDR == {net \in SUBSET Addr : \E f \in {4, 6} : \A a \in net : Fam[a] = f}
SubnetRule == [net : CIDR, low : Nat, high : Nat]
HasPortRange(s) == s.low > 0 /\ s.high > 0
InRange(s) == {d \in Ports : s.low <= d /\ d <= s.high}
PortExpr(s) == IF HasPortRange(s) THEN InRange(s) ELSE Ports \ {ProxyPort}
PfPortExpr(s) == IF HasPortRange(s) THEN InRange(s) ELSE Ports
SplitByFamily(subnets, f) ==
    LET family[n \in 0 .. Len(subnets)] ==
            IF n = 0 THEN <<>>
            ELSE IF \A a \in subnets[n].net : Fam[a] = f
                 THEN Append(family[n - 1], subnets[n]) ELSE family[n - 1]
    IN family[Len(subnets)]
OfFamily(S, f) == {a \in S : Fam[a] = f}

(***************************************************************************)
(* The parts the Linux methods have in common; act is what a captured      *)
(* packet gets: "proxy" and "dns" (redirect, tproxy) or "mark".            *)
(***************************************************************************)
Return(net, who) == On(net, Protos, Ports, who, "return")
LocalReturn == Return(Local, Anyone)
BypassReturn == Return(Addr, {TRUE})
Excluded(cfg, f) == Return(OfFamily(cfg.excludes, f), Anyone)
Subnets(cfg, f, act) ==
    Image(LAMBDA s : On(s.net, {"tcp"}, PortExpr(s), Anyone, act),
          SplitByFamily(cfg.subnets, f))
DNSServers(cfg, f, act) == On(OfFamily(cfg.dns, f), {"udp"}, {53}, Anyone, act)
BlockIPv6 == <<Return(LinkLocal, Anyone),
               On(OfFamily(Addr, 6), Protos, Ports, Anyone, "reject")>>

Both(rules(_)) == rules(4) \o rules(6)
Body(cfg, net, dns) == Both(LAMBDA f : <<Excluded(cfg, f)>>)
                       \o Both(LAMBDA f : Subnets(cfg, f, net))
                       \o Both(LAMBDA f : <<DNSServers(cfg, f, dns)>>)

\* The chains of the table inet netferry: nftMethod redirects in both hooks,
\* tproxyMethod marks in output and hands over to the listener in prerouting.
BuildNftRules(cfg) ==
    [out |-> <<LocalReturn, BypassReturn>> \o Body(cfg, "proxy", "dns"),
     pre |-> Body(cfg, "proxy", "dns"),
     block |-> If(cfg.blockIPv6, BlockIPv6)]
BuildTproxyRules(cfg) ==
    [out |-> <<LocalReturn, BypassReturn>> \o Body(cfg, "mark", "mark"),
     pre |-> Body(cfg, "proxy", "dns"),
     block |-> If(cfg.blockIPv6, BlockIPv6)]

(***************************************************************************)
(* pfMethod.buildRules: the translations on lo0 and the filters.           *)
(***************************************************************************)
PfSubnets(cfg, f, act, who) ==
    Image(LAMBDA s : On(s.net, {"tcp"}, PfPortExpr(s), who, act),
          SplitByFamily(cfg.subnets, f))
PfExcluded(cfg, f) == On(OfFamily(cfg.excludes, f), {"tcp"}, Ports, Anyone, "pass")
PfDNS(cfg, f) == IF cfg.blockUDP THEN Quick(OfFamily(cfg.dns, f), {"udp"}, {53}, Anyone, "lo0")
                                 ELSE On(OfFamily(cfg.dns, f), {"udp"}, {53}, Anyone, "lo0")
PassUDP(f, ports, who) == Quick(OfFamily(Addr, f), {"udp"}, ports, who, "pass")
BlockAllUDP(f) == Quick(OfFamily(Addr, f), {"udp"}, Ports, Anyone, "block")
PfBlockUDP(cfg) ==
    LET dns(f) == If(OfFamily(cfg.dns, f) = {}, <<PassUDP(f, {53}, Anyone)>>) IN
    <<PassUDP(4, {67}, Anyone), PassUDP(6, {547}, Anyone)>>
    \o dns(4)
    \o If(cfg.allowRootUDP, Both(LAMBDA f : <<PassUDP(f, Ports, {TRUE})>>))
    \o <<BlockAllUDP(4)>> \o dns(6) \o <<BlockAllUDP(6)>>
PfBlockIPv6 == <<Quick(LinkLocal, Protos, Ports, Anyone, "pass"),
                 Quick(OfFamily(Addr, 6), Protos, Ports, Anyone, "block")>>
BuildPfRules_Fault(cfg) ==
    [rdr |-> Both(LAMBDA f : PfSubnets(cfg, f, "proxy", Anyone))
             \o Both(LAMBDA f : <<DNSServers(cfg, f, "dns")>>),
     filter |-> Both(LAMBDA f : <<PfExcluded(cfg, f)>>)
                \o Both(LAMBDA f : PfSubnets(cfg, f, "lo0", {FALSE}))
                \o Both(LAMBDA f : <<PfDNS(cfg, f)>>)
                \o If(cfg.blockUDP, PfBlockUDP(cfg))
                \o If(cfg.blockIPv6, PfBlockIPv6)]
BuildPfRules(cfg) ==
    [rdr |-> Both(LAMBDA f : PfSubnets(cfg, f, "proxy", Anyone))
             \o Both(LAMBDA f : <<DNSServers(cfg, f, "dns")>>),
     filter |-> Both(LAMBDA f : PfSubnets(cfg, f, "lo0", {FALSE}))
                \o Both(LAMBDA f : <<PfDNS(cfg, f)>>)
                \o Both(LAMBDA f : <<PfExcluded(cfg, f)>>)
                \o If(cfg.blockUDP, PfBlockUDP(cfg))
                \o If(cfg.blockIPv6, PfBlockIPv6)]

\* A packet that pf routes to lo0 meets the translations there.
PfVerdict(rules, p) ==
    LET filtered == PfMatch(rules.filter, p)
        rdr == FirstMatch(rules.rdr, p) IN
    CASE filtered = "lo0" -> IF rdr = "return" THEN "lost" ELSE rdr
      [] filtered = "block" -> "reject"
      [] OTHER -> "direct"

(***************************************************************************)
(* What Method.Setup promises for its arguments, whatever the method.      *)
(***************************************************************************)
InSubnets(cfg, p) == \E i \in DOMAIN cfg.subnets :
                        p.dst \in cfg.subnets[i].net /\ p.dport \in PortExpr(cfg.subnets[i])
Blocked(cfg, p) == cfg.blockIPv6 /\ Fam[p.dst] = 6 /\ p.dst \notin LinkLocal
\* pf and WinDivert have no rule for the host's own addresses: they are excluded
\* only where the excludes name them.
Exempt(m, cfg, p) == p.own \/ p.dst \in cfg.excludes \/ (p.dst \in Local /\ m \notin {"pf", "windivert"})
\* pf passes these before it blocks IPv6.
PassedUDP(m, cfg, p) == /\ m = "pf" /\ cfg.blockUDP /\ p.proto = "udp"
                        /\ \/ p.dport = 547
                           \/ p.own /\ cfg.allowRootUDP
                           \/ p.dport = 53 /\ OfFamily(cfg.dns, 6) = {}
Promised(m, cfg, p, v) ==
    /\ p.proto = "tcp" /\ Exempt(m, cfg, p)
           => v = IF Blocked(cfg, p) THEN "reject" ELSE "direct"
    /\ p.proto = "tcp" /\ ~Exempt(m, cfg, p) /\ InSubnets(cfg, p) => v = "proxy"
    /\ p.proto = "udp" /\ ~Exempt(m, cfg, p) /\ p.dport = 53 /\ p.dst \in cfg.dns
           => v = "dns" \/ (v = "reject" /\ Blocked(cfg, p))
    /\ Blocked(cfg, p) /\ ~PassedUDP(m, cfg, p) => v # "direct"
    /\ p.proto = "tcp" /\ p.dst \in LinkLocal => v = "direct"
    /\ m = "pf" /\ cfg.blockUDP /\ p.proto = "udp" /\ ~p.own /\ p.dport \notin {53, 67, 547}
           => v = "reject"
=============================================================================
