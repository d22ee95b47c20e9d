---------------------------- MODULE MCFirewall -------------------------------
(***************************************************************************)
(* The firewall package for TLC: a behaviour is about the methods driven   *)
(* by commands, the packets of WinDivert, or the IPv6 lock-down.           *)
(***************************************************************************)
EXTENDS Firewall, WinDivert, IPv6Lock

VARIABLE part   \* what this behaviour is about

\* Addresses: a4 and a6 proxied, x4 and x6 excluded, d4 and d6 DNS servers,
\* l4 the host's own, k6 link-local.
MCAddr == {"a4", "x4", "d4", "l4", "a6", "x6", "d6", "k6"}
MCFam == [a \in MCAddr |-> IF a \in {"a4", "x4", "d4", "l4"} THEN 4 ELSE 6]
All4 == {"a4", "x4", "d4", "l4"}
Base == [subnets |-> <<[net |-> All4, low |-> 0, high |-> 0]>>, excludes |-> {"x4"},
         dns |-> {"d4"}, blockIPv6 |-> FALSE, blockUDP |-> TRUE, allowRootUDP |-> FALSE]
Dual == [Base EXCEPT !.subnets = <<[net |-> {"a4"}, low |-> 80, high |-> 80],
                                   [net |-> {"a4", "x4"}, low |-> 443, high |-> 443],
                                   [net |-> {"a6", "x6", "k6"}, low |-> 0, high |-> 0]>>,
                     !.excludes = {"x4", "x6"}, !.dns = {"d4", "d6"}, !.blockUDP = FALSE]
NoV6 == [Dual EXCEPT !.blockIPv6 = TRUE, !.blockUDP = TRUE, !.allowRootUDP = TRUE]
NoV6DNS == [NoV6 EXCEPT !.dns = {"d4"}, !.allowRootUDP = FALSE]
MCConfigs == {Base, Dual, NoV6, NoV6DNS}
\* DNS servers the rules do not reach: IPv6 ones without IPv6 subnets (TPROXY),
\* a link-local one with --no-ipv6.
MCUnrouted == {[Base EXCEPT !.dns = {"d6"}]}
MCLinkLocal == {[NoV6 EXCEPT !.dns = {"k6"}, !.blockUDP = FALSE]}

\* A port range before a wider subnet; IPv6 between excluded and DNS.
MCSubnets == <<[net |-> {"a4", "d4"}, low |-> 0, high |-> 0], [net |-> {"a6"}, low |-> 0, high |-> 0]>>
MCOverlap == <<[net |-> {"a4"}, low |-> 443, high |-> 443], [net |-> All4, low |-> 0, high |-> 0]>>

MCTargets == {<<"tcp", "a4", 80>>, <<"tcp", "d4", 80>>, <<"tcp", "a6", 80>>, <<"tcp", "x4", 80>>,
              <<"udp", "d4", 53>>}

\* Settings: Linux with every interface on, macOS with a manual
\* address, Windows with an adapter that is off.  MCMixed: one is off on Linux.
Linux(a) == <<"linux", [i \in {"all", "default", "eth0"} |-> IF i = "eth0" THEN a ELSE "on"]>>
MCOriginals ==
    {Linux("on"),
     <<"darwin", [i \in {"all", "default", "eth0"} |->
                    CASE i = "all" -> "Manual" [] i = "default" -> "off" [] OTHER -> "LinkLocal"]>>,
     <<"windows", [i \in {"all", "default", "eth0"} |-> IF i = "eth0" THEN "off" ELSE "on"]>>}
MCMixed == {Linux("off")}

MCInit ==
    /\ FInit /\ WInit /\ LInit
    /\ \/ part = "methods" /\ system = "linux"
       \/ part = "windivert" /\ system = "linux" /\ method = "nft" /\ cfg = Base
       \/ part = "lockdown" /\ method = "nft" /\ cfg = Base

MCNext ==
    /\ UNCHANGED part
    /\ \/ part = "methods" /\ FNext /\ UNCHANGED <<wvars, lvars>>
       \/ part = "windivert" /\ WNext /\ UNCHANGED <<fvars, lvars>>
       \/ part = "lockdown" /\ LNext /\ UNCHANGED <<fvars, wvars>>

MCSpec == MCInit /\ [][MCNext]_<<part, fvars, wvars, lvars>>
=============================================================================
