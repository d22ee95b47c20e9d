------------------------------ MODULE Firewall -------------------------------
(***************************************************************************)
(* The firewall methods of macOS and Linux as Engine.Run uses them: clean  *)
(* up what an earlier run left, Setup, Restore, DisableDNS before a        *)
(* reconnect.  Each of these is a script of commands (nft, iptables, ip,   *)
(* pfctl), run one at a time; a command may fail, and the process may be   *)
(* killed between any two of them.  What the commands changed stays.       *)
(*                                                                         *)
(* The host is the set of objects the methods install: the nftables table, *)
(* the chains of iptables and ip6tables with the number of jumps to each,  *)
(* the policy routes of TPROXY, the pf anchor and its two hooks in the     *)
(* main ruleset, that ruleset itself, the pf enable tokens and the file    *)
(* one of them is saved in.  Everything else on it is left alone.          *)
(***************************************************************************)
EXTENDS Capture

CONSTANTS
    Methods,      \* methods of this host, one of them for each start
    Configs,      \* the arguments the engine may be given
    DefaultMark,  \* TPROXY uses fwmark 1 and route table 100
    MaxStarts, MaxFaults, MaxCrashes,
    SilentFaults, \* also commands whose error is ignored may fail
    Gone          \* no such table, chain or anchor rules

ASSUME FirewallAssumption ==
    /\ Methods \subseteq {"nft", "iptables", "tproxy-nft", "tproxy-ipt", "pf"}
    /\ MaxStarts \in Nat /\ MaxFaults \in Nat /\ MaxCrashes \in Nat
    /\ DefaultMark \in BOOLEAN /\ SilentFaults \in BOOLEAN

Chains == {"nat4", "nat6", "pre4", "out4", "pre6", "out6", "block6"}

VARIABLES
    host,     \* what is installed
    phase,    \* where Engine.Run is
    script,   \* the commands still to run
    method,   \* fw
    cfg,      \* the arguments of Setup, dns empty once DisableDNS was called
    token,    \* pfMethod.token, 0: none
    listed,   \* the hooks addAnchors found in its listing of the rules
    err,      \* the error of the script: "none", "fault" or "exists"
    starts, faults, crashes,
    unsaved,  \* history: tokens of processes killed before they saved them
    halved    \* history: a process was killed between the two hooks

fvars == <<host, phase, script, method, cfg, token, listed, err, starts, faults, crashes,
           unsaved, halved>>

Clean == [table |-> Gone, chain |-> [c \in Chains |-> Gone], jumps |-> [c \in Chains |-> 0],
          policy |-> {}, anchor |-> Gone, hooks |-> {}, main |-> "own", tokens |-> {}, file |-> 0]

(***************************************************************************)
(* The arguments: --no-ipv6 drops the IPv6 subnets, and the engine adds    *)
(* loopback, link-local and the SSH server to the excludes.                *)
(***************************************************************************)
EffectiveSubnets(c) == IF c.blockIPv6 THEN SplitByFamily(c.subnets, 4) ELSE c.subnets
Excludes(c) == c.excludes \union (IF c.blockIPv6 THEN {} ELSE LinkLocal)
Arguments(c) == [c EXCEPT !.subnets = EffectiveSubnets(c), !.excludes = Excludes(c)]

Config == [subnets : Seq(SubnetRule), excludes : SUBSET Addr, dns : SUBSET Addr,
           blockIPv6 : BOOLEAN, blockUDP : BOOLEAN, allowRootUDP : BOOLEAN]
ASSUME ConfigsAssumption == \A c \in Configs : c \in Config
ASSUME GoneAssumption ==
    /\ Gone \notin Seq(Rule) /\ Gone \notin [out : Seq(Rule), pre : Seq(Rule), block : Seq(Rule)]
    /\ Gone \notin [rdr : Seq(Rule), filter : Seq(Rule)]

(***************************************************************************)
(* Commands: the object, what is put there, whether its error is checked   *)
(* and what is undone when it is.                                          *)
(***************************************************************************)
Cmd(op, obj) == [op |-> op, obj |-> obj, arg |-> <<>>, checked |-> FALSE, undo |-> <<>>]
Load(op, arg) == [Cmd(op, "") EXCEPT !.arg = arg, !.checked = TRUE]
Append1(c, r) == [Cmd("append", c) EXCEPT !.arg = r]
Must(s) == Image(LAMBDA x : [x EXCEPT !.checked = TRUE], s)
Appends(c, rules) == Image(LAMBDA r : Append1(c, r), rules)
AddPolicy(o, undo) == [Cmd("policyAdd", o) EXCEPT !.checked = TRUE, !.undo = undo]
DelPolicy(o) == Cmd("policyDel", o)

\* Does the command report that the object exists?
Exists(c) == c.op = "policyAdd" /\ c.obj \in host.policy

Effect(h, c) ==
    CASE c.op = "tableDel" -> [h EXCEPT !.table = Gone]
      [] c.op = "tableLoad" ->
            [h EXCEPT !.table = IF @ = Gone THEN c.arg
                                ELSE [k \in DOMAIN @ |-> @[k] \o c.arg[k]]]
      [] c.op = "newChain" -> [h EXCEPT !.chain[c.obj] = IF @ = Gone THEN <<>> ELSE @]
      [] c.op = "jump" ->           \* -A OUTPUT and, for nat, -A PREROUTING
            [h EXCEPT !.jumps[c.obj] = IF h.chain[c.obj] = Gone THEN @ ELSE @ + 1]
      [] c.op = "append" -> [h EXCEPT !.chain[c.obj] = IF @ = Gone THEN @ ELSE Append(@, c.arg)]
      [] c.op = "dropChain" ->      \* -D the jump, -F, -X
            LET left == IF h.jumps[c.obj] = 0 THEN 0 ELSE h.jumps[c.obj] - 1 IN
            [h EXCEPT !.jumps[c.obj] = left,
                      !.chain[c.obj] = IF left = 0 \/ @ = Gone THEN Gone ELSE <<>>]
      [] c.op = "policyAdd" -> [h EXCEPT !.policy = @ \union {c.obj}]
      [] c.op = "policyDel" -> [h EXCEPT !.policy = @ \ {c.obj}]
      [] c.op = "enable" -> [h EXCEPT !.tokens = @ \union {starts}]
      [] c.op = "saveToken" -> [h EXCEPT !.file = starts]
      [] c.op = "fixSkip" ->        \* pfctl -f: the main ruleset becomes "pass on lo"
            IF h.main = "skip" THEN [h EXCEPT !.main = "replaced", !.hooks = {}] ELSE h
      [] c.op = "listHooks" -> h
      [] c.op = "hookRdr" -> [h EXCEPT !.hooks = IF "rdr" \in listed THEN @ ELSE @ \union {"rdr"}]
      [] c.op = "hookFilter" ->     \* anchor "netferry" is also found in rdr-anchor "netferry"
            [h EXCEPT !.hooks = IF listed # {} THEN @ ELSE @ \union {"filter"}]
      [] c.op = "loadAnchor" -> [h EXCEPT !.anchor = c.arg]
      [] c.op = "flushAnchor" -> [h EXCEPT !.anchor = Gone]
      [] c.op = "flushHooked" -> [h EXCEPT !.anchor = IF h.hooks # {} THEN Gone ELSE @]
      [] c.op = "releaseOwn" -> [h EXCEPT !.tokens = @ \ {token},
                                          !.file = IF token = 0 THEN @ ELSE 0]
      [] c.op = "releaseStale" -> [h EXCEPT !.tokens = @ \ {h.file}, !.file = 0]

(***************************************************************************)
(* The scripts.                                                            *)
(***************************************************************************)
HasDNS(c, f) == OfFamily(c.dns, f) # {}
UsesIPv6(c) == SplitByFamily(c.subnets, 6) # <<>> \/ HasDNS(c, 6)
DropChains(cs) == Image(LAMBDA c : Cmd("dropChain", c), cs)

\* One chain of iptables: its head, the excludes, the subnets, the DNS servers.
ChainScript(ch, head, c, f, net, dns) ==
    <<Cmd("newChain", ch), Cmd("jump", ch)>>
    \o Appends(ch, head \o <<Excluded(c, f)>>)
    \o Must(Appends(ch, Subnets(c, f, net)))
    \o If(HasDNS(c, f), Appends(ch, <<DNSServers(c, f, dns)>>))
BlockScript(c) == If(c.blockIPv6, <<Cmd("newChain", "block6")>>
                                  \o Appends("block6", BlockIPv6) \o <<Cmd("jump", "block6")>>)
LocalHead == <<LocalReturn, BypassReturn>>

NftSetup(c) == <<Cmd("tableDel", ""), Load("tableLoad", BuildNftRules(c))>>
NftRestore == <<Cmd("tableDel", "")>>

IptSetup(c) ==
    ChainScript("nat4", LocalHead, c, 4, "proxy", "dns")
    \o If(UsesIPv6(c), ChainScript("nat6", LocalHead, c, 6, "proxy", "dns"))
    \o BlockScript(c)
IptRestore_Fault == DropChains(<<"nat4", "block6">>)
IptRestore == DropChains(<<"nat4", "nat6", "block6">>)

PolicyScript(c) ==
    <<AddPolicy("rule4", <<>>), AddPolicy("route4", <<DelPolicy("rule4")>>)>>
    \o If(SplitByFamily(c.subnets, 6) # <<>>,
          <<AddPolicy("rule6", <<>>), AddPolicy("route6", <<DelPolicy("rule6")>>)>>)
TproxyNft(c) == <<Cmd("tableDel", ""), Load("tableLoad", BuildTproxyRules(c))>>
TproxyIpt4(c) == ChainScript("pre4", <<>>, c, 4, "proxy", "dns")
                 \o ChainScript("out4", LocalHead, c, 4, "mark", "mark")
TproxyIpt6(c) == If(UsesIPv6(c), ChainScript("pre6", <<>>, c, 6, "proxy", "dns")
                                 \o ChainScript("out6", LocalHead, c, 6, "mark", "mark"))
TproxyIpt(c) == TproxyIpt4(c) \o TproxyIpt6(c) \o BlockScript(c)
TproxySetup(m, c) == PolicyScript(c) \o IF m = "tproxy-nft" THEN TproxyNft(c) ELSE TproxyIpt(c)
TproxyRestore(m) ==
    Image(DelPolicy, <<"rule4", "route4", "rule6", "route6">>)
    \o (IF m = "tproxy-nft" THEN NftRestore ELSE DropChains(<<"out4", "pre4", "out6", "pre6">>))
    \o DropChains(<<"block6">>)

PfSetup(c) == <<[Cmd("enable", "") EXCEPT !.checked = TRUE], Cmd("saveToken", ""),
                Cmd("fixSkip", ""), Cmd("listHooks", ""), Cmd("hookRdr", ""),
                Cmd("hookFilter", ""), Load("loadAnchor", BuildPfRules(c))>>
PfRestore == <<Cmd("flushAnchor", ""), Cmd("releaseOwn", "")>>

Setup(m, c) == CASE m = "nft" -> NftSetup(c)
                 [] m = "iptables" -> IptSetup(c)
                 [] m = "pf" -> PfSetup(c)
                 [] OTHER -> TproxySetup(m, c)
Restore(m) == CASE m = "nft" -> NftRestore
                [] m = "iptables" -> IptRestore
                [] m = "pf" -> PfRestore
                [] OTHER -> TproxyRestore(m)
DisableDNS(m, c) == CASE m = "nft" -> NftSetup(c)
                      [] m = "pf" -> <<Load("loadAnchor", BuildPfRules(c))>>
                      [] OTHER -> Restore(m) \o Setup(m, c)

CleanStaleLinux ==
    <<Cmd("tableDel", "")>>
    \o DropChains(<<"nat4", "nat6", "block6", "out4", "pre4", "out6", "pre6">>)
    \o If(DefaultMark, Image(DelPolicy, <<"rule4", "route4", "rule6", "route6">>))
CleanStalePf == <<Cmd("flushHooked", ""), Cmd("releaseStale", "")>>
CleanStale(m) == IF m = "pf" THEN CleanStalePf ELSE CleanStaleLinux

(***************************************************************************)
(* Engine.Run: from the end of connectBackend to its return.               *)
(***************************************************************************)
FInit ==
    /\ phase = "off" /\ script = <<>> /\ token = 0 /\ listed = {} /\ err = "none"
    /\ method \in Methods /\ cfg \in Configs
    /\ \/ host = Clean
       \/ method = "pf" /\ host = [Clean EXCEPT !.main = "skip"]     \* set skip on lo0
    /\ starts = 0 /\ faults = 0 /\ crashes = 0 /\ unsaved = {} /\ halved = FALSE

Start(m, c) ==
    /\ phase \in {"off", "failed", "kept", "crashed"} /\ starts < MaxStarts
    /\ (m = "pf") = (method = "pf")         \* a method of the same system
    /\ phase' = "starting" /\ method' = m /\ cfg' = Arguments(c)
    /\ script' = CleanStale(m) \o Setup(m, Arguments(c))
    /\ starts' = starts + 1 /\ token' = 0 /\ err' = "none"
    /\ UNCHANGED <<host, listed, faults, crashes, unsaved, halved>>

\* A command succeeds.
RunCommand ==
    /\ script # <<>> /\ ~Exists(Head(script))
    /\ host' = Effect(host, Head(script))
    /\ script' = Tail(script)
    /\ token' = IF Head(script).op = "enable" THEN starts ELSE token
    /\ listed' = IF Head(script).op = "listHooks" THEN host.hooks ELSE listed
    /\ UNCHANGED <<phase, method, cfg, err, starts, faults, crashes, unsaved, halved>>

\* A command fails: the script goes on, or ends with what it undoes.
CommandFails ==
    /\ script # <<>>
    /\ \/ Exists(Head(script)) /\ faults' = faults
       \/ /\ ~Exists(Head(script)) /\ faults < MaxFaults /\ faults' = faults + 1
          /\ Head(script).checked \/ SilentFaults
    /\ IF Head(script).checked
       THEN /\ script' = Head(script).undo
            /\ err' = IF Exists(Head(script)) THEN "exists" ELSE "fault"
       ELSE script' = Tail(script) /\ err' = err
    /\ listed' = IF Head(script).op = "listHooks" THEN {} ELSE listed
    /\ UNCHANGED <<host, phase, method, cfg, token, starts, crashes, unsaved, halved>>

\* The script has ended.  Setup's error makes Run return before it has
\* registered the restore; the error of DisableDNS is only logged.
Finish ==
    /\ script = <<>>
    /\ phase' = CASE phase = "starting" -> IF err = "none" THEN "up" ELSE "failed"
                  [] phase = "leaving" -> "kept"
                  [] phase = "stopping" -> "off"
                  [] OTHER -> "none"
    /\ phase' # "none"
    /\ UNCHANGED <<host, script, method, cfg, token, listed, err, starts, faults, crashes,
                   unsaved, halved>>

\* prepareReconnectExit, with or without DisableDNSRedirect.
ReconnectExit(needsDNS) ==
    /\ phase = "up" /\ phase' = "leaving" /\ err' = "none"
    /\ cfg' = IF needsDNS THEN [cfg EXCEPT !.dns = {}] ELSE cfg
    /\ script' = IF needsDNS THEN DisableDNS(method, cfg') ELSE <<>>
    /\ UNCHANGED <<host, method, token, listed, starts, faults, crashes, unsaved, halved>>

\* The deferred restore, or keptFirewall of a session that is ended.
FStop ==
    /\ phase \in {"up", "kept"} /\ phase' = "stopping"
    /\ script' = Restore(method) /\ err' = "none"
    /\ UNCHANGED <<host, method, cfg, token, listed, starts, faults, crashes, unsaved, halved>>

\* The process is killed; the host keeps what was installed.
FCrash ==
    /\ phase \notin {"off", "failed", "crashed"} /\ crashes < MaxCrashes
    /\ crashes' = crashes + 1 /\ phase' = "crashed" /\ script' = <<>> /\ token' = 0
    /\ unsaved' = unsaved \union (host.tokens \ {host.file})
    /\ halved' = (halved \/ host.hooks = {"rdr"})
    /\ UNCHANGED <<host, method, cfg, listed, err, starts, faults>>

FNext ==
    \/ \E m \in Methods, c \in Configs : Start(m, c)
    \/ RunCommand \/ CommandFails \/ Finish \/ FStop \/ FCrash
    \/ \E n \in BOOLEAN : ReconnectExit(n)

(***************************************************************************)
(* What happens to a packet on Linux: nat output, then the filter, then    *)
(* for a marked packet the policy routes and prerouting.                   *)
(***************************************************************************)
LinuxVerdict(p) ==
    LET six == Fam[p.dst] = 6
        table(k) == IF host.table = Gone THEN "return" ELSE FirstMatch(host.table[k], p)
        chain(c) == IF host.jumps[c] = 0 THEN "return" ELSE FirstMatch(host.chain[c], p)
        out == {table("out"), chain(IF six THEN "nat6" ELSE "nat4"),
                              chain(IF six THEN "out6" ELSE "out4")}
        pre == {table("pre"), chain(IF six THEN "pre6" ELSE "pre4")} \ {"return"}
        routed == (IF six THEN {"rule6", "route6"} ELSE {"rule4", "route4"}) \subseteq host.policy
    IN IF out \intersect {"proxy", "dns"} # {} THEN CHOOSE v \in out : v \in {"proxy", "dns"}
       ELSE IF six /\ "reject" \in {table("block"), chain("block6")} THEN "reject"
       ELSE IF "mark" \in out /\ routed THEN IF pre = {} THEN "lost" ELSE CHOOSE v \in pre : TRUE
       ELSE "direct"
\* pf reads the filter rules of the anchor through one hook and its
\* translations through the other, on lo0 only if that is not skipped.
HookedVerdict(p) ==
    IF host.anchor = Gone \/ "filter" \notin host.hooks THEN "direct"
    ELSE PfVerdict([host.anchor EXCEPT !.rdr =
                      IF "rdr" \in host.hooks /\ host.main # "skip" THEN @ ELSE <<>>], p)
Verdict(p) == IF method # "pf" THEN LinuxVerdict(p) ELSE HookedVerdict(p)

(***************************************************************************)
(* Properties.                                                             *)
(***************************************************************************)
\* Once Setup has succeeded, every packet goes where its arguments say, also
\* after crashes and failed setups of other methods: subnets to the proxy,
\* excludes and the tunnel's own dials out directly (no loop), DNS to the
\* interceptor, no IPv6 past --no-ipv6, no UDP past pf's block.  Left out is a
\* host on which a process was killed between the two hooks of pf.
CaptureExact == phase = "up" /\ ~halved =>
    \A p \in Packets : Promised(method, cfg, p, Verdict(p))

\* The same on every host: a Setup that reports success captures.
CaptureAlways == phase = "up" => \A p \in Packets : Promised(method, cfg, p, Verdict(p))

\* Between prepareReconnectExit and the next start, with DisableDNS having
\* succeeded, TCP of the subnets still goes to the dead proxy port.
Held(p) == p.proto = "tcp" /\ ~Exempt(method, cfg, p) /\ InSubnets(cfg, p) => Verdict(p) = "proxy"
KeptHeld == phase = "kept" /\ err = "none" /\ ~halved =>
    \A p \in Packets : /\ Held(p)
                       /\ cfg.dns = {} /\ p.proto = "udp" => Verdict(p) # "dns"

\* The same whatever DisableDNS returned, and while it is at work: "TCP
\* redirect rules are preserved so traffic does not leak during reconnect".
KeptAlways == phase = "kept" => \A p \in Packets : Held(p)
DisableDNSAtomic == phase = "leaving" => \A p \in Packets : Held(p)

\* Restore leaves the host as it was before the first start.  Only pf's hooks
\* for the now empty anchor stay, the tokens of processes that were killed
\* before they had saved them, and the main ruleset is not looked at.
HostClean == phase = "off" =>
    [host EXCEPT !.tokens = @ \ unsaved, !.hooks = {}, !.main = "own"] = Clean

\* The host keeps its own main ruleset of pf.
MainKept == host.main # "replaced"

\* What earlier runs left behind, killed or failed at any command, never
\* makes a Setup fail: CleanStaleAnchors removes all of it.
LeftoversHarmless == err # "exists"

\* A captured connection finds a listener: the proxies bind IPv4 addresses.
CapturedServed == phase = "up" =>
    \A p \in Packets : Verdict(p) \in {"proxy", "dns"} => Fam[p.dst] = 4

\* --no-ipv6 lets no datagram of an application out over IPv6 but DHCPv6.
NoIPv6Escape == phase = "up" =>
    \A p \in Packets : Blocked(cfg, p) /\ ~p.own /\ p.dport # 547 => Verdict(p) # "direct"

FSpec == FInit /\ [][FNext]_fvars
=============================================================================
