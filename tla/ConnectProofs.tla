---------------------------- MODULE ConnectProofs ----------------------------
(***************************************************************************)
(* Proofs about what it takes to reach the server: the dials under the     *)
(* firewall, the network monitor, the trace of a route, the shared clients *)
(* of the fectun transport, and the deployment of the server's binary.     *)
(***************************************************************************)
EXTENDS Fectun, Deploy, Dialing, NetMonitor, Trace, FiniteSetTheorems, SequenceTheorems, TLAPS

(***************************************************************************)
(* Dialing.  The rules, whichever engine installed them, let the address   *)
(* of the first hop pass, because connectBackend returned it before the    *)
(* rules were made, and because a name keeps its address (OneAddress): if  *)
(* it does not, CarrierExempt is violated.                                 *)
(***************************************************************************)
OneAddress == \A a, b \in HopAddrs : a = b

JTypes ==
    /\ route \in Routes
    /\ engine \in {"connect", "setup", "ready", "failed"}
    /\ chain \in [Members -> [st : {"none", "dialing", "up", "captured"},
                              hops : Nat, addr : HopAddrs \union {Empty}]]

\* A chain that was begun without a ProxyCommand begins at the first hop.
ByName ==
    \A m \in Members :
        route # "command" /\ chain[m].st # "none" => chain[m].addr \in HopAddrs

\* What connectBackend returned, and what the rules let pass, contains the
\* first hop; an engine that is ready has rules.
FirstHopIn(S) == route # "command" => HopAddrs \subseteq S
Exempted ==
    /\ engine \in {"setup", "ready"} => FirstHopIn(backend)
    /\ rules => FirstHopIn(excluded)
    /\ engine = "ready" => rules

DialInv == JTypes /\ ByName /\ Exempted /\ CarrierExempt

\* Before the first dial there are no connections and no rules.
LEMMA DialInit == JInit => DialInv
BY DEF JInit, DialInv, JTypes, ByName, Exempted, CarrierExempt, NoChain

\* A raw connection to one of the addresses of the name is not captured: if
\* there are rules, they exempt them all.
LEMMA FirstHopKeeps ==
    ASSUME DialInv, NEW m \in Members, NEW a \in HopAddrs, FirstHop(m, a)
    PROVE  DialInv'
<1> DEFINE c == [st |-> IF rules /\ a \notin excluded THEN "captured"
                        ELSE IF Hops = 1 THEN "up" ELSE "dialing",
                 hops |-> 1, addr |-> a]
<1>1. rules => a \in excluded
    BY DEF DialInv, Exempted, FirstHopIn, FirstHop
<1>2. c \in [st : {"dialing", "up"}, hops : Nat, addr : HopAddrs]
    BY <1>1
<1>3. /\ chain' = [chain EXCEPT ![m] = c]
      /\ UNCHANGED <<route, engine, backend, rules, excluded>>
    BY DEF FirstHop
<1>4. chain'[m] = c /\ \A n \in Members \ {m} : chain'[n] = chain[n]
    BY <1>3 DEF DialInv, JTypes
<1> HIDE DEF c
<1>5. JTypes'
    BY <1>2, <1>3 DEF DialInv, JTypes
<1>6. ByName' /\ CarrierExempt'
    BY <1>2, <1>3, <1>4 DEF DialInv, ByName, CarrierExempt
<1> QED
    BY <1>3, <1>5, <1>6 DEF DialInv, Exempted, FirstHopIn

\* The other dials connect through a subprocess or through an SSH channel.
LEMMA OtherHopsKeep ==
    ASSUME DialInv, NEW m \in Members, ViaProxyCommand(m) \/ NextHop(m)
    PROVE  DialInv'
<1>1. CASE ViaProxyCommand(m)
    BY <1>1 DEF ViaProxyCommand, DialInv, JTypes, ByName, Exempted, FirstHopIn, CarrierExempt
<1>2. CASE NextHop(m)
    <2>1. /\ chain' = [chain EXCEPT ![m] = chain'[m]]
          /\ UNCHANGED <<route, engine, backend, rules, excluded>>
        BY <1>2 DEF NextHop, DialInv, JTypes
    <2>2. /\ chain'[m] \in [st : {"dialing", "up"}, hops : Nat, addr : HopAddrs \union {Empty}]
          /\ chain'[m].addr = chain[m].addr /\ chain[m].st # "none"
        <3>1. chain[m] \in [st : {"none", "dialing", "up", "captured"},
                            hops : Nat, addr : HopAddrs \union {Empty}]
            BY DEF DialInv, JTypes
        <3>2. PICK st \in {"dialing", "up"} :
                  chain' = [chain EXCEPT ![m].hops = @ + 1, ![m].st = st]
            BY <1>2 DEF NextHop
        <3>3. chain'[m] = [chain[m] EXCEPT !.hops = @ + 1, !.st = st]
            BY <3>2 DEF DialInv, JTypes
        <3>4. chain[m].st = "dialing"
            BY <1>2 DEF NextHop
        <3>5. PICK h \in Nat : h = chain[m].hops + 1
            BY <3>1
        <3>6. chain'[m] = [st |-> st, hops |-> h, addr |-> chain[m].addr]
            BY <3>1, <3>3, <3>5
        <3> QED
            BY <3>1, <3>4, <3>6
    <2>3. \A n \in Members \ {m} : chain'[n] = chain[n]
        BY <2>1 DEF DialInv, JTypes
    <2>4. JTypes'
        BY <2>1, <2>2 DEF DialInv, JTypes
    <2> QED
        BY <2>1, <2>2, <2>3, <2>4 DEF DialInv, ByName, Exempted, FirstHopIn, CarrierExempt
<1> QED
    BY <1>1, <1>2

\* Connections that end leave the rules and their exemptions alone.
LEMMA LossKeeps ==
    ASSUME DialInv, NEW m \in Members, HopFails(m) \/ MemberLost(m)
    PROVE  DialInv'
<1>1. /\ chain' \in {[n \in Members |-> NoChain], [chain EXCEPT ![m] = NoChain]}
      /\ UNCHANGED <<route, engine, backend, rules, excluded>>
    BY DEF HopFails, MemberLost
<1>2. \A n \in Members : chain'[n] \in {chain[n], NoChain}
    BY <1>1 DEF DialInv, JTypes
<1>3. NoChain \in [st : {"none"}, hops : Nat, addr : {Empty}]
    BY DEF NoChain
<1>4. JTypes'
    BY <1>1, <1>3 DEF DialInv, JTypes
<1>5. ByName' /\ CarrierExempt'
    BY <1>1, <1>2, <1>3 DEF DialInv, ByName, CarrierExempt
<1> QED
    BY <1>1, <1>4, <1>5 DEF DialInv, Exempted, FirstHopIn

\* connectBackend returns the first hop of its first dial, which has the
\* one address of the name.
LEMMA BackendReturns ==
    ASSUME OneAddress, DialInv, Connected
    PROVE  DialInv'
<1>1. First \in Members /\ chain[First].st = "up"
    BY DialingAssumption DEF Connected
<1>2. FirstHopIn(backend')
    BY <1>1 DEF OneAddress, DialInv, ByName, Connected, FirstHopIP, FirstHopIn
<1> QED
    BY <1>2 DEF Connected, DialInv, JTypes, ByName, Exempted, FirstHopIn, CarrierExempt

\* Rules are made of what connectBackend returned, and are kept or removed
\* together with their exemptions.
LEMMA EngineKeeps ==
    ASSUME DialInv, SetupRules \/ \E lost \in BOOLEAN : TunnelEnds(lost)
    PROVE  DialInv'
<1>1. CASE SetupRules
    BY <1>1 DEF SetupRules, DialInv, JTypes, ByName, Exempted, FirstHopIn, CarrierExempt
<1>2. ASSUME NEW lost \in BOOLEAN, TunnelEnds(lost) PROVE DialInv'
    <2>1. \A n \in Members : chain'[n].st = "none"
        BY <1>2 DEF TunnelEnds, NoChain
    <2>2. JTypes'
        BY <1>2 DEF TunnelEnds, NoChain, DialInv, JTypes
    <2>3. Exempted'
        BY <1>2 DEF TunnelEnds, DialInv, Exempted, FirstHopIn
    <2> QED
        BY <2>1, <2>2, <2>3 DEF DialInv, ByName, CarrierExempt
<1> QED
    BY <1>1, <1>2

\* Every step of the dials and of the engine preserves the invariant.
LEMMA DialNext == OneAddress /\ DialInv /\ [JNext]_jvars => DialInv'
<1> SUFFICES ASSUME OneAddress, DialInv, [JNext]_jvars PROVE DialInv'
    OBVIOUS
<1>1. CASE UNCHANGED jvars
    BY <1>1 DEF jvars, DialInv, JTypes, ByName, Exempted, FirstHopIn, CarrierExempt
<1>2. CASE JNext
    BY <1>2, FirstHopKeeps, OtherHopsKeep, LossKeeps, BackendReturns, EngineKeeps DEF JNext
<1> QED
    BY <1>1, <1>2

\* The tunnel's own connections are never captured by its own rules, nor by
\* those an earlier engine left for it: for any number of members, jump
\* hosts and redials, on every route, while the name keeps its address.
THEOREM TunnelExempt == OneAddress => (JSpec => []CarrierExempt)
<1> SUFFICES ASSUME OneAddress PROVE JSpec => []CarrierExempt
    OBVIOUS
<1>1. JInit => DialInv
    BY DialInit
<1>2. DialInv /\ [JNext]_jvars => DialInv'
    BY DialNext
<1>3. DialInv => CarrierExempt
    BY DEF DialInv
<1> QED
    BY <1>1, <1>2, <1>3, PTL DEF JSpec

(***************************************************************************)
(* NetMonitor.  FlapIgnored speaks of addresses, the code compares         *)
(* fingerprints, which also name the interfaces.  When no two interfaces   *)
(* may have the same routable address (OwnAddresses), a fingerprint other  *)
(* than the baseline means other addresses, so that every sample that      *)
(* keeps Watch waiting, or makes it report, was taken away from home.      *)
(***************************************************************************)
OwnAddresses ==
    \A i, j \in Ifaces : i # j =>
        \A s \in States[i], t \in States[j] : s.addrs \intersect t.addrs \subseteq LinkLocals

Worlds == {w \in [Ifaces -> UNION {States[i] : i \in Ifaces}] :
              \A i \in Ifaces : w[i] \in States[i]}

\* The routable addresses of one interface.
Routable(w, i) == IF w[i].up THEN w[i].addrs \ LinkLocals ELSE {}

MonitorTypes ==
    /\ ifs \in Worlds
    /\ watch \in {"read", "wait", "changed", "stopped", "error"}
    /\ polls \in Nat /\ streak \in Nat /\ away \in Nat

\* The baseline and the addresses at home are those of one state.
Started == \E w \in Worlds : baseline = Fingerprint(w) /\ home = Addresses(w)

\* While Watch samples, every sample of this window was away from home.
Counted == watch = "wait" => streak <= polls /\ polls <= away

MonitorInv == MonitorTypes /\ Started /\ Counted /\ FlapIgnored

\* Two states in which the host has the same routable addresses have the same
\* fingerprint.
LEMMA SameFingerprint ==
    ASSUME OwnAddresses, NEW v \in Worlds, NEW w \in Worlds, Addresses(v) = Addresses(w)
    PROVE  Fingerprint(v) = Fingerprint(w)
<1>1. ASSUME NEW x \in Worlds, NEW y \in Worlds, Addresses(x) = Addresses(y),
             NEW i \in Ifaces
      PROVE  Routable(x, i) \subseteq Routable(y, i)
    <2> SUFFICES ASSUME NEW a \in Routable(x, i) PROVE a \in Routable(y, i)
        OBVIOUS
    <2>1. x[i].up /\ a \in x[i].addrs \ LinkLocals
        BY DEF Routable
    <2>2. a \in Addresses(y)
        BY <1>1, <2>1 DEF Addresses
    <2>3. PICK j \in Ifaces : y[j].up /\ a \in y[j].addrs \ LinkLocals
        BY <2>2 DEF Addresses
    <2>4. j = i
        BY <2>1, <2>3 DEF OwnAddresses, Worlds
    <2> QED
        BY <2>3, <2>4 DEF Routable
<1>2. \A i \in Ifaces : Routable(v, i) = Routable(w, i)
    BY <1>1
<1>3. \A x \in Worlds :
          Fingerprint(x) = {<<i, Routable(x, i)>> : i \in {j \in Ifaces : Routable(x, j) # {}}}
    <2> SUFFICES ASSUME NEW x \in Worlds
                 PROVE  Fingerprint(x) =
                            {<<i, Routable(x, i)>> : i \in {j \in Ifaces : Routable(x, j) # {}}}
        OBVIOUS
    <2>1. {j \in Ifaces : x[j].up /\ x[j].addrs \ LinkLocals # {}}
              = {j \in Ifaces : Routable(x, j) # {}}
        BY DEF Routable
    <2>2. \A i \in {j \in Ifaces : x[j].up /\ x[j].addrs \ LinkLocals # {}} :
              Routable(x, i) = x[i].addrs \ LinkLocals
        BY DEF Routable
    <2> QED
        BY <2>1, <2>2 DEF Fingerprint
<1> QED
    BY <1>2, <1>3

\* Without a routable address there is no fingerprint.
LEMMA NoAddressUnknown == \A w \in Worlds : Addresses(w) = {} => Fingerprint(w) = Unknown
BY DEF Addresses, Fingerprint, Unknown

\* Watch begins at home.
LEMMA MonitorInit == NInit => MonitorInv
<1> SUFFICES ASSUME NInit PROVE MonitorInv
    OBVIOUS
<1>1. ifs \in Worlds
    BY DEF NInit, Worlds
<1> QED
    BY <1>1 DEF NInit, MonitorInv, MonitorTypes, Started, Counted, FlapIgnored

\* One turn of waitForStableFingerprint.
LEMMA SampleKeeps ==
    ASSUME OwnAddresses, MonitorInv, Sample
    PROVE  MonitorInv'
<1> DEFINE cur == Fingerprint(ifs)
<1>1. /\ MaxPolls \in Nat /\ StableCount \in Nat \ {0}
      /\ ifs \in Worlds /\ polls \in Nat /\ streak \in Nat /\ away \in Nat
    BY NetMonitorAssumption DEF MonitorInv, MonitorTypes
<1>2. streak <= polls /\ polls <= away
    BY DEF Sample, MonitorInv, Counted
<1>3. Streak(cur) \in Nat /\ Streak(cur) <= polls + 1 /\ (Streak(cur) # 0 => cur # Unknown)
    BY <1>1, <1>2 DEF Streak
<1>4. cur # baseline => Addresses(ifs) # home
    BY <1>1, SameFingerprint DEF MonitorInv, Started
<1>5. cur # Unknown => Addresses(ifs) # {}
    BY <1>1, NoAddressUnknown
<1> HIDE DEF cur
<1>6. /\ UNCHANGED <<ifs, baseline, home>>
      /\ seen' = Addresses(ifs) /\ away' = IF Addresses(ifs) = home THEN 0 ELSE away + 1
      /\ streak' = Streak(cur) /\ polls' = polls + 1
      /\ watch' = IF cur = baseline THEN "read"
                  ELSE IF Streak(cur) >= StableCount THEN "changed"
                  ELSE IF polls + 1 >= MaxPolls THEN "changed" ELSE "wait"
    BY DEF Sample, Exhausted, cur
<1>7. MonitorTypes' /\ Started'
    BY <1>1, <1>3, <1>6 DEF MonitorInv, MonitorTypes, Started
<1>8. Counted'
    BY <1>1, <1>2, <1>3, <1>4, <1>6 DEF Counted
<1>9. FlapIgnored'
    <2>1. CASE cur = baseline
        BY <1>6, <2>1 DEF FlapIgnored
    <2>2. CASE cur # baseline
        <3>1. away' = away + 1 /\ away' >= polls + 1 /\ seen' # home
            BY <1>1, <1>2, <1>4, <1>6, <2>2
        <3>2. Streak(cur) >= StableCount => seen' # {} /\ away' >= StableCount
            BY <1>1, <1>3, <1>5, <1>6, <3>1
        <3> QED
            BY <1>1, <1>3, <1>6, <3>1, <3>2 DEF FlapIgnored
    <2> QED
        BY <2>1, <2>2
<1> QED
    BY <1>7, <1>8, <1>9 DEF MonitorInv

\* Every step of the environment and of Watch preserves the invariant.
LEMMA MonitorNext == OwnAddresses /\ MonitorInv /\ [NNext]_nvars => MonitorInv'
<1> SUFFICES ASSUME OwnAddresses, MonitorInv, [NNext]_nvars PROVE MonitorInv'
    OBVIOUS
<1> USE DEF MonitorInv, MonitorTypes, Started, Counted, FlapIgnored
<1>1. ASSUME NEW i \in Ifaces, NEW s \in States[i], IfaceChanges(i, s) PROVE MonitorInv'
    <2>1. ifs' \in Worlds
        BY <1>1 DEF IfaceChanges, Worlds
    <2> QED
        BY <1>1, <2>1 DEF IfaceChanges, history
<1>2. CASE GraceOver
    BY <1>2 DEF GraceOver, history
<1>3. CASE Shutdown
    BY <1>3 DEF Shutdown, history
<1>4. CASE ReadMessage
    BY <1>4 DEF ReadMessage, history
<1>5. CASE ReadFails
    BY <1>5 DEF ReadFails, history
<1>6. CASE WatchStops
    BY <1>6 DEF WatchStops, history
<1>7. CASE UNCHANGED nvars
    BY <1>7 DEF nvars, history
<1> QED
    BY <1>1, <1>2, <1>3, <1>4, <1>5, <1>6, <1>7, SampleKeeps DEF NNext, WatchStep

\* An outage that ends on the same network within the window never makes
\* Watch report a change, for any interfaces, addresses, window and number
\* of samples, and wherever in the window the network comes and goes.
THEOREM OutageIgnored == OwnAddresses => (NSpec => []FlapIgnored)
<1> SUFFICES ASSUME OwnAddresses PROVE NSpec => []FlapIgnored
    OBVIOUS
<1>1. NInit => MonitorInv
    BY MonitorInit
<1>2. MonitorInv /\ [NNext]_nvars => MonitorInv'
    BY MonitorNext
<1>3. MonitorInv => FlapIgnored
    BY DEF MonitorInv
<1> QED
    BY <1>1, <1>2, <1>3, PTL DEF NSpec

(***************************************************************************)
(* Trace.  With one program the goroutine is the only one that writes the  *)
(* file of the download, and writes nothing but what it hashes: until it   *)
(* is renamed the file holds what was received, and the file that has the  *)
(* tool's name is not written any more.                                    *)
(***************************************************************************)
OneProgram == \A p, q \in Programs : p = q

Busy == {"no", "downloading", "running"}
Messages == {"dl", "started", "hop", "done"}
Downloads == {"read", "verify", "install"}
Elsewhere == {"off", "undo", "ready", "exec", "trace", "report"}
RunType == [busy : Busy, cancelled : BOOLEAN, wait : BOOLEAN, ch : Seq(Messages),
            pc : {"find", "request"} \union Downloads \union Elsewhere,
            ino : Nat, got : Seq(Int), child : BOOLEAN]

TraceTypes ==
    /\ store \in Seq(Seq(Int))
    /\ partOf \in 0..Len(store) /\ tool \in 0..Len(store)
    /\ prog \in [Programs -> RunType]

\* A run that has received something holds the file of the download.
Received(r) ==
    /\ r.pc \in {"find", "request"} => r.got = <<>>
    /\ r.pc \in Downloads => r.ino = partOf /\ partOf # 0 /\ store[partOf] = r.got
    /\ r.pc = "install" => r.got = Genuine

\* The tool is not the file of a download.
Apart == tool # 0 => tool # partOf

TraceInv == TraceTypes /\ (\A p \in Programs : Received(prog[p])) /\ Apart /\ ToolGenuine

\* A program that has not run.
LEMMA NoRunType == NoRun \in RunType /\ NoRun.pc = "off" /\ NoRun.got = <<>>
BY DEF NoRun, RunType, Busy, Elsewhere

\* At first there are no files.
LEMMA TraceInit == TInit => TraceInv
BY NoRunType DEF TInit, TraceInv, TraceTypes, Received, Apart, ToolGenuine, Elsewhere, Downloads

(***************************************************************************)
(* What the steps do to a run: Kept where it keeps its place and what it   *)
(* received, Moved where it only goes on or starts anew.                   *)
(***************************************************************************)
Kept(r, s) == s \in RunType /\ s.pc = r.pc /\ s.ino = r.ino /\ s.got = r.got
Moved(r, s) ==
    /\ s \in RunType
    /\ \/ s.pc \in Elsewhere
       \/ s.pc = "find" /\ s.got = <<>>
       \/ s.pc = "request" /\ r.pc = "find" /\ s.got = r.got
       \/ s.pc = "verify" /\ r.pc = "read" /\ s.ino = r.ino /\ s.got = r.got

\* Going to another place keeps everything else.
LEMMA GoEffect ==
    ASSUME NEW r \in RunType, NEW c \in {"find", "request"} \union Downloads \union Elsewhere
    PROVE  LET s == [r EXCEPT !.pc = c] IN
           s \in RunType /\ s.pc = c /\ s.ino = r.ino /\ s.got = r.got
BY DEF RunType

\* The steps of the page: a trace is started or stopped, an event applied.
LEMMA PageSteps ==
    ASSUME TraceTypes, NEW p \in Programs, Start(p) \/ Stop(p) \/ OnTrace(p)
    PROVE  \E s : /\ prog' = [prog EXCEPT ![p] = s]
                  /\ Kept(prog[p], s) \/ Moved(prog[p], s)
<1> DEFINE r == prog[p]
<1>0. r \in RunType
    BY DEF TraceTypes
<1>1. CASE Start(p)
    <2>1. PICK b \in Busy : prog' = [prog EXCEPT ![p] =
              [NoRun EXCEPT !.busy = b, !.wait = TRUE, !.pc = "find"]]
        BY <1>1 DEF Start, Set, Busy
    <2>2. LET s == [NoRun EXCEPT !.busy = b, !.wait = TRUE, !.pc = "find"] IN
              s \in RunType /\ s.pc = "find" /\ s.got = <<>>
        <3>1. ASSUME NEW q \in RunType
              PROVE  LET s == [q EXCEPT !.busy = b, !.wait = TRUE, !.pc = "find"] IN
                     s \in RunType /\ s.pc = "find" /\ s.got = q.got
            BY <2>1 DEF RunType
        <3> QED
            BY <3>1, NoRunType
    <2> QED
        BY <2>1, <2>2 DEF Moved
<1>2. CASE Stop(p)
    <2>1. Kept(r, [r EXCEPT !.cancelled = TRUE])
        BY <1>0 DEF Kept, RunType
    <2> QED
        BY <1>2, <2>1 DEF Stop, Set
<1>3. CASE OnTrace(p)
    <2>1. PICK c, w, b, k : prog' = [prog EXCEPT ![p] =
              [r EXCEPT !.ch = c, !.wait = w, !.busy = b, !.cancelled = k]]
              /\ c \in Seq(Messages) /\ w \in BOOLEAN /\ b \in Busy /\ k \in BOOLEAN
        <3> DEFINE m == Head(r.ch)
                   c == Tail(r.ch)
                   w == Rewait(m)
                   b == CASE m = "started" -> "running" [] m = "done" -> "no" [] OTHER -> r.busy
                   k == r.cancelled /\ m # "done"
        <3>1. c \in Seq(Messages)
            BY <1>0, <1>3 DEF OnTrace, RunType
        <3>2. w \in BOOLEAN /\ k \in BOOLEAN
            BY DEF Rewait
        <3>3. b \in Busy
            BY <1>0 DEF RunType, Busy
        <3>4. prog' = [prog EXCEPT ![p] =
                  [r EXCEPT !.ch = c, !.wait = w, !.busy = b, !.cancelled = k]]
            BY <1>3 DEF OnTrace, Set
        <3> QED
            BY <3>1, <3>2, <3>3, <3>4
    <2>2. Kept(r, [r EXCEPT !.ch = c, !.wait = w, !.busy = b, !.cancelled = k])
        BY <1>0, <2>1 DEF Kept, RunType
    <2> QED
        BY <2>1, <2>2
<1> QED
    BY <1>1, <1>2, <1>3

\* Appending a message to the channel.
LEMMA AppendEffect ==
    ASSUME NEW r \in RunType, NEW m \in Messages,
           NEW c \in {"find", "request"} \union Downloads \union Elsewhere
    PROVE  LET s == [r EXCEPT !.ch = Append(@, m), !.pc = c] IN
           s \in RunType /\ s.pc = c /\ s.ino = r.ino /\ s.got = r.got
<1>1. r.ch \in Seq(Messages)
    BY DEF RunType
<1>2. Append(r.ch, m) \in Seq(Messages)
    BY <1>1
<1>3. PICK ch \in Seq(Messages) : ch = Append(r.ch, m)
    BY <1>2
<1>4. LET s == [r EXCEPT !.ch = ch, !.pc = c] IN
          s \in RunType /\ s.pc = c /\ s.ino = r.ino /\ s.got = r.got
    BY DEF RunType
<1> QED
    BY <1>3, <1>4

\* The steps of the goroutine that leave the files alone, and a death.
LEMMA RunSteps ==
    ASSUME TraceTypes, NEW p \in Programs,
           \/ Find(p) \/ RequestFails(p) \/ ReadEnd(p) \/ Ready(p) \/ Exec(p)
           \/ OnHop(p) \/ ChildEnds(p) \/ Waited(p) \/ Report(p) \/ Dies(p)
    PROVE  \E s : /\ prog' = [prog EXCEPT ![p] = s]
                  /\ Kept(prog[p], s) \/ Moved(prog[p], s)
<1> DEFINE r == prog[p]
<1>0. r \in RunType
    BY DEF TraceTypes
<1>1. CASE Find(p)
    <2>1. PICK c \in {"ready", "request"} : prog' = [prog EXCEPT ![p] = [r EXCEPT !.pc = c]]
        BY <1>1 DEF Find, Go, Set
    <2>2. Moved(r, [r EXCEPT !.pc = c])
        BY <1>0, <1>1, GoEffect DEF Moved, Find, Elsewhere
    <2> QED
        BY <2>1, <2>2
<1>2. CASE RequestFails(p) \/ Waited(p)
    <2>1. PICK c \in {"undo", "report"} : prog' = [prog EXCEPT ![p] = [r EXCEPT !.pc = c]]
        BY <1>2 DEF RequestFails, Waited, Go, Set
    <2>2. Moved(r, [r EXCEPT !.pc = c])
        BY <1>0, GoEffect DEF Moved, Elsewhere
    <2> QED
        BY <2>1, <2>2
<1>3. CASE ReadEnd(p)
    <2>1. prog' = [prog EXCEPT ![p] = [r EXCEPT !.pc = "verify"]] /\ r.pc = "read"
        BY <1>3 DEF ReadEnd, Go, Set
    <2>2. Moved(r, [r EXCEPT !.pc = "verify"])
        BY <1>0, <2>1, GoEffect DEF Moved, Downloads
    <2> QED
        BY <2>1, <2>2
<1>4. CASE Ready(p) \/ OnHop(p) \/ Report(p)
    <2>1. PICK m \in Messages, c \in {"exec", "trace", "off"} :
              prog' = [prog EXCEPT ![p] = [r EXCEPT !.ch = Append(@, m), !.pc = c]]
        BY <1>4 DEF Ready, OnHop, Report, Send, Set, Messages
    <2>2. Moved(r, [r EXCEPT !.ch = Append(@, m), !.pc = c])
        <3>1. c \in Elsewhere
            BY DEF Elsewhere
        <3>2. LET s == [r EXCEPT !.ch = Append(@, m), !.pc = c] IN
                  s \in RunType /\ s.pc = c
            BY <1>0, <3>1, AppendEffect
        <3> QED
            BY <3>1, <3>2 DEF Moved
    <2> QED
        BY <2>1, <2>2
<1>5. CASE Exec(p)
    <2>1. CASE prog' = [prog EXCEPT ![p] = [r EXCEPT !.pc = "report"]]
        <3>1. Moved(r, [r EXCEPT !.pc = "report"])
            BY <1>0, GoEffect DEF Moved, Elsewhere
        <3> QED
            BY <2>1, <3>1
    <2>2. CASE prog' = [prog EXCEPT ![p] = [r EXCEPT !.pc = "trace", !.child = TRUE]]
        <3>1. LET s == [r EXCEPT !.pc = "trace", !.child = TRUE] IN
                  s \in RunType /\ s.pc = "trace"
            BY <1>0 DEF RunType, Elsewhere
        <3> QED
            BY <2>2, <3>1 DEF Moved, Elsewhere
    <2> QED
        BY <1>5, <2>1, <2>2 DEF Exec, Go, Set
<1>6. CASE ChildEnds(p)
    <2>1. Kept(r, [r EXCEPT !.child = FALSE])
        BY <1>0 DEF Kept, RunType
    <2> QED
        BY <1>6, <2>1 DEF ChildEnds, Set
<1>7. CASE Dies(p)
    BY <1>7, NoRunType DEF Dies, Set, Moved, Elsewhere
<1> QED
    BY <1>1, <1>2, <1>3, <1>4, <1>5, <1>6, <1>7

\* A run that only goes on leaves the invariant alone.
LEMMA RunKeeps ==
    ASSUME TraceInv, UNCHANGED toolFiles, NEW p \in Programs, NEW s,
           prog' = [prog EXCEPT ![p] = s], Kept(prog[p], s) \/ Moved(prog[p], s)
    PROVE  TraceInv'
<1>1. UNCHANGED <<store, partOf, tool>>
    BY DEF toolFiles
<1>2. s \in RunType /\ prog \in [Programs -> RunType]
    BY DEF Kept, Moved, TraceInv, TraceTypes
<1>3. TraceTypes' /\ Apart' /\ ToolGenuine'
    BY <1>1, <1>2 DEF TraceInv, TraceTypes, Apart, ToolGenuine
<1>4. Received(s)'
    <2>1. Received(prog[p])
        BY DEF TraceInv
    <2> QED
        BY <1>1, <2>1 DEF Received, Kept, Moved, Elsewhere, Downloads
<1>5. \A q \in Programs : prog'[q] = s \/ (prog'[q] = prog[q] /\ Received(prog[q]))
    BY <1>2 DEF TraceInv
<1>6. \A q \in Programs : Received(prog[q])'
    BY <1>1, <1>4, <1>5 DEF Received
<1> QED
    BY <1>3, <1>6 DEF TraceInv

\* With one program a step that changes files and its run has to establish
\* the invariant for that run only.
LEMMA OneRun ==
    ASSUME OneProgram, TraceTypes, NEW p \in Programs, NEW s \in RunType,
           prog' = [prog EXCEPT ![p] = s],
           store' \in Seq(Seq(Int)), partOf' \in 0..Len(store'), tool' \in 0..Len(store'),
           Received(s)', Apart', ToolGenuine'
    PROVE  TraceInv'
<1>1. prog' \in [Programs -> RunType]
    BY DEF TraceTypes
<1>2. \A q \in Programs : prog'[q] = s
    BY DEF OneProgram, TraceTypes
<1>3. \A q \in Programs : Received(prog[q])'
    BY <1>2 DEF Received
<1> QED
    BY <1>1, <1>3 DEF TraceInv, TraceTypes

\* The file of the download is emptied, or made anew.
LEMMA RequestKeeps ==
    ASSUME OneProgram, TraceInv, NEW p \in Programs, Request(p)
    PROVE  TraceInv'
<1> DEFINE i == IF partOf # 0 THEN partOf ELSE Len(store) + 1
<1>1. /\ store \in Seq(Seq(Int)) /\ partOf \in 0..Len(store) /\ tool \in 0..Len(store)
      /\ prog[p] \in RunType /\ prog[p].got = <<>>
    BY DEF TraceInv, TraceTypes, Received, Request
<1>2. i \in 1..Len(store) + 1 /\ i \in Nat /\ i # 0
    BY <1>1
<1> HIDE DEF i
<1>3. PICK s \in RunType : /\ s = [prog[p] EXCEPT !.pc = "read", !.ino = i]
                           /\ s.pc = "read" /\ s.ino = i /\ s.got = <<>>
    <2>1. LET s == [prog[p] EXCEPT !.pc = "read", !.ino = i] IN
              s \in RunType /\ s.pc = "read" /\ s.ino = i /\ s.got = <<>>
        BY <1>1, <1>2 DEF RunType, Downloads
    <2> QED
        BY <2>1
<1>4. /\ prog' = [prog EXCEPT ![p] = s] /\ partOf' = i /\ tool' = tool
      /\ store' = IF partOf # 0 THEN [store EXCEPT ![i] = <<>>] ELSE Append(store, <<>>)
    BY <1>3 DEF Request, Set, i
<1>5. /\ store' \in Seq(Seq(Int)) /\ i \in 1..Len(store') /\ Len(store') >= Len(store)
      /\ store'[i] = <<>>
      /\ \A j \in 1..Len(store) : j # i => store'[j] = store[j]
    <2>1. <<>> \in Seq(Int)
        OBVIOUS
    <2>2. CASE partOf # 0
        BY <1>1, <1>4, <2>1, <2>2 DEF i
    <2>3. CASE partOf = 0
        BY <1>1, <1>4, <2>1, <2>3 DEF i
    <2> QED
        BY <2>2, <2>3
<1>6. tool # 0 => tool # i /\ store[tool] = Genuine
    BY <1>1 DEF TraceInv, Apart, ToolGenuine, i
<1>7. Apart' /\ ToolGenuine'
    <2>1. tool' = tool /\ partOf' = i
        BY <1>4
    <2>2. tool # 0 => tool \in 1..Len(store)
        BY <1>1
    <2>3. tool # 0 => store'[tool] = Genuine
        BY <1>5, <1>6, <2>2
    <2> QED
        BY <1>6, <2>1, <2>3 DEF Apart, ToolGenuine
<1>8. Received(s)'
    BY <1>2, <1>3, <1>4, <1>5 DEF Received
<1>9. partOf' \in 0..Len(store') /\ tool' \in 0..Len(store')
    BY <1>1, <1>4, <1>5
<1>10. TraceTypes
    BY DEF TraceInv
<1> QED
    BY <1>3, <1>4, <1>5, <1>7, <1>8, <1>9, <1>10, OneRun

\* A block is written where the last one ended.
LEMMA PlacedAtEnd ==
    ASSUME NEW f \in Seq(Int), NEW b \in Int
    PROVE  Placed(f, Len(f) + 1, b) = Append(f, b)
<1> DEFINE n == Len(f) + 1
           w == Placed(f, n, b)
           a == Append(f, b)
<1>1. n \in Nat \ {0} /\ n > Len(f)
    OBVIOUS
<1>2. w = [j \in 1..n |-> IF j = n THEN b ELSE f[j]]
    BY <1>1 DEF Placed
<1>3. w \in Seq(Int) /\ Len(w) = n /\ \A j \in 1..n : w[j] = IF j = n THEN b ELSE f[j]
    BY <1>1, <1>2
<1>4. a \in Seq(Int) /\ Len(a) = n /\ \A j \in 1..n : a[j] = IF j = n THEN b ELSE f[j]
    BY <1>1
<1> HIDE DEF n, w, a
<1>5. w = a
    BY <1>3, <1>4, SeqEqual
<1> QED
    BY <1>5 DEF n, w, a

\* A block is received and written to the file of the download.
LEMMA ReadBlockKeeps ==
    ASSUME OneProgram, TraceInv, NEW p \in Programs, ReadBlock(p)
    PROVE  TraceInv'
<1> DEFINE r == prog[p]
<1>1. /\ store \in Seq(Seq(Int)) /\ partOf \in 1..Len(store) /\ tool \in 0..Len(store)
      /\ r \in RunType /\ r.pc = "read" /\ r.ino = partOf /\ store[partOf] = r.got
      /\ tool # partOf
    BY DEF TraceInv, TraceTypes, Received, ReadBlock, Downloads, Apart
<1>2. r.got \in Seq(Int) /\ r.ch \in Seq(Messages)
    BY <1>1 DEF RunType
<1>3. PICK b \in {Len(r.got) + 1, Tampered} :
          /\ store' = [store EXCEPT ![r.ino] = Placed(@, Len(r.got) + 1, b)]
          /\ Set(p, [r EXCEPT !.got = Append(@, b),
                       !.ch = IF Room(p) THEN Append(@, "dl") ELSE @])
          /\ partOf' = partOf /\ tool' = tool
    BY DEF ReadBlock
<1>4. b \in Int
    BY <1>2 DEF Tampered
<1>5. PICK g \in Seq(Int) : g = Append(r.got, b)
    <2>1. Append(r.got, b) \in Seq(Int)
        BY <1>2, <1>4
    <2> QED
        BY <2>1
<1>6. PICK c \in Seq(Messages) : c = IF Room(p) THEN Append(r.ch, "dl") ELSE r.ch
    <2>1. "dl" \in Messages
        BY DEF Messages
    <2>2. Append(r.ch, "dl") \in Seq(Messages)
        BY <1>2, <2>1
    <2> QED
        BY <1>2, <2>2
<1>7. PICK s \in RunType : /\ s = [r EXCEPT !.got = g, !.ch = c]
                           /\ s.pc = "read" /\ s.ino = partOf /\ s.got = g
    <2>1. LET s == [r EXCEPT !.got = g, !.ch = c] IN
              s \in RunType /\ s.pc = "read" /\ s.ino = partOf /\ s.got = g
        BY <1>1 DEF RunType
    <2> QED
        BY <2>1
<1>8. prog' = [prog EXCEPT ![p] = s]
    BY <1>3, <1>5, <1>6, <1>7 DEF Set
<1> HIDE DEF r
<1>9. store' = [store EXCEPT ![partOf] = g]
    <2>1. Placed(store[partOf], Len(r.got) + 1, b) = g
        BY <1>1, <1>2, <1>4, <1>5, PlacedAtEnd
    <2> QED
        BY <1>1, <1>3, <2>1
<1>10. /\ store' \in Seq(Seq(Int)) /\ Len(store') = Len(store)
       /\ store'[partOf] = g
       /\ \A j \in 1..Len(store) : j # partOf => store'[j] = store[j]
    BY <1>1, <1>5, <1>9
<1>11. Apart' /\ ToolGenuine'
    BY <1>1, <1>3, <1>10 DEF TraceInv, Apart, ToolGenuine
<1>12. Received(s)'
    BY <1>1, <1>3, <1>7, <1>10 DEF Received
<1>13. partOf' \in 0..Len(store') /\ tool' \in 0..Len(store')
    BY <1>1, <1>3, <1>10
<1>14. TraceTypes
    BY DEF TraceInv
<1> QED
    BY <1>7, <1>8, <1>10, <1>11, <1>12, <1>13, <1>14, OneRun

\* The steps that only name files anew: a failed read or check forgets the
\* download, a rename makes it the tool, a failed Ensure forgets the tool.
LEMMA NamingKeeps ==
    ASSUME OneProgram, TraceInv, NEW p \in Programs,
           DownloadFails(p) \/ Verify(p) \/ Install(p) \/ Undo(p)
    PROVE  TraceInv'
<1> DEFINE r == prog[p]
<1>1. /\ TraceTypes /\ Received(r) /\ Apart /\ ToolGenuine
      /\ r \in RunType /\ store \in Seq(Seq(Int))
      /\ partOf \in 0..Len(store) /\ tool \in 0..Len(store)
    BY DEF TraceInv, TraceTypes
<1>2. store' = store
    BY DEF DownloadFails, Verify, Install, Undo, toolFiles, tallies
<1>3. PICK c \in {"undo", "install", "ready", "report"} :
          /\ prog' = [prog EXCEPT ![p] = [r EXCEPT !.pc = c]]
          /\ \/ c # "install" /\ partOf' = 0
                /\ \/ tool' = tool
                   \/ tool' = partOf /\ r.pc = "install"
             \/ c = "install" /\ r.pc = "verify" /\ Verified(r.got)
                /\ partOf' = partOf /\ tool' = tool
             \/ c # "install" /\ partOf' = partOf /\ tool' = 0
    BY DEF DownloadFails, Verify, Install, Undo, Go, Set
<1>4. c \in Downloads \union Elsewhere
    BY DEF Downloads, Elsewhere
<1>5. PICK s \in RunType : /\ s = [r EXCEPT !.pc = c]
                           /\ s.pc = c /\ s.ino = r.ino /\ s.got = r.got
    <2>1. LET s == [r EXCEPT !.pc = c] IN
              s \in RunType /\ s.pc = c /\ s.ino = r.ino /\ s.got = r.got
        BY <1>1, <1>4, GoEffect
    <2> QED
        BY <2>1
<1>6. Received(s)'
    BY <1>1, <1>2, <1>3, <1>5 DEF Received, Downloads, Verified
<1>7. Apart' /\ ToolGenuine'
    BY <1>1, <1>2, <1>3 DEF Received, Downloads, Apart, ToolGenuine
<1>8. partOf' \in 0..Len(store') /\ tool' \in 0..Len(store')
    BY <1>1, <1>2, <1>3
<1> QED
    BY <1>1, <1>2, <1>3, <1>5, <1>6, <1>7, <1>8, OneRun

\* Every step of the page, the goroutine and the tool preserves the invariant.
LEMMA TraceNext == OneProgram /\ TraceInv /\ [TNext]_tvars => TraceInv'
<1> SUFFICES ASSUME OneProgram, TraceInv, [TNext]_tvars PROVE TraceInv'
    OBVIOUS
<1>1. CASE UNCHANGED tvars
    BY <1>1 DEF tvars, TraceInv, TraceTypes, Received, Apart, ToolGenuine
<1>2. ASSUME NEW p \in Programs, Start(p) \/ Stop(p) \/ OnTrace(p) PROVE TraceInv'
    <2>1. UNCHANGED toolFiles
        BY <1>2 DEF Start, Stop, OnTrace
    <2>2. TraceTypes
        BY DEF TraceInv
    <2> QED
        BY <1>2, <2>1, <2>2, PageSteps, RunKeeps
<1>3. ASSUME NEW p \in Programs,
             \/ Find(p) \/ RequestFails(p) \/ ReadEnd(p) \/ Ready(p) \/ Exec(p)
             \/ OnHop(p) \/ ChildEnds(p) \/ Waited(p) \/ Report(p) \/ Dies(p)
      PROVE  TraceInv'
    <2>1. UNCHANGED toolFiles
        BY <1>3 DEF Find, RequestFails, ReadEnd, Ready, Exec, OnHop, ChildEnds, Waited,
                    Report, Dies
    <2>2. TraceTypes
        BY DEF TraceInv
    <2> QED
        BY <1>3, <2>1, <2>2, RunSteps, RunKeeps
<1> QED
    BY <1>1, <1>2, <1>3, RequestKeeps, ReadBlockKeeps, NamingKeeps DEF TNext, Work

\* What has the tool's name is the released tool, whatever was cut, refused,
\* tampered with or cancelled, and whenever the program died: for any length
\* of the tool, capacity of the channel and number of traces and deaths,
\* while one program uses the directory.
THEOREM ToolIsGenuine == OneProgram => (TSpec => []ToolGenuine)
<1> SUFFICES ASSUME OneProgram PROVE TSpec => []ToolGenuine
    OBVIOUS
<1>1. TInit => TraceInv
    BY TraceInit
<1>2. TraceInv /\ [TNext]_tvars => TraceInv'
    BY TraceNext
<1>3. TraceInv => ToolGenuine
    BY DEF TraceInv
<1> QED
    BY <1>1, <1>2, <1>3, PTL DEF TSpec

(***************************************************************************)
(* Fectun implements SharedClient.  The reference counts are the numbers   *)
(* of streams, the table offers only live clients under their own key, and *)
(* a client with a stream is live; that new clients are new rests on their *)
(* being created in order.                                                 *)
(***************************************************************************)
EntryStates == {"none", "live", "closing", "closed"}
EntryType == [st : EntryStates, key : 0..MaxKeys, refs : Nat,
              idle : BOOLEAN, late : Nat, est : Nat]
Streaming == {"handshake", "up"}
DialPCs == {"idle", "refresh", "try", "evict", "stop", "boot"} \union Streaming
DialType == [pc : DialPCs, phase : Nat, key : 0..MaxKeys, seen : Nat, ent : 0..MaxClients]

FectunTypes ==
    /\ entry \in [Clients -> EntryType]
    /\ table \in [Keys -> 0..MaxClients]
    /\ dial \in [Dialers -> DialType]
    /\ peer \in [key : 0..MaxKeys, gen : Nat]
    /\ daemon \in [up : BOOLEAN, key : 0..MaxKeys, epoch : Nat]

\* What SharedClient sees.
Offered == [k \in Keys |-> IF table[k] = 0 THEN None ELSE table[k]]
Holding == [d \in Dialers |-> IF dial[d].pc \in Streaming THEN dial[d].ent ELSE None]
Ended == {c \in Clients : entry[c].st \in {"closing", "closed"}}

Users(c) == {d \in Dialers : dial[d].pc \in Streaming /\ dial[d].ent = c}

Dialed ==
    \A d \in Dialers :
        /\ dial[d].pc = "try" => dial[d].key \in Keys
        /\ dial[d].pc \in Streaming => dial[d].ent \in Clients /\ entry[dial[d].ent].st = "live"
        /\ dial[d].pc = "evict" => dial[d].ent \in Clients /\ entry[dial[d].ent].st # "none"
OfferedLive ==
    \A k \in Keys : table[k] # 0 => entry[table[k]].st = "live" /\ entry[table[k]].key = k
KeysKnown == \A c \in Clients : entry[c].st # "none" => entry[c].key \in Keys
Referenced == \A c \in Clients : entry[c].refs = Cardinality(Users(c))
Timed == \A c \in Clients : entry[c].idle \/ entry[c].late > 0 => entry[c].st # "none"
InOrderMade == \E n \in 0..MaxClients : Created = 1..n

FectunInv ==
    /\ FectunTypes /\ Dialed /\ OfferedLive /\ KeysKnown /\ Referenced
    /\ Timed /\ InOrderMade

\* Streams are counted by finite sets.
LEMMA UsersCounted ==
    ASSUME NEW S \in SUBSET Dialers, NEW d \in Dialers
    PROVE  /\ Cardinality(S) \in Nat /\ (Cardinality(S) = 0 <=> S = {})
           /\ d \notin S => Cardinality(S \union {d}) = Cardinality(S) + 1
           /\ d \in S => Cardinality(S \ {d}) = Cardinality(S) - 1
<1>1. IsFiniteSet(S)
    BY FectunAssumption, FS_Subset
<1> QED
    BY <1>1, FS_CardinalityType, FS_EmptySet, FS_AddElement, FS_RemoveElement

\* Nothing is shared at first.
LEMMA FectunInit == Init => FectunInv /\ Abs!Init
<1> SUFFICES ASSUME Init PROVE FectunInv /\ Abs!Init
    OBVIOUS
<1>0. MaxKeys \in Nat \ {0} /\ MaxClients \in Nat \ {0} /\ 0 \notin Clients /\ None \notin Clients
    BY FectunAssumption DEF Clients
<1>1. /\ NoEntry \in EntryType /\ NoEntry.st = "none" /\ NoEntry.refs = 0
      /\ ~NoEntry.idle /\ NoEntry.late = 0
    BY <1>0 DEF NoEntry, EntryType, EntryStates
<1>2. NoDial \in DialType /\ NoDial.pc = "idle"
    BY <1>0 DEF NoDial, DialType, DialPCs
<1>3. FectunTypes
    BY <1>0, <1>1, <1>2 DEF Init, FectunTypes, Keys
<1>4. /\ entry = [c \in Clients |-> NoEntry] /\ table = [k \in Keys |-> 0]
      /\ dial = [d \in Dialers |-> NoDial]
    BY DEF Init
<1>5. Dialed /\ OfferedLive /\ KeysKnown /\ Timed
    BY <1>1, <1>2, <1>4 DEF Dialed, OfferedLive, KeysKnown, Timed, Streaming
<1>6. Referenced
    <2>1. \A c \in Clients : Users(c) = {}
        BY <1>2, <1>4 DEF Users, Streaming
    <2> QED
        BY <1>1, <1>4, <2>1, FS_EmptySet DEF Referenced
<1>7. InOrderMade
    <2>1. Created = {}
        BY <1>1, <1>4 DEF Created
    <2>2. Created = 1..0 /\ 0 \in 0..MaxClients
        BY <1>0, <2>1
    <2> QED
        BY <2>2 DEF InOrderMade
<1>8. Abs!Init
    <2>1. Offered = [k \in Keys |-> None]
        BY <1>4 DEF Offered
    <2>2. Holding = [d \in Dialers |-> None]
        BY <1>2, <1>4 DEF Holding, Streaming
    <2>3. Ended = {}
        BY <1>1, <1>4 DEF Ended
    <2> QED
        BY <2>1, <2>2, <2>3 DEF Abs!Init, Offered, Holding, Ended, Streaming
<1> QED
    BY <1>3, <1>5, <1>6, <1>7, <1>8 DEF FectunInv

\* The view of SharedClient depends on the table, the streams and which
\* clients have ended.
LEMMA ViewKept ==
    ASSUME Offered' = Offered, Holding' = Holding, Ended' = Ended
    PROVE  UNCHANGED Abs!vars
BY DEF Abs!vars, Offered, Holding, Ended, Streaming

\* A dial that has no stream goes on without one.
LEMMA CalmKeeps ==
    ASSUME FectunInv, FectunTypes', UNCHANGED <<entry, table>>, NEW d \in Dialers,
           \A e \in Dialers \ {d} : dial'[e] = dial[e],
           dial[d].pc \notin Streaming, dial'[d].pc \notin Streaming \union {"evict"},
           dial'[d].pc = "try" => dial'[d].key \in Keys
    PROVE  FectunInv' /\ UNCHANGED Abs!vars
<1>1. Dialed'
    BY DEF FectunInv, Dialed
<1>2. \A c \in Clients : Users(c)' = Users(c)
    BY DEF Users
<1>3. OfferedLive' /\ KeysKnown' /\ Referenced' /\ Timed' /\ InOrderMade'
    BY <1>2 DEF FectunInv, OfferedLive, KeysKnown, Referenced, Timed, InOrderMade, Created
<1>4. \A e \in Dialers : (IF dial'[e].pc \in Streaming THEN dial'[e].ent ELSE None)
                         = (IF dial[e].pc \in Streaming THEN dial[e].ent ELSE None)
    OBVIOUS
<1>5. Offered' = Offered /\ Holding' = Holding /\ Ended' = Ended
    BY <1>4 DEF Offered, Holding, Ended
<1> QED
    BY <1>1, <1>3, <1>5, ViewKept DEF FectunInv

\* A step that changes nothing but a timer, the session of a client, or the
\* state of one that has ended, changes nothing SharedClient sees.
LEMMA TimingKeeps ==
    ASSUME FectunInv, FectunTypes', UNCHANGED table, NEW c \in Clients,
           \A b \in Clients \ {c} : entry'[b] = entry[b],
           entry'[c].refs = entry[c].refs, entry'[c].key = entry[c].key,
           entry'[c].idle \/ entry'[c].late > 0 => entry[c].st # "none",
           \/ entry'[c].st = entry[c].st
           \/ entry[c].st = "closing" /\ entry'[c].st = "closed",
           \A d \in Dialers :
               \/ dial'[d] = dial[d]
               \/ dial[d].pc = "handshake" /\ dial'[d].pc = "up" /\ dial'[d].ent = dial[d].ent
    PROVE  FectunInv' /\ UNCHANGED Abs!vars
<1>1. \A b \in Clients : /\ entry'[b].st = "live" <=> entry[b].st = "live"
                         /\ entry'[b].st = "none" <=> entry[b].st = "none"
                         /\ entry'[b].st \in {"closing", "closed"}
                                <=> entry[b].st \in {"closing", "closed"}
                         /\ entry'[b].refs = entry[b].refs /\ entry'[b].key = entry[b].key
    OBVIOUS
<1>2. \A d \in Dialers : /\ dial'[d].pc \in Streaming <=> dial[d].pc \in Streaming
                         /\ dial'[d].ent = dial[d].ent
                         /\ dial'[d].pc \in {"try", "evict"} => dial'[d] = dial[d]
    BY DEF Streaming
<1>3. Dialed'
    BY <1>1, <1>2 DEF FectunInv, Dialed
<1>4. \A b \in Clients : Users(b)' = Users(b)
    BY <1>2 DEF Users
<1>5. Created' = Created /\ Ended' = Ended
    BY <1>1 DEF Created, Ended
<1>6. OfferedLive'
    <2>1. \A k \in Keys : table[k] # 0 => table[k] \in Clients
        BY FectunAssumption DEF FectunInv, FectunTypes, Clients
    <2> QED
        BY <1>1, <2>1 DEF FectunInv, OfferedLive
<1>7. KeysKnown' /\ Referenced' /\ Timed' /\ InOrderMade'
    BY <1>1, <1>4, <1>5 DEF FectunInv, KeysKnown, Referenced, Timed, InOrderMade
<1>8. Offered' = Offered /\ Holding' = Holding
    BY <1>2 DEF Offered, Holding
<1> QED
    BY <1>3, <1>5, <1>6, <1>7, <1>8, ViewKept DEF FectunInv

(***************************************************************************)
(* What the operations do to an entry.                                     *)
(***************************************************************************)
\* Taking a stream.
LEMMA TakenEffect ==
    ASSUME NEW e \in EntryType
    PROVE  /\ Taken(e) \in EntryType /\ Taken(e).st = e.st /\ Taken(e).key = e.key
           /\ Taken(e).refs = e.refs + 1
<1>1. PICK n \in Nat : n = e.refs + 1
    BY DEF EntryType
<1>2. LET f == [e EXCEPT !.idle = FALSE, !.refs = n] IN
          f \in EntryType /\ f.st = e.st /\ f.key = e.key /\ f.refs = n
    BY DEF EntryType
<1> QED
    BY <1>1, <1>2 DEF Taken

\* A new client for a key.
LEMMA NewEffect ==
    ASSUME NEW k \in Keys
    PROVE  LET e == [NoEntry EXCEPT !.st = "live", !.key = k] IN
           e \in EntryType /\ e.st = "live" /\ e.key = k /\ e.refs = 0
<1>1. NoEntry \in EntryType /\ NoEntry.refs = 0
    BY FectunAssumption DEF NoEntry, EntryType, EntryStates
<1>2. k \in 0..MaxKeys
    BY FectunAssumption DEF Keys
<1>3. ASSUME NEW e \in EntryType
      PROVE  LET f == [e EXCEPT !.st = "live", !.key = k] IN
             f \in EntryType /\ f.st = "live" /\ f.key = k /\ f.refs = e.refs
    BY <1>2 DEF EntryType, EntryStates
<1> QED
    BY <1>1, <1>3

\* Closing a stream: the last one closes a client that is not in the table.
LEMMA ReleasedEffect ==
    ASSUME NEW c \in Clients, entry[c] \in EntryType, entry[c].refs > 0
    PROVE  /\ Released(c) \in EntryType /\ Released(c).key = entry[c].key
           /\ Released(c).refs = entry[c].refs - 1
           /\ Released(c).st = IF entry[c].refs > 1 \/ table[entry[c].key] = c
                               THEN entry[c].st ELSE "closed"
<1>1. PICK n \in Nat : n = entry[c].refs - 1
    BY DEF EntryType
<1>2. ASSUME NEW e \in EntryType
      PROVE  /\ LET f == [e EXCEPT !.refs = n] IN
                f \in EntryType /\ f.st = e.st /\ f.key = e.key /\ f.refs = n
             /\ LET f == [e EXCEPT !.refs = n, !.st = "closed"] IN
                f \in EntryType /\ f.st = "closed" /\ f.key = e.key /\ f.refs = n
             /\ LET f == [e EXCEPT !.refs = n, !.idle = TRUE] IN
                f \in EntryType /\ f.st = e.st /\ f.key = e.key /\ f.refs = n
    BY DEF EntryType, EntryStates
<1>3. n > 0 <=> entry[c].refs > 1
    BY <1>1 DEF EntryType
<1>4. Released(c) = IF n > 0 THEN [entry[c] EXCEPT !.refs = n]
                    ELSE IF table[entry[c].key] # c
                         THEN [entry[c] EXCEPT !.refs = n, !.st = "closed"]
                         ELSE [entry[c] EXCEPT !.refs = n, !.idle = TRUE]
    BY <1>1 DEF Released
<1>5. CASE n > 0
    BY <1>1, <1>2, <1>3, <1>4, <1>5
<1>6. CASE ~(n > 0) /\ table[entry[c].key] # c
    BY <1>1, <1>2, <1>3, <1>4, <1>6
<1>7. CASE ~(n > 0) /\ table[entry[c].key] = c
    BY <1>1, <1>2, <1>3, <1>4, <1>7
<1> QED
    BY <1>5, <1>6, <1>7

\* Where c and k come from: an offered client and its key.
LEMMA TableFacts ==
    ASSUME FectunInv
    PROVE  /\ 0 \notin Clients /\ None \notin Clients
           /\ \A k \in Keys : table[k] # 0 => /\ table[k] \in Clients
                                              /\ entry[table[k]].st = "live"
                                              /\ entry[table[k]].key = k
           /\ \A c \in Clients : /\ entry[c] \in EntryType
                                 /\ entry[c].st # "none" => entry[c].key \in Keys
                                 /\ entry[c].refs = Cardinality(Users(c))
BY FectunAssumption DEF FectunInv, FectunTypes, OfferedLive, KeysKnown, Referenced, Clients

\* A client that has a stream is live.
LEMMA UsedLive ==
    ASSUME FectunInv, NEW c \in Clients, Users(c) # {}
    PROVE  entry[c].st = "live"
BY DEF FectunInv, Dialed, Users

(***************************************************************************)
(* DialFectun is Acquire.                                                  *)
(***************************************************************************)
LEMMA DialFectunAcquires ==
    ASSUME FectunInv, NEW d \in Dialers, DialFectun(d)
    PROVE  FectunInv' /\ Abs!Next
<1>0. PICK k \in Keys :
          /\ k = dial[d].key /\ dial[d].pc = "try" /\ dial[d] \in DialType
          /\ entry \in [Clients -> EntryType] /\ table \in [Keys -> 0..MaxClients]
          /\ dial \in [Dialers -> DialType]
    BY DEF FectunInv, FectunTypes, Dialed, DialFectun
<1>1. PICK c \in Clients :
          /\ c = IF table[k] # 0 THEN table[k] ELSE Cardinality(Created) + 1
          /\ entry' = [entry EXCEPT ![c] =
                Taken(IF table[k] # 0 THEN @ ELSE [NoEntry EXCEPT !.st = "live", !.key = k])]
          /\ table' = [table EXCEPT ![k] = c]
          /\ dial' = [dial EXCEPT ![d].pc = "handshake", ![d].ent = c]
    BY <1>0 DEF DialFectun
<1>2. 0 \notin Clients /\ None \notin Clients /\ c \in 1..MaxClients /\ c \in 0..MaxClients
    BY FectunAssumption DEF Clients
<1>3. PICK n \in 0..MaxClients : Created = 1..n
    BY DEF FectunInv, InOrderMade
<1>4. table[k] = 0 => c = n + 1
    <2>1. Cardinality(1..n) = n
        BY FS_Interval
    <2> QED
        BY <1>1, <1>3, <2>1
<1>5. table[k] = 0 => entry[c].st = "none" /\ Users(c) = {} /\ entry[c].refs = 0
    <2> SUFFICES ASSUME table[k] = 0
                 PROVE  entry[c].st = "none" /\ Users(c) = {} /\ entry[c].refs = 0
        OBVIOUS
    <2>1. c \notin Created
        BY <1>3, <1>4
    <2>2. entry[c].st = "none"
        BY <2>1 DEF Created
    <2>3. Users(c) = {}
        BY <2>2, UsedLive
    <2> QED
        BY <2>2, <2>3, TableFacts, FS_EmptySet, ZenonT(60)
<1>6. table[k] # 0 => entry[c].st = "live" /\ entry[c].key = k
    BY <1>0, <1>1, TableFacts
<1>7. /\ entry'[c] \in EntryType /\ entry'[c].st = "live" /\ entry'[c].key = k
      /\ entry'[c].refs = entry[c].refs + 1
      /\ entry' = [entry EXCEPT ![c] = entry'[c]]
    <2>1. PICK e \in EntryType :
              /\ e.st = "live" /\ e.key = k /\ e.refs = entry[c].refs
              /\ e = IF table[k] # 0 THEN entry[c] ELSE [NoEntry EXCEPT !.st = "live", !.key = k]
        BY <1>0, <1>5, <1>6, NewEffect
    <2>2. entry' = [entry EXCEPT ![c] = Taken(e)]
        BY <1>1, <2>1
    <2> QED
        BY <1>0, <2>1, <2>2, TakenEffect
<1>8. /\ dial'[d] \in DialType /\ dial'[d].pc = "handshake" /\ dial'[d].ent = c
      /\ dial' = [dial EXCEPT ![d] = dial'[d]]
    <2>1. ASSUME NEW r \in DialType
          PROVE  LET s == [r EXCEPT !.pc = "handshake", !.ent = c] IN
                 s \in DialType /\ s.pc = "handshake" /\ s.ent = c
        BY <1>2 DEF DialType, DialPCs, Streaming
    <2>2. dial'[d] = [dial[d] EXCEPT !.pc = "handshake", !.ent = c]
        BY <1>0, <1>1
    <2>3. dial' = [dial EXCEPT ![d] = dial'[d]]
        BY <1>0, <1>1
    <2> QED
        BY <1>0, <2>1, <2>2, <2>3
<1>9. /\ \A b \in Clients \ {c} : entry'[b] = entry[b]
      /\ \A e \in Dialers \ {d} : dial'[e] = dial[e]
      /\ \A j \in Keys \ {k} : table'[j] = table[j]
      /\ table'[k] = c
    BY <1>0, <1>1, <1>7, <1>8
<1>10. FectunTypes'
    <2>1. peer' = peer /\ daemon' = daemon /\ table' = [table EXCEPT ![k] = c]
        BY <1>1 DEF DialFectun, host
    <2> QED
        BY <1>0, <1>2, <1>7, <1>8, <2>1 DEF FectunTypes, FectunInv
<1>11. \A b \in Clients : entry[b].st = "live" => entry'[b].st = "live" /\ entry'[b].key = entry[b].key
    BY <1>5, <1>6, <1>7, <1>9
<1>12. Dialed'
    BY <1>7, <1>8, <1>9, <1>11 DEF FectunInv, Dialed, Streaming
<1>13. OfferedLive'
    BY <1>7, <1>9, <1>11, TableFacts DEF OfferedLive
<1>14. KeysKnown' /\ Timed'
    BY <1>0, <1>7, <1>9 DEF FectunInv, KeysKnown, Timed
<1>15. Referenced'
    <2>1. d \notin Users(c) /\ Users(c) \in SUBSET Dialers
        BY <1>0 DEF Users, Streaming
    <2>2. Users(c)' = Users(c) \union {d}
        BY <1>8, <1>9 DEF Users, Streaming
    <2>3. \A b \in Clients \ {c} : Users(b)' = Users(b)
        BY <1>0, <1>8, <1>9 DEF Users, Streaming
    <2>4. Cardinality(Users(c)') = entry[c].refs + 1
        BY <2>1, <2>2, UsersCounted, TableFacts
    <2> QED
        BY <1>7, <1>9, <2>3, <2>4 DEF FectunInv, Referenced
<1>16. InOrderMade'
    <2>1. CASE table[k] # 0
        <3>1. Created' = Created
            BY <1>6, <1>7, <1>9, <2>1 DEF Created
        <3> QED
            BY <3>1 DEF FectunInv, InOrderMade
    <2>2. CASE table[k] = 0
        <3>1. Created' = Created \union {n + 1}
            BY <1>4, <1>7, <1>9, <2>2 DEF Created
        <3>2. n + 1 \in 0..MaxClients /\ 1..(n + 1) = 1..n \union {n + 1}
            BY <1>2, <1>4, <2>2
        <3> QED
            BY <1>3, <3>1, <3>2 DEF InOrderMade
    <2> QED
        BY <2>1, <2>2
<1>17. FectunInv'
    BY <1>10, <1>12, <1>13, <1>14, <1>15, <1>16 DEF FectunInv
<1>18. Abs!Acquire(d, k)
    <2>1. Holding[d] = None
        BY <1>0 DEF Holding, Streaming
    <2>2. c \in Clients \ Ended
        BY <1>5, <1>6 DEF Ended
    <2>3. \/ c = Offered[k]
          \/ /\ Offered[k] = None
             /\ ~\E e \in Dialers : Holding[e] = c
             /\ \A j \in Keys : Offered[j] # c
        <3>1. CASE table[k] # 0
            BY <1>0, <1>1, <3>1 DEF Offered
        <3>2. CASE table[k] = 0
            <4>1. \A e \in Dialers : Holding[e] # c
                BY <1>2, <1>5, <3>2 DEF Holding, Users
            <4>2. \A j \in Keys : table[j] # c
                BY <1>2, <1>5, <3>2, TableFacts
            <4> QED
                BY <1>0, <1>2, <3>2, <4>1, <4>2 DEF Offered
        <3> QED
            BY <3>1, <3>2
    <2>4. Offered' = [Offered EXCEPT ![k] = c]
        <3>1. c # 0
            BY <1>2
        <3>2. \A j \in Keys : (IF table'[j] = 0 THEN None ELSE table'[j])
                               = IF j = k THEN c ELSE IF table[j] = 0 THEN None ELSE table[j]
            BY <1>9, <3>1
        <3> QED
            BY <3>2 DEF Offered
    <2>5. Holding' = [Holding EXCEPT ![d] = c]
        BY <1>8, <1>9 DEF Holding, Streaming
    <2>6. Ended' = Ended
        BY <1>5, <1>6, <1>7, <1>9 DEF Ended
    <2> QED
        BY <2>1, <2>2, <2>3, <2>4, <2>5, <2>6
        DEF Abs!Acquire, Abs!InUse, Offered, Holding, Ended, Streaming
<1> QED
    BY <1>0, <1>17, <1>18 DEF Abs!Next

(***************************************************************************)
(* HandshakeFails and Close are Release.                                   *)
(***************************************************************************)
LEMMA StreamReleases ==
    ASSUME FectunInv, NEW d \in Dialers, HandshakeFails(d) \/ Close(d)
    PROVE  FectunInv' /\ Abs!Next
<1>0. PICK c \in Clients :
          /\ c = dial[d].ent /\ dial[d].pc \in Streaming /\ dial[d] \in DialType
          /\ entry[c].st = "live"
          /\ entry \in [Clients -> EntryType] /\ table \in [Keys -> 0..MaxClients]
          /\ dial \in [Dialers -> DialType]
    BY DEF FectunInv, FectunTypes, Dialed, HandshakeFails, Close, Streaming
<1>1. /\ entry' = [entry EXCEPT ![c] = Released(c)]
      /\ table' = table /\ peer' = peer /\ daemon' = daemon
    BY <1>0 DEF HandshakeFails, Close, host
<1>2. /\ dial'[d] \in DialType /\ dial'[d].pc \in {"idle", "evict"}
      /\ dial'[d].pc = "evict" => dial'[d].ent = c
      /\ dial' = [dial EXCEPT ![d] = dial'[d]]
    <2>1. CASE HandshakeFails(d)
        <3>1. ASSUME NEW r \in DialType
              PROVE  LET s == [r EXCEPT !.pc = "evict"] IN
                     s \in DialType /\ s.pc = "evict" /\ s.ent = r.ent
            BY DEF DialType, DialPCs
        <3>2. dial' = [dial EXCEPT ![d].pc = "evict"]
            BY <2>1 DEF HandshakeFails
        <3>3. dial'[d] = [dial[d] EXCEPT !.pc = "evict"] /\ dial' = [dial EXCEPT ![d] = dial'[d]]
            BY <1>0, <3>2
        <3> QED
            BY <1>0, <3>1, <3>3
    <2>2. CASE Close(d)
        <3>1. NoDial \in DialType /\ NoDial.pc = "idle"
            BY FectunAssumption DEF NoDial, DialType, DialPCs
        <3> QED
            BY <1>0, <2>2, <3>1 DEF Close
    <2> QED
        BY <2>1, <2>2
<1>3. d \in Users(c) /\ Users(c) \in SUBSET Dialers
    BY <1>0 DEF Users
<1>4. /\ entry[c] \in EntryType /\ entry[c].refs = Cardinality(Users(c)) /\ entry[c].refs > 0
      /\ entry[c].refs \in Nat /\ entry[c].key \in Keys
    <2>1. Cardinality(Users(c)) \in Nat /\ (Cardinality(Users(c)) = 0 <=> Users(c) = {})
        BY <1>3, UsersCounted
    <2>2. entry[c].refs = Cardinality(Users(c)) /\ entry[c] \in EntryType /\ entry[c].key \in Keys
        BY <1>0, TableFacts
    <2> QED
        BY <1>3, <2>1, <2>2
<1>5. /\ entry'[c] \in EntryType /\ entry'[c].key = entry[c].key
      /\ entry'[c].refs = entry[c].refs - 1
      /\ entry'[c].st = IF entry[c].refs > 1 \/ table[entry[c].key] = c THEN "live" ELSE "closed"
    BY <1>0, <1>1, <1>4, ReleasedEffect
<1>6. /\ \A b \in Clients \ {c} : entry'[b] = entry[b]
      /\ \A e \in Dialers \ {d} : dial'[e] = dial[e]
    BY <1>0, <1>1, <1>2
<1>7. FectunTypes'
    <2>1. entry' \in [Clients -> EntryType]
        BY <1>0, <1>1, <1>5
    <2> QED
        BY <1>0, <1>1, <1>2, <2>1 DEF FectunTypes, FectunInv
\* The other users, and whether the client is in the table.
<1>8. Users(c)' = Users(c) \ {d} /\ \A b \in Clients \ {c} : Users(b)' = Users(b)
    BY <1>0, <1>2, <1>6 DEF Users, Streaming
<1>9. entry[c].refs > 1 <=> \E e \in Dialers \ {d} : dial[e].pc \in Streaming /\ dial[e].ent = c
    <2>1. Cardinality(Users(c) \ {d}) = entry[c].refs - 1
        BY <1>3, <1>4, UsersCounted
    <2>2. entry[c].refs - 1 = 0 <=> Users(c) \ {d} = {}
        <3>1. Users(c) \ {d} \in SUBSET Dialers
            BY <1>3
        <3> QED
            BY <2>1, <3>1, UsersCounted
    <2> QED
        BY <1>4, <2>2 DEF Users
<1>10. table[entry[c].key] = c <=> \E k \in Keys : table[k] = c
    BY <1>4, TableFacts
<1>11. \A e \in Dialers : dial'[e].pc \in Streaming => /\ e # d /\ dial'[e] = dial[e]
                                                       /\ dial[e].ent = c => entry'[c].st = "live"
    BY <1>2, <1>5, <1>6, <1>9 DEF Streaming
<1>12. Dialed'
    BY <1>2, <1>5, <1>6, <1>11 DEF FectunInv, Dialed, Streaming
<1>13. OfferedLive'
    BY <1>1, <1>5, <1>6, <1>10, TableFacts DEF OfferedLive
<1>14. KeysKnown' /\ Timed'
    BY <1>4, <1>5, <1>6 DEF FectunInv, KeysKnown, Timed
<1>15. Referenced'
    BY <1>3, <1>4, <1>5, <1>6, <1>8, UsersCounted DEF FectunInv, Referenced
<1>16. InOrderMade'
    <2>1. Created' = Created
        BY <1>0, <1>5, <1>6 DEF Created
    <2> QED
        BY <2>1 DEF FectunInv, InOrderMade
<1>17. FectunInv'
    BY <1>7, <1>12, <1>13, <1>14, <1>15, <1>16 DEF FectunInv
<1>18. Abs!Release(d)
    <2>0. None \notin Clients /\ 0 \notin Clients
        BY TableFacts
    <2>1. Holding[d] = c /\ c # None
        BY <1>0, <2>0 DEF Holding
    <2>2. Holding' = [Holding EXCEPT ![d] = None]
        BY <1>0, <1>2, <1>6 DEF Holding, Streaming
    <2>3. (\A e \in Dialers \ {d} : Holding[e] # c) <=> ~(entry[c].refs > 1)
        BY <1>9, <2>0 DEF Holding
    <2>4. (\A k \in Keys : Offered[k] # c) <=> table[entry[c].key] # c
        BY <1>10, <2>0 DEF Offered
    <2>5. Ended' = IF (\A e \in Dialers \ {d} : Holding[e] # c) /\ (\A k \in Keys : Offered[k] # c)
                   THEN Ended \union {c} ELSE Ended
        <3>1. Ended' = IF entry'[c].st = "closed" THEN Ended \union {c} ELSE Ended
            BY <1>0, <1>5, <1>6 DEF Ended
        <3> QED
            BY <1>5, <2>3, <2>4, <3>1
    <2>6. Offered' = Offered
        BY <1>1 DEF Offered
    <2> QED
        BY <2>1, <2>2, <2>5, <2>6
        DEF Abs!Release, Offered, Holding, Ended, Streaming
<1> QED
    BY <1>17, <1>18 DEF Abs!Next

(***************************************************************************)
(* Evict, and a timer that finds its client unused, are Withdraw.          *)
(***************************************************************************)
\* Taking a client out of the table, and ending it if it has no stream.
LEMMA Withdrawn ==
    ASSUME FectunInv, FectunTypes', Dialed', NEW k \in Keys, NEW c \in Clients, table[k] = c,
           table' = [table EXCEPT ![k] = 0],
           \A b \in Clients \ {c} : entry'[b] = entry[b],
           entry'[c].key = k, entry'[c].refs = entry[c].refs,
           IF entry[c].refs = 0 THEN entry'[c].st \in {"closing", "closed"}
                                ELSE entry'[c].st = "live",
           \A d \in Dialers : \/ dial'[d] = dial[d]
                              \/ dial[d].pc \notin Streaming /\ dial'[d].pc \notin Streaming
    PROVE  FectunInv' /\ Abs!Next
<1>0. 0 \notin Clients /\ None \notin Clients /\ table \in [Keys -> 0..MaxClients]
      /\ entry[c].st = "live" /\ entry[c].key = k /\ c # 0 /\ c # None
    BY TableFacts DEF FectunInv, FectunTypes
<1>1. table'[k] = 0 /\ \A j \in Keys \ {k} : table'[j] = table[j]
    BY <1>0
<1>2. OfferedLive'
    BY <1>0, <1>1, TableFacts DEF OfferedLive
<1>3. KeysKnown' /\ Timed'
    BY <1>0 DEF FectunInv, KeysKnown, Timed
<1>4. \A b \in Clients : Users(b)' = Users(b)
    BY DEF Users
<1>5. Referenced'
    BY <1>4 DEF FectunInv, Referenced
<1>6. Created' = Created
    BY <1>0 DEF Created
<1>7. FectunInv'
    BY <1>2, <1>3, <1>5, <1>6 DEF FectunInv, InOrderMade
<1>8. Abs!Withdraw(k)
    <2>1. Offered[k] = c /\ c # None
        BY <1>0 DEF Offered
    <2>2. Offered' = [Offered EXCEPT ![k] = None]
        <3>1. \A j \in Keys : (IF table'[j] = 0 THEN None ELSE table'[j])
                               = IF j = k THEN None ELSE IF table[j] = 0 THEN None ELSE table[j]
            BY <1>1
        <3>2. Offered' = [j \in Keys |-> IF j = k THEN None
                                         ELSE IF table[j] = 0 THEN None ELSE table[j]]
            BY <3>1 DEF Offered
        <3>3. [Offered EXCEPT ![k] = None] = [j \in Keys |-> IF j = k THEN None ELSE Offered[j]]
            BY DEF Offered
        <3>4. \A j \in Keys : Offered[j] = IF table[j] = 0 THEN None ELSE table[j]
            BY DEF Offered
        <3> QED
            BY <3>2, <3>3, <3>4
    <2>3. Holding' = Holding
        <3>1. \A d \in Dialers : (IF dial'[d].pc \in Streaming THEN dial'[d].ent ELSE None)
                                 = IF dial[d].pc \in Streaming THEN dial[d].ent ELSE None
            OBVIOUS
        <3> QED
            BY <3>1 DEF Holding
    <2>4. (\E d \in Dialers : Holding[d] = c) <=> entry[c].refs # 0
        <3>1. (\E d \in Dialers : Holding[d] = c) <=> Users(c) # {}
            BY <1>0 DEF Holding, Users
        <3>2. Users(c) \in SUBSET Dialers
            BY DEF Users
        <3>3. CASE Dialers = {}
            <4>1. Users(c) = {}
                BY <3>2, <3>3
            <4> QED
                BY <3>1, <4>1, TableFacts, FS_EmptySet
        <3>4. ASSUME NEW d \in Dialers
              PROVE  Cardinality(Users(c)) = 0 <=> Users(c) = {}
            BY <3>2, UsersCounted
        <3> QED
            BY <3>1, <3>3, <3>4, TableFacts
    <2>5. Ended' = IF \E d \in Dialers : Holding[d] = c THEN Ended ELSE Ended \union {c}
        <3>1. Ended' = IF entry[c].refs = 0 THEN Ended \union {c} ELSE Ended
            BY <1>0 DEF Ended
        <3> QED
            BY <2>4, <3>1
    <2> QED
        BY <2>1, <2>2, <2>3, <2>5
        DEF Abs!Withdraw, Abs!InUse, Offered, Holding, Ended, Streaming
<1> QED
    BY <1>7, <1>8 DEF Abs!Next

\* evict: the client a handshake failed on is not given to anybody else.
LEMMA EvictWithdraws ==
    ASSUME FectunInv, NEW d \in Dialers, Evict(d)
    PROVE  FectunInv' /\ (Abs!Next \/ UNCHANGED Abs!vars)
<1>0. PICK c \in Clients, k \in Keys :
          /\ c = dial[d].ent /\ k = entry[c].key /\ dial[d].pc = "evict" /\ dial[d] \in DialType
          /\ entry \in [Clients -> EntryType] /\ table \in [Keys -> 0..MaxClients]
          /\ dial \in [Dialers -> DialType]
    BY DEF FectunInv, FectunTypes, Dialed, KeysKnown, Evict
<1>1. /\ dial'[d] \in DialType /\ dial'[d].pc \in {"idle", "refresh"}
      /\ dial' = [dial EXCEPT ![d] = dial'[d]]
    <2>1. NoDial \in DialType /\ NoDial.pc = "idle"
        BY FectunAssumption DEF NoDial, DialType, DialPCs
    <2>2. PICK n \in Nat : n = dial[d].phase + 1
        BY <1>0 DEF DialType
    <2>3. ASSUME NEW r \in DialType
          PROVE  LET s == [r EXCEPT !.pc = "refresh", !.phase = n, !.ent = 0] IN
                 s \in DialType /\ s.pc = "refresh"
        <3>1. 0 \in 0..MaxClients
            BY FectunAssumption
        <3> QED
            BY <3>1 DEF DialType, DialPCs
    <2>4. After(d) \in DialType /\ After(d).pc \in {"idle", "refresh"}
        BY <1>0, <2>1, <2>2, <2>3 DEF After
    <2> QED
        BY <1>0, <2>4 DEF Evict
<1>2. \A e \in Dialers \ {d} : dial'[e] = dial[e]
    BY <1>0, <1>1
<1>3. dial[d].pc \notin Streaming /\ dial'[d].pc \notin Streaming \union {"evict"}
      /\ dial'[d].pc # "try"
    BY <1>0, <1>1 DEF Streaming
<1>4. CASE table[k] # c
    <2>1. UNCHANGED <<entry, table>> /\ peer' = peer /\ daemon' = daemon
        BY <1>0, <1>4 DEF Evict, host
    <2>2. FectunTypes'
        BY <1>0, <1>1, <2>1 DEF FectunTypes, FectunInv
    <2> QED
        BY <1>2, <1>3, <2>1, <2>2, CalmKeeps
<1>5. CASE table[k] = c
    <2>1. /\ table' = [table EXCEPT ![k] = 0] /\ peer' = peer /\ daemon' = daemon
          /\ entry' = IF entry[c].refs = 0
                      THEN [entry EXCEPT ![c].idle = FALSE, ![c].st = "closed"]
                      ELSE entry
        BY <1>0, <1>5 DEF Evict, host
    <2>2. entry[c].st = "live" /\ entry[c] \in EntryType /\ c # 0
        BY <1>0, <1>5, TableFacts
    <2>3. ASSUME NEW e \in EntryType
          PROVE  LET f == [e EXCEPT !.idle = FALSE, !.st = "closed"] IN
                 f \in EntryType /\ f.st = "closed" /\ f.key = e.key /\ f.refs = e.refs
        BY DEF EntryType, EntryStates
    <2>4. /\ entry'[c] \in EntryType /\ entry'[c].key = k /\ entry'[c].refs = entry[c].refs
          /\ entry'[c].st = IF entry[c].refs = 0 THEN "closed" ELSE "live"
          /\ entry' = [entry EXCEPT ![c] = entry'[c]]
        <3>1. CASE entry[c].refs = 0
            <4>1. entry' = [entry EXCEPT ![c] = [entry[c] EXCEPT !.idle = FALSE, !.st = "closed"]]
                BY <1>0, <2>1, <3>1
            <4>2. entry'[c] = [entry[c] EXCEPT !.idle = FALSE, !.st = "closed"]
                  /\ entry' = [entry EXCEPT ![c] = entry'[c]]
                BY <1>0, <4>1
            <4>3. /\ entry'[c] \in EntryType /\ entry'[c].st = "closed"
                  /\ entry'[c].key = entry[c].key /\ entry'[c].refs = entry[c].refs
                BY <2>2, <2>3, <4>2
            <4> QED
                BY <1>0, <3>1, <4>2, <4>3
        <3>2. CASE entry[c].refs # 0
            BY <1>0, <2>1, <2>2, <3>2
        <3> QED
            BY <3>1, <3>2
    <2>5. \A b \in Clients \ {c} : entry'[b] = entry[b]
        BY <1>0, <2>4
    <2>6. FectunTypes'
        <3>1. 0 \in 0..MaxClients
            BY FectunAssumption
        <3>2. table' \in [Keys -> 0..MaxClients]
            BY <1>0, <2>1, <3>1
        <3>3. entry' \in [Clients -> EntryType]
            BY <1>0, <2>4
        <3> QED
            BY <1>0, <1>1, <2>1, <3>2, <3>3 DEF FectunTypes, FectunInv
    <2>7. Dialed'
        <3>1. \A e \in Dialers \ {d} : dial[e].pc \in Streaming /\ dial[e].ent = c => entry[c].refs # 0
            <4> SUFFICES ASSUME NEW e \in Dialers \ {d}, dial[e].pc \in Streaming, dial[e].ent = c
                         PROVE  entry[c].refs # 0
                OBVIOUS
            <4>1. Users(c) \in SUBSET Dialers /\ Users(c) # {}
                BY DEF Users
            <4>2. Cardinality(Users(c)) # 0
                BY <4>1, UsersCounted
            <4> QED
                BY <4>2, TableFacts
        <3> QED
            BY <1>2, <1>3, <2>4, <2>5, <3>1 DEF FectunInv, Dialed, Streaming
    <2>8. \A e \in Dialers : \/ dial'[e] = dial[e]
                             \/ dial[e].pc \notin Streaming /\ dial'[e].pc \notin Streaming
        BY <1>2, <1>3
    <2>9. IF entry[c].refs = 0 THEN entry'[c].st \in {"closing", "closed"}
                               ELSE entry'[c].st = "live"
        BY <2>4
    <2> QED
        BY <1>5, <2>1, <2>4, <2>5, <2>6, <2>7, <2>8, <2>9, Withdrawn
<1> QED
    BY <1>4, <1>5

\* A timer's callback that gets the lock before its client is used again.
LEMMA TimerWithdraws ==
    ASSUME FectunInv, NEW c \in Clients, TimerRuns(c)
    PROVE  FectunInv' /\ (Abs!Next \/ UNCHANGED Abs!vars)
<1>0. /\ entry \in [Clients -> EntryType] /\ table \in [Keys -> 0..MaxClients]
      /\ entry[c] \in EntryType
    BY DEF FectunInv, FectunTypes
<1>1. PICK n \in Nat : n = entry[c].late - 1
    BY <1>0 DEF TimerRuns, EntryType
<1>2. ASSUME NEW e \in EntryType
      PROVE  /\ LET f == [e EXCEPT !.late = n] IN
                f \in EntryType /\ f.st = e.st /\ f.key = e.key /\ f.refs = e.refs
             /\ LET f == [e EXCEPT !.late = n, !.st = "closing"] IN
                f \in EntryType /\ f.st = "closing" /\ f.key = e.key /\ f.refs = e.refs
    BY DEF EntryType, EntryStates
<1>3. dial' = dial /\ peer' = peer /\ daemon' = daemon
    BY DEF TimerRuns, host
<1>4. CASE Spared(c)
    <2>1. entry' = [entry EXCEPT ![c] = [entry[c] EXCEPT !.late = n]] /\ table' = table
        BY <1>0, <1>1, <1>4 DEF TimerRuns
    <2>2. entry'[c] = [entry[c] EXCEPT !.late = n] /\ \A b \in Clients \ {c} : entry'[b] = entry[b]
        BY <1>0, <2>1
    <2>3. entry'[c] \in EntryType /\ entry'[c].st = entry[c].st /\ entry'[c].key = entry[c].key
          /\ entry'[c].refs = entry[c].refs
        BY <1>0, <1>2, <2>2
    <2>4. entry' \in [Clients -> EntryType]
        BY <1>0, <2>1, <2>2, <2>3
    <2>5. FectunTypes'
        BY <1>3, <2>1, <2>4 DEF FectunTypes, FectunInv
    <2>6. entry[c].st # "none"
        BY DEF TimerRuns, FectunInv, Timed
    <2> QED
        BY <1>3, <2>1, <2>2, <2>3, <2>5, <2>6, TimingKeeps
<1>5. CASE ~Spared(c)
    <2>1. PICK k \in 0..MaxKeys : k = entry[c].key
        BY <1>0 DEF EntryType
    <2>2. entry[c].refs = 0 /\ table[k] = c
        BY <1>0, <1>5, <2>1 DEF Spared, EntryType
    <2>3. entry' = [entry EXCEPT ![c] = [entry[c] EXCEPT !.late = n, !.st = "closing"]]
          /\ table' = [table EXCEPT ![k] = 0]
        BY <1>0, <1>1, <1>5, <2>1 DEF TimerRuns
    <2>4. /\ entry'[c] = [entry[c] EXCEPT !.late = n, !.st = "closing"]
          /\ \A b \in Clients \ {c} : entry'[b] = entry[b]
        BY <1>0, <2>3
    <2>5. entry'[c] \in EntryType /\ entry'[c].st = "closing" /\ entry'[c].key = k
          /\ entry'[c].refs = entry[c].refs
        BY <1>0, <1>2, <2>1, <2>4
    <2>6. k \in Keys
        BY <2>1, TableFacts DEF TimerRuns, FectunInv, Timed
    <2>7. FectunTypes'
        <3>1. 0 \in 0..MaxClients
            BY FectunAssumption
        <3>2. table' \in [Keys -> 0..MaxClients] /\ entry' \in [Clients -> EntryType]
            BY <1>0, <2>3, <2>4, <2>5, <3>1
        <3> QED
            BY <1>3, <3>2 DEF FectunTypes, FectunInv
    <2>8. Dialed'
        <3>1. \A d \in Dialers : dial[d].pc \in Streaming => dial[d].ent # c
            <4> SUFFICES ASSUME NEW d \in Dialers, dial[d].pc \in Streaming, dial[d].ent = c
                         PROVE  FALSE
                OBVIOUS
            <4>1. Users(c) \in SUBSET Dialers /\ Users(c) # {}
                BY DEF Users
            <4>2. Cardinality(Users(c)) # 0
                BY <4>1, UsersCounted
            <4> QED
                BY <2>2, <4>2, TableFacts
        <3> QED
            BY <1>3, <2>4, <2>5, <3>1 DEF FectunInv, Dialed
    <2>9. \A d \in Dialers : dial'[d] = dial[d]
        BY <1>3
    <2> QED
        BY <2>2, <2>3, <2>4, <2>5, <2>6, <2>7, <2>8, <2>9, Withdrawn
<1> QED
    BY <1>4, <1>5

(***************************************************************************)
(* The other steps change nothing SharedClient sees.                       *)
(***************************************************************************)
\* A handshake that succeeds, a timer that expires, a client that ends.
LEMMA ClientSteps ==
    ASSUME FectunInv,
           \/ \E d \in Dialers : HandshakeOk(d)
           \/ \E c \in Clients : TimerFires(c) \/ CloseIdle(c)
    PROVE  FectunInv' /\ UNCHANGED Abs!vars
<1>0. /\ entry \in [Clients -> EntryType] /\ table \in [Keys -> 0..MaxClients]
      /\ dial \in [Dialers -> DialType] /\ daemon.epoch \in Nat
    BY DEF FectunInv, FectunTypes
<1>1. ASSUME NEW d \in Dialers, HandshakeOk(d) PROVE FectunInv' /\ UNCHANGED Abs!vars
    <2>1. PICK c \in Clients, v \in Nat :
              /\ c = dial[d].ent /\ v = daemon.epoch /\ dial[d].pc = "handshake"
              /\ dial[d] \in DialType /\ entry[c] \in EntryType
        BY <1>0, <1>1 DEF HandshakeOk, FectunInv, Dialed, Streaming
    <2>2. /\ entry' = [entry EXCEPT ![c] = [entry[c] EXCEPT !.est = v]]
          /\ dial' = [dial EXCEPT ![d] = [NoDial EXCEPT !.pc = "up", !.ent = c]]
          /\ table' = table /\ peer' = peer /\ daemon' = daemon
        BY <1>0, <1>1, <2>1 DEF HandshakeOk, host
    <2>3. ASSUME NEW e \in EntryType
          PROVE  LET f == [e EXCEPT !.est = v] IN
                 /\ f \in EntryType /\ f.st = e.st /\ f.key = e.key /\ f.refs = e.refs
                 /\ f.idle = e.idle /\ f.late = e.late
        BY DEF EntryType
    <2>4. /\ entry'[c] = [entry[c] EXCEPT !.est = v]
          /\ \A b \in Clients \ {c} : entry'[b] = entry[b]
        BY <1>0, <2>2
    <2>5. /\ entry'[c] \in EntryType /\ entry'[c].st = entry[c].st /\ entry'[c].key = entry[c].key
          /\ entry'[c].refs = entry[c].refs
          /\ entry'[c].idle = entry[c].idle /\ entry'[c].late = entry[c].late
        BY <2>1, <2>3, <2>4
    <2>6. /\ dial'[d] \in DialType /\ dial'[d].pc = "up" /\ dial'[d].ent = c
          /\ \A e \in Dialers \ {d} : dial'[e] = dial[e]
        <3>1. NoDial \in DialType
            BY FectunAssumption DEF NoDial, DialType, DialPCs
        <3>2. c \in 0..MaxClients
            BY DEF Clients
        <3>3. ASSUME NEW r \in DialType
              PROVE  LET s == [r EXCEPT !.pc = "up", !.ent = c] IN
                     s \in DialType /\ s.pc = "up" /\ s.ent = c
            BY <3>2 DEF DialType, DialPCs, Streaming
        <3> QED
            BY <1>0, <2>2, <3>1, <3>3
    <2>7. FectunTypes'
        <3>1. entry' \in [Clients -> EntryType] /\ dial' \in [Dialers -> DialType]
            BY <1>0, <2>2, <2>4, <2>5, <2>6
        <3> QED
            BY <2>2, <3>1 DEF FectunInv, FectunTypes
    <2>8. \A e \in Dialers : \/ dial'[e] = dial[e]
                             \/ dial[e].pc = "handshake" /\ dial'[e].pc = "up" /\ dial'[e].ent = dial[e].ent
        BY <2>1, <2>6
    <2>9. entry'[c].idle \/ entry'[c].late > 0 => entry[c].st # "none"
        BY <2>5 DEF FectunInv, Timed
    <2> QED
        BY <2>2, <2>4, <2>5, <2>7, <2>8, <2>9, TimingKeeps
<1>2. ASSUME NEW c \in Clients, TimerFires(c) \/ CloseIdle(c)
      PROVE  FectunInv' /\ UNCHANGED Abs!vars
    <2>1. table' = table /\ peer' = peer /\ daemon' = daemon /\ dial' = dial
        BY <1>2 DEF TimerFires, CloseIdle, host
    <2>2. entry[c] \in EntryType /\ entry[c].late \in Nat
        BY <1>0 DEF EntryType
    <2>3. PICK n \in Nat : n = entry[c].late + 1
        BY <2>2
    <2>4. ASSUME NEW e \in EntryType
          PROVE  /\ LET f == [e EXCEPT !.idle = FALSE, !.late = n] IN
                    f \in EntryType /\ f.st = e.st /\ f.key = e.key /\ f.refs = e.refs
                 /\ LET f == [e EXCEPT !.st = "closed"] IN
                    f \in EntryType /\ f.st = "closed" /\ f.key = e.key /\ f.refs = e.refs
        BY DEF EntryType, EntryStates
    <2>5. /\ entry'[c] \in EntryType /\ entry'[c].key = entry[c].key
          /\ entry'[c].refs = entry[c].refs
          /\ \/ entry'[c].st = entry[c].st
             \/ entry[c].st = "closing" /\ entry'[c].st = "closed"
          /\ entry' = [entry EXCEPT ![c] = entry'[c]]
        <3>1. CASE TimerFires(c)
            <4>1. /\ entry'[c] = [entry[c] EXCEPT !.idle = FALSE, !.late = n]
                  /\ entry' = [entry EXCEPT ![c] = entry'[c]]
                BY <1>0, <2>3, <3>1 DEF TimerFires
            <4> QED
                BY <2>2, <2>4, <4>1
        <3>2. CASE CloseIdle(c)
            <4>1. /\ entry'[c] = [entry[c] EXCEPT !.st = "closed"]
                  /\ entry' = [entry EXCEPT ![c] = entry'[c]]
                BY <1>0, <3>2 DEF CloseIdle
            <4>2. entry[c].st = "closing"
                BY <3>2 DEF CloseIdle
            <4>3. /\ entry'[c] \in EntryType /\ entry'[c].st = "closed"
                  /\ entry'[c].key = entry[c].key /\ entry'[c].refs = entry[c].refs
                BY <2>2, <2>4, <4>1
            <4> QED
                BY <4>1, <4>2, <4>3
        <3> QED
            BY <1>2, <3>1, <3>2
    <2>6. \A b \in Clients \ {c} : entry'[b] = entry[b]
        BY <1>0, <2>5
    <2>7. entry[c].st # "none"
        BY <1>2 DEF FectunInv, Timed, TimerFires, CloseIdle
    <2>8. FectunTypes'
        <3>1. entry' \in [Clients -> EntryType]
            BY <1>0, <2>5
        <3> QED
            BY <2>1, <3>1 DEF FectunInv, FectunTypes
    <2> QED
        BY <2>1, <2>5, <2>6, <2>7, <2>8, TimingKeeps
<1> QED
    BY <1>1, <1>2

\* The steps of a dial that has no stream: it begins, waits for the lock,
\* bootstraps or restarts the daemon, or gives up.
LEMMA DialSteps ==
    ASSUME FectunInv, NEW d \in Dialers,
           Current(d) \/ Refresh(d) \/ StopDaemon(d) \/ FectunUp(d) \/ BootFails(d)
    PROVE  FectunInv' /\ UNCHANGED Abs!vars
<1>0. /\ dial \in [Dialers -> DialType] /\ dial[d] \in DialType
      /\ peer \in [key : 0..MaxKeys, gen : Nat]
      /\ daemon \in [up : BOOLEAN, key : 0..MaxKeys, epoch : Nat]
      /\ peer.key \in 0..MaxKeys /\ peer.gen \in Nat
    BY DEF FectunInv, FectunTypes
<1>1. NoDial \in DialType /\ NoDial.pc = "idle"
    BY FectunAssumption DEF NoDial, DialType, DialPCs
<1>2. UNCHANGED <<entry, table>>
    BY DEF Current, Refresh, StopDaemon, FectunUp, BootFails
<1>3. dial[d].pc \notin Streaming
    BY DEF Current, Refresh, StopDaemon, FectunUp, BootFails, Streaming
<1>4. ASSUME NEW r \in DialType, NEW pc \in DialPCs
      PROVE  LET s == [r EXCEPT !.pc = pc] IN s \in DialType /\ s.pc = pc
    BY DEF DialType
<1>5. /\ dial'[d] \in DialType /\ dial'[d].pc \notin Streaming \union {"evict"}
      /\ dial'[d].pc = "try" => dial'[d].key \in Keys
      /\ dial' = [dial EXCEPT ![d] = dial'[d]]
    <2>1. CASE Current(d)
        <3>1. PICK pc \in {"refresh", "try"}, ph \in Nat, k \in 0..MaxKeys, g \in Nat :
                  /\ pc = "try" => k # 0
                  /\ dial' = [dial EXCEPT ![d] =
                        [NoDial EXCEPT !.pc = pc, !.phase = ph, !.key = k, !.seen = g]]
            BY <1>0, <2>1 DEF Current
        <3>2. pc \in DialPCs /\ pc \notin Streaming \union {"evict"}
            BY DEF DialPCs, Streaming
        <3>3. ASSUME NEW r \in DialType
              PROVE  LET s == [r EXCEPT !.pc = pc, !.phase = ph, !.key = k, !.seen = g] IN
                     s \in DialType /\ s.pc = pc /\ s.key = k
            BY <3>2 DEF DialType
        <3>4. dial'[d] = [NoDial EXCEPT !.pc = pc, !.phase = ph, !.key = k, !.seen = g]
              /\ dial' = [dial EXCEPT ![d] = dial'[d]]
            BY <1>0, <3>1
        <3>5. dial'[d] \in DialType /\ dial'[d].pc = pc /\ dial'[d].key = k
            BY <1>1, <3>3, <3>4
        <3>6. k # 0 => k \in Keys
            BY FectunAssumption DEF Keys
        <3> QED
            BY <3>1, <3>2, <3>4, <3>5, <3>6
    <2>2. CASE Refresh(d)
        <3>1. CASE Newer(d)
            <4>1. PICK pc \in {"try"}, k \in 0..MaxKeys, g \in Nat : k = peer.key /\ g = peer.gen
                BY <1>0
            <4>2. dial' = [dial EXCEPT ![d] =
                      [dial[d] EXCEPT !.pc = pc, !.key = k, !.seen = g]]
                BY <1>0, <2>2, <3>1, <4>1 DEF Refresh
            <4>3. pc \in DialPCs /\ pc \notin Streaming \union {"evict"}
                BY DEF DialPCs, Streaming
            <4>4. k \in Keys
                BY <1>0, <3>1, <4>1, FectunAssumption DEF Newer, Keys
            <4>5. dial'[d] = [dial[d] EXCEPT !.pc = pc, !.key = k, !.seen = g]
                  /\ dial' = [dial EXCEPT ![d] = dial'[d]]
                BY <1>0, <4>2
            <4>6. ASSUME NEW r \in DialType
                  PROVE  LET s == [r EXCEPT !.pc = pc, !.key = k, !.seen = g] IN
                         s \in DialType /\ s.pc = pc /\ s.key = k
                BY <4>3 DEF DialType
            <4>7. dial'[d] \in DialType /\ dial'[d].pc = pc /\ dial'[d].key = k
                <5>1. PICK r \in DialType : r = dial[d]
                    BY <1>0
                <5>2. dial'[d] = [r EXCEPT !.pc = pc, !.key = k, !.seen = g]
                    BY <4>5, <5>1
                <5> QED
                    BY <4>6, <5>2
            <4>8. dial' = [dial EXCEPT ![d] = dial'[d]]
                BY <4>5
            <4>9. dial'[d].pc \notin Streaming \union {"evict"} /\ dial'[d].key \in Keys
                BY <4>3, <4>4, <4>7
            <4> QED
                BY <4>7, <4>8, <4>9
        <3>2. CASE ~Newer(d)
            <4>1. PICK pc \in {"stop", "boot"} :
                      dial' = [dial EXCEPT ![d] = [dial[d] EXCEPT !.pc = pc]]
                BY <1>0, <2>2, <3>2 DEF Refresh
            <4>2. pc \in DialPCs /\ pc \notin Streaming \union {"evict"} /\ pc # "try"
                BY DEF DialPCs, Streaming
            <4>3. dial'[d] = [dial[d] EXCEPT !.pc = pc] /\ dial' = [dial EXCEPT ![d] = dial'[d]]
                BY <1>0, <4>1
            <4>4. dial'[d] \in DialType /\ dial'[d].pc = pc
                BY <1>0, <1>4, <4>2, <4>3
            <4> QED
                BY <4>2, <4>3, <4>4
        <3> QED
            BY <3>1, <3>2
    <2>3. CASE StopDaemon(d)
        <3>1. dial' = [dial EXCEPT ![d] = [dial[d] EXCEPT !.pc = "boot"]]
            BY <1>0, <2>3 DEF StopDaemon
        <3>2. "boot" \in DialPCs /\ "boot" \notin Streaming \union {"evict"}
            BY DEF DialPCs, Streaming
        <3>3. dial'[d] = [dial[d] EXCEPT !.pc = "boot"] /\ dial' = [dial EXCEPT ![d] = dial'[d]]
            BY <1>0, <3>1
        <3>4. dial'[d] \in DialType /\ dial'[d].pc = "boot"
            BY <1>0, <1>4, <3>2, <3>3
        <3> QED
            BY <3>2, <3>3, <3>4
    <2>4. CASE FectunUp(d)
        <3>1. PICK pc \in {"try"}, g \in Nat : g = peer.gen + 1
            BY <1>0
        <3>2. PICK k \in Keys :
                  dial' = [dial EXCEPT ![d] = [dial[d] EXCEPT !.pc = pc, !.key = k, !.seen = g]]
            BY <1>0, <2>4, <3>1 DEF FectunUp
        <3>3. pc \notin Streaming \union {"evict"} /\ k \in 0..MaxKeys /\ pc \in DialPCs
            BY DEF Streaming, Keys, DialPCs
        <3>4. dial'[d] = [dial[d] EXCEPT !.pc = pc, !.key = k, !.seen = g]
              /\ dial' = [dial EXCEPT ![d] = dial'[d]]
            BY <1>0, <3>2
        <3>5. ASSUME NEW r \in DialType
              PROVE  LET s == [r EXCEPT !.pc = pc, !.key = k, !.seen = g] IN
                     s \in DialType /\ s.pc = pc /\ s.key = k
            BY <3>3 DEF DialType
        <3>6. dial'[d] \in DialType /\ dial'[d].pc = pc /\ dial'[d].key = k
            <4>1. PICK r \in DialType : r = dial[d]
                BY <1>0
            <4>2. dial'[d] = [r EXCEPT !.pc = pc, !.key = k, !.seen = g]
                BY <3>4, <4>1
            <4> QED
                BY <3>5, <4>2
        <3>7. dial' = [dial EXCEPT ![d] = dial'[d]]
            BY <3>4
        <3>8. dial'[d].pc \notin Streaming \union {"evict"} /\ dial'[d].key \in Keys
            BY <3>3, <3>6
        <3> QED
            BY <3>6, <3>7, <3>8
    <2>5. CASE BootFails(d)
        <3>1. "idle" \notin Streaming \union {"evict"}
            BY DEF Streaming
        <3> QED
            BY <1>0, <1>1, <2>5, <3>1 DEF BootFails
    <2> QED
        BY <2>1, <2>2, <2>3, <2>4, <2>5
<1>6. \A e \in Dialers \ {d} : dial'[e] = dial[e]
    BY <1>0, <1>5
<1>7. /\ peer' \in [key : 0..MaxKeys, gen : Nat]
      /\ daemon' \in [up : BOOLEAN, key : 0..MaxKeys, epoch : Nat]
    <2>1. CASE Current(d) \/ Refresh(d) \/ BootFails(d)
        BY <1>0, <2>1 DEF Current, Refresh, BootFails, host
    <2>2. CASE StopDaemon(d)
        BY <1>0, <2>2 DEF StopDaemon
    <2>3. CASE FectunUp(d)
        <3>1. PICK k \in Keys : /\ peer' = [key |-> k, gen |-> peer.gen + 1]
                                /\ daemon' = IF daemon.up THEN daemon
                                              ELSE [up |-> TRUE, key |-> k, epoch |-> daemon.epoch + 1]
            BY <2>3 DEF FectunUp
        <3>2. k \in 0..MaxKeys
            BY DEF Keys
        <3> QED
            BY <1>0, <3>1, <3>2
    <2> QED
        BY <2>1, <2>2, <2>3
<1>8. FectunTypes'
    BY <1>0, <1>2, <1>5, <1>7 DEF FectunInv, FectunTypes
<1> QED
    BY <1>2, <1>3, <1>5, <1>6, <1>8, CalmKeeps

\* The host, and steps that are not fectun's.
LEMMA HostSteps ==
    ASSUME FectunInv, DaemonExits \/ DaemonReplaced \/ KeyFileLost \/ UNCHANGED vars
    PROVE  FectunInv' /\ UNCHANGED Abs!vars
<1>1. UNCHANGED <<entry, table, dial, peer>>
    BY DEF DaemonExits, DaemonReplaced, KeyFileLost, vars
<1>2. daemon' \in [up : BOOLEAN, key : 0..MaxKeys, epoch : Nat]
    <2>1. daemon \in [up : BOOLEAN, key : 0..MaxKeys, epoch : Nat]
        BY DEF FectunInv, FectunTypes
    <2>2. PICK n \in Nat : n = daemon.epoch + 1
        BY <2>1
    <2>3. daemon' \in {daemon, [daemon EXCEPT !.up = FALSE], [daemon EXCEPT !.epoch = n]}
        BY <2>2 DEF DaemonExits, DaemonReplaced, KeyFileLost, vars
    <2> QED
        BY <2>1, <2>3
<1>3. FectunInv'
    BY <1>1, <1>2 DEF FectunInv, FectunTypes, Dialed, OfferedLive, KeysKnown, Referenced, Timed,
                      InOrderMade, Created, Users
<1>4. Offered' = Offered /\ Holding' = Holding /\ Ended' = Ended
    BY <1>1 DEF Offered, Holding, Ended
<1> QED
    BY <1>3, <1>4, ViewKept

\* Every step of fectun is a step of SharedClient or changes nothing it sees.
LEMMA FectunStep == FectunInv /\ [Next]_vars => FectunInv' /\ [Abs!Next]_(Abs!vars)
<1> SUFFICES ASSUME FectunInv, [Next]_vars PROVE FectunInv' /\ (Abs!Next \/ UNCHANGED Abs!vars)
    OBVIOUS
<1> QED
    BY DialFectunAcquires, StreamReleases, EvictWithdraws, TimerWithdraws, ClientSteps,
       DialSteps, HostSteps
    DEF Next, DialStep, TimerStep

\* The table of clients with its counts, timers and late callbacks keeps the
\* promise of SharedClient, for any number of dialers, keys and clients: no
\* stream is on a client that was closed, a client is closed once, and one
\* client per key is handed out.
THEOREM ClientsAreShared == Spec => ClientShared
<1>1. Init => FectunInv /\ Abs!Init
    BY FectunInit
<1>2. FectunInv /\ [Next]_vars => FectunInv' /\ [Abs!Next]_(Abs!vars)
    BY FectunStep
<1> QED
    BY <1>1, <1>2, PTL DEF Spec, ClientShared, Abs!Spec

(***************************************************************************)
(* Deploy.  A call returns success for a whole build if no call begins     *)
(* while another runs (~Overlap): with overlapping calls both upload to    *)
(* the same path.tmp.  The only check of an earlier upload is its size, so *)
(* the sizes must tell the builds of a version apart (SizeTells).  Shells  *)
(* of earlier uploads may still run: they may write data that were on      *)
(* their way into the file of the present upload, rename it early, or      *)
(* fail.  What they write is of the same build, so that an upload that     *)
(* completes leaves a whole file; one that is cut may leave a file with a  *)
(* hole, but not before a second cut.                                      *)
(***************************************************************************)
\* The sizes that uploadIfNeeded compares tell the build in use from the others:
\* one build is in use, and each other build of its version is shorter.
SizeTells == \A b \in Installed : \A o \in Builds \ {b} : Blocks[o] < Blocks[b]

Cells == Builds \union {Hole}

\* Data of one build, perhaps not all of it and with holes.
Of(s, b) == Len(s) <= Blocks[b] /\ \A k \in 1..Len(s) : s[k] \in {b, Hole}
OneBuild(s) == \E b \in Builds : Of(s, b)
HasHole(s) == \E k \in 1..Len(s) : s[k] = Hole

ShellType == [st : {"none", "cat", "eof", "mv", "done", "failed"}, dir : Dirs, ino : Nat,
              build : Installed \union {AnyBuild}, sent : Nat, pos : Nat]

\* A shell that still writes.
ShellOk(n) ==
    LET p == proc[n] IN
    p.st = "cat" => /\ p.ino \in 1..Len(data) /\ p.build \in Installed
                    /\ p.pos <= p.sent /\ p.sent <= Blocks[p.build]
                    /\ Of(data[p.ino], p.build)

FileTypes ==
    /\ data \in Seq(Seq(Cells)) /\ \A i \in 1..Len(data) : OneBuild(data[i])
    /\ file \in [Dirs -> [tmp : Nat, path : Nat]]
    /\ \A d \in Dirs : file[d].tmp <= Len(data) /\ file[d].path <= Len(data)

DeployTypes ==
    /\ FileTypes
    /\ proc \in [Calls -> ShellType] /\ \A n \in Calls : ShellOk(n)
    /\ calls \in 0..MaxCalls

\* The inode that the shell of c's upload fills holds what this shell has
\* written, and only this shell or one of an earlier upload takes it out of
\* path.tmp.
OwnFile(c) ==
    LET p == proc[call[c].n]
        f == file[call[c].dir]
        b == call[c].build
    IN  /\ p.dir = call[c].dir /\ p.build = b
        /\ p.ino \in 1..Len(data) /\ f.tmp \in {0, p.ino}
        /\ p.st = "done" => f.tmp = 0 /\ f.path = p.ino
        /\ p.pos <= p.sent /\ p.sent <= Blocks[b] /\ p.pos <= Len(data[p.ino])
        /\ Of(data[p.ino], b) /\ \A k \in 1..p.pos : data[p.ino][k] = b

\* The shell of a caller's upload is where the caller takes it to be.
Uploads(c) ==
    /\ call[c].pc \in {"find", "check", "upload"} => proc[call[c].n] = NoProc
    /\ call[c].pc \in {"send", "wait"} => OwnFile(c)
    /\ call[c].pc = "send" => proc[call[c].n].st \in {"cat", "failed"}
    /\ call[c].pc = "wait" =>
          /\ proc[call[c].n].st \in {"cat", "eof", "mv", "done", "failed"}
          /\ proc[call[c].n].sent = Blocks[call[c].build]
          /\ proc[call[c].n].st \in {"eof", "mv", "done"} =>
                proc[call[c].n].pos = Blocks[call[c].build]

CallType == [pc : {"idle", "find", "check", "upload", "send", "wait", "ok"},
             build : Installed \union {NoCall.build}, dir : Dirs, n : Nat]

\* Callers do not overlap; the uploads are numbered in turn, and the newest is
\* the one of the busy caller.
DeployInv ==
    /\ DeployTypes /\ call \in [Callers -> CallType]
    /\ \A c, d \in Callers : Calling(c) /\ Calling(d) => c = d
    /\ \A n \in Calls : calls < n => proc[n] = NoProc
    /\ \A c \in Callers : Calling(c) =>
          call[c].build \in Installed /\ call[c].n = calls /\ calls # 0 /\ Uploads(c)

\* A sequence of one value.
LEMMA SameSeq ==
    ASSUME NEW S, NEW s \in Seq(S), NEW b, \A k \in 1..Len(s) : s[k] = b
    PROVE  s = [i \in 1..Len(s) |-> b]
OBVIOUS

\* A block written at some place, at or behind the end or before it.
LEMMA WrittenAt ==
    ASSUME NEW b \in Builds, NEW s \in Seq(Cells), Of(s, b), NEW i \in 1..Blocks[b]
    PROVE  LET t == Written(s, i, b)
           IN  /\ t \in Seq(Cells) /\ Of(t, b) /\ OneBuild(t)
               /\ Len(s) <= Len(t) /\ i <= Len(t) /\ t[i] = b
               /\ \A k \in 1..Len(s) : k # i => t[k] = s[k]
               /\ ~HasHole(s) /\ i <= Len(s) + 1 => ~HasHole(t)
<1> DEFINE m == IF i > Len(s) THEN i ELSE Len(s)
           t == Written(s, i, b)
<1>1. /\ Blocks[b] \in Nat \ {0} /\ Len(s) \in Nat /\ Len(s) <= Blocks[b]
      /\ \A k \in 1..Len(s) : s[k] \in {b, Hole} /\ s[k] \in Cells
    BY DeployAssumption DEF Of
<1>2. m \in Nat /\ m <= Blocks[b] /\ i <= m /\ Len(s) <= m /\ (i <= Len(s) + 1 => m <= Len(s) \/ m = i)
    BY <1>1
<1>3. t = [j \in 1..m |-> IF j = i THEN b ELSE IF j <= Len(s) THEN s[j] ELSE Hole]
    BY DEF Written
<1> HIDE DEF m, t
<1>4. \A j \in 1..m : t[j] = IF j = i THEN b ELSE IF j <= Len(s) THEN s[j] ELSE Hole
    BY <1>3
<1>5. \A j \in 1..m : t[j] \in {b, Hole} /\ t[j] \in Cells
    BY <1>1, <1>2, <1>4 DEF Cells
<1>6. t \in Seq(Cells) /\ Len(t) = m
    <2>1. t \in [1..m -> Cells]
        BY <1>3, <1>5
    <2> QED
        BY <1>2, <2>1
<1>7. Of(t, b) /\ OneBuild(t)
    BY <1>2, <1>5, <1>6 DEF Of, OneBuild
<1>8. \A k \in 1..Len(s) : k # i => t[k] = s[k]
    BY <1>1, <1>2, <1>4
<1>9. ASSUME ~HasHole(s), i <= Len(s) + 1 PROVE ~HasHole(t)
    <2>1. \A k \in 1..Len(s) : s[k] # Hole
        BY <1>9 DEF HasHole
    <2>2. b # Hole
        BY DeployAssumption
    <2>3. \A j \in 1..m : j = i \/ j \in 1..Len(s)
        BY <1>1, <1>2, <1>9
    <2> QED
        BY <1>4, <1>6, <2>1, <2>2, <2>3 DEF HasHole
<1> QED
    BY <1>2, <1>4, <1>6, <1>7, <1>8, <1>9 DEF t

\* OwnFile in the next state.
LEMMA OwnFileNext ==
    ASSUME NEW c, NEW p, NEW f, NEW d, NEW b, p = proc'[call'[c].n], d = call'[c].dir,
           f = file'[d], b = call'[c].build,
           p.dir = d, p.build = b, p.ino \in 1..Len(data'), f.tmp \in {0, p.ino},
           p.st = "done" => f.tmp = 0 /\ f.path = p.ino,
           p.pos <= p.sent, p.sent <= Blocks[b], p.pos <= Len(data'[p.ino]),
           Of(data'[p.ino], b), \A k \in 1..p.pos : data'[p.ino][k] = b
    PROVE  OwnFile(c)'
BY DEF OwnFile, Of

\* The host has nothing, or one file of a build, perhaps cut.
LEMMA DeployInit == DpInit => DeployInv
<1> SUFFICES ASSUME DpInit PROVE DeployInv
    OBVIOUS
<1>1. /\ proc = [n \in Calls |-> NoProc] /\ call = [c \in Callers |-> NoCall]
      /\ calls = 0
    BY DEF DpInit
<1>2. NoProc \in ShellType /\ NoProc.st = "none" /\ \A c \in Callers : ~Calling(c)
    BY <1>1 DEF NoProc, ShellType, Dirs, Calling, NoCall
<1>3. FileTypes
    <2>1. CASE data = <<>> /\ file = [d \in Dirs |-> [tmp |-> 0, path |-> 0]]
        BY <2>1 DEF FileTypes
    <2>2. CASE /\ \E b \in Builds : \E k \in 1..Blocks[b] : data = <<SubSeq(Content(b), 1, k)>>
               /\ file = [d \in Dirs |-> [tmp |-> 0, path |-> IF d = "home" THEN 1 ELSE 0]]
        <3>1. PICK b \in Builds : \E k \in 1..Blocks[b] : data = <<SubSeq(Content(b), 1, k)>>
            BY <2>2
        <3>0. PICK k \in 1..Blocks[b] : data = <<SubSeq(Content(b), 1, k)>>
            BY <3>1
        <3> DEFINE s == SubSeq(Content(b), 1, k)
        <3>2. Blocks[b] \in Nat /\ Content(b) \in Seq(Cells) /\ Len(Content(b)) = Blocks[b]
            BY DeployAssumption DEF Content, Builds, Cells
        <3>3. s \in Seq(Cells) /\ Len(s) = k /\ \A j \in 1..k : s[j] = b
            BY <3>2 DEF Content
        <3>4. OneBuild(s)
            BY <3>2, <3>3 DEF OneBuild, Of
        <3> HIDE DEF s
        <3>5. data \in Seq(Seq(Cells)) /\ Len(data) = 1 /\ data[1] = s
            BY <3>0, <3>3 DEF s
        <3> QED
            BY <2>2, <3>4, <3>5 DEF FileTypes
    <2> QED
        BY <2>1, <2>2 DEF DpInit
<1>4. call \in [Callers -> CallType]
    BY <1>1 DEF NoCall, Dirs, CallType
<1>5. \A n \in Calls : ShellOk(n)
    BY <1>1, <1>2 DEF ShellOk
<1> QED
    BY <1>1, <1>2, <1>3, <1>4, <1>5, DeployAssumption DEF DeployInv, DeployTypes

\* A step of a caller that does not touch the host.
LEMMA CallKeeps ==
    ASSUME DeployInv, NEW c \in Callers, NEW r \in CallType, call' = [call EXCEPT ![c] = r],
           UNCHANGED <<file, data, proc>>, calls' \in calls..MaxCalls,
           calls' # calls => \A d \in Callers : ~Calling(d),
           r.pc # "idle" => /\ \A d \in Callers \ {c} : ~Calling(d)
                            /\ r.build \in Installed /\ r.n = calls' /\ calls' # 0 /\ Uploads(c)'
    PROVE  DeployInv'
<1>1. calls \in Nat /\ MaxCalls \in Nat /\ calls' \in 0..MaxCalls /\ calls <= calls'
    BY DeployAssumption DEF DeployInv, DeployTypes
<1>2. call' \in [Callers -> CallType] /\ call'[c] = r /\ \A d \in Callers \ {c} : call'[d] = call[d]
    BY DEF DeployInv
<1>3. DeployTypes'
    BY <1>1 DEF DeployInv, DeployTypes, FileTypes, ShellOk
<1>4. \A d, e \in Callers : (Calling(d) /\ Calling(e))' => d = e
    BY <1>2 DEF DeployInv, Calling
<1>5. \A n \in Calls : calls' < n => proc'[n] = NoProc
    BY <1>1 DEF DeployInv, Calls
<1>6. ASSUME NEW d \in Callers, Calling(d)'
      PROVE  call'[d].build \in Installed /\ call'[d].n = calls' /\ calls' # 0 /\ Uploads(d)'
    <2>1. CASE d = c
        BY <1>2, <1>6, <2>1 DEF Calling
    <2>2. CASE d # c
        <3>1. Calling(d) /\ call'[d] = call[d] /\ calls' = calls
            BY <1>2, <1>6, <2>2 DEF Calling
        <3>2. call[d].build \in Installed /\ call[d].n = calls /\ calls # 0 /\ Uploads(d)
            BY <3>1 DEF DeployInv
        <3>3. OwnFile(d)' <=> OwnFile(d)
            BY <3>1 DEF OwnFile, Of
        <3>4. Uploads(d)'
            BY <3>1, <3>2, <3>3 DEF Uploads
        <3> QED
            BY <3>1, <3>2, <3>4
    <2> QED
        BY <2>1, <2>2
<1> QED
    BY <1>2, <1>3, <1>4, <1>5, <1>6 DEF DeployInv

\* The steps of a caller outside the upload.
LEMMA CallerSteps ==
    ASSUME DeployInv, ~Overlap, NEW c \in Callers,
           \/ \E b \in Installed : Begin(c, b)
           \/ \E d \in Dirs : CachePath(c, d)
           \/ CheckRemote(c) \/ UploadReturns(c) \/ Drop(c) \/ RunServer(c)
    PROVE  DeployInv'
<1>1. /\ calls \in Nat /\ MaxCalls \in Nat /\ calls <= MaxCalls /\ call[c] \in CallType
      /\ Calling(c) => /\ \A d \in Callers \ {c} : ~Calling(d)
                    /\ call[c].build \in Installed /\ call[c].n = calls /\ calls # 0 /\ Uploads(c)
      /\ \A n \in Calls : calls < n => proc[n] = NoProc
    BY DeployAssumption DEF DeployInv, DeployTypes
<1>2. NoCall \in CallType /\ NoCall.pc = "idle" /\ calls \in calls..MaxCalls
    BY <1>1 DEF NoCall, CallType, Dirs
<1>3. ASSUME NEW b \in Installed, Begin(c, b)
      PROVE  DeployInv'
    <2> DEFINE r == [NoCall EXCEPT !.pc = "find", !.build = b, !.n = calls + 1]
    <2>0. b \in Installed \union {NoCall.build} /\ calls + 1 \in Nat
        BY <1>1
    <2>1. r \in CallType /\ r.pc = "find" /\ r.build = b /\ r.n = calls + 1
        BY <1>2, <2>0 DEF CallType
    <2>2. /\ call' = [call EXCEPT ![c] = r] /\ calls' = calls + 1 /\ calls < MaxCalls
          /\ \A d \in Callers : ~Calling(d)
          /\ UNCHANGED <<file, data, proc>>
        BY <1>3 DEF Begin
    <2> HIDE DEF r
    <2>3. call'[c] = r /\ calls + 1 \in Calls /\ calls' \in calls..MaxCalls /\ calls' # 0
        BY <1>1, <2>2 DEF DeployInv, Calls
    <2>4. Uploads(c)'
        BY <1>1, <2>1, <2>2, <2>3 DEF Uploads
    <2> QED
        BY <2>1, <2>2, <2>3, <2>4, CallKeeps
<1>4. ASSUME NEW d \in Dirs, CachePath(c, d)
      PROVE  DeployInv'
    <2> DEFINE r == [call[c] EXCEPT !.pc = "check", !.dir = d]
    <2>1. /\ r \in CallType /\ r.pc = "check" /\ r.build = call[c].build /\ r.n = call[c].n
        BY <1>1 DEF CallType
    <2>2. /\ call' = [call EXCEPT ![c] = r] /\ Calling(c) /\ call[c].pc = "find"
          /\ UNCHANGED <<file, data, proc, calls>>
        BY <1>4 DEF CachePath, Calling, DeployInv
    <2> HIDE DEF r
    <2>3. call'[c] = r
        BY <2>2 DEF DeployInv
    <2>4. Uploads(c)'
        BY <1>1, <2>1, <2>2, <2>3 DEF Uploads
    <2> QED
        BY <1>1, <1>2, <2>1, <2>2, <2>4, CallKeeps
<1>5. CASE CheckRemote(c)
    <2>1. PICK pc \in {"ok", "upload"} : call' = [call EXCEPT ![c].pc = pc]
        BY <1>5 DEF CheckRemote
    <2> DEFINE r == [call[c] EXCEPT !.pc = pc]
    <2>2. /\ r \in CallType /\ r.pc = pc /\ r.build = call[c].build /\ r.n = call[c].n
        BY <1>1 DEF CallType
    <2>3. /\ call' = [call EXCEPT ![c] = r] /\ Calling(c) /\ call[c].pc = "check"
          /\ UNCHANGED <<file, data, proc, calls>>
        BY <1>5, <2>1 DEF CheckRemote, Calling, DeployInv
    <2> HIDE DEF r
    <2>4. call'[c] = r
        BY <2>3 DEF DeployInv
    <2>5. Uploads(c)'
        BY <1>1, <2>2, <2>3, <2>4 DEF Uploads
    <2> QED
        BY <1>1, <1>2, <2>2, <2>3, <2>5, CallKeeps
<1>6. CASE call' = [call EXCEPT ![c] = NoCall] /\ UNCHANGED <<file, data, proc, calls>>
    BY <1>1, <1>2, <1>6, CallKeeps
<1>7. CASE UploadReturns(c)
    <2>1. CASE proc[call[c].n].st = "done"
        <3> DEFINE r == [call[c] EXCEPT !.pc = "ok"]
        <3>1. /\ r \in CallType /\ r.pc = "ok" /\ r.build = call[c].build /\ r.n = call[c].n
            BY <1>1 DEF CallType
        <3>2. /\ call' = [call EXCEPT ![c] = r] /\ Calling(c)
              /\ UNCHANGED <<file, data, proc, calls>>
            BY <1>7, <2>1 DEF UploadReturns, Calling, DeployInv
        <3> HIDE DEF r
        <3>3. call'[c] = r
            BY <3>2 DEF DeployInv
        <3>4. Uploads(c)'
            BY <3>1, <3>3 DEF Uploads
        <3> QED
            BY <1>1, <1>2, <3>1, <3>2, <3>4, CallKeeps
    <2> QED
        BY <1>6, <1>7, <2>1 DEF UploadReturns
<1> QED
    BY <1>3, <1>4, <1>5, <1>6, <1>7 DEF Drop, RunServer

\* The steps on the host: what they do to the files, the shells and the caller.
LEMMA HostKeeps ==
    ASSUME DeployInv, DeployTypes', call' \in [Callers -> CallType], calls' = calls,
           \A n \in Calls : calls < n => proc'[n] = NoProc,
           \A c \in Callers : /\ call'[c].build = call[c].build /\ call'[c].n = call[c].n
                              /\ Calling(c)' <=> Calling(c)
                              /\ Calling(c) => Uploads(c)'
    PROVE  DeployInv'
BY DEF DeployInv

\* Only one build is in use.
LEMMA SameBuild == ASSUME SizeTells, NEW b \in Installed, NEW o \in Installed PROVE b = o
BY DeployAssumption DEF SizeTells

\* Opening path.tmp, a chunk, and the end of the data.
LEMMA SendingKeeps ==
    ASSUME DeployInv, NEW c \in Callers, StartUpload(c) \/ SendChunk(c) \/ CloseStdin(c)
    PROVE  DeployInv'
<1> DEFINE n == call[c].n
           d == call[c].dir
           b == call[c].build
<1>1. /\ DeployTypes /\ call \in [Callers -> CallType] /\ call[c] \in CallType
      /\ Calling(c) /\ \A e \in Callers \ {c} : ~Calling(e)
      /\ b \in Installed /\ n = calls /\ n \in Calls /\ d \in Dirs /\ Uploads(c)
    BY DEF DeployInv, DeployTypes, CallType, Calling, StartUpload, SendChunk, CloseStdin, Calls
<1>2. Blocks[b] \in Nat \ {0} /\ b \in Builds
    BY <1>1, DeployAssumption
<1>3. /\ data \in Seq(Seq(Cells)) /\ \A i \in 1..Len(data) : OneBuild(data[i])
      /\ file \in [Dirs -> [tmp : Nat, path : Nat]]
      /\ \A e \in Dirs : file[e].tmp <= Len(data) /\ file[e].path <= Len(data)
      /\ proc \in [Calls -> ShellType] /\ calls \in 0..MaxCalls
      /\ \A m \in Calls : ShellOk(m)
    BY <1>1 DEF DeployTypes, FileTypes
<1>4. ASSUME NEW q \in ShellType, proc' = [proc EXCEPT ![n] = q], calls' = calls, DeployTypes',
             call' \in [Callers -> CallType], \A e \in Callers \ {c} : call'[e] = call[e],
             call'[c].build = b, call'[c].n = n, call'[c].pc # "idle", Uploads(c)'
      PROVE  DeployInv'
    <2>1. \A m \in Calls : calls < m => proc'[m] = NoProc
        BY <1>1, <1>3, <1>4 DEF DeployInv
    <2>2. \A e \in Callers : /\ call'[e].build = call[e].build /\ call'[e].n = call[e].n
                             /\ Calling(e)' <=> Calling(e)
                             /\ Calling(e) => Uploads(e)'
        BY <1>1, <1>4 DEF Calling
    <2> QED
        BY <1>4, <2>1, <2>2, HostKeeps
<1>5. CASE StartUpload(c)
    <2> DEFINE ino == IF file[d].tmp # 0 THEN file[d].tmp ELSE Len(data) + 1
               q == [NoProc EXCEPT !.st = "cat", !.dir = d, !.ino = ino, !.build = b]
               r == [call[c] EXCEPT !.pc = "send"]
    <2>1. /\ data' = IF file[d].tmp # 0 THEN [data EXCEPT ![ino] = <<>>] ELSE Append(data, <<>>)
          /\ file' = [file EXCEPT ![d].tmp = ino]
          /\ proc' = [proc EXCEPT ![n] = q]
          /\ call' = [call EXCEPT ![c] = r] /\ calls' = calls
        BY <1>1, <1>5 DEF StartUpload
    <2>2. ino \in Nat /\ Len(data) \in Nat /\ (file[d].tmp # 0 => ino \in 1..Len(data))
        BY <1>1, <1>3
    <2>3. <<>> \in Seq(Cells) /\ OneBuild(<<>>) /\ \A o \in Builds : Of(<<>>, o)
        BY <1>2, DeployAssumption DEF OneBuild, Of
    <2> HIDE DEF ino, q, r
    <2>4. /\ data' \in Seq(Seq(Cells)) /\ Len(data) <= Len(data') /\ ino \in 1..Len(data')
          /\ data'[ino] = <<>> /\ \A i \in 1..Len(data') : i # ino => data'[i] = data[i] /\ i <= Len(data)
        <3>1. CASE file[d].tmp # 0
            BY <1>3, <2>1, <2>2, <2>3, <3>1
        <3>2. CASE file[d].tmp = 0
            <4>1. data' = Append(data, <<>>) /\ ino = Len(data) + 1
                BY <2>1, <3>2 DEF ino
            <4> QED
                BY <1>3, <2>2, <2>3, <4>1
        <3> QED
            BY <3>1, <3>2
    <2>5. /\ q \in ShellType /\ q.st = "cat" /\ q.dir = d /\ q.ino = ino /\ q.build = b
          /\ q.sent = 0 /\ q.pos = 0
        BY <1>1, <2>2 DEF q, ShellType, NoProc
    <2>6. /\ r \in CallType /\ r.pc = "send" /\ r.build = b /\ r.n = n /\ r.dir = d
        BY <1>1 DEF r, CallType
    <2>7. call' \in [Callers -> CallType] /\ call'[c] = r /\ \A e \in Callers \ {c} : call'[e] = call[e]
        BY <1>1, <2>1, <2>6
    <2>8. /\ file' \in [Dirs -> [tmp : Nat, path : Nat]] /\ file'[d].tmp = ino
          /\ file'[d].path = file[d].path /\ \A e \in Dirs \ {d} : file'[e] = file[e]
        BY <1>1, <1>3, <2>1, <2>2
    <2>9. proc' \in [Calls -> ShellType] /\ proc'[n] = q /\ \A m \in Calls \ {n} : proc'[m] = proc[m]
        BY <1>1, <1>3, <2>1, <2>5
    <2>10. ASSUME NEW i \in 1..Len(data')
           PROVE  OneBuild(data'[i])
        <3>1. CASE i = ino
            BY <2>3, <2>4, <3>1
        <3>2. CASE i # ino
            <4>1. i \in 1..Len(data')
                OBVIOUS
            <4>2. data'[i] = data[i] /\ i <= Len(data) /\ i \in 1..Len(data)
                BY <2>2, <2>4, <3>2, <4>1
            <4>3. \A j \in 1..Len(data) : OneBuild(data[j])
                BY <1>3
            <4> QED
                BY <4>2, <4>3
        <3> QED
            BY <3>1, <3>2
    <2>11. ASSUME NEW e \in Dirs
           PROVE  file'[e].tmp <= Len(data') /\ file'[e].path <= Len(data')
        <3>1. /\ file[e].tmp \in Nat /\ file[e].path \in Nat /\ Len(data') \in Nat
              /\ file[e].tmp <= Len(data) /\ file[e].path <= Len(data)
            BY <1>3, <2>4
        <3>2. CASE e = d
            BY <2>2, <2>4, <2>8, <3>1, <3>2
        <3>3. CASE e # d
            <4>1. file'[e] = file[e] /\ Len(data) <= Len(data') /\ Len(data) \in Nat
                BY <1>3, <2>4, <2>8, <3>3
            <4> QED
                BY <3>1, <4>1
        <3> QED
            BY <3>2, <3>3
    <2>15. ASSUME NEW m \in Calls
           PROVE  ShellOk(m)'
        <3>1. CASE m = n
            BY <1>1, <1>2, <2>3, <2>4, <2>5, <2>9, <3>1 DEF ShellOk
        <3>2. CASE m # n
            <4> SUFFICES ASSUME proc[m].st = "cat"
                         PROVE  LET p == proc[m] IN
                                /\ p.ino \in 1..Len(data') /\ p.build \in Installed
                                /\ p.pos <= p.sent /\ p.sent <= Blocks[p.build]
                                /\ Of(data'[p.ino], p.build)
                BY <2>9, <3>2 DEF ShellOk, Of
            <4>1. /\ proc[m].ino \in 1..Len(data) /\ proc[m].build \in Installed
                  /\ proc[m].pos <= proc[m].sent /\ proc[m].sent <= Blocks[proc[m].build]
                  /\ Of(data[proc[m].ino], proc[m].build) /\ proc[m].build \in Builds
                BY <1>3, DeployAssumption DEF ShellOk
            <4>2. proc[m].ino \in 1..Len(data')
                BY <2>2, <2>4, <4>1
            <4>3. data'[proc[m].ino] \in {<<>>, data[proc[m].ino]}
                BY <2>4, <4>2
            <4> QED
                BY <2>3, <4>1, <4>2, <4>3
        <3> QED
            BY <3>1, <3>2
    <2>12. DeployTypes'
        BY <1>3, <2>1, <2>4, <2>8, <2>9, <2>10, <2>11, <2>15 DEF DeployTypes, FileTypes
    <2>13. OwnFile(c)'
        <3>1. /\ proc'[call'[c].n] = q /\ call'[c].dir = d /\ call'[c].build = b
              /\ Len(data'[q.ino]) = 0 /\ 0 <= Blocks[b] /\ Of(data'[q.ino], b)
            BY <1>2, <2>3, <2>4, <2>5, <2>6, <2>7, <2>9
        <3> QED
            <4>1. /\ q.ino \in 1..Len(data') /\ file'[d].tmp \in {0, q.ino} /\ q.dir = d /\ q.st # "done"
                  /\ q.pos <= q.sent /\ q.sent <= Blocks[b] /\ q.pos <= Len(data'[q.ino])
                  /\ \A k \in 1..q.pos : data'[q.ino][k] = b
                BY <2>4, <2>5, <2>8, <3>1
            <4> QED
                BY <2>5, <3>1, <4>1, OwnFileNext
    <2>14. Uploads(c)'
        BY <2>5, <2>6, <2>7, <2>9, <2>13 DEF Uploads
    <2> QED
        BY <1>4, <2>1, <2>5, <2>6, <2>7, <2>12, <2>14
<1>6. CASE SendChunk(c)
    <2> DEFINE p == proc[n]
               q == [p EXCEPT !.sent = @ + 1]
    <2>1. /\ call[c].pc = "send" /\ p.st = "cat" /\ p.sent < Blocks[p.build]
          /\ proc' = [proc EXCEPT ![n] = q]
          /\ UNCHANGED <<file, data, call, calls>>
        BY <1>1, <1>3, <1>6 DEF SendChunk
    <2>2. p \in ShellType /\ p.sent \in Nat /\ OwnFile(c) /\ ShellOk(n)
        BY <1>1, <1>3, <2>1 DEF Uploads, ShellType
    <2>5. /\ q \in ShellType /\ q.st = p.st /\ q.dir = p.dir /\ q.ino = p.ino /\ q.build = p.build
          /\ q.pos = p.pos /\ q.sent = p.sent + 1
        BY <2>2 DEF ShellType
    <2> HIDE DEF q
    <2>7. proc' \in [Calls -> ShellType] /\ proc'[n] = q /\ \A m \in Calls \ {n} : proc'[m] = proc[m]
        BY <1>1, <1>3, <2>1, <2>5
    <2>4. p.pos \in Nat /\ Blocks[p.build] \in Nat /\ p.build = b
        BY <1>2, <2>2 DEF ShellType, OwnFile
    <2>6. ASSUME NEW m \in Calls PROVE ShellOk(m)'
        <3>1. CASE m = n
            <4>1. proc'[m] = q /\ data' = data
                BY <2>1, <2>7, <3>1
            <4>2. /\ p.ino \in 1..Len(data) /\ p.build \in Installed /\ p.pos <= p.sent
                  /\ p.sent <= Blocks[p.build] /\ Of(data[p.ino], p.build)
                BY <2>1, <2>2 DEF ShellOk
            <4>3. q.pos <= q.sent /\ q.sent <= Blocks[q.build]
                BY <2>1, <2>2, <2>4, <2>5, <4>2
            <4> QED
                BY ONLY <2>5, <4>1, <4>2, <4>3 DEF ShellOk, Of
        <3>2. CASE m # n
            BY <1>3, <2>1, <2>7, <3>2 DEF ShellOk, Of
        <3> QED
            BY <3>1, <3>2
    <2>8. DeployTypes'
        BY <1>3, <2>1, <2>6, <2>7 DEF DeployTypes, FileTypes
    <2>9. OwnFile(c)'
        <3>1. /\ proc'[call'[c].n] = q /\ call'[c].dir = d /\ call'[c].build = b
              /\ file' = file /\ data' = data
            BY <2>1, <2>7
        <3>2. q.pos <= q.sent /\ q.sent <= Blocks[b]
            BY <1>2, <2>1, <2>2, <2>4, <2>5 DEF OwnFile
        <3> QED
            BY <2>2, <2>5, <3>1, <3>2 DEF OwnFile, Of
    <2>10. Uploads(c)'
        BY <2>1, <2>5, <2>7, <2>9 DEF Uploads
    <2> QED
        BY <1>1, <1>4, <2>1, <2>5, <2>8, <2>10
<1>7. CASE CloseStdin(c)
    <2> DEFINE p == proc[n]
               r == [call[c] EXCEPT !.pc = "wait"]
    <2>1. /\ call[c].pc = "send" /\ p.sent = Blocks[p.build] /\ call' = [call EXCEPT ![c] = r]
          /\ UNCHANGED <<file, data, proc, calls>>
        BY <1>1, <1>3, <1>7 DEF CloseStdin
    <2>2. p \in ShellType /\ p.st \in {"cat", "failed"} /\ OwnFile(c) /\ p.build = b
        BY <1>1, <1>3, <2>1 DEF Uploads, OwnFile
    <2>4. /\ r \in CallType /\ r.pc = "wait" /\ r.build = b /\ r.n = n /\ r.dir = d
        BY <1>1 DEF CallType
    <2> HIDE DEF r
    <2>5. /\ call' \in [Callers -> CallType] /\ call'[c] = r
          /\ \A e \in Callers \ {c} : call'[e] = call[e]
        BY <1>1, <2>1, <2>4
    <2>6. proc' = [proc EXCEPT ![n] = p]
        BY <1>1, <1>3, <2>1
    <2>7. DeployTypes'
        BY <1>1, <2>1 DEF DeployTypes, FileTypes, ShellOk, Of
    <2>8. OwnFile(c)'
        <3>1. /\ proc'[call'[c].n] = p /\ call'[c].dir = d /\ call'[c].build = b
              /\ file' = file /\ data' = data
            BY <2>1, <2>4, <2>5
        <3> QED
            BY <2>2, <3>1 DEF OwnFile, Of
    <2>9. Uploads(c)'
        BY <2>1, <2>2, <2>4, <2>5, <2>8 DEF Uploads
    <2> QED
        BY <1>4, <2>1, <2>2, <2>4, <2>5, <2>6, <2>7, <2>9
<1> QED
    BY <1>5, <1>6, <1>7

\* What cat writes is of the build in use, into whatever has become of the file
\* it opened; the beginning that a caller's own shell has written stays.
LEMMA CatKeeps ==
    ASSUME DeployInv, SizeTells, NEW n \in Calls, CatWrites(n)
    PROVE  DeployInv'
<1> DEFINE p == proc[n]
           b == p.build
           s == data[p.ino]
           t == Written(s, p.pos + 1, b)
           q == [p EXCEPT !.pos = @ + 1]
<1>1. /\ data \in Seq(Seq(Cells)) /\ \A i \in 1..Len(data) : OneBuild(data[i])
      /\ file \in [Dirs -> [tmp : Nat, path : Nat]]
      /\ \A e \in Dirs : file[e].tmp <= Len(data) /\ file[e].path <= Len(data)
      /\ proc \in [Calls -> ShellType] /\ calls \in 0..MaxCalls /\ p \in ShellType
      /\ \A m \in Calls : ShellOk(m)
      /\ call \in [Callers -> CallType]
    BY DEF DeployInv, DeployTypes, FileTypes
<1>2. /\ p.st = "cat" /\ p.pos < p.sent
      /\ data' = [data EXCEPT ![p.ino] = t] /\ proc' = [proc EXCEPT ![n] = q]
      /\ UNCHANGED <<file, call, calls>>
    BY <1>1 DEF CatWrites
<1>3. /\ p.ino \in 1..Len(data) /\ b \in Installed /\ b \in Builds /\ Blocks[b] \in Nat
      /\ p.pos \in Nat /\ p.sent \in Nat /\ p.sent <= Blocks[b] /\ Of(s, b) /\ s \in Seq(Cells)
    <2>1. p.pos \in Nat /\ p.sent \in Nat
        BY <1>1 DEF ShellType
    <2>2. ShellOk(n)
        BY <1>1
    <2>3. p.ino \in 1..Len(data) /\ b \in Installed /\ p.sent <= Blocks[b] /\ Of(s, b)
        BY <1>2, <2>2 DEF ShellOk
    <2>4. s \in Seq(Cells)
        BY <1>1, <2>3
    <2> QED
        BY <2>1, <2>3, <2>4, DeployAssumption
<1>4. p.pos + 1 \in 1..Blocks[b] /\ p.pos + 1 <= p.sent
    BY <1>2, <1>3
<1>5. /\ t \in Seq(Cells) /\ Of(t, b) /\ OneBuild(t)
      /\ Len(s) <= Len(t) /\ p.pos + 1 <= Len(t) /\ t[p.pos + 1] = b
      /\ \A k \in 1..Len(s) : k # p.pos + 1 => t[k] = s[k]
    BY <1>3, <1>4, WrittenAt
<1>6. /\ q \in ShellType /\ q.st = p.st /\ q.dir = p.dir /\ q.ino = p.ino /\ q.build = p.build
      /\ q.sent = p.sent /\ q.pos = p.pos + 1
    <2>1. p.pos + 1 \in Nat
        BY <1>3
    <2> QED
        BY <1>1, <2>1 DEF ShellType
<1> HIDE DEF t, q, s
<1>7. /\ data' \in Seq(Seq(Cells)) /\ Len(data') = Len(data) /\ data'[p.ino] = t
      /\ \A i \in 1..Len(data) : i # p.ino => data'[i] = data[i]
    BY <1>1, <1>2, <1>3, <1>5
<1>8. proc' \in [Calls -> ShellType] /\ proc'[n] = q /\ \A m \in Calls \ {n} : proc'[m] = proc[m]
    BY <1>1, <1>2, <1>6
<1>9. \A i \in 1..Len(data') : OneBuild(data'[i])
    BY <1>1, <1>5, <1>7
<1>10. ASSUME NEW m \in Calls, proc[m].st = "cat" PROVE ShellOk(m)'
    <2>1. /\ proc[m].ino \in 1..Len(data) /\ proc[m].build \in Installed
          /\ proc[m].pos <= proc[m].sent /\ proc[m].sent <= Blocks[proc[m].build]
          /\ Of(data[proc[m].ino], proc[m].build)
        BY <1>1, <1>10 DEF ShellOk
    <2>2. proc[m].build = b
        BY <1>3, <2>1, SameBuild
    <2>3. Of(data'[proc[m].ino], b)
        BY <1>5, <1>7, <2>1, <2>2
    <2>4. proc'[m].ino = proc[m].ino /\ proc'[m].build = b /\ proc'[m].pos <= proc'[m].sent
          /\ proc'[m].sent = proc[m].sent
        BY <1>4, <1>6, <1>8, <2>1, <2>2
    <2> QED
        BY <1>7, <2>1, <2>2, <2>3, <2>4 DEF ShellOk, Of
<1>11. \A m \in Calls : ShellOk(m)'
    <2>1. \A m \in Calls : proc[m].st # "cat" => proc'[m].st # "cat"
        BY <1>2, <1>8
    <2> QED
        BY <1>10, <2>1 DEF ShellOk
<1>12. DeployTypes'
    BY <1>1, <1>2, <1>7, <1>8, <1>9, <1>11 DEF DeployTypes, FileTypes
<1>13. \A m \in Calls : calls < m => proc'[m] = NoProc
    <2>1. ~(calls < n)
        BY <1>2 DEF DeployInv, NoProc
    <2> QED
        BY <1>8, <2>1 DEF DeployInv
<1>14. ASSUME NEW c \in Callers, Calling(c)
      PROVE  Uploads(c)'
    <2> DEFINE o == proc[call[c].n]
               x == proc'[call[c].n]
    <2>1. /\ Uploads(c) /\ call[c] \in CallType /\ call[c].n \in Calls /\ call[c].dir \in Dirs
          /\ call[c].build \in Installed /\ o \in ShellType
        BY <1>1, <1>14 DEF DeployInv, CallType, Calls
    <2>2. /\ x.st = o.st /\ x.dir = o.dir /\ x.ino = o.ino /\ x.build = o.build /\ x.sent = o.sent
          /\ x.pos = IF call[c].n = n THEN o.pos + 1 ELSE o.pos
        BY <1>6, <1>8, <2>1
    <2>3. call[c].pc \in {"find", "check", "upload"} => x = NoProc
        <3>1. call[c].pc \in {"find", "check", "upload"} => call[c].n # n
            BY <1>2, <2>1 DEF Uploads, NoProc
        <3> QED
            BY <1>8, <2>1, <3>1 DEF Uploads
    <2>4. ASSUME call[c].pc \in {"send", "wait"} PROVE OwnFile(c)'
        <3>1. OwnFile(c)
            BY <2>1, <2>4 DEF Uploads
        <3>2. /\ o.dir = call[c].dir /\ o.build = call[c].build
              /\ o.ino \in 1..Len(data) /\ file[call[c].dir].tmp \in {0, o.ino}
              /\ o.st = "done" => file[call[c].dir].tmp = 0 /\ file[call[c].dir].path = o.ino
              /\ o.pos <= o.sent /\ o.sent <= Blocks[call[c].build] /\ o.pos <= Len(data[o.ino])
              /\ Of(data[o.ino], call[c].build) /\ \A k \in 1..o.pos : data[o.ino][k] = call[c].build
            BY <3>1 DEF OwnFile
        <3>3. call[c].build = b
            BY <1>3, <2>1, SameBuild
        <3>4. o.pos \in Nat /\ Len(s) \in Nat /\ Len(t) \in Nat /\ Len(data[o.ino]) \in Nat
            <4>1. o.pos \in Nat
                BY <2>1 DEF ShellType
            <4>2. data[o.ino] \in Seq(Cells)
                BY <1>1, <3>2
            <4> QED
                BY <1>3, <1>5, <4>1, <4>2
        <3>5. /\ Of(data'[o.ino], b) /\ x.pos <= Len(data'[o.ino]) /\ x.pos <= x.sent
              /\ \A k \in 1..x.pos : data'[o.ino][k] = b
            <4>1. CASE call[c].n = n
                <5>1. o = p /\ x.pos = p.pos + 1 /\ data'[o.ino] = t /\ data[o.ino] = s
                    BY <1>7, <2>2, <4>1 DEF s
                <5>2. \A k \in 1..(p.pos + 1) : t[k] = b
                    <6>1. \A k \in 1..(p.pos + 1) : k = p.pos + 1 \/ (k \in 1..p.pos /\ k \in 1..Len(s) /\ k # p.pos + 1)
                        BY <3>2, <3>4, <5>1
                    <6>2. \A k \in 1..p.pos : s[k] = b
                        BY <3>2, <3>3, <5>1
                    <6> QED
                        BY <1>5, <6>1, <6>2
                <5> QED
                    BY <1>4, <1>5, <2>2, <5>1, <5>2
            <4>2. CASE call[c].n # n /\ o.ino = p.ino
                <5>1. x.pos = o.pos /\ data'[o.ino] = t /\ data[o.ino] = s
                    BY <1>7, <2>2, <4>2 DEF s
                <5>2. \A k \in 1..o.pos : t[k] = b
                    <6>1. \A k \in 1..o.pos : k \in 1..Len(s)
                        BY <3>2, <3>4, <5>1
                    <6>2. \A k \in 1..o.pos : s[k] = b
                        BY <3>2, <3>3, <5>1
                    <6> QED
                        BY <1>5, <6>1, <6>2
                <5>3. x.pos <= Len(t)
                    BY <1>5, <3>2, <3>4, <5>1
                <5> QED
                    BY <1>5, <2>2, <3>2, <5>1, <5>2, <5>3
            <4>3. CASE call[c].n # n /\ o.ino # p.ino
                BY <1>7, <2>2, <3>2, <3>3, <4>3
            <4> QED
                BY <4>1, <4>2, <4>3
        <3>6. x.ino \in 1..Len(data')
            BY <1>7, <2>2, <3>2
        <3> HIDE DEF o, p, b
        <3>7. /\ x.dir = call[c].dir /\ x.build = b /\ x.ino \in 1..Len(data')
              /\ file'[call[c].dir].tmp \in {0, x.ino}
              /\ x.st = "done" => file'[call[c].dir].tmp = 0 /\ file'[call[c].dir].path = x.ino
              /\ x.pos <= x.sent /\ x.sent <= Blocks[b] /\ x.pos <= Len(data'[x.ino])
              /\ Of(data'[x.ino], b) /\ \A k \in 1..x.pos : data'[x.ino][k] = b
              /\ call'[c].dir = call[c].dir /\ call'[c].build = b /\ proc'[call'[c].n] = x
            BY <1>2, <2>2, <3>2, <3>3, <3>5, <3>6
        <3> HIDE DEF x
        <3> QED
            BY ONLY <3>7, OwnFileNext
    <2>5. call[c].pc = "wait" /\ o.st \in {"eof", "mv", "done"} => call[c].n # n
        BY <1>2
    <2> QED
        BY <1>2, <2>1, <2>2, <2>3, <2>4, <2>5 DEF Uploads
<1> QED
    BY <1>1, <1>2, <1>12, <1>13, <1>14, HostKeeps DEF Calling

\* The steps of a shell: it goes on with the end of the data, chmod and mv, or
\* fails; it does so for the caller whose upload it is and beside any other.
LEMMA ShellKeeps ==
    ASSUME DeployInv, NEW n \in Calls,
           CatEnds(n) \/ Chmod(n) \/ Move(n) \/ DiskFull(n) \/ ServerNotices(n)
    PROVE  DeployInv'
<1> DEFINE p == proc[n]
           d == p.dir
<1>1. /\ data \in Seq(Seq(Cells)) /\ \A i \in 1..Len(data) : OneBuild(data[i])
      /\ file \in [Dirs -> [tmp : Nat, path : Nat]]
      /\ \A e \in Dirs : file[e].tmp <= Len(data) /\ file[e].path <= Len(data)
      /\ proc \in [Calls -> ShellType] /\ calls \in 0..MaxCalls
      /\ \A m \in Calls : ShellOk(m)
      /\ call \in [Callers -> CallType] /\ p \in ShellType /\ d \in Dirs
    BY DEF DeployInv, DeployTypes, FileTypes, ShellType
\* The place the shell comes to; only mv touches the files, and what is on its
\* way is lost only without a caller.
<1>2. PICK s \in {"eof", "mv", "done", "failed"}, k \in {p.sent, p.pos} :
          /\ proc' = [proc EXCEPT ![n].st = s, ![n].sent = k]
          /\ k # p.sent => \A c \in Callers : ~(Calling(c) /\ call[c].n = n)
          /\ p.st \in {"cat", "eof", "mv"} /\ (s \in {"mv", "done"} => p.st # "cat")
          /\ p.st = "cat" /\ s # "failed" =>
                \/ p.pos = p.sent /\ \E c \in Callers : call[c].n = n /\ call[c].pc = "wait"
                \/ \A c \in Callers : ~(Calling(c) /\ call[c].n = n)
          /\ \/ file' = file /\ s # "done"
             \/ /\ file[d].tmp # 0 /\ s = "done"
                /\ file' = [file EXCEPT ![d] = [tmp |-> 0, path |-> file[d].tmp]]
    <2>0. \A s : [proc EXCEPT ![n].st = s] = [proc EXCEPT ![n].st = s, ![n].sent = p.sent]
        BY <1>1 DEF ShellType
    <2>1. CASE Move(n) /\ file[d].tmp # 0
        BY <2>0, <2>1 DEF Move
    <2>2. CASE Move(n) /\ file[d].tmp = 0
        BY <2>0, <2>2 DEF Move
    <2>3. CASE Chmod(n)
        BY <2>0, <2>3 DEF Chmod
    <2>4. CASE DiskFull(n)
        BY <2>0, <2>4 DEF DiskFull
    <2>5. CASE ServerNotices(n)
        BY <2>5 DEF ServerNotices
    <2>6. CASE CatEnds(n)
        BY <2>0, <2>6 DEF CatEnds
    <2> QED
        BY <2>1, <2>2, <2>3, <2>4, <2>5, <2>6
<1> DEFINE q == [p EXCEPT !.st = s, !.sent = k]
<1>3. /\ q \in ShellType /\ q.st = s /\ q.dir = d /\ q.ino = p.ino /\ q.build = p.build
      /\ q.pos = p.pos /\ q.sent = k /\ proc' = [proc EXCEPT ![n] = q]
    BY <1>1, <1>2 DEF ShellType
<1> HIDE DEF q
<1>4. /\ proc' \in [Calls -> ShellType] /\ proc'[n] = q
      /\ \A m \in Calls \ {n} : proc'[m] = proc[m]
    BY <1>1, <1>3
<1>5. data' = data /\ call' = call /\ calls' = calls
    BY DEF CatEnds, Chmod, Move, DiskFull, ServerNotices
<1>7. DeployTypes'
    <2>1. /\ file' \in [Dirs -> [tmp : Nat, path : Nat]]
          /\ \A e \in Dirs : file'[e].tmp <= Len(data) /\ file'[e].path <= Len(data)
        <3>1. CASE file' = file
            BY <1>1, <3>1
        <3>2. CASE file' = [file EXCEPT ![d] = [tmp |-> 0, path |-> file[d].tmp]]
            <4> DEFINE g == [tmp |-> 0, path |-> file[d].tmp]
            <4>1. /\ g \in [tmp : Nat, path : Nat] /\ g.tmp = 0 /\ g.path = file[d].tmp
                  /\ file[d].tmp <= Len(data) /\ 0 <= Len(data)
                BY <1>1
            <4> HIDE DEF g
            <4>2. file' = [file EXCEPT ![d] = g]
                BY <3>2 DEF g
            <4> HIDE DEF d, p
            <4> QED
                BY <1>1, <4>1, <4>2
        <3> QED
            BY <1>2, <3>1, <3>2
    <2>2. \A m \in Calls : ShellOk(m)'
        <3>1. ShellOk(n)'
            BY <1>2, <1>3, <1>4 DEF ShellOk
        <3>2. ASSUME NEW m \in Calls \ {n} PROVE ShellOk(m)'
            BY <1>1, <1>4, <1>5, <3>2 DEF ShellOk, Of
        <3> QED
            BY <3>1, <3>2
    <2> QED
        BY <1>1, <1>4, <1>5, <2>1, <2>2 DEF DeployTypes, FileTypes
<1>8. \A m \in Calls : calls < m => proc'[m] = NoProc
    <2>1. p.st # "none"
        BY <1>2
    <2>2. ~(calls < n)
        BY <2>1 DEF DeployInv, NoProc
    <2> QED
        BY <1>4, <2>2 DEF DeployInv
<1>9. ASSUME NEW c \in Callers, Calling(c)
      PROVE  Uploads(c)'
    <2>1. /\ Uploads(c) /\ call[c] \in CallType /\ call[c].n \in Calls /\ call[c].dir \in Dirs
        BY <1>1, <1>9 DEF DeployInv, CallType, Calls
    <2>2. CASE call[c].n = n
        <3>0. k = p.sent
            BY <1>2, <1>9, <2>2
        <3>1. call[c].pc \notin {"find", "check", "upload"} /\ (call[c].pc \in {"send", "wait"} => OwnFile(c))
            BY <1>2, <2>1, <2>2 DEF Uploads, NoProc
        <3>2. call[c].pc \in {"send", "wait"} => OwnFile(c)'
            <4> SUFFICES ASSUME call[c].pc \in {"send", "wait"} PROVE OwnFile(c)'
                OBVIOUS
            <4>1. OwnFile(c) /\ d = call[c].dir /\ p.build = call[c].build
                BY <2>2, <3>1 DEF OwnFile
            <4>3. /\ q = proc'[call'[c].n] /\ q.dir = call'[c].dir /\ q.build = call'[c].build
                  /\ q.ino \in 1..Len(data')
                  /\ q.pos <= q.sent /\ q.sent <= Blocks[call'[c].build] /\ q.pos <= Len(data'[q.ino])
                  /\ Of(data'[q.ino], call'[c].build)
                  /\ \A j \in 1..q.pos : data'[q.ino][j] = call'[c].build
                BY <1>3, <1>4, <1>5, <2>2, <3>0, <4>1 DEF OwnFile
            <4>4. file[d].tmp \in {0, q.ino}
                BY <1>3, <2>2, <4>1 DEF OwnFile
            <4>5. /\ file'[d].tmp \in {0, q.ino}
                  /\ s = "done" => file'[d].tmp = 0 /\ file'[d].path = q.ino
                BY <1>1, <1>2, <4>4
            <4> QED
                BY <1>3, <1>5, <4>1, <4>3, <4>5, OwnFileNext
        <3>3. call[c].pc = "send" => s = "failed"
            <4>1. call[c].pc = "send" => p.st = "cat"
                BY <1>2, <2>1, <2>2 DEF Uploads
            <4>2. call[c].pc = "send" => ~\E e \in Callers : call[e].n = n /\ call[e].pc = "wait"
                <5> SUFFICES ASSUME call[c].pc = "send", NEW e \in Callers, call[e].n = n, call[e].pc = "wait"
                             PROVE FALSE
                    OBVIOUS
                <5> QED
                    BY <1>9 DEF DeployInv, Calling
            <4> QED
                BY <1>2, <1>9, <2>2, <4>1, <4>2
        <3>4. call[c].pc = "wait" => /\ p.sent = Blocks[call[c].build]
                                     /\ s \in {"eof", "mv", "done"} => p.pos = Blocks[call[c].build]
            <4>1. call[c].pc = "wait" => /\ p.sent = Blocks[call[c].build]
                                         /\ p.st \in {"eof", "mv"} => p.pos = Blocks[call[c].build]
                BY <2>1, <2>2 DEF Uploads
            <4> QED
                BY <1>2, <1>9, <2>2, <4>1
        <3> QED
            BY <1>3, <1>4, <1>5, <2>2, <3>0, <3>1, <3>2, <3>3, <3>4 DEF Uploads
    <2>3. CASE call[c].n # n
        <3>1. proc'[call[c].n] = proc[call[c].n]
            BY <1>4, <2>1, <2>3
        <3>2. OwnFile(c) => OwnFile(c)'
            <4>1. CASE file' = file
                BY <1>5, <3>1, <4>1 DEF OwnFile, Of
            <4>2. CASE /\ file[d].tmp # 0
                       /\ file' = [file EXCEPT ![d] = [tmp |-> 0, path |-> file[d].tmp]]
                BY <1>1, <1>5, <2>1, <3>1, <4>2 DEF OwnFile, Of
            <4> QED
                BY <1>2, <4>1, <4>2
        <3> QED
            BY <1>5, <2>1, <3>1, <3>2 DEF Uploads
    <2> QED
        BY <2>2, <2>3
<1> QED
    BY <1>1, <1>5, <1>7, <1>8, <1>9, HostKeeps DEF Calling

\* Every step keeps the files and the shells accounted for.
LEMMA DeployNext == ~Overlap /\ SizeTells /\ DeployInv /\ [DpNext]_dpvars => DeployInv'
<1> SUFFICES ASSUME ~Overlap, SizeTells, DeployInv, [DpNext]_dpvars PROVE DeployInv'
    OBVIOUS
<1>1. CASE UNCHANGED dpvars
    BY <1>1, ZenonT(60) DEF dpvars, DeployInv, DeployTypes, FileTypes, ShellOk, Of, Calling, Uploads, OwnFile
<1> QED
    BY <1>1, CallerSteps, SendingKeeps, CatKeeps, ShellKeeps DEF DpNext

\* How far a cut goes: without one there is no hole and no shell but the
\* caller's writes; after one, a hole is only in the file that the caller's
\* shell is about to fill, and so is any shell that writes behind the end.
Uploading(c) == call[c].pc \in {"send", "wait"}
Filling(i) == \E c \in Callers : Uploading(c) /\ proc[call[c].n].ino = i
Late(n) == proc[n].st = "cat" /\ \A c \in Callers : Uploading(c) => call[c].n # n
Stopped(c) == Uploading(c) /\ proc[call[c].n].st = "failed" /\ proc[call[c].n].pos < Blocks[call[c].build]
NoHoles == \A i \in 1..Len(data) : ~HasHole(data[i])
Behind(n) == proc[n].pos <= Len(data[proc[n].ino]) \/ Filling(proc[n].ino)

CutInv ==
    /\ drops \in Nat
    /\ drops = 0 => NoHoles /\ (\A n \in Calls : ~Late(n)) /\ \A c \in Callers : ~Stopped(c)
    /\ drops = 1 => /\ \A i \in 1..Len(data) : HasHole(data[i]) => Filling(i)
                    /\ \A n \in Calls : proc[n].st = "cat" => Behind(n)
                    /\ \A c \in Callers : Stopped(c) => NoHoles /\ \A n \in Calls : proc[n].st # "cat"

\* The only caller that uploads, and its shell.
LEMMA TheUpload ==
    ASSUME DeployInv, NEW c \in Callers, Uploading(c)
    PROVE  /\ Calling(c) /\ \A d \in Callers : Uploading(d) => d = c
           /\ call[c].n \in Calls /\ call[c].build \in Installed /\ Uploads(c) /\ OwnFile(c)
           /\ \A n \in Calls : Filling(proc[n].ino) <=> proc[n].ino = proc[call[c].n].ino
           /\ \A i : Filling(i) <=> i = proc[call[c].n].ino
<1>1. Calling(c) /\ \A d \in Callers : Uploading(d) => d = c
    BY DEF DeployInv, Calling, Uploading
<1>2. /\ call[c].n = calls /\ calls # 0 /\ calls \in 0..MaxCalls
      /\ call[c].build \in Installed /\ Uploads(c)
    BY <1>1 DEF DeployInv, DeployTypes
<1>3. call[c].n \in Calls
    BY <1>2, DeployAssumption DEF Calls
<1>4. OwnFile(c)
    BY <1>2 DEF Uploads, Uploading
<1>5. \A i : Filling(i) <=> i = proc[call[c].n].ino
    BY <1>1 DEF Filling
<1> QED
    BY <1>1, <1>2, <1>3, <1>4, <1>5

\* No upload has begun.
LEMMA CutInit == DpInit => CutInv
<1> SUFFICES ASSUME DpInit PROVE CutInv
    OBVIOUS
<1>1. drops = 0 /\ proc = [n \in Calls |-> NoProc] /\ call = [c \in Callers |-> NoCall]
    BY DEF DpInit
<1>2. NoHoles
    <2>1. CASE data = <<>>
        BY <2>1 DEF NoHoles
    <2>2. CASE \E b \in Builds : \E k \in 1..Blocks[b] : data = <<SubSeq(Content(b), 1, k)>>
        <3>1. PICK b \in Builds : \E k \in 1..Blocks[b] : data = <<SubSeq(Content(b), 1, k)>>
            BY <2>2
        <3>0. PICK k \in 1..Blocks[b] : data = <<SubSeq(Content(b), 1, k)>>
            BY <3>1
        <3> DEFINE s == SubSeq(Content(b), 1, k)
        <3>2. Blocks[b] \in Nat /\ Content(b) \in Seq(Cells) /\ Len(Content(b)) = Blocks[b] /\ b # Hole
            BY DeployAssumption DEF Content, Builds, Cells
        <3>3. Len(s) = k /\ \A j \in 1..k : s[j] = b
            BY <3>2 DEF Content
        <3>4. ~HasHole(s)
            BY <3>2, <3>3 DEF HasHole
        <3> HIDE DEF s
        <3>5. Len(data) = 1 /\ data[1] = s
            BY <3>0 DEF s
        <3> QED
            BY <3>4, <3>5 DEF NoHoles
    <2> QED
        BY <2>1, <2>2 DEF DpInit
<1>3. \A n \in Calls : ~Late(n)
    BY <1>1 DEF Late, NoProc
<1>4. \A c \in Callers : ~Stopped(c)
    BY <1>1 DEF Stopped, Uploading, NoCall
<1> QED
    BY <1>1, <1>2, <1>3, <1>4 DEF CutInv

\* A step that neither writes, nor ends a shell, nor begins or ends an upload.
LEMMA CutFrame ==
    ASSUME DeployInv, CutInv, UNCHANGED <<data, drops>>,
           \A n \in Calls : /\ proc'[n].st = proc[n].st /\ proc'[n].ino = proc[n].ino
                            /\ proc'[n].pos = proc[n].pos,
           \A e \in Callers : /\ Uploading(e)' <=> Uploading(e)
                              /\ Uploading(e) => call'[e].n = call[e].n /\ call'[e].build = call[e].build
    PROVE  CutInv'
<1>1. \A e \in Callers : Uploading(e) => call[e].n \in Calls
    BY TheUpload
<1>2. \A i : Filling(i)' <=> Filling(i)
    BY <1>1 DEF Filling
<1>3. \A n \in Calls : Late(n)' <=> Late(n)
    BY DEF Late
<1>4. \A e \in Callers : Stopped(e)' <=> Stopped(e)
    BY <1>1 DEF Stopped
<1>5. NoHoles' <=> NoHoles
    BY DEF NoHoles, HasHole
<1>6. \A i \in 1..Len(data) : HasHole(data[i])' <=> HasHole(data[i])
    BY DEF HasHole
<1>7. \A n \in Calls : Behind(n)' <=> Behind(n)
    BY <1>2 DEF Behind
<1> QED
    BY <1>2, <1>3, <1>4, <1>5, <1>6, <1>7 DEF CutInv

\* The steps of a caller.
LEMMA CutCaller ==
    ASSUME DeployInv, SizeTells, CutInv, NEW c \in Callers,
           \/ \E b \in Installed : Begin(c, b)
           \/ \E d \in Dirs : CachePath(c, d)
           \/ CheckRemote(c) \/ StartUpload(c) \/ SendChunk(c) \/ CloseStdin(c)
           \/ UploadReturns(c) \/ Drop(c) \/ RunServer(c)
    PROVE  CutInv'
<1>1. call \in [Callers -> CallType] /\ call[c] \in CallType /\ proc \in [Calls -> ShellType]
    BY DEF DeployInv, DeployTypes
<1>2. NoCall \in CallType /\ NoCall.pc = "idle"
    BY DEF NoCall, CallType, Dirs
<1>3. ASSUME NEW r \in CallType, call' = [call EXCEPT ![c] = r], ~Uploading(c),
             r.pc \notin {"send", "wait"}, UNCHANGED <<data, drops, proc>>
      PROVE  CutInv'
    <2>1. \A e \in Callers : call'[e] = IF e = c THEN r ELSE call[e]
        BY <1>1, <1>3
    <2> QED
        BY <1>3, <2>1, CutFrame DEF Uploading
<1>4. ASSUME NEW b \in Installed, Begin(c, b) PROVE CutInv'
    <2> DEFINE r == [NoCall EXCEPT !.pc = "find", !.build = b, !.n = calls + 1]
    <2>0. calls + 1 \in Nat
        BY DEF DeployInv, DeployTypes
    <2>1. r \in CallType /\ r.pc = "find"
        BY <1>2, <2>0 DEF CallType
    <2>2. call' = [call EXCEPT ![c] = r] /\ ~Uploading(c) /\ UNCHANGED <<data, drops, proc>>
        BY <1>4 DEF Begin, Uploading, Calling
    <2> HIDE DEF r
    <2> QED
        BY <1>3, <2>1, <2>2
<1>5. ASSUME NEW d \in Dirs, CachePath(c, d) PROVE CutInv'
    <2> DEFINE r == [call[c] EXCEPT !.pc = "check", !.dir = d]
    <2>1. r \in CallType /\ r.pc = "check"
        BY <1>1 DEF CallType
    <2>2. call' = [call EXCEPT ![c] = r] /\ ~Uploading(c) /\ UNCHANGED <<data, drops, proc>>
        BY <1>1, <1>5 DEF CachePath, Uploading
    <2> HIDE DEF r
    <2> QED
        BY <1>3, <2>1, <2>2
<1>6. CASE CheckRemote(c)
    <2>1. PICK pc \in {"ok", "upload"} : call' = [call EXCEPT ![c].pc = pc]
        BY <1>6 DEF CheckRemote
    <2> DEFINE r == [call[c] EXCEPT !.pc = pc]
    <2>2. r \in CallType /\ r.pc = pc
        BY <1>1 DEF CallType
    <2>3. call' = [call EXCEPT ![c] = r] /\ ~Uploading(c) /\ UNCHANGED <<data, drops, proc>>
        BY <1>1, <1>6, <2>1 DEF CheckRemote, Uploading
    <2> HIDE DEF r
    <2> QED
        BY <1>3, <2>2, <2>3
<1>7. CASE RunServer(c)
    BY <1>2, <1>3, <1>7 DEF RunServer, Uploading
<1>8. CASE SendChunk(c)
    <2>1. /\ Uploading(c) /\ UNCHANGED <<data, drops, call>>
          /\ proc' = [proc EXCEPT ![call[c].n].sent = proc[call[c].n].sent + 1]
        BY <1>8 DEF SendChunk, Uploading
    <2>2. call[c].n \in Calls
        BY <2>1, TheUpload
    <2>3. \A n \in Calls : /\ proc'[n].st = proc[n].st /\ proc'[n].ino = proc[n].ino
                           /\ proc'[n].pos = proc[n].pos
        BY <1>1, <2>1, <2>2 DEF ShellType
    <2> QED
        BY <2>1, <2>3, CutFrame DEF Uploading
<1>9. CASE CloseStdin(c)
    <2> DEFINE r == [call[c] EXCEPT !.pc = "wait"]
    <2>1. /\ call' = [call EXCEPT ![c] = r] /\ Uploading(c) /\ UNCHANGED <<data, drops, proc>>
        BY <1>1, <1>9 DEF CloseStdin, Uploading
    <2>2. r.pc = "wait" /\ r.n = call[c].n /\ r.build = call[c].build
        BY <1>1 DEF CallType
    <2> HIDE DEF r
    <2>3. \A e \in Callers : call'[e] = IF e = c THEN r ELSE call[e]
        BY <1>1, <2>1
    <2> QED
        BY <2>1, <2>2, <2>3, CutFrame DEF Uploading
<1>10. CASE StartUpload(c)
    <2> DEFINE n == call[c].n
    <2>0. PICK ino : ino = proc'[n].ino
        OBVIOUS
    <2>1. /\ Calling(c) /\ \A e \in Callers : ~Uploading(e)
          /\ n \in Calls /\ call[c].dir \in Dirs /\ UNCHANGED drops
        <3>1. call[c].pc = "upload" /\ Calling(c) /\ UNCHANGED drops
            BY <1>10 DEF StartUpload, Calling
        <3>2. n = calls /\ calls # 0 /\ calls \in 0..MaxCalls
            BY <3>1 DEF DeployInv, DeployTypes
        <3>3. \A e \in Callers : ~Uploading(e)
            BY <3>1 DEF DeployInv, Uploading, Calling
        <3> QED
            BY <1>1, <3>1, <3>2, <3>3 DEF Calls, CallType
    <2>2. /\ \A m \in Calls \ {n} : proc'[m] = proc[m]
          /\ proc'[n].st = "cat" /\ proc'[n].pos = 0
          /\ ino = IF file[call[c].dir].tmp # 0 THEN file[call[c].dir].tmp ELSE Len(data) + 1
        <3>1. proc' = [proc EXCEPT ![n] = proc'[n]] /\ proc'[n] =
                 [NoProc EXCEPT !.st = "cat", !.dir = call[c].dir,
                    !.ino = IF file[call[c].dir].tmp # 0 THEN file[call[c].dir].tmp ELSE Len(data) + 1,
                    !.build = call[c].build]
            BY <1>1, <1>10, <2>1 DEF StartUpload
        <3> QED
            BY <1>1, <2>0, <3>1 DEF NoProc
    <2>3. call'[c].n = n /\ Uploading(c)'
        BY <1>1, <1>10 DEF StartUpload, Uploading, CallType
    <2>4. /\ Len(data) \in Nat /\ Len(data') \in Nat /\ data'[ino] = <<>>
          /\ \A i \in 1..Len(data') : i # ino => data'[i] = data[i] /\ i \in 1..Len(data)
        <3>1. data \in Seq(Seq(Cells)) /\ file[call[c].dir].tmp \in Nat /\ file[call[c].dir].tmp <= Len(data)
            BY <2>1 DEF DeployInv, DeployTypes, FileTypes
        <3>2. <<>> \in Seq(Cells)
            OBVIOUS
        <3>3. CASE file[call[c].dir].tmp # 0
            BY <1>10, <2>2, <3>1, <3>2, <3>3 DEF StartUpload
        <3>4. CASE file[call[c].dir].tmp = 0
            <4>1. data' = Append(data, <<>>) /\ ino = Len(data) + 1
                BY <1>10, <2>2, <3>4 DEF StartUpload
            <4> QED
                BY <3>1, <3>2, <4>1
        <3> QED
            BY <3>3, <3>4
    <2>5. Filling(ino)'
        BY <2>0, <2>3 DEF Filling, Uploading
    <2>6. NoHoles => NoHoles'
        <3>1. ~HasHole(<<>>)
            BY DEF HasHole
        <3> QED
            BY <2>4, <3>1 DEF NoHoles, HasHole
    <2>7. \A e \in Callers : ~Stopped(e)'
        <3>1. \A e \in Callers \ {c} : call'[e] = call[e]
            BY <1>1, <1>10 DEF StartUpload
        <3> QED
            BY <2>1, <2>2, <2>3, <3>1 DEF Stopped, Uploading
    <2>8. drops = 0 => \A m \in Calls : ~Late(m)'
        BY <2>1, <2>2, <2>3 DEF CutInv, Late
    <2>9. drops = 1 => NoHoles /\ \A m \in Calls : proc[m].st = "cat" => proc[m].pos <= Len(data[proc[m].ino])
        BY <2>1 DEF CutInv, Behind, Filling, NoHoles
    <2>10. ASSUME drops = 1, NEW m \in Calls, proc'[m].st = "cat" PROVE Behind(m)'
        <3>1. CASE proc'[m].ino = ino
            BY <2>5, <3>1 DEF Behind, Filling
        <3>2. CASE proc'[m].ino # ino
            <4>1. proc'[m] = proc[m] /\ proc[m].ino \in 1..Len(data')
                <5>1. ShellOk(m)'
                    BY <1>10, SendingKeeps DEF DeployInv, DeployTypes
                <5> QED
                    BY <2>0, <2>2, <2>10, <3>2, <5>1 DEF ShellOk
            <4> QED
                BY <2>4, <2>9, <2>10, <3>2, <4>1 DEF Behind
        <3> QED
            BY <3>1, <3>2
    <2> QED
        BY <2>1, <2>6, <2>7, <2>8, <2>9, <2>10 DEF CutInv, NoHoles
<1>11. CASE UploadReturns(c)
    <2> DEFINE p == proc[call[c].n]
               b == call[c].build
    <2>1. /\ Uploading(c) /\ p.st \in {"done", "failed"} /\ UNCHANGED <<data, proc, drops>>
        BY <1>11 DEF UploadReturns, Uploading
    <2>2. \A e \in Callers : ~Uploading(e)' /\ (e # c => ~Uploading(e))
        <3>1. call'[c].pc \in {"ok", "idle"}
            BY <1>1, <1>2, <1>11 DEF UploadReturns, CallType
        <3>2. \A e \in Callers \ {c} : call'[e] = call[e]
            BY <1>1, <1>11 DEF UploadReturns
        <3> QED
            BY <2>1, <3>1, <3>2, TheUpload DEF Uploading
    <2>3. /\ call[c].n \in Calls /\ b \in Installed /\ b \in Builds /\ Uploads(c) /\ OwnFile(c)
          /\ \A i : Filling(i) <=> i = p.ino
        BY <2>1, TheUpload, DeployAssumption
    <2>4. ASSUME p.pos = Blocks[b]
          PROVE  p.ino \in 1..Len(data) /\ ~HasHole(data[p.ino]) /\ Len(data[p.ino]) = Blocks[b]
        <3>1. /\ p.ino \in 1..Len(data) /\ p.pos <= Len(data[p.ino]) /\ Len(data[p.ino]) <= Blocks[b]
              /\ \A k \in 1..Blocks[b] : data[p.ino][k] = b
            BY <2>3, <2>4 DEF OwnFile, Of
        <3>2. Blocks[b] \in Nat /\ b # Hole /\ Len(data[p.ino]) \in Nat
            <4>1. data[p.ino] \in Seq(Cells)
                BY <3>1 DEF DeployInv, DeployTypes, FileTypes
            <4> QED
                BY <2>3, <4>1, DeployAssumption
        <3>3. Len(data[p.ino]) = Blocks[b]
            BY <2>4, <3>1, <3>2
        <3>4. \A k \in 1..Len(data[p.ino]) : data[p.ino][k] # Hole
            BY <3>1, <3>2, <3>3
        <3> QED
            BY <3>1, <3>3, <3>4 DEF HasHole
    <2>5. p.pos = Blocks[b] \/ Stopped(c)
        <3>1. p.pos \in Nat /\ Blocks[b] \in Nat /\ p.pos <= p.sent /\ p.sent <= Blocks[b] /\ p.sent \in Nat
            BY <1>1, <2>3, DeployAssumption DEF OwnFile, ShellType
        <3>2. p.st = "done" => p.pos = Blocks[b]
            BY <2>1, <2>3 DEF Uploads, Uploading
        <3> QED
            BY <2>1, <3>1, <3>2 DEF Stopped
    <2>6. \A n \in Calls : Late(n)' => Late(n)
        BY <2>1, <2>2, <2>3 DEF Late
    <2>7. \A e \in Callers : ~Stopped(e)'
        BY <2>2 DEF Stopped
    <2>8. ASSUME drops = 1 PROVE NoHoles /\ \A n \in Calls : proc[n].st = "cat" => Behind(n)'
        <3>1. CASE Stopped(c)
            BY <2>8, <3>1 DEF CutInv
        <3>2. CASE p.pos = Blocks[b]
            <4>1. NoHoles
                BY <2>3, <2>4, <2>8, <3>2 DEF CutInv, NoHoles
            <4>2. ASSUME NEW n \in Calls, proc[n].st = "cat" PROVE proc[n].pos <= Len(data[proc[n].ino])
                <5>1. CASE proc[n].ino = p.ino
                    <6>1. proc[n].build \in Installed /\ proc[n].pos <= proc[n].sent /\ proc[n].sent <= Blocks[proc[n].build]
                        BY <4>2 DEF DeployInv, DeployTypes, ShellOk
                    <6>2. proc[n].build = b
                        BY <2>3, <6>1, SameBuild
                    <6>3. proc[n].pos \in Nat /\ proc[n].sent \in Nat /\ Blocks[b] \in Nat
                        BY <1>1, <2>3, DeployAssumption DEF ShellType
                    <6> QED
                        BY <2>4, <3>2, <5>1, <6>1, <6>2, <6>3
                <5>2. CASE proc[n].ino # p.ino
                    BY <2>3, <2>8, <4>2, <5>2 DEF CutInv, Behind
                <5> QED
                    BY <5>1, <5>2
            <4> QED
                BY <2>1, <4>1, <4>2 DEF Behind
        <3> QED
            BY <2>5, <3>1, <3>2
    <2>9. NoHoles => NoHoles'
        BY <2>1 DEF NoHoles, HasHole
    <2> QED
        BY <2>1, <2>6, <2>7, <2>8, <2>9 DEF CutInv, NoHoles
<1>12. CASE Drop(c)
    <2>1. /\ drops' = drops + 1 /\ UNCHANGED <<data, proc>> /\ Calling(c)
          /\ \A e \in Callers : ~Uploading(e)'
        <3>1. call'[c].pc = "idle" /\ \A e \in Callers \ {c} : call'[e] = call[e]
            BY <1>1, <1>2, <1>12 DEF Drop
        <3>2. \A e \in Callers \ {c} : ~Uploading(e)
            BY <1>12 DEF Drop, DeployInv, Calling, Uploading
        <3> QED
            BY <1>12, <3>1, <3>2 DEF Drop, Uploading
    <2>2. \A e \in Callers : ~Stopped(e)'
        BY <2>1 DEF Stopped
    <2>3. ASSUME drops = 0 PROVE NoHoles' /\ \A n \in Calls : proc'[n].st = "cat" => Behind(n)'
        <3>1. NoHoles'
            BY <2>1, <2>3 DEF CutInv, NoHoles, HasHole
        <3>2. ASSUME NEW n \in Calls, proc[n].st = "cat" PROVE proc[n].pos <= Len(data[proc[n].ino])
            <4>1. PICK e \in Callers : Uploading(e) /\ call[e].n = n
                BY <2>3, <3>2 DEF CutInv, Late
            <4> QED
                BY <4>1, TheUpload DEF OwnFile
        <3> QED
            BY <2>1, <3>1, <3>2 DEF Behind
    <2> QED
        BY <2>1, <2>2, <2>3 DEF CutInv, NoHoles
<1> QED
    BY <1>4, <1>5, <1>6, <1>7, <1>8, <1>9, <1>10, <1>11, <1>12

\* A block written by cat: behind the end only into the file being filled.
LEMMA CutCat ==
    ASSUME DeployInv, CutInv, NEW n \in Calls, CatWrites(n)
    PROVE  CutInv'
<1> DEFINE p == proc[n]
           s == data[p.ino]
           t == Written(s, p.pos + 1, p.build)
<1>1. /\ data \in Seq(Seq(Cells)) /\ proc \in [Calls -> ShellType] /\ p \in ShellType
      /\ p.st = "cat" /\ p.pos < p.sent /\ UNCHANGED <<file, call, calls, drops>>
      /\ data' = [data EXCEPT ![p.ino] = t] /\ proc' = [proc EXCEPT ![n].pos = p.pos + 1]
    BY DEF DeployInv, DeployTypes, FileTypes, CatWrites
<1>2. /\ p.ino \in 1..Len(data) /\ p.build \in Builds /\ p.pos + 1 \in 1..Blocks[p.build]
      /\ Of(s, p.build) /\ s \in Seq(Cells) /\ p.pos \in Nat
    <2>1. ShellOk(n)
        BY DEF DeployInv, DeployTypes
    <2>2. /\ p.ino \in 1..Len(data) /\ p.build \in Installed /\ p.sent <= Blocks[p.build]
          /\ Of(s, p.build)
        BY <1>1, <2>1 DEF ShellOk
    <2>3. p.pos \in Nat /\ p.sent \in Nat
        BY <1>1 DEF ShellType
    <2>4. p.build \in Builds /\ Blocks[p.build] \in Nat
        BY <2>2, DeployAssumption
    <2>5. s \in Seq(Cells)
        BY <1>1, <2>2
    <2>6. p.pos + 1 \in 1..Blocks[p.build]
        BY <1>1, <2>2, <2>3, <2>4
    <2> QED
        BY <2>2, <2>3, <2>4, <2>5, <2>6
<1>3. /\ t \in Seq(Cells) /\ Len(s) <= Len(t) /\ p.pos + 1 <= Len(t)
      /\ ~HasHole(s) /\ p.pos + 1 <= Len(s) + 1 => ~HasHole(t)
    BY <1>2, WrittenAt
<1>4. \A m \in Calls : /\ proc'[m].st = proc[m].st /\ proc'[m].ino = proc[m].ino
                       /\ proc'[m].pos = IF m = n THEN p.pos + 1 ELSE proc[m].pos
    BY <1>1 DEF ShellType
<1> HIDE DEF t, s
<1>5. /\ Len(data') = Len(data) /\ data'[p.ino] = t /\ Len(data) \in Nat
      /\ \A i \in 1..Len(data) : i # p.ino => data'[i] = data[i]
    BY <1>1, <1>2, <1>3
<1>6. \A e \in Callers : Uploading(e)' <=> Uploading(e)
    BY <1>1 DEF Uploading
<1>7. \A i : Filling(i)' <=> Filling(i)
    <2>1. \A e \in Callers : Uploading(e) => call[e].n \in Calls
        BY TheUpload
    <2> QED
        BY <1>1, <1>4, <1>6, <2>1 DEF Filling
<1>8. \A m \in Calls : Late(m)' <=> Late(m)
    BY <1>1, <1>4, <1>6 DEF Late
<1>9. \A e \in Callers : Stopped(e)' => Stopped(e)
    <2>1. \A e \in Callers : Uploading(e) => call[e].n \in Calls
        BY TheUpload
    <2> QED
        BY <1>1, <1>4, <1>6, <2>1 DEF Stopped
<1>10. ~HasHole(s) /\ p.pos <= Len(s) => ~HasHole(t)
    <2>1. Len(s) \in Nat
        BY <1>2
    <2> QED
        BY <1>2, <1>3, <2>1
<1>11. ASSUME drops = 0 PROVE NoHoles'
    <2>1. PICK e \in Callers : Uploading(e) /\ call[e].n = n
        BY <1>1, <1>11 DEF CutInv, Late
    <2>2. p.pos <= Len(s)
        BY <2>1, TheUpload DEF OwnFile, s
    <2>3. ~HasHole(s) /\ \A i \in 1..Len(data) : ~HasHole(data[i])
        BY <1>2, <1>11 DEF CutInv, NoHoles, s
    <2> QED
        BY <1>5, <1>10, <2>2, <2>3 DEF NoHoles, HasHole
<1>12. ASSUME drops = 1, NEW i \in 1..Len(data), HasHole(data'[i]) PROVE Filling(i)
    <2>1. CASE i # p.ino
        BY <1>5, <1>12, <2>1 DEF CutInv, HasHole
    <2>2. CASE i = p.ino /\ ~Filling(i)
        <3>1. ~HasHole(s) /\ p.pos <= Len(s)
            BY <1>1, <1>12, <2>2 DEF CutInv, Behind, s
        <3> QED
            BY <1>5, <1>10, <1>12, <2>2, <3>1 DEF HasHole
    <2> QED
        BY <2>1, <2>2
<1>13. ASSUME drops = 1, NEW m \in Calls, proc[m].st = "cat" PROVE Behind(m)'
    <2>0. /\ proc[m].ino \in 1..Len(data) /\ proc[m].pos \in Nat
          /\ Len(data[proc[m].ino]) \in Nat /\ Len(s) \in Nat /\ Len(t) \in Nat
        <3>1. ShellOk(m)
            BY DEF DeployInv, DeployTypes
        <3>2. proc[m].ino \in 1..Len(data) /\ proc[m].pos \in Nat
            BY <1>1, <1>13, <3>1 DEF ShellOk, ShellType
        <3>3. data[proc[m].ino] \in Seq(Cells)
            BY <1>1, <3>2
        <3> QED
            BY <1>2, <1>3, <3>2, <3>3
    <2>1. CASE m = n
        BY <1>3, <1>4, <1>5, <2>1 DEF Behind
    <2>2. CASE m # n /\ Filling(proc[m].ino)
        BY <1>4, <1>7, <2>2 DEF Behind
    <2>3. CASE m # n /\ ~Filling(proc[m].ino)
        <3>1. proc[m].pos <= Len(data[proc[m].ino])
            BY <1>13, <2>3 DEF CutInv, Behind
        <3>2. Len(data[proc[m].ino]) <= Len(data'[proc[m].ino]) /\ Len(data'[proc[m].ino]) \in Nat
            <4>1. CASE proc[m].ino = p.ino
                BY <1>3, <1>5, <2>0, <4>1 DEF s
            <4>2. CASE proc[m].ino # p.ino
                BY <1>5, <2>0, <4>2
            <4> QED
                BY <4>1, <4>2
        <3>3. proc'[m].pos = proc[m].pos /\ proc'[m].ino = proc[m].ino
            BY <1>4, <2>3
        <3>4. proc'[m].pos <= Len(data'[proc'[m].ino])
            BY <2>0, <3>1, <3>2, <3>3
        <3> QED
            BY <3>4 DEF Behind
    <2> QED
        BY <2>1, <2>2, <2>3
<1>14. drops = 1 => \A e \in Callers : ~Stopped(e)'
    BY <1>1, <1>9 DEF CutInv
<1>15. drops = 0 => \A e \in Callers : ~Stopped(e)'
    BY <1>9 DEF CutInv
<1>16. drops = 1 => \A i \in 1..Len(data') : HasHole(data[i])' => Filling(i)'
    BY <1>5, <1>7, <1>12 DEF HasHole
<1> QED
    BY <1>1, <1>4, <1>8, <1>11, <1>13, <1>14, <1>15, <1>16 DEF CutInv

\* A shell ends its cat, or goes on, or stops.
LEMMA CutShell ==
    ASSUME DeployInv, CutInv, NEW n \in Calls,
           CatEnds(n) \/ Chmod(n) \/ Move(n) \/ DiskFull(n) \/ ServerNotices(n)
    PROVE  CutInv'
<1>1. proc \in [Calls -> ShellType]
    BY DEF DeployInv, DeployTypes
<1>2. /\ UNCHANGED <<data, call>> /\ proc[n].st \in {"cat", "eof", "mv"} /\ proc'[n].st # "cat"
      /\ \A m \in Calls : /\ proc'[m].ino = proc[m].ino /\ proc'[m].pos = proc[m].pos
                          /\ m # n => proc'[m].st = proc[m].st
    BY <1>1 DEF CatEnds, Chmod, Move, DiskFull, ServerNotices, ShellType
<1>3. \A e \in Callers : Uploading(e)' <=> Uploading(e)
    BY <1>2 DEF Uploading
<1>4. \A e \in Callers : Uploading(e) => call[e].n \in Calls /\ Uploads(e)
    BY TheUpload
<1>5. \A i : Filling(i)' <=> Filling(i)
    BY <1>2, <1>3, <1>4 DEF Filling
<1>6. \A m \in Calls : Late(m)' => Late(m)
    BY <1>2, <1>3 DEF Late
<1>7. NoHoles' <=> NoHoles
    BY <1>2 DEF NoHoles, HasHole
<1>8. CASE DiskFull(n)
    <2>1. drops' = drops + 1 /\ proc[n].st = "cat"
        BY <1>8 DEF DiskFull
    <2>2. ASSUME drops = 0 PROVE NoHoles /\ \A m \in Calls : proc'[m].st # "cat"
        <3>1. PICK c \in Callers : Uploading(c) /\ call[c].n = n
            BY <2>1, <2>2 DEF CutInv, Late
        <3>2. ASSUME NEW m \in Calls, m # n, proc[m].st = "cat" PROVE FALSE
            <4>1. PICK e \in Callers : Uploading(e) /\ call[e].n = m
                BY <2>2, <3>2 DEF CutInv, Late
            <4> QED
                BY <3>1, <3>2, <4>1, TheUpload
        <3> QED
            BY <1>2, <2>2, <3>2 DEF CutInv
    <2> QED
        BY <1>7, <2>1, <2>2 DEF CutInv, NoHoles
<1>9. CASE CatEnds(n) \/ Chmod(n) \/ Move(n) \/ ServerNotices(n)
    <2>1. drops' = drops /\ (proc'[n].st = "failed" => proc[n].st \in {"eof", "mv"})
        BY <1>1, <1>9 DEF CatEnds, Chmod, Move, ServerNotices, ShellType
    <2>2. \A e \in Callers : Stopped(e)' => Stopped(e)
        <3> SUFFICES ASSUME NEW e \in Callers, Stopped(e)' PROVE Stopped(e)
            OBVIOUS
        <3>1. Uploading(e) /\ call[e].n \in Calls /\ Uploads(e) /\ call' = call
            BY <1>2, <1>3, <1>4 DEF Stopped
        <3>2. CASE call[e].n = n
            <4>1. /\ proc'[n].st = "failed" /\ proc'[n].pos < Blocks[call[e].build]
                BY <3>1, <3>2 DEF Stopped
            <4>2. proc[n].st \in {"eof", "mv"} => call[e].pc = "wait" /\ proc[n].pos = Blocks[call[e].build]
                BY <3>1, <3>2 DEF Uploads, Uploading
            <4>3. Blocks[call[e].build] \in Nat
                BY <3>1, TheUpload, DeployAssumption
            <4> QED
                BY <1>2, <2>1, <3>2, <4>1, <4>2, <4>3
        <3>3. CASE call[e].n # n
            BY <1>2, <3>1, <3>3 DEF Stopped
        <3> QED
            BY <3>2, <3>3
    <2>3. \A m \in Calls : proc'[m].st = "cat" => proc[m].st = "cat"
        BY <1>2
    <2>4. \A m \in Calls : Behind(m)' <=> Behind(m)
        BY <1>2, <1>5 DEF Behind
    <2>5. \A i \in 1..Len(data) : HasHole(data[i])' <=> HasHole(data[i])
        BY <1>2 DEF HasHole
    <2> QED
        BY <1>2, <1>5, <1>6, <1>7, <2>1, <2>2, <2>3, <2>4, <2>5 DEF CutInv
<1> QED
    BY <1>8, <1>9

\* Every step of the callers, the remote cats and shells.
LEMMA CutNext ==
    ~Overlap /\ SizeTells /\ DeployInv /\ CutInv /\ [DpNext]_dpvars => CutInv'
<1> SUFFICES ASSUME ~Overlap, SizeTells, DeployInv, CutInv, [DpNext]_dpvars PROVE CutInv'
    OBVIOUS
<1>1. CASE UNCHANGED dpvars
    BY <1>1, CutFrame DEF dpvars, Uploading
<1> QED
    BY <1>1, CutCaller, CutCat, CutShell DEF DpNext

\* deploy.go, EnsureServer: when it returns a path, the file there is the
\* caller's build, if devices do not deploy at once and the size tells the build:
\* whole whenever it has uploaded the file, after any number of uploads that were
\* cut, disks that were full and shells of earlier connections that go on late;
\* whole when it reuses the file and no more than one upload was cut before; and
\* at worst with a hole, in what it reuses after more of them.
THEOREM ReturnsWholeBuild == ~Overlap /\ SizeTells => (DpSpec => ReturnedComplete)
<1> SUFFICES ASSUME ~Overlap, SizeTells PROVE DpSpec => ReturnedComplete
    OBVIOUS
<1> DEFINE A == \A c \in Callers : call[c].pc # "ok" /\ call'[c].pc = "ok" =>
                    \/ Complete(c)'
                    \/ call[c].pc = "check" /\ drops > 1 /\ Holed(c)'
<1>1. DeployInv /\ CutInv /\ [DpNext]_dpvars => [A]_dpvars
    <2> SUFFICES ASSUME DeployInv, CutInv, DpNext, NEW c \in Callers,
                        call[c].pc # "ok", call'[c].pc = "ok"
                 PROVE  Complete(c)' \/ (call[c].pc = "check" /\ drops > 1 /\ Holed(c)')
        OBVIOUS
    <2> DEFINE b == call[c].build
               f == file[call[c].dir].path
    <2>1. call \in [Callers -> CallType] /\ call[c] \in CallType
        BY DEF DeployInv
    <2>2. CheckRemote(c) \/ UploadReturns(c)
        <3>2. ASSUME NEW n \in Calls, CatWrites(n) \/ CatEnds(n) \/ Chmod(n) \/ Move(n) \/ DiskFull(n) \/ ServerNotices(n)
              PROVE  FALSE
            BY <3>2 DEF CatWrites, CatEnds, Chmod, Move, DiskFull, ServerNotices
        <3>3. ASSUME NEW e \in Callers,
                     \/ \E x \in Installed : Begin(e, x)
                     \/ \E x \in Dirs : CachePath(e, x)
                     \/ StartUpload(e) \/ SendChunk(e) \/ CloseStdin(e) \/ Drop(e) \/ RunServer(e)
              PROVE  FALSE
            <4>1. NoCall.pc = "idle"
                BY DEF NoCall
            <4>2. \A x \in CallType : \A y, z :
                    /\ [x EXCEPT !.pc = "send"].pc = "send" /\ [x EXCEPT !.pc = "wait"].pc = "wait"
                    /\ [x EXCEPT !.pc = "check", !.dir = y].pc = "check"
                    /\ [x EXCEPT !.pc = "find", !.build = y, !.n = z].pc = "find"
                BY DEF CallType
            <4>3. CASE e = c
                <5>1. call'[c].pc \in {call[c].pc, "idle", "find", "check", "send", "wait"}
                    <6>1. CASE \E x \in Installed : Begin(c, x)
                        <7>1. NoCall \in CallType
                            BY DEF NoCall, CallType, Dirs
                        <7> QED
                            BY <2>1, <4>2, <6>1, <7>1 DEF Begin
                    <6>2. CASE \E x \in Dirs : CachePath(c, x)
                        BY <2>1, <6>2 DEF CachePath
                    <6>3. CASE StartUpload(c) \/ SendChunk(c) \/ CloseStdin(c)
                        <7>1. \/ call' = call
                              \/ \E x \in {"send", "wait"} : call' = [call EXCEPT ![c].pc = x]
                            BY <6>3 DEF StartUpload, SendChunk, CloseStdin
                        <7> QED
                            BY <2>1, <7>1 DEF CallType
                    <6>4. CASE Drop(c) \/ RunServer(c)
                        BY <2>1, <4>1, <6>4 DEF Drop, RunServer
                    <6> QED
                        BY <3>3, <4>3, <6>1, <6>2, <6>3, <6>4
                <5> QED
                    BY <5>1
            <4>4. CASE e # c
                BY <2>1, <3>3, <4>4 DEF Begin, CachePath, StartUpload, SendChunk, CloseStdin, Drop,
                                        RunServer
            <4> QED
                BY <4>3, <4>4
        <3>4. PICK e \in Callers : CheckRemote(e) \/ UploadReturns(e)
            BY <3>2, <3>3 DEF DpNext
        <3>5. e = c
            BY <2>1, <3>4 DEF CheckRemote, UploadReturns
        <3> QED
            BY <3>4, <3>5
    <2>3. Calling(c) /\ b \in Installed /\ b \in Builds /\ call[c].dir \in Dirs /\ Uploads(c)
        BY <2>1, <2>2, DeployAssumption
            DEF DeployInv, Calling, CallType, CheckRemote, UploadReturns
    <2>4. /\ f \in 1..Len(data) /\ data[f] \in Seq(Cells) /\ Len(data[f]) = Blocks[b]
          /\ \A k \in 1..Blocks[b] : data[f][k] \in {b, Hole}
          /\ UploadReturns(c) => ~HasHole(data[f])
        <3>1. /\ data \in Seq(Seq(Cells)) /\ \A i \in 1..Len(data) : OneBuild(data[i])
              /\ f \in Nat /\ f <= Len(data) /\ Blocks[b] \in Nat \ {0} /\ b # Hole
            BY <2>3, DeployAssumption DEF DeployInv, DeployTypes, FileTypes
        <3>2. CASE CheckRemote(c)
            <4>1. RemoteSize(call[c].dir) = Blocks[b]
                <5>1. ~ShouldReuse(RemoteSize(call[c].dir), Blocks[b]) => call'[c].pc = "upload"
                    BY <2>1, <3>2 DEF CheckRemote
                <5> QED
                    BY <5>1 DEF ShouldReuse
            <4>2. f \in 1..Len(data) /\ Len(data[f]) = Blocks[b]
                BY <3>1, <4>1 DEF RemoteSize
            <4>3. data[f] \in Seq(Cells) /\ OneBuild(data[f])
                BY <3>1, <4>2
            <4>4. PICK o \in Builds : Of(data[f], o)
                BY <4>3 DEF OneBuild
            <4>5. o = b
                BY <2>3, <4>2, <4>4, DeployAssumption DEF SizeTells, Of
            <4>6. call[c].pc = "check" /\ ~UploadReturns(c)
                BY <3>2 DEF CheckRemote, UploadReturns
            <4> QED
                BY <4>2, <4>3, <4>4, <4>5, <4>6 DEF Of
        <3>3. CASE UploadReturns(c)
            <4>1. proc[call[c].n].st = "done" /\ call[c].pc = "wait"
                BY <2>1, <3>3 DEF UploadReturns, NoCall
            <4>2. OwnFile(c) /\ proc[call[c].n].pos = Blocks[b]
                BY <2>3, <4>1 DEF Uploads
            <4>3. /\ f \in 1..Len(data) /\ Len(data[f]) <= Blocks[b] /\ Blocks[b] <= Len(data[f])
                  /\ \A k \in 1..Blocks[b] : data[f][k] = b
                BY <4>1, <4>2 DEF OwnFile, Of
            <4>4. data[f] \in Seq(Cells) /\ Len(data[f]) = Blocks[b]
                BY <3>1, <4>3
            <4> QED
                BY <3>1, <4>3, <4>4 DEF HasHole
        <3> QED
            BY <2>2, <3>2, <3>3
    <2>6. /\ call'[c].build = b /\ call'[c].dir = call[c].dir /\ UNCHANGED <<file, data>>
        <3>1. CASE CheckRemote(c)
            <4>1. PICK x \in {"ok", "upload"} : call' = [call EXCEPT ![c].pc = x]
                BY <3>1 DEF CheckRemote
            <4> QED
                BY <2>1, <3>1, <4>1 DEF CheckRemote, CallType
        <3>2. CASE UploadReturns(c)
            <4>1. call' = [call EXCEPT ![c].pc = "ok"]
                BY <2>1, <3>2 DEF UploadReturns, NoCall
            <4> QED
                BY <2>1, <3>2, <4>1 DEF UploadReturns, CallType
        <3> QED
            BY <2>2, <3>1, <3>2
    <2>5. HasHole(data[f]) => drops > 1
        <3> SUFFICES ASSUME HasHole(data[f]) PROVE drops > 1
            OBVIOUS
        <3>1. call[c].pc = "check" /\ Calling(c)
            BY <2>2, <2>3, <2>4 DEF CheckRemote
        <3>2. ~Filling(f)
            BY <3>1 DEF DeployInv, Filling, Uploading, Calling
        <3> QED
            BY <2>4, <3>2 DEF CutInv, NoHoles
    <2>7. CASE ~HasHole(data[f])
        <3>1. data[f] \in Seq(Cells) /\ \A k \in 1..Len(data[f]) : data[f][k] = b
            BY <2>4, <2>7 DEF HasHole
        <3>2. data[f] = Content(b)
            <4>1. Content(b) = [i \in 1..Len(data[f]) |-> b]
                BY <2>4 DEF Content
            <4> HIDE DEF f, b
            <4> QED
                BY <3>1, <4>1, SameSeq
        <3> QED
            BY <2>4, <2>6, <3>2 DEF Complete, Returned
    <2>8. CASE HasHole(data[f])
        <3>1. call[c].pc = "check"
            BY <2>2, <2>4, <2>8 DEF CheckRemote
        <3>2. f # 0 /\ \E k \in DOMAIN data[f] : data[f][k] = Hole
            BY <2>4, <2>8 DEF HasHole
        <3>3. Holed(c)'
            BY <2>6, <3>2 DEF Holed, Returned
        <3> QED
            BY <2>5, <2>8, <3>1, <3>3
    <2> QED
        BY <2>7, <2>8
<1>2. DpInit => DeployInv /\ CutInv
    BY DeployInit, CutInit
<1>3. DeployInv /\ CutInv /\ [DpNext]_dpvars => (DeployInv /\ CutInv)'
    BY DeployNext, CutNext
<1> QED
    BY <1>1, <1>2, <1>3, PTL DEF DpSpec, ReturnedComplete

=============================================================================
