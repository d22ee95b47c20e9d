------------------------------ MODULE MuxPool ------------------------------
(***************************************************************************)
(* The pool of mux clients behind a tunnel: connectBackend and             *)
(* reconnectPoolMember (netferry-relay/cmd/tunnel/backend.go and           *)
(* muxbuilder.go), MuxPool (internal/mux/pool.go), and of MuxClient and    *)
(* ClientConn (internal/mux/client.go) what concerns their life.           *)
(*                                                                         *)
(* connectBackend dials PoolSize SSH connections and makes a client on     *)
(* each.  Then one goroutine per member runs the client, and when its      *)
(* session dies closes its connections, dials a new one with growing       *)
(* pauses and puts the new client into the member's slot; after            *)
(* MaxAttempts failures it gives up and ends the engine.  Meanwhile        *)
(* applications open TCP, UDP and DNS flows through whichever client the   *)
(* pool picks.                                                             *)
(*                                                                         *)
(* A client is identified by its member and its generation.  Addresses,    *)
(* payloads and round-trip times are left out: a pick by congestion score  *)
(* may choose any live client that some round-trip times make the choice.  *)
(***************************************************************************)
EXTENDS Integers, FiniteSets, Sequences

\* Definitions named X_Y are faulty variants of X, used by no specification.

CONSTANTS
    PoolSize,     \* members of the pool
    Split,        \* whether members use a second (ctrl) SSH connection
    JumpHosts,    \* whether SSH connections go through jump hosts
    RoundRobin,   \* tcpStrategy is LBRoundRobin, else LBLeastLoaded
    MaxAttempts,  \* maxReconnectAttempts
    MinBackoff,   \* seconds before the first attempt
    MaxBackoff,   \* maxBackoff
    Conns,        \* the TCP and UDP flows applications open
    Queries,      \* the DNS requests they make
    MaxDeaths     \* bound: sessions that die

ASSUME PoolAssumption ==
    /\ PoolSize \in Nat \ {0} /\ MaxDeaths \in Nat
    /\ MaxAttempts \in Nat \ {0}
    /\ MinBackoff \in Nat \ {0} /\ MaxBackoff \in Nat /\ MinBackoff <= MaxBackoff
    /\ Split \in BOOLEAN /\ RoundRobin \in BOOLEAN /\ JumpHosts \in BOOLEAN

ASSUME FlowAssumption ==
    IsFiniteSet(Conns) /\ IsFiniteSet(Queries) /\ Conns \cap Queries = {}

Members == 1 .. PoolSize
Gens == 1 .. MaxDeaths + 1
Flows == Conns \cup Queries
NoClient == <<0, 0>>

VARIABLES
    bpc,       \* connectBackend: "dial", "mux", "up" or "failed"
    bnext,     \* the member connectBackend works on
    engine,    \* Engine.Run: "connecting", "up" or "ended"
    fatal,     \* errors in muxErrCh, which has room for one
    pc,        \* per member: where its goroutine is
    cur,       \* per member: generation of its newest client
    slot,      \* MuxPool.clients: per member, a generation
    sess,      \* per client: "none", "up" or "dead"
    done,      \* per client: MuxClient.done
    conns,     \* per client: the SSH connections opened for it and still open
    attempts, backoff,  \* per member: locals of reconnectPoolMember
    tstate,    \* per member: TunnelCounters state
    next,      \* MuxPool.next, modulo the pool size
    fpc,       \* per flow: how far it is
    udp,       \* the flows opened by OpenUDP
    client,    \* per flow: the client it uses
    cands,     \* per DNS flow: the candidates not yet tried
    closes,    \* per flow: calls of Close so far
    activeTCP, \* Counters.ActiveTCP
    memberTCP  \* per member: TunnelCounters.ActiveTCP

backVars == <<bpc, bnext>>
memberVars == <<pc, cur, slot, attempts, backoff, tstate>>
clientVars == <<sess, done, conns>>
flowVars == <<next, fpc, udp, client, cands, closes>>
countVars == <<activeTCP, memberTCP>>
poolVars == <<backVars, engine, fatal, memberVars, clientVars, flowVars, countVars>>

PerClient(x) == [m \in Members |-> [g \in Gens |-> x]]

PoolInit ==
    /\ bpc = "dial" /\ bnext = 1 /\ engine = "connecting" /\ fatal = 0
    /\ pc = [m \in Members |-> "idle"]
    /\ cur = [m \in Members |-> 1] /\ slot = [m \in Members |-> 1]
    /\ sess = PerClient("none") /\ done = PerClient(FALSE) /\ conns = PerClient({})
    /\ attempts = [m \in Members |-> 0]
    /\ backoff = [m \in Members |-> MinBackoff]
    /\ tstate = [m \in Members |-> "none"]
    /\ next = 0
    /\ udp = {} /\ fpc = [f \in Flows |-> "idle"] /\ client = [f \in Flows |-> NoClient]
    /\ cands = [f \in Flows |-> <<>>] /\ closes = [f \in Flows |-> 0]
    /\ activeTCP = 0 /\ memberTCP = [m \in Members |-> 0]

-----------------------------------------------------------------------------
(***************************************************************************)
(* connectBackend.                                                         *)
(***************************************************************************)
\* sshconn.Dial opens a connection to the server, and with jump hosts one to
\* each of them, which nothing closes: the caller has the last client only, and
\* an error at a later hop returns without closing the earlier ones.  "hop"
\* stands for the connections to the jump hosts, of both chains and every attempt.
Hops == IF JumpHosts THEN {"hop"} ELSE {}
Dialed(c) == {c} \cup Hops

\* What a failing dial leaves open: nothing when the first hop fails.
LeftByDial == {{}, Hops}

\* sshconn.Dial for the next member, with deploy.EnsureServer on the first.
BackendDial ==
    /\ bpc = "dial"
    /\ conns' = [conns EXCEPT ![bnext][1] = Dialed("data")]
    /\ IF bnext = PoolSize THEN bpc' = "mux" /\ bnext' = 1
                           ELSE bpc' = "dial" /\ bnext' = bnext + 1
    /\ UNCHANGED <<engine, fatal, memberVars, sess, done, flowVars, countVars>>

\* Every error path closes the data connections dialed so far.
CloseData == [m \in Members |-> [g \in Gens |-> conns[m][g] \ {"data"}]]

BackendFails ==
    /\ bpc \in {"dial", "mux"}
    /\ bpc' = "failed" /\ engine' = "ended"
    /\ \E left \in IF bpc = "dial" \/ Split THEN LeftByDial ELSE {{}} :
          conns' = [CloseData EXCEPT ![bnext][1] = @ \cup left]
    /\ UNCHANGED <<bnext, fatal, memberVars, sess, done, flowVars, countVars>>

\* tryMuxClient or trySplitMuxClient for the next member.  A handshake that
\* fails after the ctrl connection was dialed closes it (BackendFails).  With
\* the last one the goroutines start.
BackendMux ==
    /\ bpc = "mux"
    /\ sess' = [sess EXCEPT ![bnext][1] = "up"]
    /\ conns' = [conns EXCEPT ![bnext][1] = @ \cup (IF Split THEN Dialed("ctrl") ELSE {})]
    /\ IF bnext = PoolSize
       THEN /\ bpc' = "up" /\ engine' = "up" /\ UNCHANGED bnext
            /\ pc' = [m \in Members |-> "run"]
            /\ tstate' = [m \in Members |-> "alive"]
       ELSE /\ bnext' = bnext + 1
            /\ UNCHANGED <<bpc, engine, pc, tstate>>
    /\ UNCHANGED <<fatal, cur, slot, attempts, backoff, done, flowVars, countVars>>

-----------------------------------------------------------------------------
(***************************************************************************)
(* MuxClient.Run and reconnectPoolMember.                                  *)
(***************************************************************************)
\* The network, the remote server or smux's keepalive ends a session.
SessionDies(m, g) ==
    /\ sess[m][g] = "up"
    /\ Cardinality({c \in Members \X Gens : sess[c[1]][c[2]] = "dead"}) < MaxDeaths
    /\ sess' = [sess EXCEPT ![m][g] = "dead"]
    /\ UNCHANGED <<backVars, engine, fatal, memberVars, done, conns, flowVars, countVars>>

Ended_Drained(m) ==
    sess[m][cur[m]] = "dead" /\ \A f \in Flows : client[f] # <<m, cur[m]>>

Ended(m) == sess[m][cur[m]] = "dead"

\* AcceptStream returns an error; Run's deferred calls begin.
AcceptFails(m) ==
    /\ pc[m] = "run" /\ Ended(m)
    /\ pc' = [pc EXCEPT ![m] = "teardown"]
    /\ UNCHANGED <<backVars, engine, fatal, cur, slot, attempts, backoff, tstate,
                   clientVars, flowVars, countVars>>

Released_DataKept(m) == conns[m][cur[m]] \ {"ctrl"}

\* ctrlCloser.Close and connCloser.Close: the last clients of their chains.
Released(m) == conns[m][cur[m]] \ {"data", "ctrl"}

Teardown(m) ==
    /\ pc[m] = "teardown"
    /\ conns' = [conns EXCEPT ![m][cur[m]] = Released(m)]
    /\ pc' = [pc EXCEPT ![m] = "mark"]
    /\ UNCHANGED <<backVars, engine, fatal, cur, slot, attempts, backoff, tstate,
                   sess, done, flowVars, countVars>>

\* done is set by the first defer of Run, so after the connections are closed.
MarkDone(m) ==
    /\ pc[m] = "mark"
    /\ done' = [done EXCEPT ![m][cur[m]] = TRUE]
    /\ pc' = [pc EXCEPT ![m] = "sleep"]
    /\ tstate' = [tstate EXCEPT ![m] = "reconnecting"]
    /\ attempts' = [attempts EXCEPT ![m] = 1]
    /\ UNCHANGED <<backVars, engine, fatal, cur, slot, backoff, sess, conns,
                   flowVars, countVars>>

Awake(m) ==
    /\ pc[m] = "sleep"
    /\ pc' = [pc EXCEPT ![m] = "dial"]
    /\ UNCHANGED <<backVars, engine, fatal, cur, slot, attempts, backoff, tstate,
                   clientVars, flowVars, countVars>>

\* connectPoolMember's dial; the connection belongs to the client to be.
Redial(m) ==
    /\ pc[m] = "dial"
    /\ conns' = [conns EXCEPT ![m][cur[m] + 1] = @ \cup Dialed("data")]
    /\ pc' = [pc EXCEPT ![m] = IF Split THEN "ctrl" ELSE "sync"]
    /\ UNCHANGED <<backVars, engine, fatal, cur, slot, attempts, backoff, tstate,
                   sess, done, flowVars, countVars>>

\* trySplitMuxClient's dial of the ctrl connection.
RedialCtrl(m) ==
    /\ pc[m] = "ctrl"
    /\ conns' = [conns EXCEPT ![m][cur[m] + 1] = @ \cup Dialed("ctrl")]
    /\ pc' = [pc EXCEPT ![m] = "sync"]
    /\ UNCHANGED <<backVars, engine, fatal, cur, slot, attempts, backoff, tstate,
                   sess, done, flowVars, countVars>>

\* backoff = 5 * time.Second after a success
BackoffReset(m) == MinBackoff

\* ReplaceClient
Replaced(m) == [slot EXCEPT ![m] = cur[m] + 1]

\* The sync headers arrived.
Reconnected(m) ==
    /\ pc[m] = "sync"
    /\ cur' = [cur EXCEPT ![m] = @ + 1]
    /\ slot' = Replaced(m)
    /\ sess' = [sess EXCEPT ![m][cur[m] + 1] = "up"]
    /\ backoff' = [backoff EXCEPT ![m] = BackoffReset(m)]
    /\ tstate' = [tstate EXCEPT ![m] = "alive"]
    /\ pc' = [pc EXCEPT ![m] = "run"]
    /\ UNCHANGED <<backVars, engine, fatal, attempts, done, conns, flowVars, countVars>>

Lesser(x, y) == IF x < y THEN x ELSE y

\* The send on fatalCh does not wait: it is dropped when the channel is full.
GiveUp(m) == 1

MayRetry(m) == attempts[m] < MaxAttempts

\* An attempt fails at the dial, at the ctrl dial or at the handshake; the
\* clients it has are closed, the connections to jump hosts are not.
AttemptFails(m) ==
    /\ pc[m] \in {"dial", "ctrl", "sync"}
    /\ \E left \in IF pc[m] = "sync" THEN {{}} ELSE LeftByDial :
          conns' = [conns EXCEPT ![m][cur[m] + 1] = (@ \ {"data", "ctrl"}) \cup left]
    /\ attempts' = [attempts EXCEPT ![m] = @ + 1]
    /\ backoff' = [backoff EXCEPT ![m] = Lesser(2 * @, MaxBackoff)]
    /\ IF MayRetry(m)
       THEN pc' = [pc EXCEPT ![m] = "sleep"] /\ UNCHANGED <<fatal, tstate>>
       ELSE /\ pc' = [pc EXCEPT ![m] = "gaveup"]
            /\ tstate' = [tstate EXCEPT ![m] = "dead"]
            /\ fatal' = GiveUp(m)
    /\ UNCHANGED <<backVars, engine, cur, slot, sess, done, flowVars, countVars>>

\* Steps of a member's goroutine that wait for nobody, and those that end an SSH
\* dial, a handshake or the wait for the sync header.
LocalStep(m) == AcceptFails(m) \/ Teardown(m) \/ MarkDone(m) \/ Awake(m)
RemoteStep(m) == Redial(m) \/ RedialCtrl(m) \/ Reconnected(m) \/ AttemptFails(m)
MemberStep(m) == LocalStep(m) \/ RemoteStep(m)

-----------------------------------------------------------------------------
(***************************************************************************)
(* Engine.Run, as far as it waits for the pool.                            *)
(***************************************************************************)
EngineLosesPool ==
    /\ engine = "up" /\ fatal = 1
    /\ fatal' = 0 /\ engine' = "ended"
    /\ UNCHANGED <<backVars, memberVars, clientVars, flowVars, countVars>>

\* stopCh, a network change or a proxy error.  The members are not told.
EngineStops ==
    /\ engine = "up" /\ engine' = "ended"
    /\ UNCHANGED <<backVars, fatal, memberVars, clientVars, flowVars, countVars>>

-----------------------------------------------------------------------------
(***************************************************************************)
(* The pool's choice of a client.                                          *)
(***************************************************************************)
InSlot(m) == <<m, slot[m]>>
IsClosed(m) == done[m][slot[m]]
Live == {m \in Members : ~IsClosed(m)}
First(S) == CHOOSE m \in S : \A n \in S : m <= n

\* Streams open on the client in slot m.
StreamsOf(m) == {f \in Flows : client[f] = InSlot(m) /\ fpc[f] \in {"stream", "open", "query"}}

\* Live members whose score is 0: no streams, or a dead session, for which
\* smux may report none.
Scoreless ==
    LET idle == {m \in Live : StreamsOf(m) = {}}
        dead == {m \in Live : sess[m][slot[m]] = "dead"}
    IN {idle \cup z : z \in SUBSET dead}

\* pick: the first live member from the round-robin position on.
RoundRobinPick ==
    LET At(i) == ((next + i) % PoolSize) + 1
        hits == {i \in 0 .. PoolSize - 1 : At(i) \in Live}
    IN IF hits = {} THEN {1} ELSE {At(First(hits))}

\* pickLeastLoaded and pickMostLoaded: the members that some round-trip times
\* make the one with the lowest or the highest score.
LeastLoaded ==
    IF Live = {} THEN {1}
    ELSE UNION {IF z = {} THEN Live ELSE {First(z)} : z \in Scoreless}

MostLoaded ==
    IF Live = {} THEN {1}
    ELSE UNION {IF z = Live THEN {First(Live)} ELSE Live \ z : z \in Scoreless}

Picked(f, m) ==
    /\ fpc' = [fpc EXCEPT ![f] = "picked"]
    /\ client' = [client EXCEPT ![f] = InSlot(m)]
    /\ UNCHANGED <<backVars, engine, fatal, memberVars, clientVars, cands, closes, countVars>>

\* Normal priority with the round-robin strategy.
PickRoundRobin(f) ==
    /\ fpc[f] = "idle" /\ engine = "up" /\ f \in Conns /\ RoundRobin
    /\ UNCHANGED udp /\ next' = (next + 1) % PoolSize
    /\ \E m \in RoundRobinPick : Picked(f, m)

\* UDP, high priority, and normal priority with the least-loaded strategy.
PickLeastLoaded(f) ==
    /\ fpc[f] = "idle" /\ engine = "up" /\ f \in Conns
    /\ \E m \in LeastLoaded : Picked(f, m)
    /\ udp' \in {udp, udp \cup {f}} /\ UNCHANGED next

\* Low priority.
PickMostLoaded(f) ==
    /\ fpc[f] = "idle" /\ engine = "up" /\ f \in Conns
    /\ \E m \in MostLoaded : Picked(f, m)
    /\ UNCHANGED <<udp, next>>

\* dnsCandidates, cut to dnsMaxAttempts: members without score in pool order,
\* then the others in the order of some round-trip times.
Candidates ==
    {c \in [1 .. Lesser(2, Cardinality(Live)) -> Live] :
        /\ \A i, j \in DOMAIN c : i # j => c[i] # c[j]
        /\ \E z \in Scoreless :
              \A i \in DOMAIN c :
                  LET before == {c[j] : j \in 1 .. i - 1}
                  IN z \ before # {} => c[i] = First(z \ before)}

DnsStart(f) ==
    /\ fpc[f] = "idle" /\ engine = "up" /\ f \in Queries
    /\ IF Live = {}
       THEN fpc' = [fpc EXCEPT ![f] = "failed"] /\ UNCHANGED <<client, cands>>
       ELSE \E c \in Candidates :
               /\ fpc' = [fpc EXCEPT ![f] = "picked"]
               /\ client' = [client EXCEPT ![f] = InSlot(c[1])]
               /\ cands' = [cands EXCEPT ![f] = [i \in DOMAIN Tail(c) |-> InSlot(Tail(c)[i])]]
    /\ UNCHANGED <<backVars, engine, fatal, memberVars, clientVars, next, udp, closes, countVars>>

-----------------------------------------------------------------------------
(***************************************************************************)
(* OpenTCP, OpenUDP, dnsRequest and Close of a client.                     *)
(***************************************************************************)
SessionOf(f) == sess[client[f][1]][client[f][2]]
DoneOf(f) == done[client[f][1]][client[f][2]]

\* The check of done and session.OpenStream.
OpenStream(f) ==
    /\ fpc[f] = "picked" /\ ~DoneOf(f) /\ SessionOf(f) = "up"
    /\ fpc' = [fpc EXCEPT ![f] = IF f \in Queries THEN "query" ELSE "stream"]
    /\ UNCHANGED <<backVars, engine, fatal, memberVars, clientVars, next, udp, client, cands,
                   closes, countVars>>

\* The header is written; the flow is handed to the proxy and counted, TCP by
\* the engine and by the member, UDP by the engine only.
Opened(f) ==
    /\ fpc[f] = "stream" /\ SessionOf(f) = "up"
    /\ fpc' = [fpc EXCEPT ![f] = "open"]
    /\ activeTCP' = activeTCP + 1
    /\ memberTCP' = [memberTCP EXCEPT ![client[f][1]] = @ + (IF f \in udp THEN 0 ELSE 1)]
    /\ UNCHANGED <<backVars, engine, fatal, memberVars, clientVars, next, udp, client, cands, closes>>

\* The call returns; its client is no longer used.
Returns(f, how) ==
    /\ fpc' = [fpc EXCEPT ![f] = how]
    /\ client' = [client EXCEPT ![f] = NoClient]
    /\ cands' = [cands EXCEPT ![f] = <<>>]

\* The write of the header fails; nothing was counted yet.
HeaderFails(f) == fpc[f] = "stream" /\ SessionOf(f) = "dead"

\* A TCP or UDP flow fails: the client is done, or its session is dead.
OpenFails(f) ==
    /\ f \notin Queries
    /\ \/ fpc[f] = "picked" /\ (DoneOf(f) \/ SessionOf(f) = "dead")
       \/ HeaderFails(f)
    /\ Returns(f, "failed")
    /\ UNCHANGED <<backVars, engine, fatal, memberVars, clientVars, next, udp, closes, countVars>>

\* closed.Do
Once(f) == fpc[f] = "open"

\* Either direction of the relay may close the flow, also when its session is
\* dead; the second call changes nothing.
Close(f) ==
    /\ fpc[f] \in {"open", "closed"} /\ closes[f] < 2
    /\ closes' = [closes EXCEPT ![f] = @ + 1]
    /\ fpc' = [fpc EXCEPT ![f] = "closed"]
    /\ activeTCP' = activeTCP - (IF Once(f) THEN 1 ELSE 0)
    /\ memberTCP' = [memberTCP EXCEPT
                        ![client[f][1]] = @ - (IF Once(f) /\ f \notin udp THEN 1 ELSE 0)]
    /\ UNCHANGED <<backVars, engine, fatal, memberVars, clientVars, next, udp, client, cands>>

DnsAnswered(f) ==
    /\ fpc[f] = "query" /\ SessionOf(f) = "up"
    /\ Returns(f, "answered")
    /\ UNCHANGED <<backVars, engine, fatal, memberVars, clientVars, next, udp, closes, countVars>>

\* An attempt ends with an error, at the open, at the answer or at its time
\* limit, and the next candidate is tried.  late: opening the stream, which the
\* attempt's time limit does not cover, used up the whole budget.
DnsFails(f, late) ==
    /\ f \in Queries
    /\ fpc[f] = "query" \/ (fpc[f] = "picked" /\ (late \/ DoneOf(f) \/ SessionOf(f) = "dead"))
    /\ IF late \/ cands[f] = <<>>
       THEN Returns(f, "failed")
       ELSE /\ fpc' = [fpc EXCEPT ![f] = "picked"]
            /\ client' = [client EXCEPT ![f] = Head(cands[f])]
            /\ cands' = [cands EXCEPT ![f] = Tail(@)]
    /\ UNCHANGED <<backVars, engine, fatal, memberVars, clientVars, next, udp, closes, countVars>>

FlowStep(f) == OpenStream(f) \/ Opened(f) \/ OpenFails(f)
               \/ DnsAnswered(f) \/ \E late \in BOOLEAN : DnsFails(f, late)

-----------------------------------------------------------------------------
PoolNext ==
    \/ BackendDial \/ BackendFails \/ BackendMux
    \/ \E m \in Members : MemberStep(m) \/ \E g \in Gens : SessionDies(m, g)
    \/ EngineLosesPool \/ EngineStops
    \/ \E f \in Flows : \/ PickRoundRobin(f) \/ PickLeastLoaded(f) \/ PickMostLoaded(f)
                        \/ DnsStart(f) \/ FlowStep(f) \/ Close(f)

PoolSpec == PoolInit /\ [][PoolNext]_poolVars

\* The goroutines run.  Nothing is assumed of SSH dials, handshakes and sync
\* headers: those over TCP have no timeout.
PoolFairSpec ==
    /\ PoolSpec
    /\ \A m \in Members : WF_poolVars(LocalStep(m))
    /\ WF_poolVars(EngineLosesPool)

-----------------------------------------------------------------------------
(***************************************************************************)
(* Properties.                                                             *)
(***************************************************************************)
MemberPCs == {"idle", "run", "teardown", "mark", "sleep", "dial", "ctrl", "sync", "gaveup"}
FlowPCs == {"idle", "picked", "stream", "query", "open", "closed",
           "answered", "failed"}
Clients == (Members \X Gens) \cup {NoClient}

\* Types; the attempt that exceeds maxReconnectAttempts is not made.
PoolTypeOK ==
    /\ bpc \in {"dial", "mux", "up", "failed"} /\ bnext \in Members
    /\ engine \in {"connecting", "up", "ended"} /\ fatal \in {0, 1}
    /\ pc \in [Members -> MemberPCs]
    /\ cur \in [Members -> Gens] /\ slot \in [Members -> Gens]
    /\ sess \in [Members -> [Gens -> {"none", "up", "dead"}]]
    /\ done \in [Members -> [Gens -> BOOLEAN]]
    /\ conns \in [Members -> [Gens -> SUBSET {"data", "ctrl", "hop"}]]
    /\ attempts \in [Members -> 0 .. MaxAttempts + 1]
    /\ backoff \in [Members -> MinBackoff .. MaxBackoff]
    /\ tstate \in [Members -> {"none", "alive", "reconnecting", "dead"}]
    /\ next \in 0 .. PoolSize - 1
    /\ udp \subseteq Conns /\ fpc \in [Flows -> FlowPCs] /\ client \in [Flows -> Clients]
    /\ cands \in [Flows -> Seq(Members \X Gens)] /\ closes \in [Flows -> 0 .. 2]
    /\ activeTCP \in Int /\ memberTCP \in [Members -> Int]

\* The connections opened for client g of member m are in use: by connectBackend
\* while it works, by the client that the member runs or tears down, or by the
\* attempt in progress.
InUse(m, g) ==
    \/ bpc \in {"dial", "mux"}
    \/ g = cur[m] /\ pc[m] \in {"run", "teardown"}
    \/ g = cur[m] + 1 /\ pc[m] \in {"ctrl", "sync"}

\* SetConnCloser and SetCtrlCloser exist so that no SSH connection leaks when a
\* member reconnects: every open connection to the server is in use, also when
\* it goes through jump hosts.  In particular a member never holds connections
\* of two clients.  The ctrl connections of a backend that failed are excluded:
\* connectBackend closes the data connections only.
ConnsOwned ==
    \A m \in Members, g \in Gens :
        /\ "data" \in conns[m][g] => InUse(m, g)
        /\ "ctrl" \in conns[m][g] => InUse(m, g) \/ bpc = "failed"

\* The same of the connections to jump hosts, which every failed attempt at a
\* later hop and every reconnect leave open.
HopsOwned ==
    \A m \in Members, g \in Gens :
        "hop" \in conns[m][g] => InUse(m, g)

\* ActiveTCP counts the TCP and UDP flows that are open, whatever happens to
\* their sessions, and a member's ActiveTCP, which survives reconnects, its
\* TCP flows on clients of any generation.
CountersExact ==
    /\ activeTCP = Cardinality({f \in Flows : fpc[f] = "open"})
    /\ \A m \in Members :
          memberTCP[m] = Cardinality({f \in Flows \ udp : fpc[f] = "open" /\ client[f][1] = m})

\* What the stats report of a member agrees with what the pool does with it:
\* once the tunnel is up a member is shown alive exactly when new flows may be
\* given to it, and that is so while its newest client runs.
StateHonest ==
    bpc = "up" =>
        \A m \in Members : /\ tstate[m] = "alive" <=> ~IsClosed(m)
                           /\ ~IsClosed(m) => slot[m] = cur[m]

\* A session that dies while the pool is up is noticed and replaced in the
\* pool, or its member gives up, whatever the flows on it do - unless an SSH
\* dial, a handshake or a wait for a sync header never ends.
MemberRecovers ==
    \A m \in Members :
        (bpc = "up" /\ sess[m][slot[m]] = "dead")
            ~> \/ sess[m][slot[m]] = "up" \/ pc[m] = "gaveup"
               \/ [](pc[m] \in {"dial", "ctrl", "sync"})

\* The same without the exception.
MemberRecoversAlways ==
    \A m \in Members :
        (bpc = "up" /\ sess[m][slot[m]] = "dead")
            ~> (sess[m][slot[m]] = "up" \/ pc[m] = "gaveup")

\* A member that gives up ends the engine, so that the tunnel is restarted,
\* also when several give up and the channel has room for one error.
GaveUpEndsEngine == \A m \in Members : (pc[m] = "gaveup") ~> (engine = "ended")
=============================================================================
