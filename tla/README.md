# Verification of NetFerry

NetFerry tunnels a machine's traffic through SSH. A Go relay
(`src/netferry-relay`) captures connections with the host's firewall, multiplexes
them with smux over one or several SSH connections and lets a small server on the
remote host open them. A terminal UI, a desktop app and a mobile library drive
the same relay. This directory holds TLA+ models of the parts where several
goroutines, threads, connections, programs or machines meet, TLC configurations
that check them on small instances, and TLAPS proofs of the central invariants for
every instance.

`PROJECT.json` is the index: components, runs, the mapping of each definition to
its source lines, hazards, findings, theorems, and for each property of a run a
faulty variant of one definition that breaks it. Those variants are written beside
the definition they vary and are named `Definition_Fault` or for the fault
(`Popped_Stays`); no specification uses them.

## Inventory

| Component | State it keeps | Operations | Hard because |
|---|---|---|---|
| FairWriter, `internal/mux/fair_writer.go` | input channel, per-stream queues and deficits, round lists, priority list | Write, Close, drain goroutine | producer and drain goroutine interleave inside a round; FIN and control frames take other paths than data |
| SplitConn, `internal/mux/split_conn.go` | three queues, table of ctrl-routed streams, merged channel, at both ends | Write, drainData, pumps, auto-learning | two connections of unrelated speed carry one session |
| Mux client and pool, `internal/mux/client.go`, `pool.go`, `cmd/tunnel/backend.go`, `muxbuilder.go` | one slot per member, done flags, counters, backoff, error channel | connectBackend, Run, reconnectPoolMember, ReplaceClient, picks, OpenTCP/UDP, DNSRequest, Close | sessions die under open flows; attempts fail half-way; one error channel for all members |
| fectun, `internal/sshconn/fectun.go`, `cmd/server/fectun.go` | shared clients with reference counts and idle timers, key cache with generations, the daemon's key file | dial, release, evict, refresh, bootstrap, restart | idle timer against new users; several dialers meet one dead daemon |
| SSH dialing, `internal/sshconn/client.go` | chains of clients | Dial by each route, Close | dials run under the rules of an earlier engine |
| Deployment, `internal/deploy/deploy.go` | a file on the server | EnsureServer | cut uploads, shells that go on after their connection, several devices |
| Network monitor, `internal/netmon` | fingerprint of the interfaces | Watch | a flap and a switch begin alike |
| Proxies, `internal/proxy` | copier deadlines, limits on direct dials, UDP flow table, SOCKS5 associations | listeners, copiers, cleanup, receivers | half-close against idle timeout; receiver, cleanup and accept loop share a map |
| Remote server, `cmd/server/main.go` | stream slots | accept loop, handleStream, handleTCP, handleUDP, handleDNS | limits, half-close, silent destinations |
| Stats, `internal/stats`, `internal/logfile` | open connections, destinations, event channel, subscribers, ring and rotated files | open, close, eviction, event stream, queries | bounded channels and maps; a query reads files that rotate |
| Store and rules, `internal/store`, `internal/tui`, desktop stores | files shared by two programs | edits, migration, merge, resolution of hosts | read, prepare and write are separate; crashes in between; two or three implementations of one thing |
| TUI session and engine, `internal/tui/session.go`, `app.go`, `cmd/tunnel/engine.go` | status, generation, stop channel, engine, rules, kept firewall | Connect, Disconnect, SetRules, loop, Run, ReleaseFirewall, quitting | old and new loops overlap; locks are released before results are used; each step of Run can fail |
| Firewall methods, `internal/firewall` | rules on the host, saved DNS and IPv6 settings | Setup, Restore, DisableDNS, CleanStaleAnchors, WinDivert's translation, IPv6 lock-down | host state outlives the process; commands fail or are cut short |
| Desktop sidecar and helper, `netferry-desktop/src-tauri` | status, child, cancel tokens, PID file, the daemon's watchdogs | connect, disconnect, reader and reconnect threads, exit | one lock per field, no lock for a whole command; threads in any order; a crash at any step |
| Mobile engine, `mobile/` | state, tunnel, stop channel, TUN file, process-wide dial hook, forwarders | Start, StartWithTUN, Stop, reconnectWatcher, statsLoop, forwarder loops and Close | native threads call Start and Stop concurrently with reconnects; one file, many readers |
| Route diagnostics, `internal/nexttrace`, `internal/tui/page_diagnostics.go` | a downloaded tool, a page's event channel | start, stop, Ensure, download, Run | cancelled or cut at any step; programs share the files |
| Profiles, catalog, SSH config, CLI, UI pages, probe tools, mobile apps | nothing that other parts see | conversions, layout | not |

How they interact. The firewall sends a connection to a proxy; the proxy asks the
pool for a flow; the pool picks a member's client; the client opens a smux stream;
smux's send loop writes frames to a FairWriter (one connection) or to a SplitConn
(data and ctrl connection); the server accepts the stream and dials. A dead
connection ends `MuxClient.Run`, whose member redials (through fectun, jump hosts
or a command, past the deployment of the server) or, after too many attempts, ends
`Engine.Run` through the error channel. The TUI session, the desktop app from
outside the process, or the mobile engine then makes the next one. Rules, DNS and
IPv6 settings of the host are shared by all engines, past and present; the files
of the store by the TUI and the desktop.

What makes each correct is stated by the properties below.

## Modules

| Module | Models | Checked through |
|---|---|---|
| `FairWriter` | the frame scheduler | `MCFairWriter`, `FairWriterProofs` |
| `SplitConn` | both ends of the two-connection router | `MCSplitConn`, `SplitConnProofs` |
| `MuxPool` | members, clients, reconnects, picks, flows | `MCMuxPool`, `SplitConnProofs` |
| `TunnelSession` | UI goroutine, loops, engines, host | `MCTunnelSession`, `TunnelSessionProofs` |
| `MobileEngine`, `TunForwarder` | engines of one process, sessions, dial hook; forwarders on one TUN file | `MCMobileEngine`, `AppProofs` |
| `SharedClient`, `Fectun` | what sharing promises; the transport that implements it | `MCConnect`, `ConnectProofs` |
| `Deploy`, `Dialing`, `NetMonitor`, `Trace` | upload and remote shell; dials under the rules; Watch; the trace page and its tool | `MCConnect`; `ConnectProofs` |
| `ConnLog`, `Stats` | history of connections; counters, events, subscribers | `MCStats`, `HostProofs` |
| `Relay`, `Datagrams` | one TCP connection end to end; UDP flows, associations, DNS | `MCProxy`, `ProxyProofs` |
| `RuleSets`, `Store` | rules as values, three matchers, two merges; the shared files | `MCStore`, `StoreProofs` |
| `Sidecar` | commands, threads and helper of the desktop app, its end and restart | `MCSidecar`, `AppProofs` |
| `Capture`, `Firewall` | what generated rules do to packets; the scripts that install them | `MCFirewall`, `HostProofs` |
| `WinDivert`, `IPv6Lock` | packet translation on Windows; interface settings | `MCFirewall`; `ProxyProofs`, `TunnelSessionProofs` |

An MC module that composes several modules lets each behaviour be about one of
them (`part`): they share no state, and one run asks about all.

**FairWriter.** `pc` is the program counter of the drain goroutine, `wpc` of the
one caller of Write (smux calls it from a single goroutine). Channel operations,
connection writes and each turn of a round are separate steps, so Write and Close
interleave everywhere the scheduler allows. A frame has a command, a stream, a
size and a number. History variables (`opened`, `nwire`, `served`, `wait`, ...)
record what was accepted and what reached the connection. Frame sizes are at most
one quantum: smux's MaxFrameSize is 65535, the quantum 131072.

**SplitConn.** The two connections are lossless FIFO channels of unrelated speed;
`DrainData`, `PumpData` and `PumpCtrl` are the goroutines. smux is external: the
first SYN of an id it has no stream for opens a stream, data of an unknown id is
dropped, closing forgets the id. Connection failure is left out because it ends
the whole session.

**MuxPool.** A member goes run, teardown, mark, sleep, dial, (ctrl), sync, run;
each label is a point where another goroutine can observe it. A client is a pair
of member and generation; `conns` tells which SSH connections of each exist,
`slot` which generation the pool hands out. With `JumpHosts` every dial makes a
connection to a hop first (a chain of hops counts as one); a dial that fails behind it
leaves it open, and so does closing the client. Round-trip times are arbitrary, so
the score-based picks are the set of members some round-trip times could select.

**TunnelSession.** A step ends where the code releases a lock, blocks or touches
the host. `fw` says which engine's rules are installed and whether they redirect
DNS; `Method` selects how Setup, Restore, DisableDNS and CleanStaleAnchors behave
between engines: nft, iptables and SOCKS5 share one name on the host, pf has an
anchor and WinDivert a handle per engine. `connectBackend` is a single step here;
its detail is MuxPool, and what the rules do is Capture.

**MobileEngine, TunForwarder.** Each section under `e.mu` is an action. Stop
channels are numbered because a goroutine keeps selecting on the one it saw.
TunForwarder has the reader and the writer of each forwarder, one TCP connection
and one DNS flow in its stack, and the read deadline of the TUN file, which
belongs to the file and not to the forwarder. gVisor is external.

**Fectun.** Locked sections are single steps; `fectunPeer.mu` is held during a
bootstrap and is a variable. A timer that fires and its callback that gets the lock
are two steps. `ClientShared` is the refinement: under
the mapping that reads the offered clients off the table and the streams off the
dialers, every step is a step of `SharedClient` or stutters.

**Deploy, Dialing, NetMonitor, Trace.** In Deploy a sent chunk is on its way until the
remote `cat` writes it, also after the connection is gone, where its own last chunk
ended; the remote shell is a process of its own that takes the end of its connection
for the end of the upload. Files are inodes, so that a rename under an open descriptor,
or a truncation under an open writer, is what it is on the host. Builds
of one version differ in size, as `shouldReuseRemote` supposes. Dialing records
which rules are up while each hop is dialed. A sample of NetMonitor and its sleep
are one step. Trace has the page, its goroutine, the two files and the process.

**Relay, Datagrams.** Application, two copiers, the stream, the server's handler
with its two goroutines and the destination; data are numbered chunks. Idle
deadlines may expire whenever a copier runs. Other connections appear through what
they share: the session, the stream slots and the number of direct dials.

**Store.** An operation is a sequence of phases; a phase reads, prepares one file
write, and `Flush` performs it: the other program or a crash comes between. The Go
code and `rules.rs` replace a file by a rename; the other Rust writes truncate
first. Init is one of five stores, those of old versions among them. What is a domain
is decided by two libraries, publicsuffix in Go and tldts in TypeScript:
`NotDomainsGo` and `NotDomainsTS` are the names each refuses, and differ in the run.
Observed names may end with a dot, and override keys are stored as observed; only the
tunnel normalises them (`Overrides`).

**Sidecar.** Commands run one at a time on the main thread, reconnect threads call
connect on their own, each field has its own lock, and every step that takes a lock is
an action: a tunnel may connect or end, the user may give a command and the
application may be killed between any two. The helper daemon and the tunnels are
processes of the model. The code leaves some races between its threads unsettled;
`races` records which of them have happened, so that `StaysDown` and `StatusHonest`
can say which they do not survive, and the same properties without the exception are
violated. The countdown of five seconds is one round of look and write.

**Capture, Firewall.** A rule is what it matches and its action; a method is the
sequence of its rules in the order of the text it generates. First match (Linux),
last match or first quick one (pf) and the order of the hooks are external.
Setup, Restore and the others are scripts of commands; a command may fail, and the
process may be killed between any two. pf reads the rules of an anchor through two
hooks in its main ruleset, which Setup inserts one after the other, each only if the
listing does not hold its text; on a host that skips lo0 it first loads another main
ruleset. `CaptureExact` compares the verdict on every
packet with what the arguments of Setup say.

## Runs

All bounds are named constants. Deadlock checking is off because these systems
may rest: nobody has to write, connect or fail.

| Run | Bounds | Shows |
|---|---|---|
| `fair_writer` | 2 streams, 2 data frames each, channel of 2, 1 control frame | at most one data frame is written before an accepted control frame is (`ControlDelay`), data stays in order (`DataInOrder`) and behind its SYN (`SynBeforeData`), every accepted frame is written (`EventuallyDrained`) |
| `split_conn` | a TCP, a DNS or a pushed stream, 2 data frames each way, rejection | nothing arrives before the stream is open (`OpenBeforeData`), FIN after the data (`DataBeforeFin`) and at last (`FinDelivered`) |
| `mux_pool` | 2 members with ctrl connections, with and without a jump host, 2 deaths, 2 attempts, one flow, one DNS request | `ConnsOwned`, `MemberRecovers` |
| `session` | pf, 2 Connects, 1 Disconnect, 2 engines, 1 rule change, IPv6 lock-down, quitting | `OneEngine`, `HostRestored`, `Captured`, `DisconnectSettles` |
| `mobile` | 1 Start with Stops at any time, or 2 Starts and 2 Stops in turn, 4 sessions of 2 connections; 2 forwarders, 3 packets | `SessionOwned`, `Forwarding`, `DeadReplaced`; `ReaderLives`, `ForwarderCloses` |
| `connect` | 2 dialers, 2 keys, 4 clients, a fault; 3 deployments, 2 cut, data on the way; 2 members by 3 routes; 4 network changes; 2 traces with 2 failures and a death | `ClientShared`, `ReturnedComplete`, `CarrierExempt`, `FlapIgnored`, `SwitchReported`, `ToolGenuine` |
| `stats` | 3 connections, 3 destinations for 2 places, channels of 1 and 2, files of 1 record | `ViewExact`, `AnswerExact`, `EndedForgotten` |
| `proxy` | 1 connection with 2 chunks up and 1 down by every entry and route, 1 slot; 2 channels, 1 query | `EofComplete`, `Accounted`, `SlotFreed`; `QueryAnswered` |
| `store` | both programs, 5 initial stores, 6 hosts (an address and a trailing dot among them), 2 operations, 1 crash | `RouteShown`, `RulesOnlyEdited` |
| `sidecar` | 2 tunnels, 2 commands, 2 failures, 1 crash or exit, child and helper path | `StaysDown`, `StatusHonest`, `OrphansFound` |
| `firewall` | 5 methods, 4 argument sets, all packets over 8 addresses and 6 ports, 3 starts, 1 failed command, 2 kills, lo0 skipped or not; 2 connections on one source port; 3 interfaces on 3 systems | `CaptureExact`, `HostClean`, `OrigDstRight`, `SettingsRestored` |
| `firewall_atomic` | nft, 1 start | **violated**: `DisableDNSAtomic` |

Why the bounds are enough: two streams are what overtaking needs, and a channel of
two lets Write block inside a round; two members are what picks and the one-place
error channel need; two engines let an old loop and a new engine exist together;
two dialers and an idle client make the timer race a new user; a third deployment
meets the shell of the first; three starts let the third meet what the first and the
second left; one source port makes every second connection a reuse. For each
property the fault variant of `PROJECT.json` is violated under the same bounds, so
the interesting states are reached.

Fairness. Go's scheduler runs every goroutine that can run, and the operating
system every thread, so their steps get weak fairness; a `select` with two ready
cases is a free choice. Nobody is obliged to write, connect, disconnect or fail.
`FairWriter`: a connection write returns. `SplitConn`: connections deliver; nobody
has to close a stream. `MuxPool`: a member's own steps are taken; that an SSH dial, a
handshake or the wait for a sync header ends is not assumed, since they have no
timeout. `TunnelSession`: nor is it that connectBackend returns.
`MobileEngine`: sessions being set up may take for ever. `TunForwarder`: after Close,
opens, requests and idle sources end by their timeouts; before, nothing has to
arrive. `Relay`: goroutines run and a deadline nothing renews expires; nobody has to
send or to close. `Datagrams`: the cleanup ticks, and the server ends a channel once
it was closed. `Fectun`: timers expire and the keepalive ends a connection whose
peer is gone. `NetMonitor`: samples are taken. `Trace`: goroutine and event loop run,
the network and the tool need not. `Stats`: the ticker fires, also (strong fairness)
while every subscriber has caught up, so that a snapshot is not always dropped.
`Sidecar`: threads and watchdogs run, a process that got SIGTERM ends.

Assumptions that a constant states, and that the code does not enforce:

* `Prompt` (TunnelSession): when Disconnect is called, loops older than the newest
  one have ended. The user needs less time to press a key than a loop may need to
  end, so this is an assumption about the user, not about the code.
* `SilentFaults` (Firewall): commands whose error is ignored fail too.
  `DefaultMark`: TPROXY keeps its default mark and table.
* `Graceless` (NetMonitor): no switch in the first five seconds.
* `Overlap` (Deploy, Store): two devices, or programs, are at work at the same time.
* `Beside` (TunForwarder): a forwarder is made while another one is open.
* `HopAddrs` with one element (Dialing): a host name keeps its address.

What happens without them is in the table of violations.

## Findings

* `firewall_atomic`: nft's DisableDNS deletes the table and loads the new rules by
  two commands; its comment calls the replacement atomic (`nft.go:360`). In
  between TCP leaves the host directly, and if the load fails it goes on doing so.

### Further properties

These hold as well. Where no configuration is named, they are checked by adding them
to the one of the run.

| Configuration | Properties |
|---|---|
| `FairWriter_more.cfg` (`MCFairWriter`) | `TypeOK`, `ScheduledOnce`, `FinOvertakesOneAtMost`, `TurnBound`, `WaitBound` |
| `FairWriter.cfg`, Sizes = {3}, MaxPsh = 1 | `WriteReturns` |
| module `SplitConn`, `Spec`, a DNS and a pushed stream, MaxPsh = 1 | `OnCtrlWhileOpen` |
| `MobileEngine_more.cfg` (`MobileEngine`) | `TypeOK`, `FdOwned`, `StateMatchesTunnel`, `ProtectedDial`, `SpawnOnce`, `StopReturnsWhenUp` |
| `TunnelSession_more.cfg` (`TunnelSession`) | `TypeOK`, `EngineOwned`, `StatusSettled`, `RedialResolves`, `NoResurrection` |
| `MuxPool.cfg` | `TypeOK`, `CountersExact`, `StateHonest`, `GaveUpEndsEngine` |
| `Connect.cfg` | `StormCostsOne`, `IdleClosed`, `ToolThere`, `StopSettles` |
| `Stats.cfg` | `RingLatest`, `LiveDestKept` |
| `Proxy.cfg` | `InOrder`, `DialErrorReported`, `FlowsReachable`, `AssociationClosed`, `NoDeadFlow` |
| `Store.cfg` | `NothingVanishes` |
| `Firewall.cfg` | `KeptHeld`, `LeftoversHarmless`, `ReplyTranslated` |
| `Sidecar.cfg` | `CommandReturns` |

### Where the code goes wrong

Each line names a property that states what the source says or means; TLC finds it
violated in the named module, with the run's constants or the ones given.

| Module | Property | With | What the code does |
|---|---|---|---|
| `FairWriter` | `FinAfterData` | `Spec` | a FIN collected while the last data frame is in hand goes to the priority list and is written first (`fair_writer.go:17`, `:163`); never more than one frame, `FinOvertakesOneAtMost` |
| `SplitConn` | `AcceptOnce` | `Spec`, one TCP stream, MaxPsh = 1, MayReject = FALSE | the slower copy of a mirrored SYN opens the stream again when the receiver has closed it (`split_conn.go:279`) |
| `SplitConn` | `OnCtrlOnly` | `Spec`, one DNS stream | a DNS stream rejected right after its SYN is answered over the data connection (`:27`, `:373`) |
| `SplitConn` | `FinNotBehindOthers` | `Spec`, two TCP streams | a FIN is popped only when the one data queue of all streams is empty (`:306`) |
| `MobileEngine` | `ReleasedAfterStop` | `Spec` | Stop during Start returns, then Start publishes its session (`engine.go:130`, `:194`) |
| `MobileEngine` | `StopReturns` | `FairSpec`, one engine, Conns = 1, MaxStarts = MaxStops = 1, MaxSess = 2, no TUN, StopDuringStart = FALSE | reconnectLoop publishes a session dialed after Stop closed stopCh; Stop waits for the watcher and the watcher for the session (`:216`, `:380`) |
| `MobileEngine` | `ProtectedDial` | `Spec`, two engines | the old engine's Stop clears the hook the new one dials with (`:222`, `tunnel.go:77`) |
| `MobileEngine` | `OneForwarder` | `Spec` | a session that dies before StartWithTUN attaches its forwarder leaves that forwarder running (`:190`) |
| `MobileEngine` | `SessionOwned`, `SpawnOnce` | `Spec`, StopDuringStart = TRUE, MaxStarts = MaxStops = 2 | a Stop that overlaps Start finds no goroutines to wait for and returns; those that Start then spawns run beside the next Start (`engine.go:194`, `:216`) |
| `TunForwarder` | `ReaderLives` | `USpec`, Beside = TRUE | then closing one forwarder ends the reader of the other (`tun.go:304`) |
| `TunForwarder` | `UploadKept` | `USpec` | each copier has an idle deadline of its own: a quiet upload is half-closed under an active download (`tun.go:319`) |
| `TunnelSession` | `Captured` | `Spec`, nft, MaxConnects = MaxDisconnects = MaxEngines = 2, no rules and none of the four switches | countdown calls finish before release: an old loop removes the nft table of the new session (`session.go:417`) |
| `TunnelSession` | `OneEngine`, `Captured` | `TunnelSession.cfg`, Prompt = FALSE, MaxConnects = 3, MaxDisconnects = 2 | Disconnect clears stopCh while an older loop is on its way out; that loop's finish settles the status the new loop had shown, and Connect starts another beside it (`session.go:254`, `:456`) |
| `TunnelSession` | `KeptRules` | `Spec`, nft | the next engine removes the kept rules before it can fail (`engine.go:171`, `:283`) |
| `TunnelSession` | `LatestRules` | `Spec` | the loop applies rules it read before a newer SetRules (`session.go:54`, `:347`) |
| `TunnelSession` | `QuitReleases` | `Spec`, nft | quitting in the countdown ends the process before the rules are released (`app.go:96`, `:134`) |
| `TunnelSession` | `DisconnectSettlesAlways` | `FairSpec` | a peer silent in the SSH handshake keeps Disconnect from taking effect (`engine.go:192`, `session.go:247`) |
| `TunnelSession` | `HostRestored` | `Spec`, iptables | a half-finished setup is not undone (`engine.go:400`, `:417`) |
| `TunnelSession` | `HostRestored` | `Spec`, windivert | the handle of a dropped engine is forgotten (`session.go:360`) |
| `TunnelSession` | `HostRestored` | `Spec`, socks5 | after a drop, Setup saves the tunnel's DNS server as the one to restore (`windows.go:71`, `:100`) |
| `MCMuxPool` | `HopsOwned` | | an attempt that fails behind a jump host returns without closing the clients before it, and closing a client closes the last of its chain only (`sshconn/client.go:192`, `:203`, `:258`): every failed attempt and every reconnect leaves a connection |
| `MCMuxPool` | `MemberRecoversAlways` | | a peer that goes silent in the SSH handshake or before the sync header keeps the member in its attempt for ever: neither has a timeout (`sshconn/client.go:144`, `muxbuilder.go:154`) |
| `MCConnect` | `ReturnedComplete` | Overlap = TRUE, two Callers | two devices fill one `path.tmp`; the first mv publishes it half-written (`deploy.go:165`) |
| `MCConnect` | `ReturnedComplete` | Blocks: the old build as long as the new one, or longer | an old build of the same size, or a cut upload of a longer one, is taken for the new build (`deploy.go:145`) |
| `MCConnect` | `ReusedComplete` | | data that were on their way at a cut are written, at the old place, into the file the next upload has truncated; a second cut then leaves a file of the right size with a hole, which is reused (`deploy.go:145`, `:194`) |
| `MCConnect` | `StartedComplete` | | the shell of a dropped connection replaces the file just returned (`deploy.go:182`) |
| `MCConnect` | `Runnable` | | a late shell still has the returned file open for writing |
| `MCConnect` | `CarrierExempt` | HopAddrs = {"h", "g"} | a member redials a name that now has an address the rules capture (`engine.go:227`) |
| `MCConnect` | `FlapIgnored` | two interfaces that may have the same address | the fingerprint names the interfaces: an address that moves to the other one and goes is a change (`netmon.go:57`) |
| `MCConnect` | `RulesAccepted` | | a ProxyCommand has no peer address; the exclude made of it is "/32" and Setup fails (`engine.go:222`) |
| `MCConnect` | `HopsClosed` | | only the last client of a jump chain is ever closed (`client.go:257`) |
| `MCConnect` | `SwitchReported` | Graceless = FALSE | a switch in the first five seconds is never reported (`netmon_linux.go:70`) |
| `Trace` | `ToolGenuine` | `TSpec`, two Programs, MaxRunsEach = 1 | two downloads share one `.part` file, each verified against what it received itself (`nexttrace.go:138`) |
| `Trace` | `ToolThere` | the same | a failed Ensure removes the tool another program has installed (`nexttrace.go:115`) |
| `Stats` | `LiveDestRetained` | `Spec`, no subscribers | a destination that overflows the map is evicted by its own arrival (`stats.go:391`, `:960`) |
| `Relay` | `NoStuckConnection` | `Spec` | a connection the proxy gave up stays on the server, with its slot, while the destination is silent (`main.go:403`) |
| `Datagrams` | `IdleFlowClosed` | `DSpec`, tproxy | the receiver of an old flow deletes the entry of a new one, which is then never cleaned up (`udp_tproxy.go:204`) |
| `MCStore` | `NeverOverwritten` | | the desktop saves the rules it loaded at its start over those the TUI saved since |
| `MCStore` | `MirrorsTunnel` | | the desktop's resolveRoute says that it mirrors the tunnel's matcher (`ruleGroups.ts:47`). The tunnel normalises the keys of the overrides (`routes.go:115`), the desktop looks a normal name up among the keys as stored (`ruleGroups.ts:32`): an override for a host observed as `a.com.` is in force and not shown. And publicsuffix accepts an IP address as a scope, tldts does not (`store/rules.go:34`, `ruleGroups.ts:11`): the tunnel routes the address by the group, the desktop shows another route |
| `MCStore` | `RouteShown` | PlainRules left out | the TUI's page looks the host up among raw keys as well (`dest_model.go:37`) |
| `MCStore` | `ActiveAfterStart` | | after a crash between default.json and settings.json no launch selects a group (`migrate.go:67`) |
| `MCSidecar` | `StaysDownAlways` | | a disconnect finds no token to cancel between its removal and the end of the attempt, and the tunnel comes up after it (`sidecar.rs:1004`); one between the look at the flag and the write of the status leaves "reconnecting" shown (`:967`, `:980`); "Connected" read before a disconnect is written after it (`:1228`, `:1236`) |
| `MCSidecar` | `StatusHonestAlways` | | the end of a process that exits at once is handled before connect stores it: the dead child stays stored and "connecting" shown (`:1192`, `:1305`, `:1313`) |
| `MCSidecar` | `EveryOrphanFound` | | an application killed between the start of the tunnel and the write of the PID file leaves one that no later start ends (`:1162`, `:1171`) |
| `MCSidecar` | `RetriesUntilConnected` | MaxTunnels = 3, MaxCalls = 1 | connect's Ok means only that a process started, and the reconnect thread ends there (`:935`, `:1012`); or the dead child of the line above makes every retry fail (`:1058`) |
| `MCSidecar` | `ReconnectGoesOn` | | a cancelled reconnect leaves "reconnecting" shown |
| `MCSidecar` | `ReapsItsOwn` | MaxCalls = 3, MaxFails = 1 | a late reader takes the next tunnel's process out of the state (`:1257`) |
| `MCSidecar` | `AnchorsKept` | helper path | the watchdog of an old tunnel flushes the anchor of the next |
| `MCFirewall` | `CaptureAlways` | | killed between the two hooks of pf, a process leaves the `rdr-anchor`; the next Setup finds the text of the other hook in it, does not add that one, and captures nothing (`pf.go:276`) |
| `MCFirewall` | `MainKept` | | where lo0 is skipped, Setup loads `pass on lo` over the host's main ruleset, and nothing puts it back (`pf.go:225`) |
| `MCFirewall` | `KeptAlways` | | DisableDNS removes everything first; a failure leaves no rules (`tproxy.go:436`) |
| `MCFirewall` | `LeftoversHarmless` | DefaultMark = FALSE | the cleanup knows only mark 1 and table 100 (`nft.go:188`) |
| `MCFirewall` | `CaptureExact` | SilentFaults = TRUE | Setup ignores errors of the commands that hook its chain (`nft.go:442`) |
| `MCFirewall` | `CaptureExact` | Configs <- MCUnrouted | TPROXY marks the queries to an IPv6 DNS server but has no policy route for them without an IPv6 subnet: they leave directly (`tproxy.go:58`) |
| `MCFirewall` | `CaptureExact` | Configs <- MCLinkLocal | with `--no-ipv6` pf lets the queries to a link-local DNS server out |
| `MCFirewall` | `NoIPv6Escape` | | pf passes IPv6 datagrams its UDP rules let through despite `--no-ipv6` |
| `MCFirewall` | `CapturedServed` | | captured IPv6 connections find no listener: the proxies bind IPv4 |
| `MCFirewall` | `AnswersArrive` | | WinDivert forgets a connection after two quiet minutes (`windivert.go:455`) |
| `MCFirewall` | `DivertExact` | WSubnets <- MCOverlap | a port range hides a wider subnet that follows it |
| `MCFirewall` | `SettingsRestored` | MaxWriteErrors = 1 | a restore whose write failed removes the state file all the same, and the setting is lost (`iface_ipv6_windows.go:78`) |
| `MCFirewall` | `SettingsRestored` | Originals <- MCMixed | writing "all" back last turns IPv6 on where it was off (`iface_ipv6_linux.go:92`) |

Observed while modelling, without a property. MuxPool: a backend that fails leaves
the ctrl connections of earlier members open; the members of an engine that has
ended keep reconnecting, which `backend.go:43` excuses with the end of the process
although the TUI's process goes on; when all members are dead the pool hands out
the first. Capture: the Linux methods let excludes precede the DNS rules while pf
captures DNS to an excluded server; pf and WinDivert have no rule for the host's own
addresses; WinDivert ignores the list of DNS servers; an IPv6 server address is
excluded as a /32.

## Proofs

Eight modules, checked by tlapm with Z3, Zenon and LS4, hold for every value of the
constants the theorems that follow. The constants have the assumptions of their
modules (`StreamsAssumption`, `SessionAssumption`, `FectunAssumption`, ...), which
say that bounds are numbers and sets finite; where a theorem needs more it says so
as a hypothesis, listed below with the reason. Every hypothesis holds in the run
that checks the property, and the table above shows what happens without it.

| Module | Theorems, of `Spec` unless another is named | Obligations |
|---|---|---|
| `FairWriterProofs` | `TypeCorrect`: `TypeOK`; `ControlDelayed`: `ControlDelay`; `DataOrdered`: `DataInOrder` | 883 |
| `SplitConnProofs` | `SynArrivesFirst`: `OpenBeforeData`; `DataArrivesInOrder`: `DataBeforeFin`; `ConnectionsOwned`: `ConnsOwned` (`PoolSpec`) | 3475 |
| `TunnelSessionProofs` | `RunningEngineOwned`: `EngineOwned`; `SettledUntilConnect`: `NoResurrection`; `OneEngineRuns`: `OneEngine`; `HostIsRestored`: `HostRestored`; `ConnectedIsCaptured`: `Captured`; `OwnSettingsReturn`: `SettingsRestored` (`LSpec`) | 3280 |
| `ConnectProofs` | `ClientsAreShared`: the refinement `ClientShared`; `TunnelExempt`: `CarrierExempt` (`JSpec`); `OutageIgnored`: `FlapIgnored` (`NSpec`); `ToolIsGenuine`: `ToolGenuine` (`TSpec`); `ReturnsWholeBuild`: `ReturnedComplete` (`DpSpec`) | 3365 |
| `HostProofs` | `StreamShowsOpen`: `ViewExact`; `AnswersAreExact`: `AnswerExact`; `HostIsClean`: `HostClean`, `LeftoversAreHarmless`: `LeftoversHarmless`, `PacketsGoAsPromised`: `CaptureExact` (`FSpec`) | 9228 |
| `AppProofs` | `NoSessionLeaks`: `SessionOwned`; `TunnelIsWired`: `Forwarding`; `OneWatcher`: `SpawnOnce` and `StateMatchesTunnel`; `ReaderIsAlive`: `ReaderLives` (`USpec`); `OrphansHold`: `OrphansFound` (`SSpec`) | 1789 |
| `ProxyProofs` | `TypesHold`: `TypeOK`; `BooksBalance`: `Accounted`; `DataInOrder`: `InOrder`; `EndsAreTrue`: `EofComplete`; `ErrorsAreReported`: `DialErrorReported`; `FlowsCanBeCleaned`: `FlowsReachable` (`DSpec`); `RelayLeavesNothing`: `AssociationClosed` (`DSpec`); `ProxyDialsRight`: `OrigDstRight` (`WSpec`) | 3197 |
| `StoreProofs` | `OneRouting`: the three matchers are one function; `RoutesAgree`: `RouteShown`; `MergesAgree`: the two merges are one function; `RulesChangeByEdits`: `RulesOnlyEdited` | 3766 |

Hypotheses:

* `Prompt` (`OneEngineRuns`, `ConnectedIsCaptured`): see Assumptions. `EngineOwned`
  and `NoResurrection` are proved without it: the generations protect the status
  and the engines, not the time between two loops.
* `Clears`, that is pf or nft (`HostIsRestored`): the other methods leave something
  behind in the ways the table names. `Method = "pf"` (`ConnectedIsCaptured`): with
  a name shared by all engines a late release takes the rules of the next one.
* `OneAddress` (`TunnelExempt`), `OwnAddresses` (`OutageIgnored`): a host name keeps
  its address; no two interfaces have the same routable address.
* `~Overlap`, `SizeTells` (`ReturnsWholeBuild`): one deployment at a time, and no other
  build of the version reaches the size of the one in use. shouldReuseRemote trusts
  the size alone (`deploy.go:145`), so neither can go. That a file reused after more
  than one cut may have a hole is in the property, not in a hypothesis.
* `OneProgram` (`ToolIsGenuine`): the directory of the tool is used by one program.
* `DefaultMark`, `~SilentFaults` (`HostIsClean`, `LeftoversAreHarmless`,
  `PacketsGoAsPromised`): the cleanup removes what belongs to mark 1 and table 100
  (`nft.go:188`), and a command whose error the code ignores does what it is for; when
  a removal fails unnoticed, what it should have removed stays. `ConfigsAssumption` says that a configuration is lists
  and sets of the kinds Setup takes, `GoneAssumption` that the mark of an absent
  object is not an object.
* `NamesRouted` (`PacketsGoAsPromised`): no DNS server is link-local under `--no-ipv6`,
  where pf and TPROXY let it pass, and with TPROXY IPv6 DNS servers come with an IPv6
  subnet, since only that installs the policy route (`tproxy.go:58`).
* `WritesSucceed`, `OneSetting` (`OwnSettingsReturn`): settings can be written, and a
  Linux host begins with one setting for all interfaces.
* `NativeCalls` (the engine's theorems in `AppProofs`): the native side calls Stop
  only when Start has returned, or calls Start once. These are the two regimes of
  the run.
* `~Beside` (`ReaderIsAlive`): see Assumptions.
* `~Overlap`, `AbsentIsNoFile` (`RulesChangeByEdits`): one program works on the store
  at a time, a file that is there is not one that is not. `StoreAssumption`: the
  files hold values of their kinds, no host begins with a star, no scope is empty,
  and a store of an old version in which no group was ever selected has no group
  file. A migration writes that selection last; where a launch of this version is cut
  before it, `Fresh` says that only the default group is there. Group identifiers differ
  (`RuleSetsAssumption`).

The arguments. No property is inductive as it stands; each module states the
invariant that is, says above it why it is needed, and proves it action by action.

* *FairWriter.* `TypeInv` adds that `active` is not empty while a stream is served,
  because the round reads `Head(active)`. `DelayInv` adds what the two flushes
  achieve: the priority list is empty whenever a data frame is about to be written,
  and frames that entered the channel since the last collectPending are younger
  than the last data write. `OrderInv` says that the numbers of a stream's unwritten
  data frames are split, in order, over the frame in hand, the stream's queue and
  the input channel; each step moves one number between two of these places.
* *SplitConn.* `SynInv` says where the SYNs are: until an end has accepted a stream
  of its peer, every data or FIN frame of the stream has a SYN before it on the way
  the frame takes, in the merged channel, on the connection or in the queues.
  `OrderInv` follows the data: as long as its reader has not closed a stream, the
  data frames on the way are exactly those between what was read and what was
  written, they rise over the five stages of the way (merged channel, ctrl, data
  connection, PSH queue, FIN queue), and nothing follows a FIN. A frame may skip a
  stage because nothing of its stream is in it: regular streams never use ctrl, and
  a DNS stream that its reader has not closed has nothing waiting elsewhere, since
  its acceptor learns the route before smux can hand it the first data frame.
  Streams that were rejected or accepted twice are outside the property and outside
  the invariant.
* *MuxPool.* `ConnInv` adds that no goroutine runs and every client is the first of
  its member until the backend is up, that a failed backend has no data connection
  left, and that afterwards every connection to the server belongs to the newest client
  or to the attempt in progress. It says nothing of the jump hosts.
* *TunnelSession.* The lemmas of the first part say which fields of which loop and
  engine a step changes; the rest argues with fields. `OwnInv`: the generations tell
  the current loop, a loop that nobody can stop is on its way out, every loop has
  its own engine and waits for it. `Alone`, under `Prompt`: a stopped loop that still
  holds an engine is alone. `HostInv`: rules, and a disabled IPv6, are somebody's
  duty, of the engine that is up or of the loop that will release what it kept.
* *Fectun.* `FectunInv`: reference counts are the numbers of streams, the table
  offers live clients under their own key, clients are made in order. Then `Init`
  maps to `Init` and each action to one of `SharedClient` or to a stutter.
* *Dialing, NetMonitor, Trace.* `DialInv`: whatever rules are up exempt the first hop,
  because connectBackend's answer precedes them. `MonitorInv`: samples that keep
  Watch waiting were taken away from home. `TraceInv`: until it is renamed the file
  of a download holds what was hashed, and afterwards nobody writes it.
* *Deploy.* `DeployInv`: every inode holds blocks of one build, or holes, at the places
  they have in it, and a `cat` that is not the caller's writes only what it was sent
  before its connection ended. `CutInv` counts: without a cut nothing is on its way
  but the caller's own data; after one, the caller's own upload fills whatever the old
  `cat` skipped, so that a file that is not being filled is a prefix, or complete; only
  after two may it have a hole.
* *Firewall.* `FirewallInv` is about the commands that are still to run. For the Linux
  methods (`LinuxInv`): what they put on the host is of the kinds the method's Restore
  removes (`Owned`); what is there of other kinds, from an earlier process with
  another method, they remove before Setup is done; each jump and route is added once
  and after its removal, since a removal takes one copy. `Part` says this of each piece
  of a script and of two in a row, so that the proof follows the scripts' structure
  and not their lengths. For pf (`PfInv`) it says how far the script has come and where
  the enable token is: in the process, in the file, or lost with a killed process. `LeadsInv`
  adds the hooks: the anchor's rules are read once both are there, and both are unless
  a kill came between them (`halved`).
  The arguments of Setup are arbitrary.
* *Capture.* `CaptureExact` has two halves. `FirstIs` and `LastIs` say which rule of a
  list decides, `FirstJoin` and `LastJoin` what that is for two lists in a row; so each
  method's list is reduced, piece by piece, to a table of a few lines (`Treat` for
  Linux, `Filtered` for pf), for any subnets and servers, and the table is compared
  with `Promised`. The other half, `LeadsInv`, says that the commands still to run
  lead each object of the host from what it holds to what Setup wants it to hold
  (`Wanted`): the cleanup leads it to nothing from anything, Setup from nothing to the
  list. A command that fails ends this only by ending Setup.
* *WinDivert, IPv6Lock.* `DivertInv`: the entry of a redirected connection is its own
  from the packet that stores it to the next tick, since open connections do not
  share a key. `LockInv`: the state file, when there is one, holds the host's own
  settings, because nothing is disabled while there is one.
* *Stats.* `StreamInv`: of every connection none of whose events is still to be
  queued, a reader that goes through its channel, the snapshot the broadcaster holds
  and the queued events, in this order, ends up with the truth, however stale the
  single messages are. When nothing is on the way this is `ViewExact`.
* *ConnLog.* `AnswerExact` has two halves. That the list may be sorted and cut while it
  grows is `SortTwice`, an equation about `SortConns`: the place of a record, counted
  from the end, is the number of records not earlier, and one that was cut has at least
  as many later ones before it as the limit. `Matching` and `Collect` are recursive
  functions; induction over their length, for sets of numbers (`NatInduct`), is derived
  from the pigeon-hole theorem. `LogInv` then says which files a request has read: what
  they hold of the history it began with is in its answer once, nothing of the others
  is, and a record is in one place of one file, or of the ring, because only a
  connection that has ended and is not yet on file can be written.
* *Sidecar.* `OrphanInv` is about who could still find a tunnel if the application ended
  now. `OneConnect`: as long as no two connects have met (`two`), at most one is past
  its check, and none while a child is stored or awaited; so the PID file, which every
  connect writes and a finished disconnect removes, names the stored child. `PathOK`:
  a tunnel of the helper is watched until it is gone. `OrphanOK`: a tunnel that was
  stored when the application ended is in the PID file until the next start reads it,
  or its socket is closed. Statuses, cancel flags and countdowns play no part, which
  is why no hypothesis is left.
* *MobileEngine, TunForwarder.* `MobileInv`: Start runs without goroutines of an
  earlier one, there is no tunnel while a session is being made, a tunnel without a
  forwarder is about to get one. `ForwarderInv`: at most one forwarder is not closed,
  and a deadline in the past belongs to one that is closing.
* *Relay.* The lemmas of the first part say which fields a copier, the entry and the
  server change; the rest argues with fields. `StageInv`: nothing moves until the
  copiers start, only a tunnelled connection has a stream, closed ends are done.
  `UpFlow`, `DownFlow`: what a stream holds is the chunks that follow those received,
  as many as the sender has read, and behind them only messages without data; such a
  message is there only when the sender's end was reached, or the connection was cut.
  `ErrorKept`: until the download copier has read it, the error of a failed dial is
  the only message on the stream. These need no hypothesis, and no bound on the
  chunks: `MaxUp` and `MaxDown` are any numbers.
* *Datagrams.* `LoopInv`: the loop holds a key only while the table has no flow for
  it, and only it installs flows. `AssocInv`: an open channel is the association's,
  or the server has ended it.

* *RuleSets.* Each matcher looks for the longest override that covers the host, and
  then for the first group that does: the tunnel finds the group in two indexes, the
  others in a scan, and the least index among those found is the first of the scan.
  `PlainRules` makes the tunnel's compiled keys the stored ones; `SameScopes` is used
  for the desktop only, and the two libraries are otherwise any sets of names.
  The merges go through the groups in opposite directions, one keeping the last mode
  of a host and one the first. Induction over the length of a list is `NatInduct`,
  a lemma about sets, which the pigeonhole principle of the library's finite sets gives.
* *Store.* `StoreTypes` follows a rule set through files, prepared writes, memories and
  the arguments of phases; with `OneRouting` that is `RoutesAgree`. `StoreInv` is about
  the rules in force, which, until rules.json exists, are what a launch would make of
  the other files: one program is at work; a prepared write of rules.json holds the
  rules in force or one edit of them; and before rules.json exists a program is off
  or in its launch, in one of the shapes of `Launching`. Once the file exists, a step
  is of one of five kinds (`Kind`), and only the write of rules.json changes anything.

`TunnelSession`'s proof attempt of `OneEngine` failed without `Prompt` on a case that
the run's two Connects do not reach, and three Connects show it (table above).

Only model-checked:

* every liveness property, and `SwitchReported`, `EventuallyDrained` and the like:
  fairness and ENABLED are outside the prover's reach;
* most properties that are in no run.

## Not modelled, and why

Payload bytes, framing and parsing; smux, SSH, gVisor and fectun's coding, which are
libraries (modelled, where needed, by how the relay uses them); profile import,
catalog and key handling, which are conversions; UI pages, forms and menus, which
are layout and run in one goroutine or the browser; the command line program, which
runs one engine and exits; the probe and benchmark tools, which are not part of the
tunnel; the mobile apps, whose calls are arbitrary in MobileEngine; the log file apart
from its rotation (ConnLog). The desktop's own download of the trace tool
(`traceroute.rs`) repeats the one in Trace. Each component's entry in
`PROJECT.json` gives its reason.

## Plan

The models are complete as far as this plan goes; what is left is proof, in this
order:

1. `FairWriter`: `ScheduledOnce`, `SynBeforeData`; `MuxPool`: `CountersExact`.
2. `Sidecar`: `StaysDown` and `StatusHonest` with the races they name. Their invariant
   has to follow every thread between its steps, not only at rest.
