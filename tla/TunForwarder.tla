---------------------------- MODULE TunForwarder -----------------------------
(***************************************************************************)
(* The forwarders of the mobile engine (mobile/tun.go).  Each has a reader *)
(* and a writer on the TUN file, which the engine owns and all forwarders  *)
(* use one after the other, a userspace network stack, and a handler for   *)
(* every TCP connection and every DNS flow in it.  Close has to get the    *)
(* reader out of its blocking read without harm to the next reader.        *)
(*                                                                         *)
(* The stack is gVisor's.  One connection and one flow at a time stand for *)
(* all; of data only its direction and presence is kept.                   *)
(***************************************************************************)
EXTENDS Naturals

CONSTANTS
    MaxForwarders, MaxPackets, MaxPend,
    Beside        \* a forwarder may be made while another one is open

ASSUME TunAssumption ==
    MaxForwarders \in Nat /\ MaxPackets \in Nat /\ MaxPend \in Nat /\ Beside \in BOOLEAN

Fwds == 1..MaxForwarders
Kinds == {"tcp", "dns", "udp", "other"}

VARIABLES
    deadline,  \* read deadline of the TUN file: "none", "past"
    tunOpen,   \* the engine has not closed the TUN file
    fwd,       \* fwd[f]: forwarder f with reader, writer and packets to write
    tcp,       \* tcp[f]: handleTCP with its two copiers
    flow,      \* flow[f]: serveDNSFlow, its endpoint's queue and its requests
    packets,   \* packets read
    cut        \* history: an upload was closed while its download was active

uvars == <<deadline, tunOpen, fwd, tcp, flow, packets, cut>>

NoFwd == [st |-> "none", reader |-> "none", writer |-> "none", out |-> 0]
NoTcp == [st |-> "none", up |-> "none", down |-> "none", active |-> FALSE]
NoFlow == [st |-> "none", inq |-> 0, pend |-> 0]

UInit ==
    /\ deadline = "none" /\ tunOpen = TRUE
    /\ fwd = [f \in Fwds |-> NoFwd]
    /\ tcp = [f \in Fwds |-> NoTcp] /\ flow = [f \in Fwds |-> NoFlow]
    /\ packets = 0 /\ cut = FALSE

Over(f) == fwd[f].st \in {"none", "closed"}

\* newTunForwarder, for the next session.
NewForwarder(f) ==
    /\ fwd[f].st = "none" /\ \A g \in 1..(f - 1) : fwd[g].st # "none"
    /\ tunOpen /\ (Beside \/ \A g \in Fwds : Over(g))
    /\ fwd' = [fwd EXCEPT ![f] =
                 [st |-> "open", reader |-> "read", writer |-> "read", out |-> 0]]
    /\ UNCHANGED <<deadline, tunOpen, tcp, flow, packets, cut>>

(***************************************************************************)
(* The loops.                                                              *)
(***************************************************************************)
\* handleUDP: the stack finds the endpoint of the flow, or makes one; other
\* ports are dropped.
Injected(f, k) ==
    /\ tcp' = IF k = "tcp" /\ tcp[f].st = "none"
              THEN [tcp EXCEPT ![f].st = "opening"] ELSE tcp
    /\ flow' = IF k # "dns" THEN flow
               ELSE IF flow[f].st = "none"
               THEN [flow EXCEPT ![f] = [st |-> "serve", inq |-> 1, pend |-> 0]]
               ELSE [flow EXCEPT ![f].inq = 1]

\* readFromTUN: a packet, or the end.
ReadFromTUN(f, k) ==
    /\ fwd[f].reader = "read" /\ tunOpen /\ deadline = "none"
    /\ packets < MaxPackets /\ packets' = packets + 1
    /\ IF fwd[f].st = "open" THEN Injected(f, k) ELSE UNCHANGED <<tcp, flow>>
    /\ UNCHANGED <<deadline, tunOpen, fwd, cut>>

ReadEnds(f) ==
    /\ fwd[f].reader = "read" /\ (~tunOpen \/ deadline = "past")
    /\ fwd' = [fwd EXCEPT ![f].reader = "done"]
    /\ UNCHANGED <<deadline, tunOpen, tcp, flow, packets, cut>>

\* writeToTUN: a packet of the stack; the end of the context or of the file.
WriteToTUN(f) ==
    /\ fwd[f].writer = "read" /\ fwd[f].out = 1 /\ tunOpen
    /\ fwd' = [fwd EXCEPT ![f].out = 0]
    /\ UNCHANGED <<deadline, tunOpen, tcp, flow, packets, cut>>

WriteEnds(f) ==
    /\ fwd[f].writer = "read"
    /\ fwd[f].st = "closing" \/ (fwd[f].out = 1 /\ ~tunOpen)
    /\ fwd' = [fwd EXCEPT ![f].writer = "done"]
    /\ UNCHANGED <<deadline, tunOpen, tcp, flow, packets, cut>>

Wrote(f) == fwd' = IF fwd[f].st = "open" THEN [fwd EXCEPT ![f].out = 1] ELSE fwd

(***************************************************************************)
(* handleTCP.  Each copier has a deadline of its own, for its own source.  *)
(***************************************************************************)
OpenTCP(f, ok) ==
    /\ tcp[f].st = "opening"
    /\ tcp' = [tcp EXCEPT ![f] =
                 IF ok THEN [st |-> "copy", up |-> "copy", down |-> "copy", active |-> FALSE]
                 ELSE NoTcp]
    /\ UNCHANGED <<deadline, tunOpen, fwd, flow, packets, cut>>

CopyUp(f) ==
    /\ tcp[f].up = "copy" /\ fwd[f].st = "open"
    /\ tcp' = [tcp EXCEPT ![f].active = FALSE]
    /\ UNCHANGED <<deadline, tunOpen, fwd, flow, packets, cut>>

CopyDown(f) ==
    /\ tcp[f].down = "copy"
    /\ tcp' = [tcp EXCEPT ![f].active = TRUE, ![f].down = IF fwd[f].st = "open" THEN @ ELSE "done"]
    /\ Wrote(f)
    /\ UNCHANGED <<deadline, tunOpen, flow, packets, cut>>

\* The application or the peer closes, the endpoint is gone, or nothing came
\* from the source for two minutes.  After the upload the stream is half-closed.
UpEnds(f, idle) ==
    /\ tcp[f].up = "copy"
    /\ tcp' = [tcp EXCEPT ![f].up = "done"]
    /\ cut' = (cut \/ (idle /\ fwd[f].st = "open" /\ tcp[f].active /\ tcp[f].down = "copy"))
    /\ UNCHANGED <<deadline, tunOpen, fwd, flow, packets>>

DownEnds(f) ==
    /\ tcp[f].down = "copy"
    /\ tcp' = [tcp EXCEPT ![f].down = "done"]
    /\ UNCHANGED <<deadline, tunOpen, fwd, flow, packets, cut>>

CloseTCP(f) ==
    /\ tcp[f].st = "copy" /\ tcp[f].up = "done" /\ tcp[f].down = "done"
    /\ tcp' = [tcp EXCEPT ![f] = NoTcp]
    /\ UNCHANGED <<deadline, tunOpen, fwd, flow, packets, cut>>

(***************************************************************************)
(* serveDNSFlow.                                                           *)
(***************************************************************************)
FlowRead(f) ==
    /\ flow[f].st = "serve" /\ flow[f].inq = 1 /\ flow[f].pend < MaxPend
    /\ flow' = [flow EXCEPT ![f].inq = 0, ![f].pend = @ + 1]
    /\ UNCHANGED <<deadline, tunOpen, fwd, tcp, packets, cut>>

\* Idle for fifteen seconds, or the stack is closed.
FlowIdle(f) ==
    /\ flow[f].st = "serve" /\ (flow[f].inq = 0 \/ fwd[f].st # "open")
    /\ flow' = [flow EXCEPT ![f].st = "drain"]
    /\ UNCHANGED <<deadline, tunOpen, fwd, tcp, packets, cut>>

\* The tunnel's answer, or SERVFAIL, is written.
FlowAnswer(f) ==
    /\ flow[f].pend > 0
    /\ flow' = [flow EXCEPT ![f].pend = @ - 1] /\ Wrote(f)
    /\ UNCHANGED <<deadline, tunOpen, tcp, packets, cut>>

\* The handler returns when all requests have; then its endpoint is closed.
FlowClose(f) ==
    /\ flow[f].st = "drain" /\ flow[f].pend = 0
    /\ flow' = [flow EXCEPT ![f] = NoFlow]
    /\ UNCHANGED <<deadline, tunOpen, fwd, tcp, packets, cut>>

(***************************************************************************)
(* Close: the context, a deadline in the past, the stack; then the loops   *)
(* are waited for and the deadline is lifted for the next forwarder.       *)
(***************************************************************************)
PastDeadline_Fault == deadline
PastDeadline == "past"
Close(f) ==
    /\ fwd[f].st = "open"
    /\ fwd' = [fwd EXCEPT ![f].st = "closing", ![f].out = 0]
    /\ deadline' = PastDeadline
    /\ UNCHANGED <<tunOpen, tcp, flow, packets, cut>>

RestoredDeadline_Fault == deadline
RestoredDeadline == "none"
CloseReturns(f) ==
    /\ fwd[f].st = "closing" /\ fwd[f].reader = "done" /\ fwd[f].writer = "done"
    /\ fwd' = [fwd EXCEPT ![f].st = "closed"]
    /\ deadline' = RestoredDeadline
    /\ UNCHANGED <<tunOpen, tcp, flow, packets, cut>>

\* Engine.Stop closes the file after the forwarder.
EngineStops ==
    /\ tunOpen /\ tunOpen' = FALSE /\ \A f \in Fwds : Over(f)
    /\ UNCHANGED <<deadline, fwd, tcp, flow, packets, cut>>

Loops(f) == ReadEnds(f) \/ WriteToTUN(f) \/ WriteEnds(f) \/ CloseReturns(f)
Conn(f) == \E b \in BOOLEAN : OpenTCP(f, b) \/ UpEnds(f, b)
Flow(f) == FlowRead(f) \/ FlowAnswer(f) \/ FlowClose(f)

UNext ==
    \/ \E f \in Fwds : \/ NewForwarder(f) \/ \E k \in Kinds : ReadFromTUN(f, k)
                       \/ Loops(f) \/ Close(f)
                       \/ Conn(f) \/ CopyUp(f) \/ CopyDown(f) \/ DownEnds(f) \/ CloseTCP(f)
                       \/ Flow(f) \/ FlowIdle(f)
    \/ EngineStops

\* Goroutines run; opens, requests and idle sources end by their timeouts.
UFairness ==
    \A f \in Fwds : /\ WF_uvars(Loops(f)) /\ WF_uvars(CloseTCP(f)) /\ WF_uvars(Flow(f))
                    /\ WF_uvars(fwd[f].st # "open" /\ Conn(f))
                    /\ WF_uvars(fwd[f].st # "open" /\ DownEnds(f))
                    /\ WF_uvars(fwd[f].st # "open" /\ FlowIdle(f))
USpec == UInit /\ [][UNext]_uvars /\ UFairness

(***************************************************************************)
(* Properties.                                                             *)
(***************************************************************************)
\* A forwarder that is open on an open TUN file reads its packets: no deadline
\* of an earlier forwarder's Close ends its reader.
ReaderLives ==
    \A f \in Fwds : fwd[f].st = "open" /\ tunOpen =>
        fwd[f].reader = "read" /\ (deadline = "past" => \E g \in Fwds : fwd[g].st = "closing")

\* Close returns, also when no packet ever comes, and the handlers of its
\* connections and flows end.
ForwarderCloses ==
    \A f \in Fwds : fwd[f].st = "closing" ~>
        (fwd[f].st = "closed" /\ tcp[f].st = "none" /\ flow[f].st = "none")

\* An upload that is merely quiet is not closed under an active download.
UploadKept == ~cut
=============================================================================
