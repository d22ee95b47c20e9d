------------------------------ MODULE SplitConn ------------------------------
(***************************************************************************)
(* The two ends of a split mux session: internal/mux/split_conn.go under   *)
(* smux, with the client of internal/mux/client.go at one end and the      *)
(* stream dispatcher of cmd/server/main.go at the other.                   *)
(*                                                                         *)
(* Every end writes smux frames to two TCP connections.  SYN goes to ctrl  *)
(* and, for a regular stream, also to the head of the data queues; data    *)
(* and FIN frames are queued for the data connection; every frame of a     *)
(* stream registered in ctrlStreams goes to ctrl.  The client registers a  *)
(* stream when it opens it (DNS), the other end when the first data frame  *)
(* of the stream arrives on ctrl.  Each connection is FIFO; nothing orders *)
(* one against the other.                                                  *)
(*                                                                         *)
(* smux itself is external: it opens a stream for the first SYN of an id   *)
(* it has no stream for, drops data of an unknown id, and forgets an id    *)
(* when its own side closes the stream.  The readers' channel (capacity    *)
(* 128) is longer than the traffic of a run and never blocks here.         *)
(***************************************************************************)
EXTENDS Integers, Sequences, FiniteSets

\* Definitions named X_Y are faulty variants of X, used by no specification.

CONSTANTS
    Regular,    \* streams the client opens for TCP and UDP
    Dns,        \* streams the client opens on ctrl
    Push,       \* streams the server opens (routes)
    MaxPsh,     \* bound: data frames per stream and direction
    MayReject   \* the server can be at its stream limit

ASSUME StreamsAssumption ==
    /\ Regular \cap Dns = {} /\ Regular \cap Push = {} /\ Dns \cap Push = {}
    /\ MaxPsh \in Nat /\ MayReject \in BOOLEAN

Streams == Regular \cup Dns \cup Push
Ends == {"client", "server"}
Peer(e) == IF e = "client" THEN "server" ELSE "client"
Opener(s) == IF s \in Push THEN "server" ELSE "client"

VARIABLES
    q,            \* per end: the syn, psh and fin queues of splitWriter
    data, ctrl,   \* per end: what it wrote to each connection, not yet read
    ch,           \* per end: frames merged from both connections
    ctrlStreams,  \* per end: streams routed over ctrl
    table,        \* per end: streams smux knows
    accepts,      \* per end and stream: how often AcceptStream returned it
    sent, rcv,    \* per end and stream: data frames written, received
    closed,       \* per end: streams it has closed (FIN written)
    gotFin,       \* per end: streams whose FIN was received while open
    rejected,     \* streams the server turned away at its limit
    lost,         \* <<end, stream>>: data dropped before the stream was open
    disorder,     \* <<end, stream>>: data out of order, or FIN before data
    offRoute      \* ctrl-routed streams that had a frame sent over data

qVars == <<q, data, ctrl, ch, ctrlStreams>>
appVars == <<sent, closed, rejected>>
rcvVars == <<table, accepts, rcv, gotFin, lost, disorder>>
vars == <<qVars, appVars, rcvVars, offRoute>>

Frame(cmd, s, n) == [cmd |-> cmd, sid |-> s, n |-> n]

PerEnd(v) == [e \in Ends |-> v]

Init ==
    /\ q = PerEnd([c \in {"SYN", "PSH", "FIN"} |-> <<>>])
    /\ data = PerEnd(<<>>) /\ ctrl = PerEnd(<<>>) /\ ch = PerEnd(<<>>)
    /\ ctrlStreams = PerEnd({}) /\ table = PerEnd({})
    /\ accepts = PerEnd([s \in Streams |-> 0])
    /\ sent = PerEnd([s \in Streams |-> 0]) /\ rcv = PerEnd([s \in Streams |-> 0])
    /\ closed = PerEnd({}) /\ gotFin = PerEnd({})
    /\ rejected = {} /\ lost = {} /\ disorder = {} /\ offRoute = {}

-----------------------------------------------------------------------------
(***************************************************************************)
(* splitWriter.Write.                                                      *)
(***************************************************************************)
Enqueue(e, f) == [q EXCEPT ![e][f.cmd] = Append(@, f)]

Mirrored_Never(s) == FALSE

\* A regular SYN is mirrored onto the data connection.
Mirrored(s) == s \notin Dns

\* The stream of f is routed over ctrl.
Registered(e, f) == f.sid \in ctrlStreams[e]

WriteSyn(e, f) ==
    /\ f.cmd = "SYN"
    /\ ctrl' = [ctrl EXCEPT ![e] = Append(@, f)]
    /\ q' = IF Mirrored(f.sid) THEN Enqueue(e, f) ELSE q
    /\ ctrlStreams' = IF f.sid \in Dns THEN [ctrlStreams EXCEPT ![e] = @ \cup {f.sid}]
                                       ELSE ctrlStreams
    /\ UNCHANGED offRoute

WriteOnCtrl(e, f) ==
    /\ f.cmd # "SYN" /\ Registered(e, f)
    /\ ctrl' = [ctrl EXCEPT ![e] = Append(@, f)]
    /\ ctrlStreams' = IF f.cmd = "FIN" THEN [ctrlStreams EXCEPT ![e] = @ \ {f.sid}]
                                       ELSE ctrlStreams
    /\ UNCHANGED <<q, offRoute>>

WriteOnData(e, f) ==
    /\ f.cmd # "SYN" /\ ~Registered(e, f)
    /\ q' = Enqueue(e, f)
    /\ offRoute' = IF f.sid \in Dns THEN offRoute \cup {f.sid} ELSE offRoute
    /\ UNCHANGED <<ctrl, ctrlStreams>>

Write(e, f) == WriteSyn(e, f) \/ WriteOnCtrl(e, f) \/ WriteOnData(e, f)

PopOrder_FinFirst(e) ==
    IF q[e].SYN # <<>> THEN "SYN" ELSE IF q[e].FIN # <<>> THEN "FIN" ELSE "PSH"

PopOrder_NoFin(e) == IF q[e].SYN # <<>> THEN "SYN" ELSE "PSH"

\* popData: SYN mirrors first, then data, FIN only when no data is queued.
PopOrder(e) ==
    IF q[e].SYN # <<>> THEN "SYN" ELSE IF q[e].PSH # <<>> THEN "PSH" ELSE "FIN"

\* drainData: one frame from the queues to the data connection.
DrainData(e) ==
    LET c == PopOrder(e)
    IN /\ q[e][c] # <<>>
       /\ data' = [data EXCEPT ![e] = Append(@, Head(q[e][c]))]
       /\ q' = [q EXCEPT ![e][c] = Tail(@)]
       /\ UNCHANGED <<ctrl, ch, ctrlStreams, appVars, rcvVars, offRoute>>

-----------------------------------------------------------------------------
(***************************************************************************)
(* mergedReader.pump, one goroutine per connection.                        *)
(***************************************************************************)
PumpData(e) ==
    /\ data[Peer(e)] # <<>>
    /\ ch' = [ch EXCEPT ![e] = Append(@, Head(data[Peer(e)]))]
    /\ data' = [data EXCEPT ![Peer(e)] = Tail(@)]
    /\ UNCHANGED <<q, ctrl, ctrlStreams, appVars, rcvVars, offRoute>>

\* Auto-learning: data arriving on ctrl registers its stream, FIN removes it.
Learned(known, f) ==
    CASE f.cmd = "PSH" -> known \cup {f.sid}
      [] f.cmd = "FIN" -> known \ {f.sid}
      [] OTHER -> known

PumpCtrl(e) ==
    /\ ctrl[Peer(e)] # <<>>
    /\ LET f == Head(ctrl[Peer(e)])
       IN /\ ctrlStreams' = [ctrlStreams EXCEPT ![e] = Learned(@, f)]
          /\ ch' = [ch EXCEPT ![e] = Append(@, f)]
    /\ ctrl' = [ctrl EXCEPT ![Peer(e)] = Tail(@)]
    /\ UNCHANGED <<q, data, appVars, rcvVars, offRoute>>

-----------------------------------------------------------------------------
(***************************************************************************)
(* smux's receive loop on the merged frames (external).                    *)
(***************************************************************************)
Next1(e) == Head(ch[e])

RecvSyn(e) ==
    /\ ch[e] # <<>> /\ Next1(e).cmd = "SYN"
    /\ LET s == Next1(e).sid
       IN IF s \in table[e]
            THEN UNCHANGED <<table, accepts, rcv>>
            ELSE /\ table' = [table EXCEPT ![e] = @ \cup {s}]
                 /\ accepts' = [accepts EXCEPT ![e][s] = @ + 1]
                 /\ rcv' = [rcv EXCEPT ![e][s] = 0]
    /\ ch' = [ch EXCEPT ![e] = Tail(@)]
    /\ UNCHANGED <<q, data, ctrl, ctrlStreams, appVars, gotFin, lost, disorder,
                   offRoute>>

\* A stream this end has never had: neither opened nor accepted.
Unseen(e, s) == s \notin table[e] /\ Opener(s) # e /\ accepts[e][s] = 0

RecvPsh(e) ==
    /\ ch[e] # <<>> /\ Next1(e).cmd = "PSH"
    /\ LET f == Next1(e)
           s == f.sid
       IN /\ rcv' = IF s \in table[e] THEN [rcv EXCEPT ![e][s] = @ + 1] ELSE rcv
          /\ lost' = IF Unseen(e, s) THEN lost \cup {<<e, s>>} ELSE lost
          /\ disorder' =
               IF s \in table[e] /\ accepts[e][s] <= 1 /\ f.n # rcv[e][s] + 1
                 THEN disorder \cup {<<e, s>>} ELSE disorder
    /\ ch' = [ch EXCEPT ![e] = Tail(@)]
    /\ UNCHANGED <<q, data, ctrl, ctrlStreams, appVars, table, accepts, gotFin,
                   offRoute>>

RecvFin(e) ==
    /\ ch[e] # <<>> /\ Next1(e).cmd = "FIN"
    /\ LET s == Next1(e).sid
       IN /\ gotFin' = IF s \in table[e] THEN [gotFin EXCEPT ![e] = @ \cup {s}]
                                         ELSE gotFin
          /\ lost' = IF Unseen(e, s) THEN lost \cup {<<e, s>>} ELSE lost
          /\ disorder' =
               IF /\ s \in table[e] /\ accepts[e][s] <= 1
                  /\ rcv[e][s] < sent[Peer(e)][s]
                 THEN disorder \cup {<<e, s>>} ELSE disorder
    /\ ch' = [ch EXCEPT ![e] = Tail(@)]
    /\ UNCHANGED <<q, data, ctrl, ctrlStreams, appVars, table, accepts, rcv,
                   offRoute>>

Recv(e) == RecvSyn(e) \/ RecvPsh(e) \/ RecvFin(e)

-----------------------------------------------------------------------------
(***************************************************************************)
(* The users of the streams.                                               *)
(***************************************************************************)
\* openStream, openStreamOnCtrl, and pushRoutes on the server.  openMu makes
\* setting routeNextSYN and writing the SYN one step.
Open(s) ==
    LET e == Opener(s)
    IN /\ s \notin table[e] /\ s \notin closed[e]
       /\ table' = [table EXCEPT ![e] = @ \cup {s}]
       /\ Write(e, Frame("SYN", s, 0))
       /\ UNCHANGED <<data, ch, appVars, accepts, rcv, gotFin, lost, disorder>>

\* A write by the end that opened the stream, or by a server handler that has
\* read the header; the client never answers on a stream the server opened.
Send(e, s) ==
    /\ s \in table[e] /\ sent[e][s] < MaxPsh
    /\ Opener(s) = e \/ (e = "server" /\ rcv[e][s] > 0 /\ s \notin rejected)
    /\ sent' = [sent EXCEPT ![e][s] = @ + 1]
    /\ Write(e, Frame("PSH", s, sent[e][s] + 1))
    /\ UNCHANGED <<data, ch, closed, rejected, rcvVars>>

\* The server is at maxStreamConcurrency: an empty message, then Close.
Reject(s) ==
    /\ MayReject /\ s \notin Push /\ s \in table["server"] \ rejected
    /\ rcv["server"][s] = 0
    /\ rejected' = rejected \cup {s}
    /\ sent' = [sent EXCEPT !["server"][s] = @ + 1]
    /\ Write("server", Frame("PSH", s, sent["server"][s] + 1))
    /\ UNCHANGED <<data, ch, closed, rcvVars>>

\* Close: FIN is written and smux forgets the stream.  The opener may close
\* at any time (done, or its deadline passed); a handler after the header or
\* the peer's FIN, or right after a rejection; the client's route handler
\* reads until FIN.
CloseStream(e, s) ==
    /\ s \in table[e]
    /\ \/ Opener(s) = e
       \/ s \in gotFin[e]
       \/ e = "server" /\ (rcv[e][s] > 0 \/ s \in rejected)
    /\ table' = [table EXCEPT ![e] = @ \ {s}]
    /\ closed' = [closed EXCEPT ![e] = @ \cup {s}]
    /\ Write(e, Frame("FIN", s, 0))
    /\ UNCHANGED <<data, ch, sent, rejected, accepts, rcv, gotFin, lost, disorder>>

-----------------------------------------------------------------------------
NetStep(e) == DrainData(e) \/ PumpData(e) \/ PumpCtrl(e) \/ Recv(e)

Next ==
    \/ \E e \in Ends : NetStep(e)
    \/ \E s \in Streams : Open(s) \/ Reject(s)
    \/ \E e \in Ends, s \in Streams : Send(e, s) \/ CloseStream(e, s)

Spec == Init /\ [][Next]_vars

\* The writer and reader goroutines of both ends run and connections deliver.
\* Nothing is assumed of the users of streams: the server's handler waits for
\* both directions of a connection, and a silent destination never ends one.
Fairness ==
    \A e \in Ends : WF_vars(DrainData(e)) /\ WF_vars(PumpData(e))
                    /\ WF_vars(PumpCtrl(e)) /\ WF_vars(Recv(e))
FairSpec == Spec /\ Fairness

-----------------------------------------------------------------------------
(***************************************************************************)
(* Properties.                                                             *)
(***************************************************************************)
FrameType == [cmd : {"SYN", "PSH", "FIN"}, sid : Streams, n : 0 .. MaxPsh + 1]

\* Types of all variables; the queues hold only frames of their own kind.
TypeOK ==
    /\ \A e \in Ends :
         /\ \A c \in {"SYN", "PSH", "FIN"} :
              q[e][c] \in Seq(FrameType) /\ \A i \in DOMAIN q[e][c] : q[e][c][i].cmd = c
         /\ data[e] \in Seq(FrameType) /\ ctrl[e] \in Seq(FrameType)
         /\ ch[e] \in Seq(FrameType)
         /\ ctrlStreams[e] \subseteq Dns
         /\ table[e] \subseteq Streams /\ closed[e] \subseteq Streams
         /\ gotFin[e] \subseteq Streams
         /\ \A s \in Streams : accepts[e][s] \in Nat /\ rcv[e][s] \in Nat
    /\ rejected \subseteq Streams /\ offRoute \subseteq Dns

\* "Mirroring the SYN onto the (ordered) data connection ahead of the stream's
\* PSH guarantees the receiver opens the stream first": whatever the relative
\* speed of the two connections, smux never drops data or FIN of a stream that
\* the receiving end has not opened yet.
OpenBeforeData == lost = {}

\* Data of a stream arrives in order and complete before FIN while its
\* receiver has the stream open, also for streams whose routing changes from
\* data to ctrl when the other end learns it.  Two kinds of stream are excluded:
\* those the server rejects (see OnCtrlOnly) and those that the late copy of a
\* SYN opened a second time (see AcceptOnce).
DataBeforeFin ==
    \A e \in Ends, s \in Streams \ rejected :
        (\A d \in Ends : accepts[d][s] <= 1) => <<e, s>> \notin disorder

\* isDataCmd says of a registered stream: "all of its frames travel on ctrl",
\* and so do the answers of the server that learned it, as long as neither end
\* has closed the stream.
OnCtrlWhileOpen ==
    [][\A s \in Dns : (s \in offRoute' \ offRoute) =>
          \/ \E e \in Ends : s \in closed'[e]
          \/ s \in rejected']_vars

\* The same without the exception for a stream that the server rejects before
\* the client's first data frame has arrived.
OnCtrlOnly ==
    [][\A s \in Dns : (s \in offRoute' \ offRoute) =>
          \E e \in Ends : s \in closed'[e]]_vars

\* splitWriter.Write says of the duplicate SYN: "The mirror is idempotent -
\* smux ignores a duplicate SYN".  So no end accepts a stream twice.
AcceptOnce == \A e \in Ends, s \in Streams : accepts[e][s] <= 1

\* Write says of FIN: "separate queue so it doesn't queue behind bulk PSH
\* frames from other streams".
FinNotBehindOthers ==
    [][\A e \in Ends :
          (q[e].PSH # <<>> /\ q'[e].PSH = Tail(q[e].PSH)) =>
            \A i \in DOMAIN q[e].FIN : q[e].FIN[i].sid = Head(q[e].PSH).sid]_vars

\* The other end of a stream hears of its end: FIN written by one end reaches
\* the other, or the other has closed the stream itself.
FinDelivered ==
    \A e \in Ends, s \in Streams :
        (s \in closed[e]) ~> (s \in gotFin[Peer(e)] \cup closed[Peer(e)])
=============================================================================
