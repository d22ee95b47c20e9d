-------------------------- MODULE SplitConnProofs --------------------------
(***************************************************************************)
(* Proofs that no frame of a stream overtakes its SYN, and that the data   *)
(* of a stream arrives in order and before its FIN, for every set of       *)
(* streams and every number of frames.                                     *)
(*                                                                         *)
(* OpenBeforeData speaks of a set that only a wrong step fills; what keeps *)
(* it empty is where the SYNs are.  While an end has not accepted a stream *)
(* of its peer, every data or FIN frame of the stream has a SYN before it  *)
(* on the way the frame takes: in the merged channel, on the connection,   *)
(* or in the queues, which popData empties SYN first.                      *)
(*                                                                         *)
(* DataBeforeFin is about numbers: as long as its reader has the stream,   *)
(* the data frames on the way are exactly those between what was read and  *)
(* what was written, they rise from stage to stage (merged channel, ctrl,  *)
(* data connection, PSH queue, FIN queue), and nothing follows a FIN.  A   *)
(* frame can skip a stage only when nothing of its stream is in it: that   *)
(* holds because a regular stream never uses ctrl, and a DNS stream that   *)
(* its reader has not closed has nothing waiting anywhere else.            *)
(***************************************************************************)
EXTENDS SplitConn, MuxPool, TLAPS

Cmds == {"SYN", "PSH", "FIN"}
Frames == [cmd : Cmds, sid : Streams, n : Int]

\* A SYN of stream s is in the sequence.
HasSyn(fs, s) == \E i \in DOMAIN fs : fs[i].cmd = "SYN" /\ fs[i].sid = s

\* A data or FIN frame of stream s is in the sequence.
HasBody(fs, s) == \E i \in DOMAIN fs : fs[i].cmd # "SYN" /\ fs[i].sid = s

\* Every data or FIN frame of s in the sequence comes after a SYN of s.
SynFirst(fs, s) ==
    \A i \in DOMAIN fs : (fs[i].cmd # "SYN" /\ fs[i].sid = s) =>
        \E j \in DOMAIN fs : j < i /\ fs[j].cmd = "SYN" /\ fs[j].sid = s

SplitTypes ==
    /\ q \in [Ends -> [Cmds -> Seq(Frames)]]
    /\ data \in [Ends -> Seq(Frames)] /\ ctrl \in [Ends -> Seq(Frames)]
    /\ ch \in [Ends -> Seq(Frames)]
    /\ ctrlStreams \in [Ends -> SUBSET Streams]
    /\ table \in [Ends -> SUBSET Streams] /\ closed \in [Ends -> SUBSET Streams]
    /\ accepts \in [Ends -> [Streams -> Nat]]
    /\ sent \in [Ends -> [Streams -> Nat]] /\ rcv \in [Ends -> [Streams -> Nat]]

\* The end that does not open s.
Acceptor(s) == Peer(Opener(s))

\* A data or FIN frame of s waits in the queues of an end.
Queued(e, s) == \E c \in Cmds : HasBody(q[e][c], s)

\* s was opened by its opener and not yet accepted: nothing of s goes back, and
\* on each way to the acceptor the SYN is first.
Announced(s) ==
    LET o == Opener(s)
        a == Acceptor(s)
    IN /\ s \notin table[a]
       /\ ~HasBody(ctrl[a], s)
       /\ SynFirst(ch[a], s)
       /\ HasSyn(ch[a], s) \/ SynFirst(ctrl[o], s)
       /\ HasSyn(ch[a], s) \/ SynFirst(data[o], s)
       /\ Queued(o, s) =>
            HasSyn(ch[a], s) \/ HasSyn(data[o], s) \/ HasSyn(q[o].SYN, s)
       /\ s \in table[o] =>
            /\ HasSyn(ch[a], s) \/ HasSyn(ctrl[o], s)
            /\ s \in Dns => s \in ctrlStreams[o]
            /\ s \notin Dns => HasSyn(ch[a], s) \/ HasSyn(data[o], s) \/ HasSyn(q[o].SYN, s)

\* Only its opener sends a SYN of s.
OwnSyn(s) ==
    LET o == Opener(s)
        a == Acceptor(s)
    IN /\ ~HasSyn(ch[o], s) /\ ~HasSyn(ctrl[a], s) /\ ~HasSyn(data[a], s)
       /\ \A c \in Cmds : ~HasSyn(q[a][c], s)

SynInv ==
    /\ SplitTypes
    /\ \A s \in Streams : OwnSyn(s)
    /\ \A e \in Ends, s \in Streams : ~HasBody(q[e].SYN, s)
    /\ \A s \in Streams : accepts[Acceptor(s)][s] = 0 => Announced(s)
    /\ lost = {}

-----------------------------------------------------------------------------
(* Sequences of frames.                                                    *)

\* What an appended frame adds.
LEMMA AppendFrame ==
    ASSUME NEW fs \in Seq(Frames), NEW f \in Frames, NEW s \in Streams
    PROVE  /\ Append(fs, f) \in Seq(Frames)
           /\ HasSyn(Append(fs, f), s) <=> HasSyn(fs, s) \/ (f.cmd = "SYN" /\ f.sid = s)
           /\ HasBody(Append(fs, f), s) <=> HasBody(fs, s) \/ (f.cmd # "SYN" /\ f.sid = s)
           /\ SynFirst(fs, s) /\ (HasSyn(fs, s) \/ f.cmd = "SYN" \/ f.sid # s)
                => SynFirst(Append(fs, f), s)
<1> DEFINE n == Len(fs)
<1>1. /\ Append(fs, f) \in Seq(Frames) /\ n \in Nat
      /\ DOMAIN fs = 1 .. n /\ DOMAIN Append(fs, f) = 1 .. n + 1
      /\ \A i \in 1 .. n : Append(fs, f)[i] = fs[i]
      /\ Append(fs, f)[n + 1] = f
    OBVIOUS
<1> HIDE DEF n
<1>2. HasSyn(Append(fs, f), s) <=> HasSyn(fs, s) \/ (f.cmd = "SYN" /\ f.sid = s)
    BY <1>1 DEF HasSyn
<1>3. HasBody(Append(fs, f), s) <=> HasBody(fs, s) \/ (f.cmd # "SYN" /\ f.sid = s)
    BY <1>1 DEF HasBody
<1>4. ASSUME SynFirst(fs, s), HasSyn(fs, s) \/ f.cmd = "SYN" \/ f.sid # s
      PROVE  SynFirst(Append(fs, f), s)
    <2> SUFFICES ASSUME NEW i \in 1 .. n + 1, Append(fs, f)[i].cmd # "SYN",
                        Append(fs, f)[i].sid = s
                 PROVE  \E j \in 1 .. n + 1 : /\ j < i /\ Append(fs, f)[j].cmd = "SYN"
                                              /\ Append(fs, f)[j].sid = s
        BY <1>1 DEF SynFirst
    <2>1. CASE i = n + 1
        BY <1>1, <1>4, <2>1 DEF HasSyn
    <2>2. CASE i # n + 1
        BY <1>1, <1>4, <2>2 DEF SynFirst
    <2> QED
        BY <2>1, <2>2
<1> QED
    BY <1>1, <1>2, <1>3, <1>4

\* What is left when the first frame was taken.
LEMMA TailFrame ==
    ASSUME NEW fs \in Seq(Frames), fs # <<>>, NEW s \in Streams
    PROVE  /\ Tail(fs) \in Seq(Frames) /\ Head(fs) \in Frames
           /\ HasSyn(fs, s) <=> HasSyn(Tail(fs), s) \/ (Head(fs).cmd = "SYN" /\ Head(fs).sid = s)
           /\ HasBody(fs, s) <=> HasBody(Tail(fs), s) \/ (Head(fs).cmd # "SYN" /\ Head(fs).sid = s)
           /\ SynFirst(fs, s) => Head(fs).cmd = "SYN" \/ Head(fs).sid # s
           /\ SynFirst(fs, s) /\ (Head(fs).cmd # "SYN" \/ Head(fs).sid # s) => SynFirst(Tail(fs), s)
<1> DEFINE n == Len(fs)
<1>1. /\ Tail(fs) \in Seq(Frames) /\ Head(fs) \in Frames /\ n \in Nat /\ n > 0
      /\ DOMAIN fs = 1 .. n /\ DOMAIN Tail(fs) = 1 .. n - 1
      /\ \A i \in 1 .. n - 1 : Tail(fs)[i] = fs[i + 1]
      /\ Head(fs) = fs[1]
    OBVIOUS
<1> HIDE DEF n
<1>2. \A i \in 1 .. n : i # 1 => i - 1 \in 1 .. n - 1 /\ fs[i] = Tail(fs)[i - 1]
    BY <1>1
<1>3. HasSyn(fs, s) <=> HasSyn(Tail(fs), s) \/ (Head(fs).cmd = "SYN" /\ Head(fs).sid = s)
    <2>1. ASSUME HasSyn(fs, s), ~(Head(fs).cmd = "SYN" /\ Head(fs).sid = s) PROVE HasSyn(Tail(fs), s)
        <3>1. PICK i \in 1 .. n : fs[i].cmd = "SYN" /\ fs[i].sid = s
            BY <1>1, <2>1 DEF HasSyn
        <3> QED
            BY <1>1, <1>2, <2>1, <3>1 DEF HasSyn
    <2>2. ASSUME HasSyn(Tail(fs), s) PROVE HasSyn(fs, s)
        <3>1. PICK i \in 1 .. n - 1 : Tail(fs)[i].cmd = "SYN" /\ Tail(fs)[i].sid = s
            BY <1>1, <2>2 DEF HasSyn
        <3>2. i + 1 \in 1 .. n /\ fs[i + 1] = Tail(fs)[i]
            BY <1>1, <3>1
        <3> QED
            BY <1>1, <3>1, <3>2 DEF HasSyn
    <2> QED
        BY <1>1, <2>1, <2>2 DEF HasSyn
<1>4. HasBody(fs, s) <=> HasBody(Tail(fs), s) \/ (Head(fs).cmd # "SYN" /\ Head(fs).sid = s)
    <2>1. ASSUME HasBody(fs, s), ~(Head(fs).cmd # "SYN" /\ Head(fs).sid = s) PROVE HasBody(Tail(fs), s)
        <3>1. PICK i \in 1 .. n : fs[i].cmd # "SYN" /\ fs[i].sid = s
            BY <1>1, <2>1 DEF HasBody
        <3> QED
            BY <1>1, <1>2, <2>1, <3>1 DEF HasBody
    <2>2. ASSUME HasBody(Tail(fs), s) PROVE HasBody(fs, s)
        <3>1. PICK i \in 1 .. n - 1 : Tail(fs)[i].cmd # "SYN" /\ Tail(fs)[i].sid = s
            BY <1>1, <2>2 DEF HasBody
        <3>2. i + 1 \in 1 .. n /\ fs[i + 1] = Tail(fs)[i]
            BY <1>1, <3>1
        <3> QED
            BY <1>1, <3>1, <3>2 DEF HasBody
    <2> QED
        BY <1>1, <2>1, <2>2 DEF HasBody
<1>5. ASSUME SynFirst(fs, s) PROVE Head(fs).cmd = "SYN" \/ Head(fs).sid # s
    BY <1>1, <1>5 DEF SynFirst
<1>6. ASSUME SynFirst(fs, s), Head(fs).cmd # "SYN" \/ Head(fs).sid # s
      PROVE  SynFirst(Tail(fs), s)
    <2> SUFFICES ASSUME NEW i \in 1 .. n - 1, Tail(fs)[i].cmd # "SYN", Tail(fs)[i].sid = s
                 PROVE  \E j \in 1 .. n - 1 : /\ j < i /\ Tail(fs)[j].cmd = "SYN"
                                              /\ Tail(fs)[j].sid = s
        BY <1>1 DEF SynFirst
    <2>1. PICK j \in 1 .. n : j < i + 1 /\ fs[j].cmd = "SYN" /\ fs[j].sid = s
        BY <1>1, <1>6 DEF SynFirst
    <2>2. j # 1
        BY <1>1, <1>6, <2>1
    <2> QED
        BY <1>1, <1>2, <2>1, <2>2
<1> QED
    BY <1>1, <1>3, <1>4, <1>5, <1>6

\* The empty sequence.
LEMMA NoFrame ==
    ASSUME NEW s \in Streams
    PROVE  ~HasSyn(<<>>, s) /\ ~HasBody(<<>>, s) /\ SynFirst(<<>>, s)
BY DEF HasSyn, HasBody, SynFirst

-----------------------------------------------------------------------------
(* Types.                                                                  *)

\* Changing one value of a function of functions.
LEMMA Update2 ==
    ASSUME NEW A, NEW B, NEW C, NEW f \in [A -> [B -> C]], NEW a \in A, NEW b \in B,
           NEW c \in C
    PROVE  [f EXCEPT ![a][b] = c] \in [A -> [B -> C]]
OBVIOUS

\* A counter of a table of counters is incremented.
LEMMA Increment2 ==
    ASSUME NEW A, NEW B, NEW f \in [A -> [B -> Nat]], NEW a \in A, NEW b \in B
    PROVE  f[a][b] + 1 \in Nat /\ [f EXCEPT ![a][b] = f[a][b] + 1] \in [A -> [B -> Nat]]
<1>1. f[a][b] \in Nat
    OBVIOUS
<1>2. f[a][b] + 1 \in Nat
    BY <1>1
<1> QED
    BY <1>2, Update2

\* There are two ends, each the peer of the other; a stream has one opener and
\* one acceptor.
LEMMA EndsPeer ==
    /\ \A e \in Ends : Peer(e) \in Ends /\ Peer(e) # e /\ Peer(Peer(e)) = e
    /\ \A e, d \in Ends : d = e \/ d = Peer(e)
    /\ \A s \in Streams : Opener(s) \in Ends /\ Acceptor(s) \in Ends /\ Acceptor(s) # Opener(s)
                          /\ Peer(Opener(s)) = Acceptor(s) /\ Peer(Acceptor(s)) = Opener(s)
BY DEF Ends, Peer, Opener, Acceptor

\* One frame written to the queues or to the ctrl connection.
LEMMA WriteTypes ==
    ASSUME SplitTypes, NEW e \in Ends, NEW f \in Frames, Write(e, f)
    PROVE  /\ q' \in [Ends -> [Cmds -> Seq(Frames)]]
           /\ ctrl' \in [Ends -> Seq(Frames)]
           /\ ctrlStreams' \in [Ends -> SUBSET Streams]
<1> USE DEF SplitTypes
<1>1. f.cmd \in Cmds /\ f.sid \in Streams
    BY DEF Frames
<1>2. Enqueue(e, f) \in [Ends -> [Cmds -> Seq(Frames)]]
    BY <1>1 DEF Enqueue
<1>3. CASE WriteSyn(e, f)
    <2>1. ctrl' \in [Ends -> Seq(Frames)]
        BY <1>3 DEF WriteSyn
    <2>2. ctrlStreams' \in [Ends -> SUBSET Streams]
        BY <1>1, <1>3 DEF WriteSyn
    <2> QED
        BY <1>2, <1>3, <2>1, <2>2 DEF WriteSyn
<1>4. CASE WriteOnCtrl(e, f)
    BY <1>1, <1>4 DEF WriteOnCtrl
<1>5. CASE WriteOnData(e, f)
    BY <1>2, <1>5 DEF WriteOnData
<1> QED
    BY <1>3, <1>4, <1>5 DEF Write

\* The tables and queues have their types at the start.
LEMMA TypesInit == Init => SplitTypes
<1> SUFFICES ASSUME Init PROVE SplitTypes
    OBVIOUS
<1>1. [c \in {"SYN", "PSH", "FIN"} |-> <<>>] \in [Cmds -> Seq(Frames)]
    BY DEF Cmds
<1>2. [s \in Streams |-> 0] \in [Streams -> Nat]
    OBVIOUS
<1> QED
    BY <1>1, <1>2 DEF Init, SplitTypes, PerEnd

\* Every step of the two routers and of their users keeps the types.
LEMMA TypesNext == SplitTypes /\ [Next]_vars => SplitTypes'
<1> SUFFICES ASSUME SplitTypes, [Next]_vars PROVE SplitTypes'
    OBVIOUS
<1> USE DEF SplitTypes
<1>1. ASSUME NEW e \in Ends, DrainData(e) PROVE SplitTypes'
    <2>1. PopOrder(e) \in Cmds
        BY DEF PopOrder, Cmds
    <2> QED
        BY <1>1, <2>1 DEF DrainData, appVars, rcvVars
<1>2. ASSUME NEW e \in Ends, PumpData(e) PROVE SplitTypes'
    BY <1>2, EndsPeer DEF PumpData, appVars, rcvVars
<1>3. ASSUME NEW e \in Ends, PumpCtrl(e) PROVE SplitTypes'
    <2>1. Head(ctrl[Peer(e)]) \in Frames
        BY <1>3, EndsPeer DEF PumpCtrl
    <2>2. Learned(ctrlStreams[e], Head(ctrl[Peer(e)])) \in SUBSET Streams
        BY <2>1 DEF Learned, Frames
    <2> QED
        BY <1>3, <2>1, <2>2, EndsPeer DEF PumpCtrl, appVars, rcvVars
<1>4. ASSUME NEW e \in Ends, Recv(e) PROVE SplitTypes'
    <2>1. ch[e] # <<>> /\ Next1(e) \in Frames /\ ch' = [ch EXCEPT ![e] = Tail(@)]
        BY <1>4 DEF Recv, RecvSyn, RecvPsh, RecvFin, Next1
    <2>2. PICK t \in Streams : t = Next1(e).sid
        BY <2>1 DEF Frames
    <2>3. ch' \in [Ends -> Seq(Frames)]
        BY <2>1
    <2>4. UNCHANGED <<q, data, ctrl, ctrlStreams, closed, sent>>
        BY <1>4 DEF Recv, RecvSyn, RecvPsh, RecvFin, appVars
    <2>5. \/ table' = table
          \/ table' = [table EXCEPT ![e] = table[e] \cup {t}]
        BY <1>4, <2>2 DEF Recv, RecvSyn, RecvPsh, RecvFin
    <2>6. \/ accepts' = accepts
          \/ accepts' = [accepts EXCEPT ![e][t] = accepts[e][t] + 1]
        BY <1>4, <2>2 DEF Recv, RecvSyn, RecvPsh, RecvFin
    <2>7. \/ rcv' = rcv
          \/ rcv' = [rcv EXCEPT ![e][t] = 0]
          \/ rcv' = [rcv EXCEPT ![e][t] = rcv[e][t] + 1]
        BY <1>4, <2>2 DEF Recv, RecvSyn, RecvPsh, RecvFin
    <2>8. table' \in [Ends -> SUBSET Streams]
        <3>1. CASE table' = table
            BY <3>1
        <3>2. CASE table' = [table EXCEPT ![e] = table[e] \cup {t}]
            BY <3>2
        <3> QED
            BY <2>5, <3>1, <3>2
    <2>9. accepts' \in [Ends -> [Streams -> Nat]]
        <3>1. CASE accepts' = accepts
            BY <3>1
        <3>2. CASE accepts' = [accepts EXCEPT ![e][t] = accepts[e][t] + 1]
            BY <3>2, Increment2
        <3> QED
            BY <2>6, <3>1, <3>2
    <2>10. rcv' \in [Ends -> [Streams -> Nat]]
        <3>1. CASE rcv' = rcv
            BY <3>1
        <3>2. CASE rcv' = [rcv EXCEPT ![e][t] = 0]
            BY <3>2, Update2
        <3>3. CASE rcv' = [rcv EXCEPT ![e][t] = rcv[e][t] + 1]
            BY <3>3, Increment2
        <3> QED
            BY <2>7, <3>1, <3>2, <3>3
    <2> QED
        BY <2>3, <2>4, <2>8, <2>9, <2>10
<1>5. ASSUME NEW s \in Streams, Open(s) PROVE SplitTypes'
    <2>1. Frame("SYN", s, 0) \in Frames
        BY DEF Frame, Frames, Cmds
    <2>2. /\ Write(Opener(s), Frame("SYN", s, 0))
          /\ table' = [table EXCEPT ![Opener(s)] = @ \cup {s}]
          /\ UNCHANGED <<data, ch, appVars, accepts, rcv, gotFin, lost, disorder>>
        BY <1>5 DEF Open
    <2>3. Opener(s) \in Ends
        BY EndsPeer
    <2>4. /\ q' \in [Ends -> [Cmds -> Seq(Frames)]]
          /\ ctrl' \in [Ends -> Seq(Frames)]
          /\ ctrlStreams' \in [Ends -> SUBSET Streams]
        BY <2>1, <2>2, <2>3, WriteTypes
    <2>5. table' \in [Ends -> SUBSET Streams]
        BY <2>2, <2>3
    <2> QED
        BY <2>2, <2>4, <2>5 DEF appVars
<1>6. ASSUME NEW e \in Ends, NEW s \in Streams, Send(e, s) PROVE SplitTypes'
    <2>0. sent[e][s] + 1 \in Int
        BY Increment2
    <2>1. Frame("PSH", s, sent[e][s] + 1) \in Frames
        BY <2>0 DEF Frame, Frames, Cmds
    <2>2. Write(e, Frame("PSH", s, sent[e][s] + 1))
        BY <1>6 DEF Send
    <2> QED
        BY <1>6, <2>1, <2>2, WriteTypes, Increment2 DEF Send, rcvVars
<1>7. ASSUME NEW s \in Streams, Reject(s) PROVE SplitTypes'
    <2>0. "server" \in Ends /\ sent["server"][s] + 1 \in Int
        BY Increment2 DEF Ends
    <2>1. Frame("PSH", s, sent["server"][s] + 1) \in Frames
        BY <2>0 DEF Frame, Frames, Cmds
    <2>2. Write("server", Frame("PSH", s, sent["server"][s] + 1))
        BY <1>7 DEF Reject
    <2> QED
        BY <1>7, <2>0, <2>1, <2>2, WriteTypes, Increment2 DEF Reject, rcvVars
<1>8. ASSUME NEW e \in Ends, NEW s \in Streams, CloseStream(e, s) PROVE SplitTypes'
    <2>1. Frame("FIN", s, 0) \in Frames
        BY DEF Frame, Frames, Cmds
    <2>2. Write(e, Frame("FIN", s, 0))
        BY <1>8 DEF CloseStream
    <2> QED
        BY <1>8, <2>1, <2>2, WriteTypes DEF CloseStream
<1>9. CASE UNCHANGED vars
    BY <1>9 DEF vars, qVars, appVars, rcvVars
<1> QED
    BY <1>1, <1>2, <1>3, <1>4, <1>5, <1>6, <1>7, <1>8, <1>9 DEF Next, NetStep

-----------------------------------------------------------------------------
(* Where the SYNs are.                                                     *)

\* What Write adds to the queues and to the ctrl connection of its end.
LEMMA WriteEffect ==
    ASSUME SplitTypes, NEW e \in Ends, NEW f \in Frames, Write(e, f), NEW s \in Streams
    PROVE  /\ \A d \in Ends \ {e} : q'[d] = q[d] /\ ctrl'[d] = ctrl[d]
                                     /\ ctrlStreams'[d] = ctrlStreams[d]
           /\ HasSyn(ctrl'[e], s) <=> HasSyn(ctrl[e], s) \/ (f.cmd = "SYN" /\ f.sid = s)
           /\ HasBody(ctrl'[e], s) <=> HasBody(ctrl[e], s)
                                       \/ (f.cmd # "SYN" /\ f.sid = s /\ s \in ctrlStreams[e])
           /\ SynFirst(ctrl[e], s) /\ (HasSyn(ctrl[e], s) \/ f.cmd = "SYN" \/ f.sid # s
                                       \/ s \notin ctrlStreams[e]) => SynFirst(ctrl'[e], s)
           /\ HasSyn(q'[e]["SYN"], s) <=> HasSyn(q[e]["SYN"], s)
                                          \/ (f.cmd = "SYN" /\ f.sid = s /\ s \notin Dns)
           /\ \A c \in Cmds : HasSyn(q'[e][c], s) =>
                HasSyn(q[e][c], s) \/ (f.cmd = "SYN" /\ f.sid = s)
           /\ HasBody(q'[e]["SYN"], s) <=> HasBody(q[e]["SYN"], s)
           /\ Queued(e, s)' => Queued(e, s) \/ (f.cmd # "SYN" /\ f.sid = s /\ s \notin ctrlStreams[e])
           /\ s \in ctrlStreams[e] /\ (f.cmd # "FIN" \/ f.sid # s) => s \in ctrlStreams'[e]
           /\ f.cmd = "SYN" /\ f.sid = s /\ s \in Dns => s \in ctrlStreams'[e]
<1> USE DEF SplitTypes
<1>0. f.cmd \in Cmds /\ f.sid \in Streams /\ "SYN" \in Cmds
    BY DEF Frames, Cmds
<1>1. CASE WriteSyn(e, f)
    <2>1. ctrl' = [ctrl EXCEPT ![e] = Append(@, f)] /\ f.cmd = "SYN"
        BY <1>1 DEF WriteSyn
    <2>2. ctrl'[e] = Append(ctrl[e], f) /\ \A d \in Ends \ {e} : ctrl'[d] = ctrl[d]
        BY <2>1
    <2>3. /\ \A d \in Ends \ {e} : ctrlStreams'[d] = ctrlStreams[d]
          /\ s \in ctrlStreams[e] => s \in ctrlStreams'[e]
          /\ f.sid = s /\ s \in Dns => s \in ctrlStreams'[e]
        BY <1>1 DEF WriteSyn
    <2>4. CASE Mirrored(f.sid)
        <3>1. q' = [q EXCEPT ![e][f.cmd] = Append(@, f)]
            BY <1>1, <2>4 DEF WriteSyn, Enqueue
        <3>2. /\ \A d \in Ends \ {e} : q'[d] = q[d]
              /\ q'[e]["SYN"] = Append(q[e]["SYN"], f)
              /\ \A c \in Cmds : c # "SYN" => q'[e][c] = q[e][c]
            BY <1>0, <2>1, <3>1
        <3>3. /\ HasSyn(q'[e]["SYN"], s) <=> HasSyn(q[e]["SYN"], s) \/ f.sid = s
              /\ HasBody(q'[e]["SYN"], s) <=> HasBody(q[e]["SYN"], s)
            BY <1>0, <2>1, <3>2, AppendFrame
        <3>4. Queued(e, s)' => Queued(e, s)
            BY <1>0, <3>2, <3>3 DEF Queued
        <3>5. /\ HasSyn(ctrl'[e], s) <=> HasSyn(ctrl[e], s) \/ f.sid = s
              /\ HasBody(ctrl'[e], s) <=> HasBody(ctrl[e], s)
              /\ SynFirst(ctrl[e], s) => SynFirst(ctrl'[e], s)
            BY <2>1, <2>2, AppendFrame
        <3> QED
            BY <2>1, <2>2, <2>3, <2>4, <3>2, <3>3, <3>4, <3>5 DEF Mirrored
    <2>5. CASE ~Mirrored(f.sid)
        <3>1. q' = q
            BY <1>1, <2>5 DEF WriteSyn
        <3> QED
            BY <1>0, <2>1, <2>2, <2>3, <2>5, <3>1, AppendFrame DEF Mirrored, Queued
    <2> QED
        BY <2>4, <2>5
<1>2. CASE WriteOnCtrl(e, f)
    <2>1. /\ ctrl' = [ctrl EXCEPT ![e] = Append(@, f)] /\ f.cmd # "SYN"
          /\ f.sid \in ctrlStreams[e] /\ q' = q
        BY <1>2 DEF WriteOnCtrl, Registered
    <2>2. ctrl'[e] = Append(ctrl[e], f) /\ \A d \in Ends \ {e} : ctrl'[d] = ctrl[d]
        BY <2>1
    <2>3. /\ \A d \in Ends \ {e} : ctrlStreams'[d] = ctrlStreams[d]
          /\ s \in ctrlStreams[e] /\ (f.cmd # "FIN" \/ f.sid # s) => s \in ctrlStreams'[e]
        BY <1>2 DEF WriteOnCtrl
    <2> QED
        BY <1>0, <2>1, <2>2, <2>3, AppendFrame DEF Queued
<1>3. CASE WriteOnData(e, f)
    <2>1. /\ q' = [q EXCEPT ![e][f.cmd] = Append(@, f)] /\ f.cmd # "SYN"
          /\ f.sid \notin ctrlStreams[e] /\ ctrl' = ctrl /\ ctrlStreams' = ctrlStreams
        BY <1>3 DEF WriteOnData, Registered, Enqueue
    <2>2. /\ \A d \in Ends \ {e} : q'[d] = q[d]
          /\ q'[e][f.cmd] = Append(q[e][f.cmd], f)
          /\ \A c \in Cmds : c # f.cmd => q'[e][c] = q[e][c]
        BY <1>0, <2>1
    <2>3. ASSUME Queued(e, s)' PROVE Queued(e, s) \/ f.sid = s
        <3>1. PICK c \in Cmds : HasBody(q'[e][c], s)
            BY <2>3 DEF Queued
        <3>2. HasBody(Append(q[e][f.cmd], f), s) => HasBody(q[e][f.cmd], s) \/ f.sid = s
            BY <1>0, AppendFrame
        <3> QED
            BY <1>0, <2>2, <3>1, <3>2 DEF Queued
    <2>4. HasSyn(q'[e][f.cmd], s) => HasSyn(q[e][f.cmd], s)
        BY <1>0, <2>1, <2>2, AppendFrame
    <2> QED
        BY <1>0, <2>1, <2>2, <2>3, <2>4
<1> QED
    BY <1>1, <1>2, <1>3 DEF Write

\* What a write of a frame f by end e does to the parts about stream s, when e
\* has the stream of f (or opens it), and a SYN is written by the opener.
LEMMA WriteKeeps ==
    ASSUME SynInv, NEW e \in Ends, NEW f \in Frames, Write(e, f), NEW s \in Streams,
           f.cmd = "SYN" => e = Opener(f.sid),
           f.cmd # "SYN" => f.sid \in table[e],
           data' = data, ch' = ch, accepts' = accepts,
           s \in table'[Acceptor(s)] => s \in table[Acceptor(s)],
           s \in table'[Opener(s)] => s \in table[Opener(s)] \/ f = Frame("SYN", s, 0),
           f.cmd = "FIN" => f.sid \notin table'[e]
    PROVE  /\ OwnSyn(s)'
           /\ \A d \in Ends : ~HasBody(q'[d].SYN, s)
           /\ accepts'[Acceptor(s)][s] = 0 => Announced(s)'
<1> DEFINE o == Opener(s)
           a == Acceptor(s)
<1>1. o \in Ends /\ a \in Ends /\ o # a /\ \A d \in Ends : d = o \/ d = a
    BY DEF Opener, Acceptor, Peer, Ends
<1>2. SplitTypes /\ OwnSyn(s) /\ \A d \in Ends : ~HasBody(q[d]["SYN"], s)
    BY DEF SynInv
<1>3. accepts[a][s] = 0 => Announced(s)
    BY DEF SynInv
<1> HIDE DEF o, a
<1>4. /\ ~HasSyn(ch[o], s) /\ ~HasSyn(ctrl[a], s) /\ ~HasSyn(data[a], s)
      /\ \A c \in Cmds : ~HasSyn(q[a][c], s)
    BY <1>2 DEF OwnSyn, o, a
<1>5. CASE e = a
    <2>1. f.cmd = "SYN" => f.sid # s
        BY <1>1, <1>5 DEF o
    <2>2. /\ ~HasSyn(ctrl'[a], s) /\ \A c \in Cmds : ~HasSyn(q'[a][c], s)
          /\ q'[o] = q[o] /\ ctrl'[o] = ctrl[o] /\ ctrlStreams'[o] = ctrlStreams[o]
          /\ ~HasBody(q'[a]["SYN"], s)
        BY <1>1, <1>2, <1>4, <1>5, <2>1, WriteEffect
    <2>3. OwnSyn(s)'
        BY <1>4, <2>2 DEF OwnSyn, o, a
    <2>4. ASSUME accepts'[a][s] = 0 PROVE Announced(s)'
        <3>1. Announced(s)
            BY <1>3, <2>4
        <3>2. s \notin table[a] /\ ~HasBody(ctrl[a], s)
            BY <3>1 DEF Announced, a
        <3>3. f.sid # s \/ f.cmd = "SYN"
            BY <1>5, <3>2
        <3>4. ~HasBody(ctrl'[a], s)
            BY <1>2, <1>5, <3>2, <3>3, WriteEffect
        <3>5. s \in table'[o] => s \in table[o]
            BY <2>1 DEF Frame, o
        <3> QED
            BY <2>2, <3>1, <3>2, <3>4, <3>5 DEF Announced, Queued, o, a
    <2> QED
        BY <1>1, <1>2, <2>2, <2>3, <2>4 DEF a
<1>6. CASE e = o
    <2>1. /\ q'[a] = q[a] /\ ctrl'[a] = ctrl[a] /\ ctrlStreams'[a] = ctrlStreams[a]
          /\ ~HasBody(q'[o]["SYN"], s)
        BY <1>1, <1>2, <1>6, WriteEffect
    <2>2. OwnSyn(s)'
        BY <1>4, <2>1 DEF OwnSyn, o, a
    <2>3. ASSUME accepts'[a][s] = 0 PROVE Announced(s)'
        <3>1. Announced(s)
            BY <1>3, <2>3
        <3> DEFINE mine == f.sid = s
        <3>2. f.cmd # "SYN" /\ mine =>
                /\ HasSyn(ch[a], s) \/ HasSyn(ctrl[o], s)
                /\ s \in Dns => s \in ctrlStreams[o]
                /\ s \notin Dns => HasSyn(ch[a], s) \/ HasSyn(data[o], s) \/ HasSyn(q[o]["SYN"], s)
            BY <1>6, <3>1 DEF Announced, o, a
        <3>3. HasSyn(ch[a], s) \/ SynFirst(ctrl'[o], s)
            <4>1. HasSyn(ch[a], s) \/ SynFirst(ctrl[o], s)
                BY <3>1 DEF Announced, o, a
            <4> QED
                BY <1>2, <1>6, <3>2, <4>1, WriteEffect
        <3>4. Queued(o, s)' =>
                HasSyn(ch[a], s) \/ HasSyn(data[o], s) \/ HasSyn(q'[o]["SYN"], s)
            <4>1. Queued(o, s) =>
                    HasSyn(ch[a], s) \/ HasSyn(data[o], s) \/ HasSyn(q[o]["SYN"], s)
                BY <3>1 DEF Announced, o, a
            <4>2. /\ HasSyn(q[o]["SYN"], s) => HasSyn(q'[o]["SYN"], s)
                  /\ Queued(o, s)' =>
                       Queued(o, s) \/ (f.cmd # "SYN" /\ mine /\ s \notin ctrlStreams[o])
                BY <1>2, <1>6, WriteEffect
            <4> QED
                BY <3>2, <4>1, <4>2
        <3>5. s \in table'[o] =>
                /\ HasSyn(ch[a], s) \/ HasSyn(ctrl'[o], s)
                /\ s \in Dns => s \in ctrlStreams'[o]
                /\ s \notin Dns => HasSyn(ch[a], s) \/ HasSyn(data[o], s) \/ HasSyn(q'[o]["SYN"], s)
            <4> SUFFICES ASSUME s \in table'[o]
                         PROVE  /\ HasSyn(ch[a], s) \/ HasSyn(ctrl'[o], s)
                                /\ s \in Dns => s \in ctrlStreams'[o]
                                /\ s \notin Dns => HasSyn(ch[a], s) \/ HasSyn(data[o], s)
                                                   \/ HasSyn(q'[o]["SYN"], s)
                OBVIOUS
            <4>1. CASE f = Frame("SYN", s, 0)
                <5>1. f.cmd = "SYN" /\ f.sid = s
                    BY <4>1 DEF Frame
                <5> QED
                    BY <1>2, <1>6, <5>1, WriteEffect
            <4>2. CASE f # Frame("SYN", s, 0)
                <5>1. s \in table[o] /\ (f.cmd # "FIN" \/ f.sid # s)
                    BY <1>6, <4>2 DEF o
                <5>2. /\ HasSyn(ch[a], s) \/ HasSyn(ctrl[o], s)
                      /\ s \in Dns => s \in ctrlStreams[o]
                      /\ s \notin Dns => HasSyn(ch[a], s) \/ HasSyn(data[o], s)
                                         \/ HasSyn(q[o]["SYN"], s)
                    BY <3>1, <5>1 DEF Announced, o, a
                <5> QED
                    BY <1>2, <1>6, <5>1, <5>2, WriteEffect
            <4> QED
                BY <4>1, <4>2
        <3> QED
            BY <2>1, <3>1, <3>3, <3>4, <3>5 DEF Announced, o, a
    <2> QED
        BY <1>1, <1>2, <2>1, <2>2, <2>3 DEF a
<1> QED
    BY <1>1, <1>5, <1>6

\* The users of the streams: every frame they write belongs to a stream they
\* have, and only Open writes a SYN.
LEMMA UserKeeps ==
    ASSUME SynInv, NEW t \in Streams, NEW e \in Ends,
           Open(t) \/ Send(e, t) \/ Reject(t) \/ CloseStream(e, t)
    PROVE  /\ \A s \in Streams : OwnSyn(s)'
           /\ \A d \in Ends, s \in Streams : ~HasBody(q'[d].SYN, s)
           /\ \A s \in Streams : accepts'[Acceptor(s)][s] = 0 => Announced(s)'
           /\ lost' = {}
<1>0. SplitTypes /\ lost = {}
    BY DEF SynInv
<1>1. "server" \in Ends /\ \A s \in Streams : Opener(s) \in Ends /\ Acceptor(s) \in Ends
                                              /\ Opener(s) # Acceptor(s)
    BY DEF Ends, Opener, Acceptor, Peer
<1>2. sent[e][t] + 1 \in Nat /\ sent["server"][t] + 1 \in Nat
    <2>1. sent \in [Ends -> [Streams -> Nat]]
        BY <1>0 DEF SplitTypes
    <2> QED
        BY <1>1, <2>1, Increment2
<1>3. CASE Open(t)
    <2> DEFINE f == Frame("SYN", t, 0)
    <2>1. f \in Frames /\ f.cmd = "SYN" /\ f.sid = t
        BY DEF Frame, Frames, Cmds
    <2>2. /\ Write(Opener(t), f) /\ data' = data /\ ch' = ch /\ accepts' = accepts /\ lost' = lost
          /\ table' = [table EXCEPT ![Opener(t)] = @ \cup {t}]
        BY <1>3 DEF Open, appVars
    <2>3. \A s \in Streams : s \in table'[Acceptor(s)] => s \in table[Acceptor(s)]
        BY <1>0, <1>1, <2>2 DEF SplitTypes
    <2>4. \A s \in Streams : s \in table'[Opener(s)] => s \in table[Opener(s)] \/ f = Frame("SYN", s, 0)
        BY <1>0, <1>1, <2>2 DEF SplitTypes
    <2> HIDE DEF f
    <2> QED
        BY <1>0, <1>1, <2>1, <2>2, <2>3, <2>4, WriteKeeps
<1>4. CASE Send(e, t)
    <2> DEFINE f == Frame("PSH", t, sent[e][t] + 1)
    <2>1. f \in Frames /\ f.cmd = "PSH" /\ f.sid = t
        BY <1>2 DEF Frame, Frames, Cmds
    <2>2. /\ Write(e, f) /\ data' = data /\ ch' = ch /\ accepts' = accepts /\ lost' = lost
          /\ table' = table /\ t \in table[e]
        BY <1>4 DEF Send, rcvVars
    <2> HIDE DEF f
    <2> QED
        BY <1>0, <1>1, <2>1, <2>2, WriteKeeps
<1>5. CASE Reject(t)
    <2> DEFINE f == Frame("PSH", t, sent["server"][t] + 1)
    <2>1. f \in Frames /\ f.cmd = "PSH" /\ f.sid = t
        BY <1>2 DEF Frame, Frames, Cmds
    <2>2. /\ Write("server", f) /\ data' = data /\ ch' = ch /\ accepts' = accepts /\ lost' = lost
          /\ table' = table /\ t \in table["server"]
        BY <1>5 DEF Reject, rcvVars
    <2> HIDE DEF f
    <2> QED
        BY <1>0, <1>1, <2>1, <2>2, WriteKeeps
<1>6. CASE CloseStream(e, t)
    <2> DEFINE f == Frame("FIN", t, 0)
    <2>1. f \in Frames /\ f.cmd = "FIN" /\ f.sid = t
        BY DEF Frame, Frames, Cmds
    <2>2. /\ Write(e, f) /\ data' = data /\ ch' = ch /\ accepts' = accepts /\ lost' = lost
          /\ table' = [table EXCEPT ![e] = @ \ {t}] /\ t \in table[e]
        BY <1>6 DEF CloseStream
    <2>3. /\ t \notin table'[e]
          /\ \A s \in Streams, d \in Ends : s \in table'[d] => s \in table[d]
        BY <1>0, <2>2 DEF SplitTypes
    <2> HIDE DEF f
    <2> QED
        BY <1>0, <1>1, <2>1, <2>2, <2>3, WriteKeeps
<1> QED
    BY <1>3, <1>4, <1>5, <1>6

\* drainData: queued SYNs leave the queues before anything else.
LEMMA DrainKeeps ==
    ASSUME SynInv, NEW e \in Ends, DrainData(e), NEW s \in Streams
    PROVE  /\ OwnSyn(s)'
           /\ \A d \in Ends : ~HasBody(q'[d].SYN, s)
           /\ accepts'[Acceptor(s)][s] = 0 => Announced(s)'
<1> DEFINE o == Opener(s)
           a == Acceptor(s)
           c == PopOrder(e)
           f == Head(q[e][c])
<1>1. o \in Ends /\ a \in Ends /\ o # a /\ \A d \in Ends : d = o \/ d = a
    BY DEF Opener, Acceptor, Peer, Ends
<1>2. SplitTypes /\ OwnSyn(s) /\ \A d \in Ends : ~HasBody(q[d]["SYN"], s)
    BY DEF SynInv
<1>3. accepts[a][s] = 0 => Announced(s)
    BY DEF SynInv
<1>4. c \in Cmds /\ (c # "SYN" => q[e]["SYN"] = <<>>) /\ "SYN" \in Cmds
    BY DEF PopOrder, Cmds
<1> HIDE DEF o, a, c
<1>5. /\ q[e][c] # <<>> /\ data' = [data EXCEPT ![e] = Append(@, f)]
      /\ q' = [q EXCEPT ![e][c] = Tail(@)]
      /\ ctrl' = ctrl /\ ch' = ch /\ ctrlStreams' = ctrlStreams /\ table' = table
      /\ accepts' = accepts
    BY DEF DrainData, c, rcvVars
<1>6. q[e][c] \in Seq(Frames) /\ data[e] \in Seq(Frames)
    BY <1>2, <1>4 DEF SplitTypes
<1>7. /\ \A d \in Ends \ {e} : data'[d] = data[d] /\ q'[d] = q[d]
      /\ data'[e] = Append(data[e], f)
      /\ q'[e][c] = Tail(q[e][c])
      /\ \A x \in Cmds : x # c => q'[e][x] = q[e][x]
    BY <1>2, <1>4, <1>5 DEF SplitTypes
<1> HIDE DEF f
<1>8. /\ HasSyn(q[e][c], s) <=> HasSyn(Tail(q[e][c]), s) \/ (f.cmd = "SYN" /\ f.sid = s)
      /\ HasBody(q[e][c], s) <=> HasBody(Tail(q[e][c]), s) \/ (f.cmd # "SYN" /\ f.sid = s)
      /\ f \in Frames
    BY <1>5, <1>6, TailFrame DEF f
<1>9. /\ HasSyn(data'[e], s) <=> HasSyn(data[e], s) \/ (f.cmd = "SYN" /\ f.sid = s)
      /\ SynFirst(data[e], s) /\ (HasSyn(data[e], s) \/ f.cmd = "SYN" \/ f.sid # s)
           => SynFirst(data'[e], s)
    BY <1>6, <1>7, <1>8, AppendFrame
<1>10. /\ Queued(e, s)' => Queued(e, s)
       /\ HasBody(q'[e]["SYN"], s) => HasBody(q[e]["SYN"], s)
       /\ HasSyn(q'[e]["SYN"], s) => HasSyn(q[e]["SYN"], s)
       /\ HasSyn(q[e]["SYN"], s) => HasSyn(q'[e]["SYN"], s) \/ HasSyn(data'[e], s)
       /\ f.cmd # "SYN" /\ f.sid = s => Queued(e, s) /\ ~HasSyn(q[e]["SYN"], s)
    <2>1. CASE c = "SYN"
        BY <1>2, <1>4, <1>7, <1>8, <1>9, <2>1 DEF Queued
    <2>2. CASE c # "SYN"
        BY <1>4, <1>7, <1>8, <1>9, <2>2, NoFrame DEF Queued
    <2> QED
        BY <2>1, <2>2
<1>11. /\ ~HasSyn(ch[o], s) /\ ~HasSyn(ctrl[a], s) /\ ~HasSyn(data[a], s)
       /\ \A x \in Cmds : ~HasSyn(q[a][x], s)
    BY <1>2 DEF OwnSyn, o, a
<1>12. \A d \in Ends : ~HasBody(q'[d]["SYN"], s)
    BY <1>2, <1>7, <1>10
<1>13. CASE e = a
    <2>1. f.cmd # "SYN" \/ f.sid # s
        BY <1>4, <1>8, <1>11, <1>13
    <2>2. OwnSyn(s)'
        <3>1. \A x \in Cmds : ~HasSyn(q'[a][x], s)
            BY <1>4, <1>7, <1>8, <1>11, <1>13
        <3> QED
            BY <1>5, <1>9, <1>11, <1>13, <2>1, <3>1 DEF OwnSyn, o, a
    <2>3. Announced(s) => Announced(s)'
        BY <1>1, <1>5, <1>7, <1>13 DEF Announced, Queued, o, a
    <2> QED
        BY <1>3, <1>5, <1>12, <2>2, <2>3 DEF a
<1>14. CASE e = o
    <2>1. OwnSyn(s)'
        BY <1>1, <1>5, <1>7, <1>11, <1>14 DEF OwnSyn, o, a
    <2>2. ASSUME Announced(s) PROVE Announced(s)'
        BY <1>5, <1>9, <1>10, <1>14, <2>2 DEF Announced, o, a
    <2> QED
        BY <1>3, <1>5, <1>12, <2>1, <2>2 DEF a
<1> QED
    BY <1>1, <1>13, <1>14

\* pump moves the head of a connection to the merged channel.
LEMMA PumpDataKeeps ==
    ASSUME SynInv, NEW e \in Ends, PumpData(e), NEW s \in Streams
    PROVE  /\ OwnSyn(s)'
           /\ \A d \in Ends : ~HasBody(q'[d].SYN, s)
           /\ accepts'[Acceptor(s)][s] = 0 => Announced(s)'
<1> DEFINE o == Opener(s)
           a == Acceptor(s)
<1>1. /\ o \in Ends /\ a \in Ends /\ o # a /\ Peer(a) = o /\ Peer(o) = a
      /\ \A d \in Ends : d = o \/ d = a
    BY DEF Opener, Acceptor, Peer, Ends
<1>2. SplitTypes /\ OwnSyn(s) /\ \A d \in Ends : ~HasBody(q[d]["SYN"], s)
    BY DEF SynInv
<1>3. accepts[a][s] = 0 => Announced(s)
    BY DEF SynInv
<1> HIDE DEF o, a
<1>4. ~HasSyn(ch[o], s) /\ ~HasSyn(ctrl[a], s) /\ ~HasSyn(data[a], s)
    BY <1>2 DEF OwnSyn, o, a
<1> DEFINE p == Peer(e)
           f == Head(data[p])
<1>5. /\ data[p] # <<>> /\ ch' = [ch EXCEPT ![e] = Append(@, f)]
      /\ data' = [data EXCEPT ![p] = Tail(@)]
      /\ q' = q /\ ctrl' = ctrl /\ table' = table /\ accepts' = accepts
    BY DEF PumpData, p, f, rcvVars
<1>6. p \in Ends /\ (e = a => p = o) /\ (e = o => p = a) /\ p # e
    BY <1>1 DEF p
<1>7. data[p] \in Seq(Frames) /\ ch[e] \in Seq(Frames)
    BY <1>2, <1>6 DEF SplitTypes
<1>8. /\ data'[p] = Tail(data[p]) /\ data'[e] = data[e]
      /\ ch'[e] = Append(ch[e], f) /\ ch'[p] = ch[p]
    BY <1>2, <1>5, <1>6 DEF SplitTypes
<1>9. /\ f \in Frames
      /\ HasSyn(data[p], s) <=> HasSyn(data'[p], s) \/ (f.cmd = "SYN" /\ f.sid = s)
      /\ HasBody(data[p], s) <=> HasBody(data'[p], s) \/ (f.cmd # "SYN" /\ f.sid = s)
      /\ SynFirst(data[p], s) => f.cmd = "SYN" \/ f.sid # s
      /\ SynFirst(data[p], s) /\ (f.cmd # "SYN" \/ f.sid # s) => SynFirst(data'[p], s)
    BY <1>5, <1>7, <1>8, TailFrame DEF f
<1>10. /\ HasSyn(ch'[e], s) <=> HasSyn(ch[e], s) \/ (f.cmd = "SYN" /\ f.sid = s)
       /\ SynFirst(ch[e], s) /\ (HasSyn(ch[e], s) \/ f.cmd = "SYN" \/ f.sid # s)
            => SynFirst(ch'[e], s)
    BY <1>7, <1>8, <1>9, AppendFrame
<1> HIDE DEF p, f
<1>11. OwnSyn(s)'
    <2>1. \A c \in Cmds : ~HasSyn(q'[a][c], s)
        BY <1>2, <1>5 DEF OwnSyn, a
    <2>2. CASE e = o
        BY <1>4, <1>5, <1>6, <1>8, <1>9, <1>10, <2>1, <2>2 DEF OwnSyn, o, a
    <2>3. CASE e = a
        BY <1>4, <1>5, <1>6, <1>8, <2>1, <2>3 DEF OwnSyn, o, a
    <2> QED
        BY <1>1, <2>2, <2>3
<1>12. ASSUME Announced(s) PROVE Announced(s)'
    <2>1. ctrlStreams' = ctrlStreams
        BY DEF PumpData
    <2>2. CASE e = o
        BY <1>5, <1>6, <1>8, <1>12, <2>1, <2>2 DEF Announced, Queued, o, a
    <2>3. CASE e = a
        BY <1>5, <1>6, <1>9, <1>10, <1>12, <2>1, <2>3 DEF Announced, Queued, o, a
    <2> QED
        BY <1>1, <2>2, <2>3
<1> QED
    BY <1>2, <1>3, <1>5, <1>11, <1>12 DEF a

\* The reader of the ctrl connection moves its first frame to the merged channel:
\* a data or FIN frame it moves has a SYN before it there.
LEMMA PumpCtrlKeeps ==
    ASSUME SynInv, NEW e \in Ends, PumpCtrl(e), NEW s \in Streams
    PROVE  /\ OwnSyn(s)'
           /\ \A d \in Ends : ~HasBody(q'[d].SYN, s)
           /\ accepts'[Acceptor(s)][s] = 0 => Announced(s)'
<1> DEFINE o == Opener(s)
           a == Acceptor(s)
<1>1. /\ o \in Ends /\ a \in Ends /\ o # a /\ Peer(a) = o /\ Peer(o) = a
      /\ \A d \in Ends : d = o \/ d = a
    BY DEF Opener, Acceptor, Peer, Ends
<1>2. SplitTypes /\ OwnSyn(s) /\ \A d \in Ends : ~HasBody(q[d]["SYN"], s)
    BY DEF SynInv
<1>3. accepts[a][s] = 0 => Announced(s)
    BY DEF SynInv
<1> HIDE DEF o, a
<1>4. ~HasSyn(ch[o], s) /\ ~HasSyn(ctrl[a], s) /\ ~HasSyn(data[a], s)
    BY <1>2 DEF OwnSyn, o, a
<1> DEFINE p == Peer(e)
           f == Head(ctrl[p])
<1>5. /\ ctrl[p] # <<>> /\ ch' = [ch EXCEPT ![e] = Append(@, f)]
      /\ ctrl' = [ctrl EXCEPT ![p] = Tail(@)]
      /\ q' = q /\ data' = data /\ table' = table /\ accepts' = accepts
    BY DEF PumpCtrl, p, f, rcvVars
<1>6. p \in Ends /\ (e = a => p = o) /\ (e = o => p = a) /\ p # e
    BY <1>1 DEF p
<1>7. ctrl[p] \in Seq(Frames) /\ ch[e] \in Seq(Frames)
    BY <1>2, <1>6 DEF SplitTypes
<1>8. /\ ctrl'[p] = Tail(ctrl[p]) /\ ctrl'[e] = ctrl[e]
      /\ ch'[e] = Append(ch[e], f) /\ ch'[p] = ch[p]
    BY <1>2, <1>5, <1>6 DEF SplitTypes
<1>9. /\ f \in Frames
      /\ HasSyn(ctrl[p], s) <=> HasSyn(ctrl'[p], s) \/ (f.cmd = "SYN" /\ f.sid = s)
      /\ HasBody(ctrl[p], s) <=> HasBody(ctrl'[p], s) \/ (f.cmd # "SYN" /\ f.sid = s)
      /\ SynFirst(ctrl[p], s) => f.cmd = "SYN" \/ f.sid # s
      /\ SynFirst(ctrl[p], s) /\ (f.cmd # "SYN" \/ f.sid # s) => SynFirst(ctrl'[p], s)
    BY <1>5, <1>7, <1>8, TailFrame DEF f
<1>10. /\ HasSyn(ch'[e], s) <=> HasSyn(ch[e], s) \/ (f.cmd = "SYN" /\ f.sid = s)
       /\ SynFirst(ch[e], s) /\ (HasSyn(ch[e], s) \/ f.cmd = "SYN" \/ f.sid # s)
            => SynFirst(ch'[e], s)
    BY <1>7, <1>8, <1>9, AppendFrame
<1> HIDE DEF p, f
<1>11. OwnSyn(s)'
    <2>1. \A c \in Cmds : ~HasSyn(q'[a][c], s)
        BY <1>2, <1>5 DEF OwnSyn, a
    <2>2. CASE e = o
        BY <1>4, <1>5, <1>6, <1>8, <1>9, <1>10, <2>1, <2>2 DEF OwnSyn, o, a
    <2>3. CASE e = a
        BY <1>4, <1>5, <1>6, <1>8, <2>1, <2>3 DEF OwnSyn, o, a
    <2> QED
        BY <1>1, <2>2, <2>3
<1>12. /\ \A d \in Ends \ {e} : ctrlStreams'[d] = ctrlStreams[d]
       /\ ctrlStreams'[e] = Learned(ctrlStreams[e], f)
    BY <1>2 DEF PumpCtrl, SplitTypes, f, p
<1>13. ASSUME Announced(s) PROVE Announced(s)'
    <2>1. CASE e = o
        <3>1. ~HasBody(ctrl'[a], s) /\ (f.cmd = "SYN" \/ f.sid # s)
            BY <1>6, <1>9, <1>13, <2>1 DEF Announced, a
        <3>2. s \in ctrlStreams[o] => s \in ctrlStreams'[o]
            BY <1>12, <2>1, <3>1 DEF Learned
        <3> QED
            BY <1>5, <1>6, <1>8, <1>13, <2>1, <3>1, <3>2 DEF Announced, Queued, o, a
    <2>2. CASE e = a
        <3>1. ctrlStreams'[o] = ctrlStreams[o]
            BY <1>1, <1>12, <2>2
        <3> QED
            BY <1>5, <1>6, <1>8, <1>9, <1>10, <1>13, <2>2, <3>1 DEF Announced, Queued, o, a
    <2> QED
        BY <1>1, <2>1, <2>2
<1> QED
    BY <1>2, <1>3, <1>5, <1>11, <1>13 DEF a

\* smux takes the head of the merged channel: a first SYN opens the stream, and
\* the head is never a frame of a stream that waits for its SYN.
LEMMA RecvKeeps ==
    ASSUME SynInv, NEW e \in Ends, Recv(e), NEW s \in Streams
    PROVE  /\ OwnSyn(s)'
           /\ \A d \in Ends : ~HasBody(q'[d].SYN, s)
           /\ accepts'[Acceptor(s)][s] = 0 => Announced(s)'
<1> DEFINE o == Opener(s)
           a == Acceptor(s)
<1>1. /\ o \in Ends /\ a \in Ends /\ o # a /\ Peer(a) = o /\ Peer(o) = a
      /\ \A d \in Ends : d = o \/ d = a
    BY DEF Opener, Acceptor, Peer, Ends
<1>2. SplitTypes /\ OwnSyn(s) /\ \A d \in Ends : ~HasBody(q[d]["SYN"], s)
    BY DEF SynInv
<1>3. accepts[a][s] = 0 => Announced(s)
    BY DEF SynInv
<1> HIDE DEF o, a
<1>4. ~HasSyn(ch[o], s) /\ ~HasSyn(ctrl[a], s) /\ ~HasSyn(data[a], s)
    BY <1>2 DEF OwnSyn, o, a
<1> DEFINE f == Head(ch[e])
<1>5. /\ ch[e] # <<>> /\ ch' = [ch EXCEPT ![e] = Tail(@)] /\ q' = q /\ data' = data
      /\ ctrl' = ctrl /\ ctrlStreams' = ctrlStreams
    BY DEF Recv, RecvSyn, RecvPsh, RecvFin
<1>6. /\ ch'[e] = Tail(ch[e]) /\ ch[e] \in Seq(Frames)
      /\ \A d \in Ends \ {e} : ch'[d] = ch[d]
    BY <1>2, <1>5 DEF SplitTypes
<1>7. /\ f \in Frames
      /\ HasSyn(ch[e], s) <=> HasSyn(ch'[e], s) \/ (f.cmd = "SYN" /\ f.sid = s)
      /\ SynFirst(ch[e], s) => f.cmd = "SYN" \/ f.sid # s
      /\ SynFirst(ch[e], s) /\ (f.cmd # "SYN" \/ f.sid # s) => SynFirst(ch'[e], s)
    BY <1>5, <1>6, TailFrame
<1>8. \/ table' = table /\ accepts' = accepts
      \/ /\ f.cmd = "SYN" /\ f.sid \notin table[e]
         /\ table' = [table EXCEPT ![e] = @ \cup {f.sid}]
         /\ accepts' = [accepts EXCEPT ![e][f.sid] = @ + 1]
    BY DEF Recv, RecvSyn, RecvPsh, RecvFin, Next1
<1>9. f.cmd = "SYN" /\ f.sid = s /\ s \notin table[e] => accepts'[e][s] = accepts[e][s] + 1
    BY <1>2 DEF Recv, RecvSyn, RecvPsh, RecvFin, Next1, SplitTypes
<1>10. accepts[a][s] \in Nat
    BY <1>1, <1>2 DEF SplitTypes
<1> HIDE DEF f
<1>11. OwnSyn(s)'
    <2>1. ~HasSyn(ch'[o], s)
        BY <1>4, <1>6, <1>7, <1>1
    <2> QED
        BY <1>2, <1>5, <2>1 DEF OwnSyn, o, a
<1>12. ASSUME accepts'[a][s] = 0 PROVE Announced(s)'
    <2>1. accepts[a][s] = 0
        <3>1. CASE accepts' = accepts
            BY <1>12, <3>1
        <3>2. CASE accepts' = [accepts EXCEPT ![e][f.sid] = @ + 1]
            <4>1. CASE e = a /\ f.sid = s
                <5>1. accepts'[a][s] = accepts[a][s] + 1
                    BY <1>1, <1>2, <3>2, <4>1 DEF SplitTypes
                <5> QED
                    BY <1>10, <1>12, <5>1
            <4>2. CASE ~(e = a /\ f.sid = s)
                <5>1. accepts \in [Ends -> [Streams -> Nat]]
                    BY <1>2 DEF SplitTypes
                <5>2. accepts'[a][s] = accepts[a][s]
                    BY <1>1, <3>2, <4>2, <5>1
                <5> QED
                    BY <1>12, <5>2
            <4> QED
                BY <4>1, <4>2
        <3> QED
            BY <1>8, <3>1, <3>2
    <2>2. Announced(s)
        BY <1>3, <2>1
    <2>3. CASE e = o
        <3>1. f.cmd # "SYN" \/ f.sid # s
            BY <1>4, <1>7, <2>3
        <3>2. table'[a] = table[a] /\ (s \in table'[o] => s \in table[o])
            <4>1. CASE table' = table
                BY <4>1
            <4>2. CASE table' = [table EXCEPT ![e] = @ \cup {f.sid}] /\ f.cmd = "SYN"
                BY <1>1, <1>2, <2>3, <3>1, <4>2 DEF SplitTypes
            <4> QED
                BY <1>8, <4>1, <4>2
        <3>3. ch'[a] = ch[a]
            BY <1>1, <1>6, <2>3
        <3> QED
            BY <1>5, <2>2, <3>2, <3>3 DEF Announced, Queued, o, a
    <2>4. CASE e = a
        <3>1. s \notin table[a]
            BY <2>2 DEF Announced, a
        <3>2. f.cmd # "SYN" \/ f.sid # s
            BY <1>9, <1>12, <2>1, <2>4, <3>1
        <3>3. table'[o] = table[o] /\ s \notin table'[a]
            <4>1. CASE table' = table
                BY <3>1, <4>1
            <4>2. CASE table' = [table EXCEPT ![e] = @ \cup {f.sid}] /\ f.cmd = "SYN"
                BY <1>1, <1>2, <2>4, <3>1, <3>2, <4>2 DEF SplitTypes
            <4> QED
                BY <1>8, <4>1, <4>2
        <3> QED
            BY <1>5, <1>7, <2>2, <2>4, <3>2, <3>3 DEF Announced, Queued, o, a
    <2> QED
        BY <1>1, <2>3, <2>4
<1> QED
    BY <1>2, <1>5, <1>11, <1>12 DEF a

\* No frame is dropped for want of its stream.
LEMMA NothingLost ==
    ASSUME SynInv, NEW e \in Ends, Recv(e) PROVE lost' = {}
<1> DEFINE f == Head(ch[e])
<1>1. ch[e] # <<>> /\ ch[e] \in Seq(Frames) /\ lost = {}
    BY DEF SynInv, SplitTypes, Recv, RecvSyn, RecvPsh, RecvFin
<1>2. f \in Frames
    BY <1>1
<1>3. PICK s \in Streams : s = f.sid
    BY <1>2 DEF Frames
<1>4. ASSUME f.cmd # "SYN", Unseen(e, s) PROVE FALSE
    <2>1. e = Acceptor(s) /\ accepts[e][s] = 0
        BY <1>4 DEF Unseen, Acceptor, Opener, Peer, Ends
    <2>2. SynFirst(ch[e], s)
        BY <2>1 DEF SynInv, Announced
    <2> QED
        BY <1>1, <1>3, <1>4, <2>2, TailFrame
<1> QED
    BY <1>1, <1>3, <1>4 DEF Recv, RecvSyn, RecvPsh, RecvFin, Next1

\* No frame exists at the start.
LEMMA SynInit == Init => SynInv
<1> SUFFICES ASSUME Init PROVE SynInv
    OBVIOUS
<1>1. SplitTypes
    BY TypesInit
<1>2. \A e \in Ends : /\ ch[e] = <<>> /\ data[e] = <<>> /\ ctrl[e] = <<>> /\ table[e] = {}
                      /\ \A c \in Cmds : q[e][c] = <<>>
    BY DEF Init, PerEnd, Cmds
<1>3. lost = {} /\ "SYN" \in Cmds
    BY DEF Init, Cmds
<1>4. \A s \in Streams : OwnSyn(s)
    BY <1>2, EndsPeer, NoFrame DEF OwnSyn
<1>5. \A e \in Ends, s \in Streams : ~HasBody(q[e].SYN, s)
    BY <1>2, <1>3, NoFrame
<1>6. ASSUME NEW s \in Streams PROVE Announced(s)
    <2>1. Opener(s) \in Ends /\ Acceptor(s) \in Ends
        BY EndsPeer
    <2> QED
        BY <1>2, <2>1, NoFrame DEF Announced, Queued
<1> QED
    BY <1>1, <1>3, <1>4, <1>5, <1>6 DEF SynInv

\* Every step keeps the SYN before the frames of its stream.
LEMMA SynNext == SynInv /\ [Next]_vars => SynInv'
<1> SUFFICES ASSUME SynInv, [Next]_vars PROVE SynInv'
    OBVIOUS
<1> DEFINE Goal == /\ \A s \in Streams : OwnSyn(s)'
                   /\ \A e \in Ends, s \in Streams : ~HasBody(q'[e].SYN, s)
                   /\ \A s \in Streams : accepts'[Acceptor(s)][s] = 0 => Announced(s)'
                   /\ lost' = {}
<1>1. SplitTypes'
    BY TypesNext DEF SynInv
<1>2. lost = {}
    BY DEF SynInv
<1>3. ASSUME NEW e \in Ends, DrainData(e) PROVE Goal
    <2>1. lost' = {}
        BY <1>2, <1>3 DEF DrainData, rcvVars
    <2> QED
        BY <1>3, <2>1, DrainKeeps
<1>4. ASSUME NEW e \in Ends, PumpData(e) PROVE Goal
    <2>1. lost' = {}
        BY <1>2, <1>4 DEF PumpData, rcvVars
    <2> QED
        BY <1>4, <2>1, PumpDataKeeps
<1>5. ASSUME NEW e \in Ends, PumpCtrl(e) PROVE Goal
    <2>1. lost' = {}
        BY <1>2, <1>5 DEF PumpCtrl, rcvVars
    <2> QED
        BY <1>5, <2>1, PumpCtrlKeeps
<1>6. ASSUME NEW e \in Ends, Recv(e) PROVE Goal
    BY <1>6, RecvKeeps, NothingLost
<1>7. ASSUME NEW e \in Ends, NEW t \in Streams,
             Open(t) \/ Send(e, t) \/ Reject(t) \/ CloseStream(e, t)
      PROVE  Goal
    BY <1>7, UserKeeps
<1>8. ASSUME UNCHANGED vars PROVE Goal
    <2>1. /\ q' = q /\ data' = data /\ ctrl' = ctrl /\ ch' = ch /\ ctrlStreams' = ctrlStreams
          /\ table' = table /\ accepts' = accepts /\ lost' = lost
        BY <1>8 DEF vars, qVars, appVars, rcvVars
    <2> QED
        BY <2>1 DEF SynInv, OwnSyn, Announced, Queued
<1>9. Goal
    <2>1. "client" \in Ends
        BY DEF Ends
    <2> HIDE DEF Goal
    <2> QED
        BY <1>3, <1>4, <1>5, <1>6, <1>7, <1>8, <2>1 DEF Next, NetStep
<1> QED
    BY <1>1, <1>9 DEF SynInv

\* splitWriter.Write: whatever the relative speed of the two connections, smux
\* never drops data or a FIN of a stream that the receiving end has not opened
\* yet, for every set of streams.
THEOREM SynArrivesFirst == Spec => []OpenBeforeData
<1>1. SynInv => OpenBeforeData
    BY DEF SynInv, OpenBeforeData
<1> QED
    BY <1>1, SynInit, SynNext, PTL DEF Spec

-----------------------------------------------------------------------------
(* The order of the data of a stream.                                      *)

\* A data or FIN frame of s.
Body(f, s) == f.cmd # "SYN" /\ f.sid = s

\* The numbers of the data frames of s in the sequence.
Nums(fs, s) == {fs[i].n : i \in {j \in DOMAIN fs : fs[j].cmd = "PSH" /\ fs[j].sid = s}}

HasFin(fs, s) == \E i \in DOMAIN fs : fs[i].cmd = "FIN" /\ fs[i].sid = s

\* The data of s in the sequence has rising numbers, and nothing of s follows a FIN.
Rising(fs, s) ==
    \A i, j \in DOMAIN fs : i < j /\ Body(fs[i], s) /\ Body(fs[j], s) =>
        fs[i].cmd = "PSH" /\ (fs[j].cmd = "PSH" => fs[i].n < fs[j].n)

\* What the first sequence holds of s was written before what the second holds.
Before(fs, gs, s) ==
    /\ HasFin(fs, s) => ~HasFin(gs, s) /\ Nums(gs, s) = {}
    /\ \A m \in Nums(fs, s), n \in Nums(gs, s) : m < n

\* The way of what end w writes, the nearest to the reader first.  The frames of
\* a stream use the second stage or the last three.
Stages == 1 .. 5
Way(w) == <<ch[Peer(w)], ctrl[w], data[w], q[w].PSH, q[w].FIN>>

Aligned(c, s) ==
    /\ \A k \in Stages : Rising(c[k], s)
    /\ \A k, l \in Stages : k < l => Before(c[k], c[l], s)

\* The data frames of s on the way are those numbered lo + 1 to hi.
Whole(c, lo, hi, s) ==
    /\ lo <= hi
    /\ \A k \in Stages : \A n \in Nums(c[k], s) : lo < n /\ n <= hi
    /\ \A n \in lo + 1 .. hi : \E k \in Stages : n \in Nums(c[k], s)

Calm(s) == s \notin rejected /\ \A e \in Ends : accepts[e][s] <= 1

\* The life of a stream: it is opened once, and accepted only when it was opened;
\* FIN is written by Close.
LifeOf(s) ==
    LET o == Opener(s)
        a == Acceptor(s)
    IN /\ accepts[o][s] = 0
       /\ accepts[a][s] = 0 => /\ s \notin table[a] /\ s \notin closed[a]
                               /\ sent[a][s] = 0 /\ rcv[a][s] = 0
       /\ \/ accepts[a][s] > 0 \/ HasSyn(ch[a], s) \/ HasSyn(ctrl[o], s)
          \/ HasSyn(data[o], s) \/ \E c \in Cmds : HasSyn(q[o][c], s)
          => s \in table[o] \cup closed[o]
       /\ s \in table[o] => s \notin closed[o]
       /\ accepts[a][s] > 0 => s \in table[a] \cup closed[a]
       /\ accepts[a][s] <= 1 /\ s \in closed[a] => s \notin table[a]

FinsAreClosed(w, s) ==
    /\ \A k \in Stages : HasFin(Way(w)[k], s) => s \in closed[w]
    /\ s \in gotFin[Peer(w)] => s \in closed[w]
    /\ Nums(q[w].FIN, s) = {}

\* Only DNS streams are routed over ctrl.
DnsOnly(e, s) == s \notin Dns => s \notin ctrlStreams[e] /\ ~HasBody(ctrl[e], s)

\* A DNS stream stays on ctrl while its reader has not closed it.
Routed(s) ==
    LET o == Opener(s)
        a == Acceptor(s)
    IN /\ s \notin closed[a] =>
            /\ ~Queued(o, s) /\ ~HasBody(data[o], s)
            /\ s \in table[o] => s \in ctrlStreams[o]
       /\ s \notin closed[o] =>
            /\ ~Queued(a, s) /\ ~HasBody(data[a], s)
            /\ s \notin closed[a] /\ (Nums(ch[a], s) # {} \/ rcv[a][s] > 0)
                 => s \in ctrlStreams[a]

Flow(w, s) ==
    s \notin closed[Peer(w)] =>
        Aligned(Way(w), s) /\ Whole(Way(w), rcv[Peer(w)][s], sent[w][s], s)

OrderInv ==
    /\ SynInv
    /\ gotFin \in [Ends -> SUBSET Streams]
    /\ \A s \in Streams : LifeOf(s)
    /\ \A w \in Ends, s \in Streams : FinsAreClosed(w, s) /\ DnsOnly(w, s)
    /\ \A s \in Dns : Calm(s) => Routed(s)
    /\ \A w \in Ends, s \in Streams : Calm(s) => Flow(w, s)
    /\ \A e \in Ends, s \in Streams : Calm(s) => <<e, s>> \notin disorder

-----------------------------------------------------------------------------
(* The way of the frames of one stream.                                    *)

\* What an appended frame adds to the data and FINs of s.
LEMMA AppendBody ==
    ASSUME NEW fs \in Seq(Frames), NEW f \in Frames, NEW s \in Streams
    PROVE  LET gs == Append(fs, f) IN
           /\ f.cmd = "PSH" /\ f.sid = s => Nums(gs, s) = Nums(fs, s) \cup {f.n}
           /\ f.cmd # "PSH" \/ f.sid # s => Nums(gs, s) = Nums(fs, s)
           /\ HasFin(gs, s) <=> HasFin(fs, s) \/ (f.cmd = "FIN" /\ f.sid = s)
           /\ Rising(fs, s) /\ (Body(f, s) => /\ ~HasFin(fs, s)
                                              /\ f.cmd = "PSH" => \A n \in Nums(fs, s) : n < f.n)
                => Rising(gs, s)
<1> DEFINE n == Len(fs)
           gs == Append(fs, f)
<1>1. /\ n \in Nat /\ DOMAIN fs = 1 .. n /\ DOMAIN gs = 1 .. n + 1
      /\ \A i \in 1 .. n : gs[i] = fs[i] /\ fs[i] \in Frames
      /\ gs[n + 1] = f
    OBVIOUS
<1> HIDE DEF n, gs
<1>2. \A m : m \in Nums(gs, s) <=> m \in Nums(fs, s) \/ (f.cmd = "PSH" /\ f.sid = s /\ m = f.n)
    BY <1>1 DEF Nums
<1>3. HasFin(gs, s) <=> HasFin(fs, s) \/ (f.cmd = "FIN" /\ f.sid = s)
    BY <1>1 DEF HasFin
<1>4. ASSUME Rising(fs, s), Body(f, s) => /\ ~HasFin(fs, s)
                                          /\ f.cmd = "PSH" => \A m \in Nums(fs, s) : m < f.n
      PROVE  Rising(gs, s)
    <2> SUFFICES ASSUME NEW i \in 1 .. n + 1, NEW j \in 1 .. n + 1, i < j,
                        Body(gs[i], s), Body(gs[j], s)
                 PROVE  gs[i].cmd = "PSH" /\ (gs[j].cmd = "PSH" => gs[i].n < gs[j].n)
        BY <1>1 DEF Rising
    <2>1. i \in 1 .. n /\ gs[i] = fs[i] /\ fs[i] \in Frames
        BY <1>1
    <2>2. CASE j \in 1 .. n
        BY <1>1, <1>4, <2>1, <2>2 DEF Rising
    <2>3. CASE j = n + 1
        <3>1. Body(f, s) /\ gs[j] = f
            BY <1>1, <2>3
        <3>2. fs[i].cmd # "FIN"
            BY <1>1, <1>4, <2>1, <3>1 DEF HasFin, Body
        <3>3. fs[i].cmd = "PSH"
            BY <2>1, <3>2 DEF Frames, Cmds, Body
        <3>4. fs[i].n \in Nums(fs, s)
            BY <1>1, <2>1, <3>3 DEF Nums, Body
        <3> QED
            BY <1>4, <2>1, <3>1, <3>3, <3>4
    <2> QED
        BY <1>1, <2>2, <2>3
<1>5. f.cmd = "PSH" /\ f.sid = s => Nums(gs, s) = Nums(fs, s) \cup {f.n}
    BY <1>2
<1>6. f.cmd # "PSH" \/ f.sid # s => Nums(gs, s) = Nums(fs, s)
    BY <1>2
<1> QED
    BY <1>3, <1>4, <1>5, <1>6 DEF gs

\* What is left of the data and FINs of s when the first frame was taken.
LEMMA TailBody ==
    ASSUME NEW fs \in Seq(Frames), fs # <<>>, NEW s \in Streams
    PROVE  LET gs == Tail(fs)
               h == Head(fs)
           IN /\ gs \in Seq(Frames) /\ h \in Frames
              /\ h.cmd = "PSH" /\ h.sid = s => Nums(fs, s) = Nums(gs, s) \cup {h.n}
              /\ h.cmd # "PSH" \/ h.sid # s => Nums(fs, s) = Nums(gs, s)
              /\ HasFin(fs, s) <=> HasFin(gs, s) \/ (h.cmd = "FIN" /\ h.sid = s)
              /\ Rising(fs, s) =>
                   /\ Rising(gs, s)
                   /\ h.cmd = "PSH" /\ h.sid = s => \A n \in Nums(gs, s) : h.n < n
                   /\ h.cmd = "FIN" /\ h.sid = s => Nums(gs, s) = {} /\ ~HasFin(gs, s)
<1> DEFINE n == Len(fs)
           gs == Tail(fs)
           h == Head(fs)
<1>1. /\ n \in Nat /\ n > 0 /\ DOMAIN fs = 1 .. n /\ DOMAIN gs = 1 .. n - 1
      /\ \A i \in 1 .. n - 1 : gs[i] = fs[i + 1]
      /\ \A i \in 1 .. n : fs[i] \in Frames
      /\ h = fs[1] /\ gs \in Seq(Frames) /\ h \in Frames
    OBVIOUS
<1> HIDE DEF n, gs, h
<1>2. \A i \in 1 .. n : i # 1 => i - 1 \in 1 .. n - 1 /\ fs[i] = gs[i - 1]
    BY <1>1
<1>3. ASSUME NEW m
      PROVE  m \in Nums(fs, s) <=> m \in Nums(gs, s) \/ (h.cmd = "PSH" /\ h.sid = s /\ m = h.n)
    <2>1. ASSUME m \in Nums(fs, s), ~(h.cmd = "PSH" /\ h.sid = s /\ m = h.n)
          PROVE  m \in Nums(gs, s)
        <3>1. PICK i \in 1 .. n : fs[i].cmd = "PSH" /\ fs[i].sid = s /\ fs[i].n = m
            BY <1>1, <2>1 DEF Nums
        <3>2. i - 1 \in 1 .. n - 1 /\ fs[i] = gs[i - 1]
            BY <1>1, <1>2, <2>1, <3>1
        <3> QED
            BY <1>1, <3>1, <3>2 DEF Nums
    <2>2. ASSUME m \in Nums(gs, s) PROVE m \in Nums(fs, s)
        <3>1. PICK i \in 1 .. n - 1 : gs[i].cmd = "PSH" /\ gs[i].sid = s /\ gs[i].n = m
            BY <1>1, <2>2 DEF Nums
        <3>2. i + 1 \in 1 .. n /\ fs[i + 1] = gs[i]
            BY <1>1, <3>1
        <3> QED
            BY <1>1, <3>1, <3>2 DEF Nums
    <2>3. h.cmd = "PSH" /\ h.sid = s => h.n \in Nums(fs, s)
        BY <1>1 DEF Nums
    <2> QED
        BY <2>1, <2>2, <2>3
<1>4. HasFin(fs, s) <=> HasFin(gs, s) \/ (h.cmd = "FIN" /\ h.sid = s)
    <2>1. ASSUME HasFin(fs, s), ~(h.cmd = "FIN" /\ h.sid = s) PROVE HasFin(gs, s)
        <3>1. PICK i \in 1 .. n : fs[i].cmd = "FIN" /\ fs[i].sid = s
            BY <1>1, <2>1 DEF HasFin
        <3> QED
            BY <1>1, <1>2, <2>1, <3>1 DEF HasFin
    <2>2. ASSUME HasFin(gs, s) PROVE HasFin(fs, s)
        <3>1. PICK i \in 1 .. n - 1 : gs[i].cmd = "FIN" /\ gs[i].sid = s
            BY <1>1, <2>2 DEF HasFin
        <3>2. i + 1 \in 1 .. n /\ fs[i + 1] = gs[i]
            BY <1>1, <3>1
        <3> QED
            BY <1>1, <3>1, <3>2 DEF HasFin
    <2> QED
        BY <1>1, <2>1, <2>2 DEF HasFin
<1>5. ASSUME Rising(fs, s)
      PROVE  /\ Rising(gs, s)
             /\ h.cmd = "PSH" /\ h.sid = s => \A m \in Nums(gs, s) : h.n < m
             /\ h.cmd = "FIN" /\ h.sid = s => Nums(gs, s) = {} /\ ~HasFin(gs, s)
    <2>1. ASSUME NEW i \in 1 .. n - 1, NEW j \in 1 .. n - 1, i < j,
                 Body(gs[i], s), Body(gs[j], s)
          PROVE  gs[i].cmd = "PSH" /\ (gs[j].cmd = "PSH" => gs[i].n < gs[j].n)
        <3>1. /\ i + 1 \in 1 .. n /\ j + 1 \in 1 .. n /\ i + 1 < j + 1
              /\ gs[i] = fs[i + 1] /\ gs[j] = fs[j + 1]
            BY <1>1, <2>1
        <3> QED
            BY <1>1, <1>5, <2>1, <3>1 DEF Rising
    <2>2. ASSUME NEW i \in 1 .. n - 1, Body(gs[i], s), Body(h, s)
          PROVE  h.cmd = "PSH" /\ (gs[i].cmd = "PSH" => h.n < gs[i].n)
        <3>1. /\ i + 1 \in 1 .. n /\ 1 \in 1 .. n /\ 1 < i + 1
              /\ gs[i] = fs[i + 1] /\ h = fs[1]
            BY <1>1, <2>2
        <3> QED
            BY <1>1, <1>5, <2>2, <3>1 DEF Rising
    <2>3. ASSUME h.cmd = "PSH", h.sid = s, NEW m \in Nums(gs, s) PROVE h.n < m
        <3>1. PICK i \in 1 .. n - 1 : gs[i].cmd = "PSH" /\ gs[i].sid = s /\ gs[i].n = m
            BY <1>1 DEF Nums
        <3> QED
            BY <2>2, <2>3, <3>1 DEF Body
    <2>4. ASSUME h.cmd = "FIN", h.sid = s PROVE Nums(gs, s) = {} /\ ~HasFin(gs, s)
        BY <1>1, <2>2, <2>4 DEF Nums, HasFin, Body
    <2> QED
        BY <1>1, <2>1, <2>3, <2>4 DEF Rising
<1>6. h.cmd = "PSH" /\ h.sid = s => Nums(fs, s) = Nums(gs, s) \cup {h.n}
    BY <1>3
<1>7. h.cmd # "PSH" \/ h.sid # s => Nums(fs, s) = Nums(gs, s)
    BY <1>3
<1> QED
    BY <1>1, <1>4, <1>5, <1>6, <1>7 DEF gs, h

\* Nothing of s is in a sequence without data and FIN frames of s.
LEMMA NoBody ==
    ASSUME NEW fs \in Seq(Frames), NEW s \in Streams
    PROVE  HasBody(fs, s) <=> HasFin(fs, s) \/ Nums(fs, s) # {}
<1>1. \A i \in DOMAIN fs : fs[i] \in Frames
    OBVIOUS
<1>2. \A i \in DOMAIN fs : fs[i].cmd # "SYN" => fs[i].cmd \in {"PSH", "FIN"}
    BY <1>1 DEF Frames, Cmds
<1> QED
    BY <1>2 DEF HasBody, HasFin, Nums

\* The numbers of frames are integers.
LEMMA NumsInt ==
    ASSUME NEW fs \in Seq(Frames), NEW s \in Streams
    PROVE  Nums(fs, s) \subseteq Int
<1>1. \A i \in DOMAIN fs : fs[i] \in Frames
    OBVIOUS
<1> QED
    BY <1>1 DEF Nums, Frames

\* The stages are five, in one order.
LEMMA StageOrder ==
    /\ 1 \in Stages /\ \A k \in Stages : k # 1 => 1 < k
    /\ \A k, l \in Stages : (k < l => k # l) /\ (k # l => k < l \/ l < k)
    /\ \A k, l, m \in Stages : k < l /\ l < m => k < m /\ k # m
BY DEF Stages

\* Frame f is put at the end of stage k; the first frame of stage l goes to the
\* end of stage k; f comes after everything of s that is on the way.
Ways == [Stages -> Seq(Frames)]
Put(c, d, k, f) == d[k] = Append(c[k], f) /\ \A l \in Stages \ {k} : d[l] = c[l]
Shift(c, d, k, l) ==
    /\ c[l] # <<>> /\ d[k] = Append(c[k], Head(c[l])) /\ d[l] = Tail(c[l])
    /\ \A m \in Stages \ {k, l} : d[m] = c[m]
Last(c, k, f, s) ==
    Body(f, s) => /\ \A l \in Stages : ~HasFin(c[l], s)
                  /\ \A l \in Stages : k < l => Nums(c[l], s) = {}
                  /\ f.cmd = "PSH" => \A l \in Stages : \A n \in Nums(c[l], s) : n < f.n

\* A frame is put at the end of stage k.
LEMMA WayAppend ==
    ASSUME NEW c \in Ways, NEW d \in Ways, NEW k \in Stages, NEW f \in Frames,
           NEW s \in Streams, Aligned(c, s), Put(c, d, k, f), Last(c, k, f, s)
    PROVE  Aligned(d, s)
<1> USE DEF Ways, Put, Last
<1>1. Rising(d[k], s)
    BY AppendBody DEF Aligned
<1>2. /\ f.cmd = "PSH" /\ f.sid = s => Nums(d[k], s) = Nums(c[k], s) \cup {f.n}
      /\ f.cmd # "PSH" \/ f.sid # s => Nums(d[k], s) = Nums(c[k], s)
      /\ HasFin(d[k], s) <=> HasFin(c[k], s) \/ (f.cmd = "FIN" /\ f.sid = s)
    BY AppendBody
<1>3. ASSUME NEW l \in Stages, NEW m \in Stages, l < m PROVE Before(d[l], d[m], s)
    <2>1. Before(c[l], c[m], s)
        BY <1>3 DEF Aligned
    <2>2. CASE ~Body(f, s)
        <3>1. Nums(d[k], s) = Nums(c[k], s) /\ (HasFin(d[k], s) <=> HasFin(c[k], s))
            BY <1>2, <2>2 DEF Body
        <3> QED
            BY <2>1, <3>1 DEF Before
    <2>3. CASE Body(f, s) /\ l = k
        <3>1. d[m] = c[m] /\ ~HasFin(c[m], s) /\ Nums(c[m], s) = {}
            BY <1>3, <2>3, StageOrder
        <3> QED
            BY <3>1 DEF Before
    <2>4. CASE Body(f, s) /\ m = k
        <3>1. d[l] = c[l] /\ ~HasFin(c[l], s)
            BY <1>3, <2>4, StageOrder
        <3>2. ASSUME NEW i \in Nums(c[l], s), NEW j \in Nums(d[k], s) PROVE i < j
            BY <1>2, <2>1, <2>4 DEF Before, Body
        <3> QED
            BY <2>4, <3>1, <3>2 DEF Before
    <2>5. CASE l # k /\ m # k
        BY <2>1, <2>5
    <2> QED
        BY <2>2, <2>3, <2>4, <2>5
<1> QED
    BY <1>1, <1>3 DEF Aligned

\* What is on the way of s after a new data frame.
LEMMA WayGrows ==
    ASSUME NEW c \in Ways, NEW d \in Ways, NEW k \in Stages, NEW f \in Frames,
           NEW s \in Streams, NEW lo \in Nat, NEW hi \in Nat, Whole(c, lo, hi, s),
           Put(c, d, k, f)
    PROVE  /\ f.cmd # "PSH" \/ f.sid # s => Whole(d, lo, hi, s)
           /\ f.cmd = "PSH" /\ f.sid = s /\ f.n = hi + 1 => Whole(d, lo, hi + 1, s)
<1> USE DEF Ways, Put
<1>1. /\ f.cmd = "PSH" /\ f.sid = s => Nums(d[k], s) = Nums(c[k], s) \cup {f.n}
      /\ f.cmd # "PSH" \/ f.sid # s => Nums(d[k], s) = Nums(c[k], s)
    BY AppendBody
<1>2. ASSUME f.cmd # "PSH" \/ f.sid # s PROVE Whole(d, lo, hi, s)
    BY <1>1, <1>2 DEF Whole
<1>3. ASSUME f.cmd = "PSH", f.sid = s, f.n = hi + 1 PROVE Whole(d, lo, hi + 1, s)
    <2>1. ASSUME NEW l \in Stages, NEW n \in Nums(d[l], s) PROVE lo < n /\ n <= hi + 1
        <3>1. CASE n = hi + 1
            BY <3>1 DEF Whole
        <3>2. CASE n # hi + 1
            <4>1. n \in Nums(c[l], s)
                BY <1>1, <1>3, <3>2
            <4>2. n \in Int /\ lo < n /\ n <= hi
                BY <4>1, NumsInt DEF Whole
            <4> QED
                BY <4>2
        <3> QED
            BY <3>1, <3>2
    <2>2. ASSUME NEW n \in lo + 1 .. hi + 1 PROVE \E l \in Stages : n \in Nums(d[l], s)
        <3>1. CASE n = hi + 1
            BY <1>1, <1>3, <3>1
        <3>2. CASE n # hi + 1
            <4>1. n \in lo + 1 .. hi
                BY <3>2
            <4>2. PICK l \in Stages : n \in Nums(c[l], s)
                BY <4>1 DEF Whole
            <4> QED
                BY <1>1, <1>3, <4>2
        <3> QED
            BY <3>1, <3>2
    <2> QED
        BY <2>1, <2>2 DEF Whole
<1> QED
    BY <1>2, <1>3

\* The first frame of stage l goes to the end of stage k, and nothing of its
\* stream is between the two.
LEMMA WayMove ==
    ASSUME NEW c \in Ways, NEW d \in Ways, NEW k \in Stages, NEW l \in Stages, k < l,
           NEW s \in Streams, Shift(c, d, k, l)
    PROVE  /\ \A m \in Stages : HasFin(d[m], s) => \E i \in Stages : HasFin(c[i], s)
           /\ /\ Aligned(c, s)
              /\ \/ ~Body(Head(c[l]), s)
                 \/ \A m \in Stages : k < m /\ m < l => ~HasBody(c[m], s)
              => Aligned(d, s)
           /\ \A lo, hi \in Nat : Whole(c, lo, hi, s) => Whole(d, lo, hi, s)
<1> USE DEF Ways, Shift
<1> DEFINE h == Head(c[l])
<1>1. h \in Frames /\ k # l
    BY TailBody
<1>2. /\ h.cmd = "PSH" /\ h.sid = s => /\ Nums(d[k], s) = Nums(c[k], s) \cup {h.n}
                                       /\ Nums(c[l], s) = Nums(d[l], s) \cup {h.n}
      /\ h.cmd # "PSH" \/ h.sid # s => /\ Nums(d[k], s) = Nums(c[k], s)
                                       /\ Nums(c[l], s) = Nums(d[l], s)
    BY <1>1, AppendBody, TailBody
<1>3. /\ HasFin(d[k], s) <=> HasFin(c[k], s) \/ (h.cmd = "FIN" /\ h.sid = s)
      /\ HasFin(c[l], s) <=> HasFin(d[l], s) \/ (h.cmd = "FIN" /\ h.sid = s)
    BY <1>1, AppendBody, TailBody
<1>4. ASSUME Aligned(c, s)
      PROVE  /\ Rising(d[l], s)
             /\ h.cmd = "PSH" /\ h.sid = s => \A n \in Nums(d[l], s) : h.n < n
             /\ h.cmd = "FIN" /\ h.sid = s => Nums(d[l], s) = {} /\ ~HasFin(d[l], s)
    <2>1. Rising(c[l], s)
        BY <1>4 DEF Aligned
    <2> QED
        BY <2>1, TailBody
<1>5. ASSUME Aligned(c, s) PROVE Rising(d[k], s)
    <2>1. Rising(c[k], s) /\ Before(c[k], c[l], s)
        BY <1>5 DEF Aligned
    <2>2. ASSUME Body(h, s)
          PROVE  ~HasFin(c[k], s) /\ (h.cmd = "PSH" => \A n \in Nums(c[k], s) : n < h.n)
        <3>1. h.cmd \in {"PSH", "FIN"} /\ h.sid = s
            BY <1>1, <2>2 DEF Frames, Cmds, Body
        <3>2. h.cmd = "PSH" => h.n \in Nums(c[l], s)
            BY <1>2, <3>1
        <3>3. h.cmd = "FIN" => HasFin(c[l], s)
            BY <1>3, <3>1
        <3> QED
            BY <2>1, <3>1, <3>2, <3>3 DEF Before
    <2>3. Rising(Append(c[k], h), s)
        <3> HIDE DEF h
        <3> QED
            BY <1>1, <2>1, <2>2, AppendBody
    <2> QED
        BY <2>3
<1> HIDE DEF h
<1>6. ASSUME Aligned(c, s),
             ~Body(h, s) \/ \A m \in Stages : k < m /\ m < l => ~HasBody(c[m], s),
             NEW i \in Stages, NEW j \in Stages, i < j
      PROVE  Before(d[i], d[j], s)
    <2>1. Before(c[i], c[j], s) /\ (i < l => Before(c[i], c[l], s)) /\ (k < j => Before(c[k], c[j], s))
        BY <1>6 DEF Aligned
    <2>2. CASE ~Body(h, s)
        <3>1. \A m \in Stages : /\ Nums(d[m], s) = Nums(c[m], s)
                                /\ HasFin(d[m], s) <=> HasFin(c[m], s)
            <4>1. (h.cmd # "PSH" \/ h.sid # s) /\ ~(h.cmd = "FIN" /\ h.sid = s)
                BY <2>2 DEF Body
            <4> QED
                BY <1>2, <1>3, <4>1
        <3> QED
            BY <2>1, <3>1 DEF Before
    <2> SUFFICES ASSUME Body(h, s) PROVE Before(d[i], d[j], s)
        BY <2>2
    <2>3. (h.cmd = "PSH" \/ h.cmd = "FIN") /\ h.sid = s
        BY <1>1 DEF Frames, Cmds, Body
    <2>4. \A m \in Stages : k < m /\ m < l => ~HasFin(c[m], s) /\ Nums(c[m], s) = {}
        BY <1>6, NoBody
    <2>5. CASE i = k /\ j = l
        <3>1. Before(c[k], c[l], s)
            BY <1>6 DEF Aligned
        <3>2. HasFin(d[k], s) => ~HasFin(d[l], s) /\ Nums(d[l], s) = {}
            BY <1>2, <1>3, <1>4, <1>6, <2>3, <3>1 DEF Before
        <3>3. ASSUME NEW m \in Nums(d[k], s), NEW n \in Nums(d[l], s) PROVE m < n
            BY <1>2, <1>4, <1>6, <2>3, <3>1 DEF Before
        <3> QED
            BY <2>5, <3>2, <3>3 DEF Before
    <2>6. CASE i = k /\ j # l
        <3>1. d[j] = c[j]
            BY <1>6, <2>6, StageOrder
        <3>2. CASE j < l
            BY <1>6, <2>4, <2>6, <3>1, <3>2 DEF Before
        <3>3. CASE l < j
            <4>1. Before(c[l], c[j], s)
                BY <1>6, <3>3 DEF Aligned
            <4> QED
                BY <1>2, <1>3, <2>1, <2>3, <2>6, <3>1, <4>1 DEF Before
        <3> QED
            BY <2>6, <3>2, <3>3, StageOrder
    <2>7. CASE i # k /\ j = l
        <3>1. i # l
            BY <1>6, <2>7, StageOrder
        <3>2. d[i] = c[i]
            BY <2>7, <3>1
        <3> QED
            BY <1>2, <1>3, <2>1, <2>3, <2>7, <3>2 DEF Before
    <2>8. CASE i # k /\ j = k
        <3>1. i # l /\ i < l
            BY <1>6, <2>8, StageOrder
        <3>2. d[i] = c[i]
            BY <2>8, <3>1
        <3> QED
            BY <1>2, <1>3, <2>1, <2>3, <2>8, <3>1, <3>2 DEF Before
    <2>9. CASE i = l
        <3>1. k < l /\ l < j /\ j # k /\ j # l
            BY <1>6, <2>9, StageOrder
        <3>2. d[j] = c[j] /\ k < j
            BY <3>1, StageOrder
        <3> QED
            BY <1>2, <1>3, <2>1, <2>3, <2>9, <3>2 DEF Before
    <2>10. CASE i \notin {k, l} /\ j \notin {k, l}
        BY <2>1, <2>10
    <2> QED
        BY <2>5, <2>6, <2>7, <2>8, <2>9, <2>10
<1>7. ASSUME Aligned(c, s),
             ~Body(h, s) \/ \A m \in Stages : k < m /\ m < l => ~HasBody(c[m], s)
      PROVE  Aligned(d, s)
    <2>1. \A m \in Stages : Rising(d[m], s)
        BY <1>4, <1>5, <1>7 DEF Aligned
    <2> QED
        BY <1>6, <1>7, <2>1 DEF Aligned
<1>8. ASSUME NEW lo \in Nat, NEW hi \in Nat, Whole(c, lo, hi, s) PROVE Whole(d, lo, hi, s)
    <2>1. \A m \in Stages : \A n \in Nums(d[m], s) : \E i \in Stages : n \in Nums(c[i], s)
        BY <1>2
    <2>2. \A m \in Stages : \A n \in Nums(c[m], s) : \E i \in Stages : n \in Nums(d[i], s)
        BY <1>2
    <2> QED
        BY <1>8, <2>1, <2>2 DEF Whole
<1>9. \A m \in Stages : HasFin(d[m], s) => \E i \in Stages : HasFin(c[i], s)
    BY <1>3
<1> QED
    BY <1>7, <1>8, <1>9 DEF h

\* The reader takes the first frame of the first stage.
LEMMA WayTake ==
    ASSUME NEW c \in Ways, NEW d \in Ways, NEW s \in Streams, c[1] # <<>>, d[1] = Tail(c[1]),
           \A m \in Stages \ {1} : d[m] = c[m], Aligned(c, s),
           NEW lo \in Nat, NEW hi \in Nat, Whole(c, lo, hi, s)
    PROVE  LET h == Head(c[1]) IN
           /\ Aligned(d, s)
           /\ h.cmd # "PSH" \/ h.sid # s => Whole(d, lo, hi, s)
           /\ h.cmd = "PSH" /\ h.sid = s => h.n = lo + 1 /\ Whole(d, lo + 1, hi, s)
           /\ h.cmd = "FIN" /\ h.sid = s => lo = hi
<1> USE DEF Ways
<1> DEFINE h == Head(c[1])
<1>0. 1 \in Stages
    BY StageOrder
<1>1. Rising(c[1], s)
    BY <1>0 DEF Aligned
<1>2. /\ h \in Frames
      /\ h.cmd = "PSH" /\ h.sid = s => Nums(c[1], s) = Nums(d[1], s) \cup {h.n}
      /\ h.cmd # "PSH" \/ h.sid # s => Nums(c[1], s) = Nums(d[1], s)
      /\ HasFin(c[1], s) <=> HasFin(d[1], s) \/ (h.cmd = "FIN" /\ h.sid = s)
    BY <1>0, TailBody
<1>3. /\ Rising(d[1], s)
      /\ h.cmd = "PSH" /\ h.sid = s => \A n \in Nums(d[1], s) : h.n < n
      /\ h.cmd = "FIN" /\ h.sid = s => Nums(d[1], s) = {}
    BY <1>0, <1>1, TailBody
<1> HIDE DEF h
<1>4. ASSUME NEW k \in Stages, NEW l \in Stages, k < l PROVE Before(d[k], d[l], s)
    <2>1. l # 1 /\ Before(c[k], c[l], s)
        BY <1>4, StageOrder DEF Aligned
    <2>2. CASE k = 1
        BY <1>2, <2>1, <2>2 DEF Before
    <2>3. CASE k # 1
        BY <2>1, <2>3
    <2> QED
        BY <2>2, <2>3
<1>5. Aligned(d, s)
    BY <1>3, <1>4 DEF Aligned
<1>6. ASSUME h.cmd # "PSH" \/ h.sid # s PROVE Whole(d, lo, hi, s)
    BY <1>2, <1>6 DEF Whole
<1>7. ASSUME h.cmd = "PSH", h.sid = s
      PROVE  h.n = lo + 1 /\ Whole(d, lo + 1, hi, s)
    <2>1. h.n \in Int /\ h.n \in Nums(c[1], s)
        BY <1>2, <1>7 DEF Frames
    <2>2. lo < h.n /\ h.n <= hi
        BY <1>0, <2>1 DEF Whole
    <2>3. \A l \in Stages : \A n \in Nums(d[l], s) : n \in Int /\ h.n < n
        <3>1. ASSUME NEW l \in Stages \ {1}, NEW n \in Nums(c[l], s) PROVE h.n < n
            <4>1. Before(c[1], c[l], s)
                BY <1>0, <3>1, StageOrder DEF Aligned
            <4> QED
                BY <2>1, <4>1 DEF Before
        <3> QED
            BY <1>3, <1>7, <3>1, NumsInt
    <2>4. h.n = lo + 1
        <3>1. SUFFICES ASSUME h.n # lo + 1 PROVE FALSE
            OBVIOUS
        <3>2. lo + 1 \in lo + 1 .. hi /\ lo + 1 < h.n
            BY <2>1, <2>2, <3>1
        <3>3. PICK l \in Stages : lo + 1 \in Nums(c[l], s)
            BY <3>2 DEF Whole
        <3>4. lo + 1 \in Nums(d[l], s)
            BY <1>2, <1>7, <3>1, <3>3
        <3>5. h.n < lo + 1
            BY <2>3, <3>4
        <3> QED
            BY <2>1, <3>2, <3>5
    <2>5. \A l \in Stages : \A n \in Nums(d[l], s) : lo + 1 < n /\ n <= hi
        BY <1>2, <1>7, <2>3, <2>4 DEF Whole
    <2>6. ASSUME NEW n \in lo + 1 + 1 .. hi PROVE \E l \in Stages : n \in Nums(d[l], s)
        <3>1. n \in lo + 1 .. hi /\ n # h.n
            BY <2>4
        <3>2. PICK l \in Stages : n \in Nums(c[l], s)
            BY <3>1 DEF Whole
        <3> QED
            BY <1>2, <1>7, <3>1, <3>2
    <2> QED
        BY <2>2, <2>4, <2>5, <2>6 DEF Whole
<1>8. ASSUME h.cmd = "FIN", h.sid = s PROVE lo = hi
    <2>1. \A l \in Stages : Nums(c[l], s) = {}
        <3>1. HasFin(c[1], s) /\ Nums(c[1], s) = {}
            BY <1>2, <1>3, <1>8
        <3>2. ASSUME NEW l \in Stages \ {1} PROVE Nums(c[l], s) = {}
            <4>1. Before(c[1], c[l], s)
                BY <1>0, <3>2, StageOrder DEF Aligned
            <4> QED
                BY <3>1, <4>1 DEF Before
        <3> QED
            BY <3>1, <3>2
    <2>2. SUFFICES ASSUME lo < hi PROVE FALSE
        BY DEF Whole
    <2>3. lo + 1 \in lo + 1 .. hi
        BY <2>2
    <2> QED
        BY <2>1, <2>3 DEF Whole
<1> QED
    BY <1>5, <1>6, <1>7, <1>8 DEF h

-----------------------------------------------------------------------------
(* The steps, on the ways of the two ends.                                 *)

\* The stages of an end's way.
LEMMA WayIs ==
    ASSUME SplitTypes, NEW w \in Ends
    PROVE  /\ Way(w) \in Ways
           /\ Way(w)[1] = ch[Peer(w)] /\ Way(w)[2] = ctrl[w] /\ Way(w)[3] = data[w]
           /\ Way(w)[4] = q[w]["PSH"] /\ Way(w)[5] = q[w]["FIN"]
<1>1. /\ ch[Peer(w)] \in Seq(Frames) /\ ctrl[w] \in Seq(Frames) /\ data[w] \in Seq(Frames)
      /\ q[w]["PSH"] \in Seq(Frames) /\ q[w]["FIN"] \in Seq(Frames)
    BY EndsPeer DEF SplitTypes, Cmds
<1> QED
    BY <1>1 DEF Ways, Way, Stages

\* The same in the next state.
LEMMA WayWas ==
    ASSUME SplitTypes', NEW w \in Ends
    PROVE  /\ Way(w)' \in Ways
           /\ Way(w)'[1] = ch'[Peer(w)] /\ Way(w)'[2] = ctrl'[w] /\ Way(w)'[3] = data'[w]
           /\ Way(w)'[4] = q'[w]["PSH"] /\ Way(w)'[5] = q'[w]["FIN"]
<1>1. /\ ch'[Peer(w)] \in Seq(Frames) /\ ctrl'[w] \in Seq(Frames) /\ data'[w] \in Seq(Frames)
      /\ q'[w]["PSH"] \in Seq(Frames) /\ q'[w]["FIN"] \in Seq(Frames)
    BY EndsPeer DEF SplitTypes, Cmds
<1> QED
    BY <1>1 DEF Ways, Way, Stages

\* There are five stages.
LEMMA FiveStages == Stages = {1, 2, 3, 4, 5}
BY DEF Stages

\* A frame written by an end goes to one stage of its way.
LEMMA WriteWay ==
    ASSUME SplitTypes, SplitTypes', NEW e \in Ends, NEW f \in Frames, Write(e, f),
           data' = data, ch' = ch
    PROVE  /\ \A d \in Ends \ {e} : Way(d)' = Way(d)
           /\ \E k \in {2, 4, 5} :
                /\ Put(Way(e), Way(e)', k, f)
                /\ f.cmd = "SYN" => k = 2
                /\ f.cmd # "SYN" => (k = 2 <=> f.sid \in ctrlStreams[e])
                /\ k = 4 => f.cmd = "PSH"
                /\ k = 5 => f.cmd = "FIN"
<1>0. /\ Way(e)[1] = ch[Peer(e)] /\ Way(e)[2] = ctrl[e] /\ Way(e)[3] = data[e]
      /\ Way(e)[4] = q[e]["PSH"] /\ Way(e)[5] = q[e]["FIN"]
      /\ Way(e)'[1] = ch[Peer(e)] /\ Way(e)'[2] = ctrl'[e] /\ Way(e)'[3] = data[e]
      /\ Way(e)'[4] = q'[e]["PSH"] /\ Way(e)'[5] = q'[e]["FIN"]
    BY WayIs, WayWas
<1>1. f.cmd \in Cmds /\ f.sid \in Streams
    BY DEF Frames
<1>2. \A d \in Ends \ {e} : q'[d] = q[d] /\ ctrl'[d] = ctrl[d]
    BY <1>1, WriteEffect
<1>3. \A d \in Ends \ {e} : Way(d)' = Way(d)
    BY <1>2 DEF Way
<1>4. CASE WriteSyn(e, f)
    <2>1. f.cmd = "SYN" /\ ctrl'[e] = Append(ctrl[e], f)
        BY <1>4 DEF WriteSyn, SplitTypes
    <2>2. q'[e]["PSH"] = q[e]["PSH"] /\ q'[e]["FIN"] = q[e]["FIN"]
        BY <1>1, <1>4, <2>1 DEF WriteSyn, Enqueue, SplitTypes, Cmds
    <2>3. Put(Way(e), Way(e)', 2, f)
        BY <1>0, <2>1, <2>2, FiveStages DEF Put
    <2> QED
        BY <1>3, <2>1, <2>3
<1>5. CASE WriteOnCtrl(e, f)
    <2>1. /\ f.cmd # "SYN" /\ f.sid \in ctrlStreams[e] /\ q' = q
          /\ ctrl'[e] = Append(ctrl[e], f)
        BY <1>5 DEF WriteOnCtrl, Registered, SplitTypes
    <2>2. Put(Way(e), Way(e)', 2, f)
        BY <1>0, <2>1, FiveStages DEF Put
    <2> QED
        BY <1>3, <2>1, <2>2
<1>6. CASE WriteOnData(e, f)
    <2>1. /\ f.cmd # "SYN" /\ f.sid \notin ctrlStreams[e] /\ ctrl' = ctrl
          /\ q' = [q EXCEPT ![e][f.cmd] = Append(@, f)]
        BY <1>6 DEF WriteOnData, Registered, Enqueue
    <2>2. CASE f.cmd = "PSH"
        <3>1. q'[e]["PSH"] = Append(q[e]["PSH"], f) /\ q'[e]["FIN"] = q[e]["FIN"]
            BY <2>1, <2>2 DEF SplitTypes, Cmds
        <3>2. Put(Way(e), Way(e)', 4, f)
            BY <1>0, <2>1, <3>1, FiveStages DEF Put
        <3> QED
            BY <1>3, <2>1, <2>2, <3>2
    <2>3. CASE f.cmd = "FIN"
        <3>1. q'[e]["FIN"] = Append(q[e]["FIN"], f) /\ q'[e]["PSH"] = q[e]["PSH"]
            BY <2>1, <2>3 DEF SplitTypes, Cmds
        <3>2. Put(Way(e), Way(e)', 5, f)
            BY <1>0, <2>1, <3>1, FiveStages DEF Put
        <3> QED
            BY <1>3, <2>1, <2>3, <3>2
    <2> QED
        BY <1>1, <2>1, <2>2, <2>3 DEF Cmds
<1> QED
    BY <1>4, <1>5, <1>6 DEF Write

\* Only a SYN of a DNS stream puts a stream on ctrl.
LEMMA WriteRoute ==
    ASSUME SplitTypes, NEW e \in Ends, NEW f \in Frames, Write(e, f), NEW s \in Streams \ Dns,
           s \notin ctrlStreams[e]
    PROVE  s \notin ctrlStreams'[e]
BY DEF SplitTypes, Write, WriteSyn, WriteOnCtrl, WriteOnData

\* What the users of the streams do: frame f is written by end e.
Wrote(e, f) ==
    LET t == f.sid
    IN /\ Write(e, f)
       /\ UNCHANGED <<data, ch, accepts, rcv, gotFin, disorder>>
       /\ \/ /\ f.cmd = "SYN" /\ e = Opener(t) /\ t \notin table[e] \cup closed[e]
             /\ table' = [table EXCEPT ![e] = @ \cup {t}]
             /\ UNCHANGED <<closed, sent, rejected>>
          \/ /\ f.cmd = "PSH" /\ t \in table[e] /\ f.n = sent[e][t] + 1
             /\ sent' = [sent EXCEPT ![e][t] = @ + 1] /\ UNCHANGED <<table, closed>>
             /\ rejected' = rejected \/ rejected' = rejected \cup {t}
             /\ e = Opener(t) \/ rcv[e][t] > 0 \/ t \in rejected'
          \/ /\ f.cmd = "FIN" /\ t \in table[e]
             /\ table' = [table EXCEPT ![e] = @ \ {t}]
             /\ closed' = [closed EXCEPT ![e] = @ \cup {t}]
             /\ UNCHANGED <<sent, rejected>>
             /\ e = Opener(t) \/ rcv[e][t] > 0 \/ t \in gotFin[e] \/ t \in rejected

\* Every step of a user of a stream writes one frame.
LEMMA UsersWrite ==
    ASSUME SplitTypes, NEW t \in Streams, NEW e \in Ends,
           Open(t) \/ Send(e, t) \/ Reject(t) \/ CloseStream(e, t)
    PROVE  \E d \in Ends, f \in Frames : Wrote(d, f)
<1>1. "server" \in Ends /\ Opener(t) \in Ends
    BY EndsPeer DEF Ends
<1>2. sent[e][t] + 1 \in Nat /\ sent["server"][t] + 1 \in Nat
    <2>1. sent \in [Ends -> [Streams -> Nat]]
        BY DEF SplitTypes
    <2> QED
        BY <1>1, <2>1, Increment2
<1>3. CASE Open(t)
    <2> DEFINE f == Frame("SYN", t, 0)
    <2>1. f \in Frames /\ f.cmd = "SYN" /\ f.sid = t
        BY DEF Frame, Frames, Cmds
    <2>2. Wrote(Opener(t), f)
        BY <1>3, <2>1 DEF Open, Wrote, appVars
    <2> QED
        BY <1>1, <2>1, <2>2
<1>4. CASE Send(e, t)
    <2> DEFINE f == Frame("PSH", t, sent[e][t] + 1)
    <2>1. f \in Frames /\ f.cmd = "PSH" /\ f.sid = t /\ f.n = sent[e][t] + 1
        BY <1>2 DEF Frame, Frames, Cmds
    <2>2. Wrote(e, f)
        BY <1>4, <2>1 DEF Send, Wrote, rcvVars
    <2> QED
        BY <2>1, <2>2
<1>5. CASE Reject(t)
    <2> DEFINE f == Frame("PSH", t, sent["server"][t] + 1)
    <2>1. f \in Frames /\ f.cmd = "PSH" /\ f.sid = t /\ f.n = sent["server"][t] + 1
        BY <1>2 DEF Frame, Frames, Cmds
    <2>2. Wrote("server", f)
        BY <1>5, <2>1 DEF Reject, Wrote, rcvVars
    <2> QED
        BY <1>1, <2>1, <2>2
<1>6. CASE CloseStream(e, t)
    <2> DEFINE f == Frame("FIN", t, 0)
    <2>1. f \in Frames /\ f.cmd = "FIN" /\ f.sid = t
        BY DEF Frame, Frames, Cmds
    <2>2. Wrote(e, f)
        BY <1>6, <2>1 DEF CloseStream, Wrote
    <2> QED
        BY <2>1, <2>2
<1> QED
    BY <1>3, <1>4, <1>5, <1>6

-----------------------------------------------------------------------------
(* The steps of the users.                                                 *)

\* An end has a stream that it uses and has not closed it.
LEMMA UsedIsOpen ==
    ASSUME OrderInv, NEW e \in Ends, NEW s \in Streams, Calm(s), s \in table[e]
    PROVE  s \notin closed[e]
<1>1. e = Opener(s) \/ e = Acceptor(s)
    BY EndsPeer DEF Acceptor
<1> QED
    BY <1>1, EndsPeer DEF OrderInv, LifeOf, Calm

\* A stream that is accepted twice or rejected stays so.
LEMMA CalmBefore ==
    ASSUME OrderInv, SplitTypes', NEW s \in Streams, Calm(s)', \A e \in Ends : accepts'[e][s] >= accepts[e][s],
           rejected \subseteq rejected'
    PROVE  Calm(s)
<1>1. \A e \in Ends : accepts[e][s] \in Nat /\ accepts'[e][s] \in Nat
    BY DEF OrderInv, SynInv, SplitTypes
<1>2. \A e \in Ends : accepts'[e][s] <= 1
    BY DEF Calm
<1>3. \A e \in Ends : accepts[e][s] <= 1
    BY <1>1, <1>2
<1> QED
    BY <1>3 DEF Calm

\* The streams that the ends have, after a write.
LEMMA WroteTables ==
    ASSUME SplitTypes, NEW e \in Ends, NEW f \in Frames, Wrote(e, f),
           NEW s \in Streams, NEW d \in Ends
    PROVE  /\ d # e \/ f.sid # s => (s \in table'[d] <=> s \in table[d])
           /\ f.sid = s => (s \in table'[e] <=> f.cmd # "FIN")
           /\ s \in closed'[d] <=> s \in closed[d] \/ (d = e /\ f.sid = s /\ f.cmd = "FIN")
           /\ f.cmd = "SYN" => e = Opener(f.sid) /\ f.sid \notin table[e] \cup closed[e]
           /\ f.cmd # "SYN" => f.sid \in table[e]
<1>1. table \in [Ends -> SUBSET Streams] /\ closed \in [Ends -> SUBSET Streams]
    BY DEF SplitTypes
<1>2. CASE f.cmd = "SYN"
    <2>1. /\ e = Opener(f.sid) /\ f.sid \notin table[e] \cup closed[e]
          /\ table' = [table EXCEPT ![e] = @ \cup {f.sid}] /\ closed' = closed
        BY <1>2 DEF Wrote
    <2> QED
        BY <1>1, <1>2, <2>1
<1>3. CASE f.cmd = "PSH"
    <2>1. f.sid \in table[e] /\ table' = table /\ closed' = closed
        BY <1>3 DEF Wrote
    <2> QED
        BY <1>3, <2>1
<1>4. CASE f.cmd = "FIN"
    <2>1. /\ f.sid \in table[e] /\ table' = [table EXCEPT ![e] = @ \ {f.sid}]
          /\ closed' = [closed EXCEPT ![e] = @ \cup {f.sid}]
        BY <1>4 DEF Wrote
    <2> QED
        BY <1>1, <1>4, <2>1
<1> QED
    BY <1>2, <1>3, <1>4 DEF Wrote

\* The life of each stream.
LEMMA WroteLife ==
    ASSUME OrderInv, NEW e \in Ends, NEW f \in Frames, Wrote(e, f), NEW s \in Streams
    PROVE  LifeOf(s)'
<1> DEFINE o == Opener(s)
           a == Acceptor(s)
           t == f.sid
<1>1. /\ o \in Ends /\ a \in Ends /\ o # a /\ \A d \in Ends : d = o \/ d = a
      /\ t \in Streams
    BY EndsPeer DEF Acceptor, Frames
<1>2. SplitTypes /\ LifeOf(s)
    BY DEF OrderInv, SynInv
<1>3. accepts' = accepts /\ data' = data /\ ch' = ch /\ rcv' = rcv /\ Write(e, f)
    BY DEF Wrote
<1>4. /\ HasSyn(ctrl'[o], s) => HasSyn(ctrl[o], s) \/ (f.cmd = "SYN" /\ t = s)
      /\ \A c \in Cmds : HasSyn(q'[o][c], s) => HasSyn(q[o][c], s) \/ (f.cmd = "SYN" /\ t = s)
    BY <1>1, <1>2, <1>3, WriteEffect
<1>5. /\ f.cmd = "SYN" /\ t = s => e = o /\ s \in table'[o] /\ s \notin closed'[o]
      /\ \A d \in Ends : s \in table'[d] /\ ~(f.cmd = "SYN" /\ t = s) => s \in table[d]
      /\ \A d \in Ends : /\ s \in closed[d] => s \in closed'[d]
                         /\ s \in closed'[d] => s \in closed[d] \/ (s \in table[d] /\ s \notin table'[d])
                         /\ s \in table[d] => s \in table'[d] \/ s \in closed'[d]
                         /\ f.cmd = "SYN" /\ d # o => (s \in table'[d] <=> s \in table[d])
    BY <1>1, <1>2, WroteTables
<1>6. s \notin table[a] => sent'[a][s] = sent[a][s]
    <2>1. CASE sent' = sent
        BY <2>1
    <2>2. CASE t \in table[e] /\ sent' = [sent EXCEPT ![e][t] = @ + 1]
        <3>1. sent \in [Ends -> [Streams -> Nat]]
            BY <1>2 DEF SplitTypes
        <3> QED
            BY <1>1, <2>2, <3>1
    <2> QED
        BY <2>1, <2>2 DEF Wrote
<1> HIDE DEF o, a, t
<1>7. /\ accepts[o][s] = 0
      /\ accepts[a][s] = 0 => /\ s \notin table[a] /\ s \notin closed[a]
                              /\ sent[a][s] = 0 /\ rcv[a][s] = 0
      /\ \/ accepts[a][s] > 0 \/ HasSyn(ch[a], s) \/ HasSyn(ctrl[o], s)
         \/ HasSyn(data[o], s) \/ \E c \in Cmds : HasSyn(q[o][c], s)
         => s \in table[o] \cup closed[o]
      /\ s \in table[o] => s \notin closed[o]
      /\ accepts[a][s] > 0 => s \in table[a] \cup closed[a]
      /\ accepts[a][s] <= 1 /\ s \in closed[a] => s \notin table[a]
    BY <1>2 DEF LifeOf, o, a
<1>8. accepts[a][s] = 0 => /\ s \notin table'[a] /\ s \notin closed'[a]
                           /\ sent'[a][s] = 0 /\ rcv'[a][s] = 0
    BY <1>1, <1>3, <1>5, <1>6, <1>7
<1>9. \/ accepts[a][s] > 0 \/ HasSyn(ch[a], s) \/ HasSyn(ctrl'[o], s)
      \/ HasSyn(data[o], s) \/ \E c \in Cmds : HasSyn(q'[o][c], s)
      => s \in table'[o] \cup closed'[o]
    BY <1>1, <1>4, <1>5, <1>7
<1>10. s \in table'[o] => s \notin closed'[o]
    BY <1>1, <1>5, <1>7
<1>11. /\ accepts[a][s] > 0 => s \in table'[a] \cup closed'[a]
       /\ accepts[a][s] <= 1 /\ s \in closed'[a] => s \notin table'[a]
    BY <1>1, <1>5, <1>7
<1> QED
    BY <1>3, <1>7, <1>8, <1>9, <1>10, <1>11 DEF LifeOf, o, a

\* FINs are written by Close, and DNS streams alone use ctrl.
LEMMA WroteFins ==
    ASSUME OrderInv, SplitTypes', NEW e \in Ends, NEW f \in Frames, Wrote(e, f),
           NEW w \in Ends, NEW s \in Streams
    PROVE  FinsAreClosed(w, s)' /\ DnsOnly(w, s)'
<1>1. SplitTypes /\ FinsAreClosed(w, s) /\ DnsOnly(w, s)
    BY DEF OrderInv, SynInv
<1>2. Write(e, f) /\ data' = data /\ ch' = ch /\ gotFin' = gotFin /\ f.sid \in Streams
    BY DEF Wrote, Frames
<1>3. /\ \A d \in Ends : s \in closed[d] => s \in closed'[d]
      /\ f.cmd = "FIN" /\ f.sid = s => s \in closed'[e]
    BY <1>1, WroteTables
<1>4. CASE w # e
    <2>1. Way(w)' = Way(w) /\ q'[w] = q[w] /\ ctrl'[w] = ctrl[w] /\ ctrlStreams'[w] = ctrlStreams[w]
        BY <1>1, <1>2, <1>4, WriteWay, WriteEffect
    <2> QED
        BY <1>1, <1>2, <1>3, <2>1 DEF FinsAreClosed, DnsOnly
<1>5. CASE w = e
    <2>0. PICK k \in {2, 4, 5} : Put(Way(e), Way(e)', k, f) /\ (k = 5 => f.cmd = "FIN")
        BY <1>1, <1>2, WriteWay
    <2>1. /\ Way(e)'[k] = Append(Way(e)[k], f) /\ (k = 5 => f.cmd = "FIN")
          /\ \A l \in Stages \ {k} : Way(e)'[l] = Way(e)[l]
        BY <2>0 DEF Put
    <2>2. k \in Stages /\ 5 \in Stages /\ Way(e)[k] \in Seq(Frames)
        BY <1>1, FiveStages, WayIs DEF Ways
    <2>3. \A l \in Stages : HasFin(Way(e)'[l], s) => s \in closed'[e]
        <3>1. HasFin(Way(e)'[k], s) => HasFin(Way(e)[k], s) \/ (f.cmd = "FIN" /\ f.sid = s)
            BY <2>1, <2>2, AppendBody
        <3> QED
            BY <1>1, <1>3, <1>5, <2>1, <2>2, <3>1 DEF FinsAreClosed
    <2>4. Nums(Way(e)'[5], s) = {}
        <3>1. Nums(Way(e)[5], s) = {}
            BY <1>1, <1>5, WayIs DEF FinsAreClosed
        <3>2. k = 5 => Nums(Way(e)'[k], s) = Nums(Way(e)[k], s)
            BY <2>1, <2>2, AppendBody
        <3> QED
            BY <2>1, <2>2, <3>1, <3>2
    <2>5. FinsAreClosed(w, s)'
        <3>1. Way(e)'[5] = q'[e]["FIN"]
            BY WayWas
        <3> QED
            BY <1>1, <1>2, <1>3, <1>5, <2>3, <2>4, <3>1 DEF FinsAreClosed
    <2>6. DnsOnly(w, s)'
        BY <1>1, <1>2, <1>5, WriteEffect, WriteRoute DEF DnsOnly
    <2> QED
        BY <2>5, <2>6
<1> QED
    BY <1>4, <1>5

\* The route of each DNS stream.
LEMMA WroteRoute ==
    ASSUME OrderInv, NEW e \in Ends, NEW f \in Frames, Wrote(e, f), NEW s \in Dns,
           Calm(s), Calm(s)'
    PROVE  Routed(s)'
<1> DEFINE o == Opener(s)
           a == Acceptor(s)
           t == f.sid
<1>0. s \in Streams
    BY DEF Streams
<1>1. /\ o \in Ends /\ a \in Ends /\ o # a /\ \A d \in Ends : d = o \/ d = a
      /\ Peer(a) = o /\ t \in Streams
    BY <1>0, EndsPeer DEF Acceptor, Frames
<1>2. SplitTypes /\ Routed(s)
    BY DEF OrderInv, SynInv
<1>3. data' = data /\ ch' = ch /\ rcv' = rcv /\ Write(e, f)
    BY DEF Wrote
<1>4. /\ \A d \in Ends : s \in closed[d] => s \in closed'[d]
      /\ f.cmd = "FIN" /\ t = s => s \in closed'[e] /\ s \notin table'[e]
      /\ \A d \in Ends : s \in table'[d] => s \in table[d] \/ (f.cmd = "SYN" /\ t = s /\ d = e)
    BY <1>0, <1>2, WroteTables
<1>5. f.cmd # "SYN" /\ t = s => s \in table[e] /\ s \notin closed[e]
    BY <1>0, UsedIsOpen DEF Wrote
<1>6. f.cmd # "SYN" /\ t = s /\ e = a => rcv[a][s] > 0 \/ s \in closed[o]
    <2>1. s \in gotFin[a] => s \in closed[o]
        <3>1. FinsAreClosed(o, s) /\ Peer(o) = a
            BY <1>0, <1>1, EndsPeer DEF OrderInv
        <3> QED
            BY <3>1 DEF FinsAreClosed
    <2> QED
        BY <1>1, <2>1 DEF Wrote, Calm
<1>7. \A d \in Ends :
        /\ d # e => q'[d] = q[d] /\ ctrl'[d] = ctrl[d] /\ ctrlStreams'[d] = ctrlStreams[d]
        /\ Queued(d, s)' => \/ Queued(d, s)
                            \/ d = e /\ f.cmd # "SYN" /\ t = s /\ s \notin ctrlStreams[e]
        /\ s \in ctrlStreams[d] => s \in ctrlStreams'[d] \/ (d = e /\ f.cmd = "FIN" /\ t = s)
        /\ d = e /\ f.cmd = "SYN" /\ t = s => s \in ctrlStreams'[d]
    <2>1. \A d \in Ends : d # e => q'[d] = q[d] /\ ctrl'[d] = ctrl[d] /\ ctrlStreams'[d] = ctrlStreams[d]
        BY <1>0, <1>2, <1>3, WriteEffect
    <2>2. /\ Queued(e, s)' => Queued(e, s) \/ (f.cmd # "SYN" /\ t = s /\ s \notin ctrlStreams[e])
          /\ s \in ctrlStreams[e] /\ (f.cmd # "FIN" \/ t # s) => s \in ctrlStreams'[e]
          /\ f.cmd = "SYN" /\ t = s => s \in ctrlStreams'[e]
        BY <1>0, <1>2, <1>3, WriteEffect
    <2>3. \A d \in Ends : d # e => (Queued(d, s)' <=> Queued(d, s))
        BY <2>1 DEF Queued
    <2> HIDE DEF t
    <2> QED
        BY <2>1, <2>2, <2>3
<1> HIDE DEF o, a, t
<1>8. /\ s \notin closed[a] =>
           /\ ~Queued(o, s) /\ ~HasBody(data[o], s)
           /\ s \in table[o] => s \in ctrlStreams[o]
      /\ s \notin closed[o] =>
           /\ ~Queued(a, s) /\ ~HasBody(data[a], s)
           /\ s \notin closed[a] /\ (Nums(ch[a], s) # {} \/ rcv[a][s] > 0)
                => s \in ctrlStreams[a]
    BY <1>2 DEF Routed, o, a
<1>9. ASSUME s \notin closed'[a]
      PROVE  ~Queued(o, s)' /\ ~HasBody(data[o], s) /\ (s \in table'[o] => s \in ctrlStreams'[o])
    BY <1>1, <1>4, <1>5, <1>7, <1>8, <1>9
<1>10. ASSUME s \notin closed'[o]
       PROVE  /\ ~Queued(a, s)' /\ ~HasBody(data[a], s)
              /\ s \notin closed'[a] /\ (Nums(ch[a], s) # {} \/ rcv[a][s] > 0)
                   => s \in ctrlStreams'[a]
    BY <1>1, <1>4, <1>5, <1>6, <1>7, <1>8, <1>10
<1> QED
    BY <1>3, <1>9, <1>10 DEF Routed, o, a

\* What is on the way of each stream.
LEMMA WroteFlow ==
    ASSUME OrderInv, SplitTypes', NEW e \in Ends, NEW f \in Frames, Wrote(e, f),
           NEW w \in Ends, NEW s \in Streams, Calm(s), Calm(s)'
    PROVE  Flow(w, s)'
<1> DEFINE lo == rcv[Peer(w)][s]
           hi == sent[w][s]
<1>1. /\ SplitTypes /\ Flow(w, s) /\ FinsAreClosed(w, s) /\ DnsOnly(w, s)
      /\ Peer(w) \in Ends /\ (w = Opener(s) \/ w = Acceptor(s)) /\ Peer(Peer(w)) = w
    BY EndsPeer DEF OrderInv, SynInv, Acceptor
<1>2. Write(e, f) /\ data' = data /\ ch' = ch /\ rcv' = rcv /\ f.sid \in Streams /\ f.cmd \in Cmds
    BY DEF Wrote, Frames
<1>3. lo \in Nat /\ hi \in Nat /\ rcv'[Peer(w)][s] = lo
    BY <1>1, <1>2 DEF SplitTypes
<1>4. s \in closed[Peer(w)] => s \in closed'[Peer(w)]
    BY <1>1, WroteTables
<1>5. /\ w = e /\ f.cmd = "PSH" /\ f.sid = s => f.n = hi + 1 /\ sent'[w][s] = hi + 1
      /\ ~(w = e /\ f.cmd = "PSH" /\ f.sid = s) => sent'[w][s] = hi
    <2>1. sent \in [Ends -> [Streams -> Nat]]
        BY <1>1 DEF SplitTypes
    <2>2. CASE f.cmd = "PSH"
        <3>1. f.n = sent[e][f.sid] + 1 /\ sent' = [sent EXCEPT ![e][f.sid] = @ + 1]
            BY <2>2 DEF Wrote
        <3> QED
            BY <1>2, <2>1, <2>2, <3>1
    <2>3. CASE f.cmd # "PSH"
        <3>1. sent' = sent
            BY <2>3 DEF Wrote
        <3> QED
            BY <2>3, <3>1
    <2> QED
        BY <2>2, <2>3
<1> HIDE DEF lo, hi
<1> SUFFICES ASSUME s \notin closed'[Peer(w)]
             PROVE  Aligned(Way(w)', s) /\ Whole(Way(w)', lo, sent'[w][s], s)
    BY <1>3 DEF Flow
<1>6. s \notin closed[Peer(w)] /\ Aligned(Way(w), s) /\ Whole(Way(w), lo, hi, s)
    BY <1>1, <1>4 DEF Flow, lo, hi
<1>7. CASE w # e
    <2>1. Way(w)' = Way(w)
        BY <1>1, <1>2, <1>7, WriteWay
    <2> QED
        BY <1>5, <1>6, <1>7, <2>1
<1>8. CASE w = e
    <2>1. PICK k \in {2, 4, 5} :
              /\ Put(Way(e), Way(e)', k, f)
              /\ f.cmd # "SYN" => (k = 2 <=> f.sid \in ctrlStreams[e])
        BY <1>1, <1>2, WriteWay
    <2>2. k \in Stages /\ Way(e) \in Ways /\ Way(e)' \in Ways
        BY <1>1, FiveStages, WayIs, WayWas
    <2>3. Last(Way(e), k, f, s)
        <3> SUFFICES ASSUME Body(f, s)
                     PROVE  /\ \A l \in Stages : ~HasFin(Way(e)[l], s)
                            /\ \A l \in Stages : k < l => Nums(Way(e)[l], s) = {}
                            /\ f.cmd = "PSH" => \A l \in Stages : \A n \in Nums(Way(e)[l], s) : n < f.n
            BY DEF Last
        <3>1. f.sid = s /\ f.cmd # "SYN" /\ s \in table[e] /\ s \notin closed[e]
            BY <1>1, WroteTables, UsedIsOpen DEF Body
        <3>2. \A l \in Stages : ~HasFin(Way(e)[l], s)
            BY <1>1, <1>8, <3>1 DEF FinsAreClosed
        <3>3. ASSUME f.cmd = "PSH", NEW l \in Stages, NEW n \in Nums(Way(e)[l], s)
              PROVE  n < f.n
            <4>1. n \in Int
                BY <2>2, NumsInt DEF Ways
            <4>2. n <= hi
                BY <1>6, <1>8 DEF Whole
            <4> QED
                BY <1>3, <1>5, <1>8, <3>1, <3>3, <4>1, <4>2
        <3>4. Nums(Way(e)[5], s) = {}
            BY <1>1, <1>8, WayIs DEF FinsAreClosed
        <3>5. ASSUME k = 2 PROVE Nums(Way(e)[3], s) = {} /\ Nums(Way(e)[4], s) = {}
            <4>1. s \in Dns
                BY <1>1, <1>8, <2>1, <3>1, <3>5 DEF DnsOnly
            <4>2. Routed(s)
                BY <4>1 DEF OrderInv
            <4>3. ~Queued(w, s) /\ ~HasBody(data[w], s)
                BY <1>1, <1>6, <4>2, EndsPeer DEF Routed
            <4>4. ~HasBody(q[w]["PSH"], s)
                BY <4>3 DEF Queued, Cmds
            <4>5. Way(e)[3] = data[w] /\ Way(e)[4] = q[w]["PSH"]
                BY <1>1, <1>8, WayIs
            <4> QED
                BY <2>2, <4>3, <4>4, <4>5, FiveStages, NoBody DEF Ways
        <3>6. \A l \in Stages : k < l => Nums(Way(e)[l], s) = {}
            BY <2>1, <3>4, <3>5, FiveStages
        <3> QED
            BY <3>2, <3>3, <3>6
    <2>4. Aligned(Way(e)', s)
        BY <1>6, <1>8, <2>1, <2>2, <2>3, WayAppend
    <2>5. Whole(Way(e)', lo, sent'[w][s], s)
        <3>1. /\ f.cmd # "PSH" \/ f.sid # s => Whole(Way(e)', lo, hi, s)
              /\ f.cmd = "PSH" /\ f.sid = s /\ f.n = hi + 1 => Whole(Way(e)', lo, hi + 1, s)
            BY <1>3, <1>6, <1>8, <2>1, <2>2, WayGrows
        <3> QED
            BY <1>5, <1>8, <3>1
    <2> QED
        BY <1>8, <2>4, <2>5
<1> QED
    BY <1>7, <1>8

\* Every step of a user keeps the order.
LEMMA WroteKeeps ==
    ASSUME OrderInv, SynInv', NEW e \in Ends, NEW f \in Frames, Wrote(e, f)
    PROVE  OrderInv'
<1>1. SplitTypes'
    BY DEF SynInv
<1>2. gotFin' = gotFin /\ disorder' = disorder /\ accepts' = accepts /\ rejected \subseteq rejected'
    BY DEF Wrote
<1>3. \A s \in Streams : Calm(s)' => Calm(s)
    BY <1>2 DEF Calm
<1>4. \A s \in Streams : LifeOf(s)'
    BY WroteLife
<1>5. \A w \in Ends, s \in Streams : FinsAreClosed(w, s)' /\ DnsOnly(w, s)'
    BY <1>1, WroteFins
<1>6. \A s \in Dns : Calm(s)' => Routed(s)'
    BY <1>3, WroteRoute DEF Streams
<1>7. \A w \in Ends, s \in Streams : Calm(s)' => Flow(w, s)'
    BY <1>1, <1>3, WroteFlow
<1>8. \A d \in Ends, s \in Streams : Calm(s)' => <<d, s>> \notin disorder'
    BY <1>2, <1>3 DEF OrderInv
<1> QED
    BY <1>2, <1>4, <1>5, <1>6, <1>7, <1>8 DEF OrderInv

-----------------------------------------------------------------------------
(* The steps of the connections.                                           *)

\* drainData: a SYN mirror, or the first queued frame goes to the connection.
LEMMA DrainWay ==
    ASSUME SynInv, SplitTypes', NEW e \in Ends, DrainData(e)
    PROVE  /\ \A d \in Ends \ {e} : Way(d)' = Way(d)
           /\ \/ \E f \in Frames : f.cmd = "SYN" /\ Put(Way(e), Way(e)', 3, f)
              \/ Shift(Way(e), Way(e)', 3, 4)
              \/ Shift(Way(e), Way(e)', 3, 5) /\ Way(e)[4] = <<>>
<1>1. SplitTypes /\ \A s \in Streams : ~HasBody(q[e]["SYN"], s)
    BY DEF SynInv
<1>2. PICK c \in Cmds : c = PopOrder(e)
    BY DEF PopOrder, Cmds
<1>3. /\ q[e][c] # <<>> /\ q[e][c] \in Seq(Frames)
      /\ data'[e] = Append(data[e], Head(q[e][c])) /\ \A d \in Ends \ {e} : data'[d] = data[d]
      /\ q'[e][c] = Tail(q[e][c]) /\ \A b \in Cmds \ {c} : q'[e][b] = q[e][b]
      /\ \A d \in Ends \ {e} : q'[d] = q[d]
      /\ ctrl' = ctrl /\ ch' = ch
    BY <1>1, <1>2 DEF DrainData, SplitTypes
<1>4. \A d \in Ends \ {e} : Way(d)' = Way(d)
    BY <1>3 DEF Way
<1>5. /\ Way(e)[1] = ch[Peer(e)] /\ Way(e)[2] = ctrl[e] /\ Way(e)[3] = data[e]
      /\ Way(e)[4] = q[e]["PSH"] /\ Way(e)[5] = q[e]["FIN"]
      /\ Way(e)'[1] = ch[Peer(e)] /\ Way(e)'[2] = ctrl[e] /\ Way(e)'[3] = data'[e]
      /\ Way(e)'[4] = q'[e]["PSH"] /\ Way(e)'[5] = q'[e]["FIN"]
    BY <1>1, <1>3, WayIs, WayWas
<1>6. CASE c = "SYN"
    <2>1. Head(q[e]["SYN"]) \in Frames /\ Head(q[e]["SYN"]).cmd = "SYN"
        <3>1. q[e]["SYN"] \in Seq(Frames) /\ q[e]["SYN"] # <<>>
            BY <1>3, <1>6
        <3>2. Head(q[e]["SYN"]) \in Frames
            BY <3>1
        <3>3. PICK t \in Streams : t = Head(q[e]["SYN"]).sid
            BY <3>2 DEF Frames
        <3> QED
            BY <1>1, <3>1, <3>2, <3>3, TailFrame
    <2>2. Put(Way(e), Way(e)', 3, Head(q[e]["SYN"]))
        BY <1>3, <1>5, <1>6, FiveStages DEF Put, Cmds
    <2> QED
        BY <1>4, <2>1, <2>2
<1>7. CASE c = "PSH"
    <2>1. Shift(Way(e), Way(e)', 3, 4)
        BY <1>3, <1>5, <1>7, FiveStages DEF Shift, Cmds
    <2> QED
        BY <1>4, <2>1
<1>8. CASE c = "FIN"
    <2>1. Shift(Way(e), Way(e)', 3, 5)
        BY <1>3, <1>5, <1>8, FiveStages DEF Shift, Cmds
    <2>2. q[e]["PSH"] = <<>>
        BY <1>2, <1>8 DEF PopOrder
    <2> QED
        BY <1>4, <1>5, <2>1, <2>2
<1> QED
    BY <1>6, <1>7, <1>8 DEF Cmds

\* A FIN stays where nothing but FINs is queued.
LEMMA ShiftFins ==
    ASSUME OrderInv, NEW w \in Ends, NEW s \in Streams, Way(w)' \in Ways, SplitTypes',
           NEW k \in Stages, NEW l \in Stages, k < l, Shift(Way(w), Way(w)', k, l),
           gotFin' = gotFin, closed' = closed, k # 5
    PROVE  FinsAreClosed(w, s)'
<1>1. FinsAreClosed(w, s) /\ SplitTypes /\ Way(w) \in Ways
    BY WayIs DEF OrderInv, SynInv
<1>2. \A m \in Stages : HasFin(Way(w)'[m], s) => s \in closed[w]
    BY <1>1, WayMove DEF FinsAreClosed
<1>3. Nums(Way(w)[5], s) = {} /\ Way(w)'[5] = q'[w]["FIN"] /\ 5 \in Stages
    BY <1>1, WayIs, WayWas, FiveStages DEF FinsAreClosed
<1>4. Nums(Way(w)'[5], s) = {}
    <2>1. CASE l = 5
        <3>1. Way(w)[5] \in Seq(Frames) /\ Way(w)[5] # <<>> /\ Way(w)'[5] = Tail(Way(w)[5])
            BY <1>1, <1>3, <2>1 DEF Ways, Shift
        <3> QED
            BY <1>3, <3>1, TailBody
    <2>2. CASE l # 5
        BY <1>3, <2>2 DEF Shift
    <2> QED
        BY <2>1, <2>2
<1> QED
    BY <1>1, <1>2, <1>3, <1>4 DEF FinsAreClosed

\* The flow of a stream when a frame moves one stage on.
LEMMA ShiftFlow ==
    ASSUME OrderInv, NEW w \in Ends, NEW s \in Streams, Way(w)' \in Ways,
           NEW k \in Stages, NEW l \in Stages, k < l, Shift(Way(w), Way(w)', k, l),
           closed' = closed, rcv' = rcv, sent' = sent, Calm(s),
           s \notin closed[Peer(w)] =>
              \/ ~Body(Head(Way(w)[l]), s)
              \/ \A m \in Stages : k < m /\ m < l => ~HasBody(Way(w)[m], s)
    PROVE  Flow(w, s)'
<1>1. SplitTypes /\ Way(w) \in Ways /\ Peer(w) \in Ends /\ Flow(w, s)
    BY WayIs, EndsPeer DEF OrderInv, SynInv
<1>2. rcv[Peer(w)][s] \in Nat /\ sent[w][s] \in Nat
    BY <1>1 DEF SplitTypes
<1> SUFFICES ASSUME s \notin closed[Peer(w)]
             PROVE  Aligned(Way(w)', s) /\ Whole(Way(w)', rcv[Peer(w)][s], sent[w][s], s)
    BY DEF Flow
<1>3. Aligned(Way(w), s) /\ Whole(Way(w), rcv[Peer(w)][s], sent[w][s], s)
    BY <1>1 DEF Flow
<1>4. Aligned(Way(w)', s)
    BY <1>1, <1>3, WayMove
<1>5. Whole(Way(w)', rcv[Peer(w)][s], sent[w][s], s)
    BY <1>1, <1>2, <1>3, WayMove
<1> QED
    BY <1>4, <1>5

\* A SYN of s is on its way to the acceptor.
SynOut(s) ==
    LET o == Opener(s)
    IN \/ HasSyn(ch[Acceptor(s)], s) \/ HasSyn(ctrl[o], s) \/ HasSyn(data[o], s)
       \/ \E c \in Cmds : HasSyn(q[o][c], s)

\* Nothing happens to the users of a stream.
LEMMA LifeStays ==
    ASSUME NEW s \in Streams, LifeOf(s), SynOut(s)' => SynOut(s),
           UNCHANGED <<table, closed, accepts, sent, rcv>>
    PROVE  LifeOf(s)'
BY DEF LifeOf, SynOut

\* The parts about the users of the streams after a step of a connection.
LEMMA CalmStays ==
    ASSUME OrderInv, UNCHANGED <<rejected, accepts, disorder>>
    PROVE  /\ \A s \in Streams : Calm(s)' <=> Calm(s)
           /\ \A e \in Ends, s \in Streams : Calm(s)' => <<e, s>> \notin disorder'
BY DEF OrderInv, Calm

\* drainData moves the oldest frame of a queue to the connection and keeps the order.
LEMMA DrainOrder ==
    ASSUME OrderInv, SynInv', NEW e \in Ends, DrainData(e)
    PROVE  OrderInv'
<1>1. /\ SplitTypes /\ SplitTypes' /\ SynInv /\ Way(e) \in Ways /\ Way(e)' \in Ways
      /\ \A w \in Ends : Peer(w) \in Ends
    BY WayIs, WayWas, EndsPeer DEF OrderInv, SynInv
<1>2. /\ UNCHANGED <<ctrl, ch, ctrlStreams, table, accepts, sent, rcv, closed, gotFin>>
      /\ UNCHANGED <<rejected, disorder>>
    BY DEF DrainData, appVars, rcvVars
<1>3. PICK c \in Cmds :
          /\ q[e][c] # <<>> /\ q[e][c] \in Seq(Frames) /\ data[e] \in Seq(Frames)
          /\ Head(q[e][c]) \in Frames
          /\ data'[e] = Append(data[e], Head(q[e][c])) /\ \A d \in Ends \ {e} : data'[d] = data[d]
          /\ q'[e][c] = Tail(q[e][c]) /\ \A b \in Cmds \ {c} : q'[e][b] = q[e][b]
          /\ \A d \in Ends \ {e} : q'[d] = q[d]
    <2>1. PICK c \in Cmds : c = PopOrder(e)
        BY DEF PopOrder, Cmds
    <2>2. /\ q[e][c] # <<>> /\ data' = [data EXCEPT ![e] = Append(@, Head(q[e][c]))]
          /\ q' = [q EXCEPT ![e][c] = Tail(@)]
        BY <2>1 DEF DrainData
    <2>3. /\ q[e][c] \in Seq(Frames) /\ data[e] \in Seq(Frames)
          /\ data'[e] = Append(data[e], Head(q[e][c])) /\ \A d \in Ends \ {e} : data'[d] = data[d]
          /\ q'[e][c] = Tail(q[e][c]) /\ \A b \in Cmds \ {c} : q'[e][b] = q[e][b]
          /\ \A d \in Ends \ {e} : q'[d] = q[d]
        BY <1>1, <2>2 DEF SplitTypes
    <2>4. Head(q[e][c]) \in Frames
        BY <2>2, <2>3
    <2> QED
        BY <2>2, <2>3, <2>4
<1>4. ASSUME NEW s \in Streams
      PROVE  /\ \A b \in Cmds : HasSyn(q'[e][b], s) => HasSyn(q[e][b], s)
             /\ HasSyn(data'[e], s) => HasSyn(data[e], s) \/ HasSyn(q[e][c], s)
             /\ \A b \in Cmds : HasBody(q'[e][b], s) => HasBody(q[e][b], s)
             /\ HasBody(data'[e], s) => HasBody(data[e], s) \/ HasBody(q[e][c], s)
    <2>1. /\ HasSyn(q[e][c], s) <=> HasSyn(q'[e][c], s)
                                    \/ (Head(q[e][c]).cmd = "SYN" /\ Head(q[e][c]).sid = s)
          /\ HasBody(q[e][c], s) <=> HasBody(q'[e][c], s)
                                     \/ (Head(q[e][c]).cmd # "SYN" /\ Head(q[e][c]).sid = s)
        BY <1>3, TailFrame
    <2>2. /\ HasSyn(data'[e], s) <=> HasSyn(data[e], s)
                                     \/ (Head(q[e][c]).cmd = "SYN" /\ Head(q[e][c]).sid = s)
          /\ HasBody(data'[e], s) <=> HasBody(data[e], s)
                                      \/ (Head(q[e][c]).cmd # "SYN" /\ Head(q[e][c]).sid = s)
        BY <1>3, AppendFrame
    <2> QED
        BY <1>3, <2>1, <2>2
<1>5. ASSUME NEW s \in Streams PROVE LifeOf(s)'
    <2>1. SynOut(s)' => SynOut(s)
        <3>1. Opener(s) \in Ends
            BY EndsPeer
        <3>2. CASE Opener(s) = e
            BY <1>2, <1>4, <3>2 DEF SynOut
        <3>3. CASE Opener(s) # e
            <4>1. q'[Opener(s)] = q[Opener(s)] /\ data'[Opener(s)] = data[Opener(s)]
                BY <1>3, <3>1, <3>3
            <4> QED
                BY <1>2, <4>1 DEF SynOut
        <3> QED
            BY <3>2, <3>3
    <2> QED
        BY <1>2, <2>1, LifeStays DEF OrderInv
<1>6. \A s \in Streams : /\ Queued(e, s)' => Queued(e, s)
                         /\ HasBody(data'[e], s) => HasBody(data[e], s) \/ Queued(e, s)
    BY <1>4 DEF Queued
<1>7. ASSUME NEW s \in Dns, Calm(s) PROVE Routed(s)'
    <2>1. s \in Streams /\ Routed(s) /\ Opener(s) \in Ends /\ Acceptor(s) \in Ends
        BY <1>7, EndsPeer DEF OrderInv, Streams
    <2>2. \A d \in Ends : ~Queued(d, s) /\ ~HasBody(data[d], s) =>
                          ~Queued(d, s)' /\ ~HasBody(data'[d], s)
        <3>1. ASSUME NEW d \in Ends \ {e}
              PROVE  (Queued(d, s)' <=> Queued(d, s)) /\ data'[d] = data[d]
            BY <1>3 DEF Queued
        <3> QED
            BY <1>6, <2>1, <3>1
    <2> QED
        BY <1>2, <2>1, <2>2 DEF Routed
<1>8. ASSUME NEW w \in Ends, NEW s \in Streams
      PROVE  FinsAreClosed(w, s)' /\ DnsOnly(w, s)' /\ (Calm(s) => Flow(w, s)')
    <2>0. FinsAreClosed(w, s) /\ DnsOnly(w, s) /\ (Calm(s) => Flow(w, s))
        BY DEF OrderInv
    <2>1. DnsOnly(w, s)'
        BY <1>2, <2>0 DEF DnsOnly
    <2>2. CASE w # e
        <3>1. Way(w)' = Way(w) /\ q'[w] = q[w]
            BY <1>1, <1>3, <2>2, DrainWay
        <3> QED
            BY <1>2, <2>0, <2>1, <3>1 DEF FinsAreClosed, Flow
    <2>3. ASSUME w = e, NEW f \in Frames, f.cmd = "SYN", Put(Way(e), Way(e)', 3, f)
          PROVE  FinsAreClosed(w, s)' /\ (Calm(s) => Flow(w, s)')
        <3>1. 3 \in Stages /\ 5 \in Stages
            BY FiveStages
        <3>2. Way(e)[3] \in Seq(Frames)
            BY <1>1, <3>1 DEF Ways
        <3>3. HasFin(Way(e)'[3], s) <=> HasFin(Way(e)[3], s)
            BY <2>3, <3>2, AppendBody DEF Put
        <3>4. Way(e)'[5] = Way(e)[5] /\ Way(e)[5] = q[e]["FIN"] /\ Way(e)'[5] = q'[e]["FIN"]
            BY <1>1, <2>3, <3>1, WayIs, WayWas DEF Put
        <3>5. FinsAreClosed(w, s)'
            BY <1>2, <2>0, <2>3, <3>1, <3>3, <3>4 DEF FinsAreClosed, Put
        <3>6. ASSUME Calm(s) PROVE Flow(w, s)'
            <4>1. rcv[Peer(e)][s] \in Nat /\ sent[e][s] \in Nat
                BY <1>1 DEF SplitTypes
            <4>2. Last(Way(e), 3, f, s)
                BY <2>3 DEF Last, Body
            <4> SUFFICES ASSUME s \notin closed[Peer(e)]
                         PROVE  Aligned(Way(e)', s) /\ Whole(Way(e)', rcv[Peer(e)][s], sent[e][s], s)
                BY <1>2, <2>3 DEF Flow
            <4>3. Aligned(Way(e), s) /\ Whole(Way(e), rcv[Peer(e)][s], sent[e][s], s)
                BY <2>0, <2>3, <3>6 DEF Flow
            <4>4. Aligned(Way(e)', s)
                BY <1>1, <2>3, <3>1, <4>2, <4>3, WayAppend
            <4>5. Whole(Way(e)', rcv[Peer(e)][s], sent[e][s], s)
                BY <1>1, <2>3, <3>1, <4>1, <4>3, WayGrows
            <4> QED
                BY <4>4, <4>5
        <3> QED
            BY <3>5, <3>6
    <2>4. ASSUME w = e, Shift(Way(e), Way(e)', 3, 4)
          PROVE  FinsAreClosed(w, s)' /\ (Calm(s) => Flow(w, s)')
        <3>1. 3 \in Stages /\ 4 \in Stages /\ 3 < 4 /\ 3 # 5 /\ ~\E m \in Stages : 3 < m /\ m < 4
            BY FiveStages
        <3>2. FinsAreClosed(w, s)'
            BY <1>1, <1>2, <2>4, <3>1, ShiftFins
        <3>3. Calm(s) => Flow(w, s)'
            BY <1>1, <1>2, <2>4, <3>1, ShiftFlow
        <3> QED
            BY <3>2, <3>3
    <2>5. ASSUME w = e, Shift(Way(e), Way(e)', 3, 5), Way(e)[4] = <<>>
          PROVE  FinsAreClosed(w, s)' /\ (Calm(s) => Flow(w, s)')
        <3>1. 3 \in Stages /\ 5 \in Stages /\ 3 < 5 /\ 3 # 5
              /\ \A m \in Stages : 3 < m /\ m < 5 => m = 4
            BY FiveStages
        <3>2. FinsAreClosed(w, s)'
            BY <1>1, <1>2, <2>5, <3>1, ShiftFins
        <3>3. \A m \in Stages : 3 < m /\ m < 5 => ~HasBody(Way(e)[m], s)
            BY <2>5, <3>1, NoFrame
        <3>4. Calm(s) => Flow(w, s)'
            BY <1>1, <1>2, <2>5, <3>1, <3>3, ShiftFlow
        <3> QED
            BY <3>2, <3>4
    <2>6. CASE w = e
        <3>1. FinsAreClosed(w, s)' /\ (Calm(s) => Flow(w, s)')
            BY <1>1, <2>3, <2>4, <2>5, <2>6, DrainWay
        <3> QED
            BY <2>1, <3>1
    <2> QED
        BY <2>2, <2>6
<1>9. /\ \A s \in Streams : Calm(s)' <=> Calm(s)
      /\ \A d \in Ends, s \in Streams : Calm(s)' => <<d, s>> \notin disorder'
    BY <1>2, CalmStays
<1>10. \A s \in Dns : Calm(s)' => Routed(s)'
    BY <1>7, <1>9 DEF Streams
<1> QED
    BY <1>1, <1>2, <1>5, <1>8, <1>9, <1>10 DEF OrderInv

\* On a DNS stream that its reader has not closed, nothing waits off ctrl.
LEMMA OffCtrlEmpty ==
    ASSUME OrderInv, NEW w \in Ends, NEW s \in Dns, Calm(s), s \notin closed[Peer(w)]
    PROVE  ~Queued(w, s) /\ ~HasBody(data[w], s)
<1>1. s \in Streams /\ Routed(s)
    BY DEF OrderInv, Streams
<1>2. Peer(Opener(s)) = Acceptor(s) /\ Peer(Acceptor(s)) = Opener(s)
    BY <1>1, EndsPeer
<1>3. CASE w = Opener(s)
    BY <1>1, <1>2, <1>3 DEF Routed
<1>4. CASE w = Acceptor(s)
    BY <1>1, <1>2, <1>4 DEF Routed
<1> QED
    BY <1>1, <1>3, <1>4, EndsPeer DEF Acceptor

\* pump on the data connection.
LEMMA PumpDataOrder ==
    ASSUME OrderInv, SynInv', NEW e \in Ends, PumpData(e)
    PROVE  OrderInv'
<1> DEFINE p == Peer(e)
<1>1. /\ SplitTypes /\ SplitTypes' /\ p \in Ends /\ p # e /\ Peer(p) = e
      /\ Way(p) \in Ways /\ Way(p)' \in Ways
      /\ \A d \in Ends : d = e \/ d = p
    BY WayIs, WayWas, EndsPeer DEF OrderInv, SynInv
<1> HIDE DEF p
<1>2. /\ UNCHANGED <<q, ctrl, ctrlStreams, table, accepts, sent, rcv, closed, gotFin>>
      /\ UNCHANGED <<rejected, disorder>>
    BY DEF PumpData, appVars, rcvVars
<1>3. /\ data[p] # <<>> /\ data[p] \in Seq(Frames) /\ ch[e] \in Seq(Frames)
      /\ Head(data[p]) \in Frames
      /\ ch'[e] = Append(ch[e], Head(data[p])) /\ ch'[p] = ch[p]
      /\ data'[p] = Tail(data[p]) /\ data'[e] = data[e]
    <2>1. /\ data[p] # <<>> /\ ch' = [ch EXCEPT ![e] = Append(@, Head(data[p]))]
          /\ data' = [data EXCEPT ![p] = Tail(@)]
        BY DEF PumpData, p
    <2>2. data[p] \in Seq(Frames) /\ ch[e] \in Seq(Frames)
        BY <1>1 DEF SplitTypes
    <2>3. Head(data[p]) \in Frames
        BY <2>1, <2>2
    <2> QED
        BY <1>1, <2>1, <2>2, <2>3 DEF SplitTypes
<1>4. Shift(Way(p), Way(p)', 1, 3) /\ Way(e)' = Way(e) /\ Way(p)[3] = data[p] /\ Way(p)[2] = ctrl[p]
    <2>1. /\ Way(p)[1] = ch[e] /\ Way(p)[2] = ctrl[p] /\ Way(p)[3] = data[p]
          /\ Way(p)[4] = q[p]["PSH"] /\ Way(p)[5] = q[p]["FIN"]
          /\ Way(p)'[1] = ch'[e] /\ Way(p)'[2] = ctrl[p] /\ Way(p)'[3] = data'[p]
          /\ Way(p)'[4] = q[p]["PSH"] /\ Way(p)'[5] = q[p]["FIN"]
        BY <1>1, <1>2, WayIs, WayWas
    <2>2. Shift(Way(p), Way(p)', 1, 3)
        BY <1>3, <2>1, FiveStages DEF Shift
    <2>3. Way(e)' = Way(e)
        BY <1>2, <1>3 DEF Way, p
    <2> QED
        BY <2>1, <2>2, <2>3
<1>5. ASSUME NEW s \in Streams
      PROVE  /\ HasSyn(data'[p], s) => HasSyn(data[p], s)
             /\ HasSyn(ch'[e], s) => HasSyn(ch[e], s) \/ HasSyn(data[p], s)
             /\ HasBody(data'[p], s) => HasBody(data[p], s)
             /\ Nums(ch'[e], s) # {} => Nums(ch[e], s) # {} \/ HasBody(data[p], s)
             /\ Body(Head(data[p]), s) => HasBody(data[p], s)
    <2>1. /\ HasSyn(data[p], s) <=> HasSyn(data'[p], s)
                                    \/ (Head(data[p]).cmd = "SYN" /\ Head(data[p]).sid = s)
          /\ HasBody(data[p], s) <=> HasBody(data'[p], s)
                                     \/ (Head(data[p]).cmd # "SYN" /\ Head(data[p]).sid = s)
        BY <1>3, TailFrame
    <2>2. HasSyn(ch'[e], s) <=> HasSyn(ch[e], s)
                                \/ (Head(data[p]).cmd = "SYN" /\ Head(data[p]).sid = s)
        BY <1>3, AppendFrame
    <2>3. Head(data[p]).cmd # "PSH" \/ Head(data[p]).sid # s => Nums(ch'[e], s) = Nums(ch[e], s)
        BY <1>3, AppendBody
    <2> QED
        BY <2>1, <2>2, <2>3 DEF Body
<1>6. ASSUME NEW s \in Streams PROVE LifeOf(s)'
    <2>1. SynOut(s)' => SynOut(s)
        <3>1. Opener(s) \in Ends /\ Acceptor(s) = Peer(Opener(s))
            BY EndsPeer
        <3>2. CASE Opener(s) = p
            BY <1>1, <1>2, <1>5, <3>1, <3>2 DEF SynOut
        <3>3. CASE Opener(s) = e
            BY <1>2, <1>3, <3>1, <3>3 DEF SynOut, p
        <3> QED
            BY <1>1, <3>1, <3>2, <3>3
    <2> QED
        BY <1>2, <2>1, LifeStays DEF OrderInv
<1>7. ASSUME NEW s \in Dns, Calm(s) PROVE Routed(s)'
    <2>1. s \in Streams /\ Routed(s)
        BY <1>7 DEF OrderInv, Streams
    <2>2. \A d \in Ends : /\ Queued(d, s)' <=> Queued(d, s)
                          /\ HasBody(data'[d], s) => HasBody(data[d], s)
        BY <1>1, <1>2, <1>3, <1>5, <2>1 DEF Queued
    <2>3. Opener(s) \in Ends /\ Acceptor(s) \in Ends /\ Peer(Acceptor(s)) = Opener(s)
        BY <2>1, EndsPeer
    <2>4. s \notin closed[Acceptor(s)] /\ Nums(ch'[Acceptor(s)], s) # {} => Nums(ch[Acceptor(s)], s) # {}
        <3>1. CASE Acceptor(s) = e
            BY <1>1, <1>5, <1>7, <2>1, <3>1, OffCtrlEmpty
        <3>2. CASE Acceptor(s) = p
            BY <1>3, <3>2
        <3> QED
            BY <1>1, <2>3, <3>1, <3>2
    <2> QED
        BY <1>2, <2>1, <2>2, <2>3, <2>4 DEF Routed
<1>8. ASSUME NEW w \in Ends, NEW s \in Streams
      PROVE  FinsAreClosed(w, s)' /\ DnsOnly(w, s)' /\ (Calm(s) => Flow(w, s)')
    <2>0. FinsAreClosed(w, s) /\ DnsOnly(w, s) /\ (Calm(s) => Flow(w, s))
        BY DEF OrderInv
    <2>1. DnsOnly(w, s)'
        BY <1>2, <2>0 DEF DnsOnly
    <2>2. CASE w = e
        BY <1>2, <1>4, <2>0, <2>1, <2>2 DEF FinsAreClosed, Flow
    <2>3. CASE w = p
        <3>1. 1 \in Stages /\ 3 \in Stages /\ 1 < 3 /\ 1 # 5
              /\ \A m \in Stages : 1 < m /\ m < 3 => m = 2
            BY FiveStages
        <3>2. FinsAreClosed(w, s)'
            BY <1>1, <1>2, <1>4, <2>3, <3>1, ShiftFins
        <3>3. ASSUME Calm(s), s \notin closed[Peer(p)]
              PROVE  \/ ~Body(Head(Way(p)[3]), s)
                     \/ \A m \in Stages : 1 < m /\ m < 3 => ~HasBody(Way(p)[m], s)
            <4>1. CASE s \in Dns
                BY <1>1, <1>4, <1>5, <3>3, <4>1, OffCtrlEmpty
            <4>2. CASE s \notin Dns
                BY <1>4, <2>0, <2>3, <3>1, <4>2 DEF DnsOnly
            <4> QED
                BY <4>1, <4>2
        <3>4. Calm(s) => Flow(w, s)'
            BY <1>1, <1>2, <1>4, <2>3, <3>1, <3>3, ShiftFlow
        <3> QED
            BY <2>1, <3>2, <3>4
    <2> QED
        BY <1>1, <2>2, <2>3
<1>9. /\ \A s \in Streams : Calm(s)' <=> Calm(s)
      /\ \A d \in Ends, s \in Streams : Calm(s)' => <<d, s>> \notin disorder'
    BY <1>2, CalmStays
<1>10. \A s \in Dns : Calm(s)' => Routed(s)'
    BY <1>7, <1>9 DEF Streams
<1> QED
    BY <1>1, <1>2, <1>6, <1>8, <1>9, <1>10 DEF OrderInv

\* pump on the ctrl connection learns the stream of a data frame and forgets
\* that of a FIN.
LEMMA PumpCtrlOrder ==
    ASSUME OrderInv, SynInv', NEW e \in Ends, PumpCtrl(e)
    PROVE  OrderInv'
<1> DEFINE p == Peer(e)
           f == Head(ctrl[p])
<1>1. /\ SplitTypes /\ SplitTypes' /\ p \in Ends /\ p # e /\ Peer(p) = e
      /\ Way(p) \in Ways /\ Way(p)' \in Ways
      /\ \A d \in Ends : d = e \/ d = p
    BY WayIs, WayWas, EndsPeer DEF OrderInv, SynInv
<1>2. /\ UNCHANGED <<q, data, table, accepts, sent, rcv, closed, gotFin>>
      /\ UNCHANGED <<rejected, disorder>>
    BY DEF PumpCtrl, appVars, rcvVars
<1>3. /\ ctrl[p] # <<>> /\ ctrl[p] \in Seq(Frames) /\ ch[e] \in Seq(Frames) /\ f \in Frames
      /\ ch'[e] = Append(ch[e], f) /\ ch'[p] = ch[p]
      /\ ctrl'[p] = Tail(ctrl[p]) /\ ctrl'[e] = ctrl[e]
      /\ ctrlStreams'[e] = Learned(ctrlStreams[e], f) /\ ctrlStreams'[p] = ctrlStreams[p]
    <2> HIDE DEF p
    <2>1. /\ ctrl[p] # <<>> /\ ch' = [ch EXCEPT ![e] = Append(@, f)]
          /\ ctrl' = [ctrl EXCEPT ![p] = Tail(@)]
          /\ ctrlStreams' = [ctrlStreams EXCEPT ![e] = Learned(@, f)]
        BY DEF PumpCtrl, p
    <2>2. ctrl[p] \in Seq(Frames) /\ ch[e] \in Seq(Frames)
        BY <1>1 DEF SplitTypes
    <2>3. f \in Frames
        BY <2>1, <2>2
    <2> HIDE DEF f
    <2> QED
        BY <1>1, <2>1, <2>2, <2>3 DEF SplitTypes
<1>4. Shift(Way(p), Way(p)', 1, 2) /\ Way(e)' = Way(e) /\ Way(p)[2] = ctrl[p]
    <2>1. Way(e)' = Way(e)
        BY <1>2, <1>3 DEF Way
    <2> HIDE DEF p
    <2>2. /\ Way(p)[1] = ch[e] /\ Way(p)[2] = ctrl[p] /\ Way(p)[3] = data[p]
          /\ Way(p)[4] = q[p]["PSH"] /\ Way(p)[5] = q[p]["FIN"]
          /\ Way(p)'[1] = ch'[e] /\ Way(p)'[2] = ctrl'[p] /\ Way(p)'[3] = data[p]
          /\ Way(p)'[4] = q[p]["PSH"] /\ Way(p)'[5] = q[p]["FIN"]
        BY <1>1, <1>2, WayIs, WayWas
    <2>3. Shift(Way(p), Way(p)', 1, 2)
        BY <1>3, <2>2, FiveStages DEF Shift
    <2> QED
        BY <2>1, <2>2, <2>3
<1>5. ASSUME NEW s \in Streams
      PROVE  /\ HasSyn(ctrl'[p], s) => HasSyn(ctrl[p], s)
             /\ HasSyn(ch'[e], s) => HasSyn(ch[e], s) \/ HasSyn(ctrl[p], s)
             /\ HasBody(ctrl'[p], s) => HasBody(ctrl[p], s)
             /\ Nums(ch'[e], s) # {} => Nums(ch[e], s) # {} \/ (f.cmd = "PSH" /\ f.sid = s)
             /\ f.cmd # "SYN" /\ f.sid = s => HasBody(ctrl[p], s)
             /\ f.cmd = "FIN" /\ f.sid = s => s \in closed[p]
    <2> HIDE DEF p
    <2>1. /\ HasSyn(ctrl[p], s) <=> HasSyn(ctrl'[p], s) \/ (f.cmd = "SYN" /\ f.sid = s)
          /\ HasBody(ctrl[p], s) <=> HasBody(ctrl'[p], s) \/ (f.cmd # "SYN" /\ f.sid = s)
          /\ f.cmd = "FIN" /\ f.sid = s => HasFin(ctrl[p], s)
        BY <1>3, TailFrame, TailBody
    <2> HIDE DEF f
    <2>2. HasSyn(ch'[e], s) <=> HasSyn(ch[e], s) \/ (f.cmd = "SYN" /\ f.sid = s)
        BY <1>3, AppendFrame
    <2>3. f.cmd # "PSH" \/ f.sid # s => Nums(ch'[e], s) = Nums(ch[e], s)
        BY <1>3, AppendBody
    <2>4. HasFin(ctrl[p], s) => s \in closed[p]
        <3>1. FinsAreClosed(p, s) /\ 2 \in Stages
            BY <1>1, FiveStages DEF OrderInv
        <3> QED
            BY <1>4, <3>1 DEF FinsAreClosed
    <2> QED
        BY <2>1, <2>2, <2>3, <2>4
<1> HIDE DEF p, f
<1>6. ASSUME NEW s \in Streams PROVE LifeOf(s)'
    <2>1. SynOut(s)' => SynOut(s)
        <3>1. Opener(s) \in Ends /\ Acceptor(s) = Peer(Opener(s))
            BY EndsPeer
        <3>2. CASE Opener(s) = p
            BY <1>1, <1>2, <1>5, <3>1, <3>2 DEF SynOut
        <3>3. CASE Opener(s) = e
            BY <1>2, <1>3, <3>1, <3>3 DEF SynOut, p
        <3> QED
            BY <1>1, <3>1, <3>2, <3>3
    <2> QED
        BY <1>2, <2>1, LifeStays DEF OrderInv
<1>7. ASSUME NEW s \in Dns, Calm(s) PROVE Routed(s)'
    <2>1. s \in Streams /\ Routed(s)
        BY <1>7 DEF OrderInv, Streams
    <2>2. \A d \in Ends : Queued(d, s)' <=> Queued(d, s)
        BY <1>2 DEF Queued
    <2>3. /\ Opener(s) \in Ends /\ Acceptor(s) \in Ends /\ Opener(s) # Acceptor(s)
          /\ Peer(Acceptor(s)) = Opener(s) /\ Peer(Opener(s)) = Acceptor(s)
        BY <2>1, EndsPeer
    <2>4. /\ f.cmd = "PSH" /\ f.sid = s => s \in ctrlStreams'[e]
          /\ s \in ctrlStreams[e] => s \in ctrlStreams'[e] \/ (f.cmd = "FIN" /\ f.sid = s)
        BY <1>3 DEF Learned
    <2>5. CASE e = Opener(s) /\ p = Acceptor(s)
        BY <1>2, <1>3, <1>5, <2>1, <2>2, <2>3, <2>4, <2>5 DEF Routed
    <2>6. CASE e = Acceptor(s) /\ p = Opener(s)
        BY <1>2, <1>3, <1>5, <2>1, <2>2, <2>3, <2>4, <2>6 DEF Routed
    <2> QED
        BY <1>1, <2>3, <2>5, <2>6
<1>8. ASSUME NEW w \in Ends, NEW s \in Streams
      PROVE  FinsAreClosed(w, s)' /\ DnsOnly(w, s)' /\ (Calm(s) => Flow(w, s)')
    <2>0. FinsAreClosed(w, s) /\ DnsOnly(w, s) /\ (Calm(s) => Flow(w, s))
        BY DEF OrderInv
    <2>1. DnsOnly(e, s)' /\ DnsOnly(p, s)'
        <3>1. DnsOnly(e, s) /\ DnsOnly(p, s)
            BY <1>1 DEF OrderInv
        <3>2. s \in ctrlStreams'[e] => s \in ctrlStreams[e] \/ (f.cmd = "PSH" /\ f.sid = s)
            BY <1>3 DEF Learned
        <3> QED
            BY <1>3, <1>5, <3>1, <3>2 DEF DnsOnly
    <2>2. CASE w = e
        BY <1>2, <1>4, <2>0, <2>1, <2>2 DEF FinsAreClosed, Flow
    <2>3. CASE w = p
        <3>1. 1 \in Stages /\ 2 \in Stages /\ 1 < 2 /\ 1 # 5 /\ ~\E m \in Stages : 1 < m /\ m < 2
            BY FiveStages
        <3>2. FinsAreClosed(w, s)'
            BY <1>1, <1>2, <1>4, <2>3, <3>1, ShiftFins
        <3>3. Calm(s) => Flow(w, s)'
            BY <1>1, <1>2, <1>4, <2>3, <3>1, ShiftFlow
        <3> QED
            BY <2>1, <2>3, <3>2, <3>3
    <2> QED
        BY <1>1, <2>2, <2>3
<1>9. /\ \A s \in Streams : Calm(s)' <=> Calm(s)
      /\ \A d \in Ends, s \in Streams : Calm(s)' => <<d, s>> \notin disorder'
    BY <1>2, CalmStays
<1>10. \A s \in Dns : Calm(s)' => Routed(s)'
    BY <1>7, <1>9 DEF Streams
<1> QED
    BY <1>1, <1>2, <1>6, <1>8, <1>9, <1>10 DEF OrderInv

-----------------------------------------------------------------------------
(* The steps of smux.                                                      *)

\* The head of the merged channel, and what smux does with it.
Took(e, f) ==
    LET t == f.sid
    IN /\ ch[e] # <<>> /\ f = Head(ch[e]) /\ ch' = [ch EXCEPT ![e] = Tail(@)]
       /\ \/ /\ f.cmd = "SYN" /\ t \notin table[e]
             /\ table' = [table EXCEPT ![e] = @ \cup {t}]
             /\ accepts' = [accepts EXCEPT ![e][t] = @ + 1]
             /\ rcv' = [rcv EXCEPT ![e][t] = 0] /\ UNCHANGED <<gotFin, disorder>>
          \/ /\ f.cmd = "PSH" /\ t \in table[e] /\ rcv' = [rcv EXCEPT ![e][t] = @ + 1]
             /\ \/ disorder' = disorder
                \/ /\ f.n # rcv[e][t] + 1 /\ disorder' = disorder \cup {<<e, t>>}
             /\ UNCHANGED <<table, accepts, gotFin>>
          \/ /\ f.cmd = "FIN" /\ t \in table[e] /\ gotFin' = [gotFin EXCEPT ![e] = @ \cup {t}]
             /\ \/ disorder' = disorder
                \/ /\ rcv[e][t] < sent[Peer(e)][t] /\ disorder' = disorder \cup {<<e, t>>}
             /\ UNCHANGED <<table, accepts, rcv>>
          \/ /\ f.cmd = "SYN" <=> t \in table[e]
             /\ UNCHANGED <<table, accepts, rcv, gotFin, disorder>>

\* A receiver takes the frame at the head of its channel.
LEMMA RecvTakes ==
    ASSUME SynInv, NEW e \in Ends, Recv(e)
    PROVE  /\ \E f \in Frames : Took(e, f)
           /\ UNCHANGED <<q, data, ctrl, ctrlStreams, sent, closed, rejected>>
<1>1. ch[e] # <<>> /\ ch[e] \in Seq(Frames)
    BY DEF SynInv, SplitTypes, Recv, RecvSyn, RecvPsh, RecvFin
<1> DEFINE f == Next1(e)
<1>2. f \in Frames
    BY <1>1 DEF Next1
<1>3. UNCHANGED <<q, data, ctrl, ctrlStreams, sent, closed, rejected>>
    BY DEF Recv, RecvSyn, RecvPsh, RecvFin, appVars
<1>4. CASE RecvSyn(e)
    <2>1. Took(e, f)
        BY <1>1, <1>4 DEF RecvSyn, Took, Next1
    <2> QED
        BY <1>2, <1>3, <2>1
<1>5. CASE RecvPsh(e)
    <2>1. Took(e, f)
        BY <1>1, <1>5 DEF RecvPsh, Took, Next1
    <2> QED
        BY <1>2, <1>3, <2>1
<1>6. CASE RecvFin(e)
    <2>1. Took(e, f)
        BY <1>1, <1>6 DEF RecvFin, Took, Next1
    <2> QED
        BY <1>2, <1>3, <2>1
<1> QED
    BY <1>4, <1>5, <1>6 DEF Recv

\* A frame is a SYN, data or a FIN.
LEMMA FrameCmds == \A f \in Frames : f.cmd \in {"SYN", "PSH", "FIN"} /\ f.sid \in Streams
BY DEF Frames, Cmds

\* What the tables of stream s become.
LEMMA TookTables ==
    ASSUME SplitTypes, NEW e \in Ends, NEW f \in Frames, Took(e, f), NEW s \in Streams, NEW d \in Ends
    PROVE  /\ d # e \/ f.sid # s \/ (f.cmd = "SYN" /\ s \in table[e])
                \/ (f.cmd # "SYN" /\ s \notin table[e])
              => /\ s \in table'[d] <=> s \in table[d]
                 /\ accepts'[d][s] = accepts[d][s] /\ rcv'[d][s] = rcv[d][s]
           /\ f.sid = s /\ f.cmd = "SYN" /\ s \notin table[e] =>
                s \in table'[e] /\ accepts'[e][s] = accepts[e][s] + 1 /\ rcv'[e][s] = 0
           /\ f.sid = s /\ f.cmd = "PSH" /\ s \in table[e] =>
                s \in table'[e] /\ accepts'[e][s] = accepts[e][s] /\ rcv'[e][s] = rcv[e][s] + 1
           /\ f.sid = s /\ f.cmd = "FIN" /\ s \in table[e] =>
                s \in table'[e] /\ accepts'[e][s] = accepts[e][s] /\ rcv'[e][s] = rcv[e][s]
<1>1. /\ table \in [Ends -> SUBSET Streams] /\ accepts \in [Ends -> [Streams -> Nat]]
      /\ rcv \in [Ends -> [Streams -> Nat]] /\ f.sid \in Streams
    BY DEF SplitTypes, Frames
<1>2. CASE f.cmd = "SYN" /\ f.sid \notin table[e]
    <2>1. /\ table' = [table EXCEPT ![e] = @ \cup {f.sid}]
          /\ accepts' = [accepts EXCEPT ![e][f.sid] = @ + 1]
          /\ rcv' = [rcv EXCEPT ![e][f.sid] = 0]
        BY <1>2 DEF Took
    <2>2. s \in table'[d] <=> s \in table[d] \/ (d = e /\ f.sid = s)
        BY <1>1, <2>1
    <2>3. accepts'[d][s] = IF d = e /\ f.sid = s THEN accepts[d][s] + 1 ELSE accepts[d][s]
        BY <1>1, <2>1
    <2>4. rcv'[d][s] = IF d = e /\ f.sid = s THEN 0 ELSE rcv[d][s]
        BY <1>1, <2>1
    <2>5. s \in table'[e] <=> s \in table[e] \/ f.sid = s
        BY <1>1, <2>1
    <2>6. f.sid = s => accepts'[e][s] = accepts[e][s] + 1 /\ rcv'[e][s] = 0
        BY <1>1, <2>1
    <2> QED
        BY <1>2, <2>2, <2>3, <2>4, <2>5, <2>6
<1>3. CASE f.cmd = "PSH" /\ f.sid \in table[e]
    <2>1. table' = table /\ accepts' = accepts /\ rcv' = [rcv EXCEPT ![e][f.sid] = @ + 1]
        BY <1>3 DEF Took
    <2>2. rcv'[d][s] = IF d = e /\ f.sid = s THEN rcv[d][s] + 1 ELSE rcv[d][s]
        BY <1>1, <2>1
    <2>3. f.sid = s => rcv'[e][s] = rcv[e][s] + 1
        BY <1>1, <2>1
    <2> QED
        BY <1>3, <2>1, <2>2, <2>3
<1>4. CASE ~(f.cmd = "SYN" /\ f.sid \notin table[e]) /\ ~(f.cmd = "PSH" /\ f.sid \in table[e])
    <2>1. table' = table /\ accepts' = accepts /\ rcv' = rcv
        BY <1>4 DEF Took
    <2> QED
        BY <1>4, <2>1
<1> QED
    BY <1>2, <1>3, <1>4

\* The life of each stream.
LEMMA TookLife ==
    ASSUME OrderInv, NEW e \in Ends, NEW f \in Frames, Took(e, f), NEW s \in Streams,
           UNCHANGED <<q, data, ctrl, sent, closed>>
    PROVE  LifeOf(s)'
<1> DEFINE o == Opener(s)
           a == Acceptor(s)
<1>1. /\ o \in Ends /\ a \in Ends /\ o # a /\ \A d \in Ends : d = o \/ d = a
    BY EndsPeer DEF Acceptor
<1>2. SplitTypes /\ LifeOf(s) /\ OwnSyn(s)
    BY DEF OrderInv, SynInv
<1>3. /\ accepts[a][s] \in Nat /\ ch[e] \in Seq(Frames) /\ ch[e] # <<>> /\ f = Head(ch[e])
      /\ ch'[e] = Tail(ch[e]) /\ \A d \in Ends \ {e} : ch'[d] = ch[d]
    BY <1>1, <1>2 DEF SplitTypes, Took
<1>4. HasSyn(ch[e], s) <=> HasSyn(ch'[e], s) \/ (f.cmd = "SYN" /\ f.sid = s)
    BY <1>3, TailFrame
<1>5. f.cmd = "SYN" /\ f.sid = s => e = a /\ HasSyn(ch[a], s)
    BY <1>1, <1>2, <1>4 DEF OwnSyn
<1>6. HasSyn(ch'[a], s) => HasSyn(ch[a], s)
    BY <1>1, <1>3, <1>4
<1>7. /\ s \in table'[o] <=> s \in table[o]
      /\ accepts'[o][s] = accepts[o][s]
    BY <1>1, <1>2, <1>5, TookTables, FrameCmds
<1>8. /\ s \in table[a] => s \in table'[a]
      /\ \/ /\ s \in table'[a] <=> s \in table[a]
            /\ accepts'[a][s] = accepts[a][s]
            /\ rcv'[a][s] = rcv[a][s] \/ s \in table[a]
         \/ /\ s \notin table[a] /\ s \in table'[a] /\ HasSyn(ch[a], s)
            /\ accepts'[a][s] = accepts[a][s] + 1
    BY <1>1, <1>2, <1>5, TookTables, FrameCmds
<1> HIDE DEF o, a
<1>9. /\ accepts[o][s] = 0
      /\ accepts[a][s] = 0 => /\ s \notin table[a] /\ s \notin closed[a]
                              /\ sent[a][s] = 0 /\ rcv[a][s] = 0
      /\ \/ accepts[a][s] > 0 \/ HasSyn(ch[a], s) \/ HasSyn(ctrl[o], s)
         \/ HasSyn(data[o], s) \/ \E c \in Cmds : HasSyn(q[o][c], s)
         => s \in table[o] \cup closed[o]
      /\ s \in table[o] => s \notin closed[o]
      /\ accepts[a][s] > 0 => s \in table[a] \cup closed[a]
      /\ accepts[a][s] <= 1 /\ s \in closed[a] => s \notin table[a]
    BY <1>2 DEF LifeOf, o, a
<1>10. accepts'[a][s] = 0 => /\ s \notin table'[a] /\ s \notin closed[a]
                             /\ sent[a][s] = 0 /\ rcv'[a][s] = 0
    BY <1>3, <1>8, <1>9
<1>11. \/ accepts'[a][s] > 0 \/ HasSyn(ch'[a], s) \/ HasSyn(ctrl[o], s)
       \/ HasSyn(data[o], s) \/ \E c \in Cmds : HasSyn(q[o][c], s)
       => s \in table'[o] \cup closed[o]
    BY <1>3, <1>6, <1>7, <1>8, <1>9
<1>12. /\ accepts'[a][s] > 0 => s \in table'[a] \cup closed[a]
       /\ accepts'[a][s] <= 1 /\ s \in closed[a] => s \notin table'[a]
    BY <1>3, <1>8, <1>9
<1> QED
    BY <1>7, <1>9, <1>10, <1>11, <1>12 DEF LifeOf, o, a

\* A frame of a stream that its reader has not closed finds it open.
LEMMA HeadIsOpen ==
    ASSUME OrderInv, NEW e \in Ends, NEW s \in Streams, Calm(s), s \notin closed[e],
           ch[e] # <<>>, Body(Head(ch[e]), s)
    PROVE  s \in table[e]
<1> DEFINE w == Peer(e)
           h == Head(ch[e])
<1>1. /\ w \in Ends /\ Peer(w) = e /\ SplitTypes /\ LifeOf(s) /\ Flow(w, s) /\ FinsAreClosed(w, s)
      /\ e = Opener(s) \/ e = Acceptor(s)
    BY EndsPeer DEF OrderInv, SynInv, Acceptor
<1>2. Way(w) \in Ways /\ Way(w)[1] = ch[e] /\ 1 \in Stages /\ ch[e] \in Seq(Frames)
    <2>1. ch[e] \in Seq(Frames)
        BY <1>1 DEF SplitTypes
    <2> HIDE DEF w
    <2>2. Way(w) \in Ways /\ Way(w)[1] = ch[e]
        BY <1>1, WayIs
    <2> QED
        BY <2>1, <2>2, FiveStages
<1>3. CASE e = Acceptor(s)
    <2>1. SUFFICES ASSUME accepts[e][s] = 0 PROVE FALSE
        BY <1>1, <1>3 DEF LifeOf, SplitTypes
    <2>2. SynFirst(ch[e], s)
        BY <1>3, <2>1 DEF OrderInv, SynInv, Announced
    <2> QED
        BY <1>2, <2>2, TailFrame DEF Body
<1>4. CASE e = Opener(s)
    <2>1. w = Acceptor(s) /\ w # e
        BY <1>4, EndsPeer
    <2>2. SUFFICES ASSUME accepts[w][s] = 0 PROVE FALSE
        <3>1. accepts[w][s] \in Nat
            BY <1>1 DEF SplitTypes
        <3> QED
            BY <1>1, <1>4, <2>1, <3>1 DEF LifeOf
    <2>3. s \notin closed[w] /\ sent[w][s] = 0 /\ rcv[e][s] \in Nat
        BY <1>1, <2>1, <2>2 DEF LifeOf, SplitTypes
    <2>4. HasFin(ch[e], s) \/ Nums(ch[e], s) # {}
        BY <1>2, TailFrame, NoBody DEF Body
    <2>5. ~HasFin(ch[e], s)
        BY <1>1, <1>2, <2>3 DEF FinsAreClosed
    <2>6. PICK n : n \in Nums(ch[e], s)
        BY <2>4, <2>5
    <2>7. n \in Int /\ rcv[e][s] < n /\ n <= 0
        BY <1>1, <1>2, <2>3, <2>6, NumsInt DEF Flow, Whole
    <2> QED
        BY <2>3, <2>7
<1> QED
    BY <1>1, <1>3, <1>4

\* What a step of smux leaves alone, on the ways of both ends.
LEMMA TookWay ==
    ASSUME SplitTypes, SplitTypes', NEW e \in Ends, NEW f \in Frames, Took(e, f),
           UNCHANGED <<q, data, ctrl>>
    PROVE  LET w == Peer(e)
           IN /\ w \in Ends /\ w # e /\ Peer(w) = e
              /\ ch[e] \in Seq(Frames) /\ ch[e] # <<>> /\ f = Head(ch[e])
              /\ ch'[e] = Tail(ch[e]) /\ ch'[w] = ch[w]
              /\ Way(w) \in Ways /\ Way(w)' \in Ways /\ Way(e)' = Way(e)
              /\ Way(w)[1] = ch[e] /\ Way(w)'[1] = Tail(Way(w)[1])
              /\ \A m \in Stages \ {1} : Way(w)'[m] = Way(w)[m]
<1> DEFINE w == Peer(e)
<1>1. w \in Ends /\ w # e /\ Peer(w) = e
    BY EndsPeer
<1>2. /\ ch[e] \in Seq(Frames) /\ ch[e] # <<>> /\ f = Head(ch[e])
      /\ ch'[e] = Tail(ch[e]) /\ ch'[w] = ch[w]
    <2>1. ch \in [Ends -> Seq(Frames)]
        BY DEF SplitTypes
    <2>2. ch[e] # <<>> /\ f = Head(ch[e]) /\ ch' = [ch EXCEPT ![e] = Tail(@)]
        BY DEF Took
    <2> HIDE DEF w
    <2> QED
        BY <1>1, <2>1, <2>2
<1>3. Way(e)' = Way(e)
    BY <1>2 DEF Way
<1> HIDE DEF w
<1>4. /\ Way(w) \in Ways /\ Way(w)' \in Ways
      /\ Way(w)[1] = ch[e] /\ Way(w)[2] = ctrl[w] /\ Way(w)[3] = data[w]
      /\ Way(w)[4] = q[w]["PSH"] /\ Way(w)[5] = q[w]["FIN"]
      /\ Way(w)'[1] = ch'[e] /\ Way(w)'[2] = ctrl[w] /\ Way(w)'[3] = data[w]
      /\ Way(w)'[4] = q[w]["PSH"] /\ Way(w)'[5] = q[w]["FIN"]
    BY <1>1, WayIs, WayWas
<1>5. \A m \in Stages \ {1} : Way(w)'[m] = Way(w)[m]
    BY <1>4, FiveStages
<1> QED
    BY <1>1, <1>2, <1>3, <1>4, <1>5 DEF w

\* FINs are written by Close, and DNS streams alone use ctrl.
LEMMA TookFins ==
    ASSUME OrderInv, SplitTypes', NEW e \in Ends, NEW f \in Frames, Took(e, f),
           UNCHANGED <<q, data, ctrl, ctrlStreams, closed>>, NEW d \in Ends, NEW s \in Streams
    PROVE  FinsAreClosed(d, s)' /\ DnsOnly(d, s)'
<1> DEFINE w == Peer(e)
<1>1. /\ SplitTypes /\ FinsAreClosed(d, s) /\ DnsOnly(d, s)
      /\ gotFin \in [Ends -> SUBSET Streams] /\ (d = e \/ d = w) /\ 1 \in Stages
    BY EndsPeer, FiveStages DEF OrderInv, SynInv
<1>2. /\ w \in Ends /\ w # e /\ Peer(w) = e
      /\ ch[e] \in Seq(Frames) /\ ch[e] # <<>> /\ f = Head(ch[e])
      /\ Way(e)' = Way(e) /\ Way(w)[1] = ch[e] /\ Way(w)'[1] = Tail(Way(w)[1])
      /\ \A m \in Stages \ {1} : Way(w)'[m] = Way(w)[m]
    BY <1>1, TookWay
<1>3. DnsOnly(d, s)'
    BY <1>1 DEF DnsOnly
<1>4. /\ gotFin'[w] = gotFin[w]
      /\ s \in gotFin'[e] => s \in gotFin[e] \/ (f.cmd = "FIN" /\ f.sid = s)
    <2>1. \/ gotFin' = gotFin
          \/ f.cmd = "FIN" /\ gotFin' = [gotFin EXCEPT ![e] = @ \cup {f.sid}]
        BY DEF Took
    <2> HIDE DEF w
    <2> QED
        BY <1>1, <1>2, <2>1
<1>5. CASE d = e
    BY <1>1, <1>2, <1>3, <1>4, <1>5 DEF FinsAreClosed
<1> HIDE DEF w
<1>6. CASE d = w
    <2>1. /\ HasFin(Way(w)'[1], s) => HasFin(Way(w)[1], s)
          /\ f.cmd = "FIN" /\ f.sid = s => HasFin(Way(w)[1], s)
        BY <1>2, TailBody
    <2>2. \A k \in Stages : HasFin(Way(w)'[k], s) => s \in closed[w]
        BY <1>1, <1>2, <1>6, <2>1 DEF FinsAreClosed
    <2>3. s \in gotFin'[e] => s \in closed[w]
        BY <1>1, <1>2, <1>4, <1>6, <2>1 DEF FinsAreClosed
    <2> QED
        BY <1>1, <1>2, <1>3, <1>6, <2>2, <2>3 DEF FinsAreClosed
<1> QED
    BY <1>1, <1>5, <1>6

\* The route of each DNS stream.
LEMMA TookRoute ==
    ASSUME OrderInv, SplitTypes', NEW e \in Ends, NEW f \in Frames, Took(e, f), NEW s \in Dns,
           UNCHANGED <<q, data, ctrl, ctrlStreams, closed>>, Calm(s)
    PROVE  Routed(s)'
<1> DEFINE o == Opener(s)
           a == Acceptor(s)
<1>1. /\ s \in Streams /\ SplitTypes /\ Routed(s) /\ OwnSyn(s)
      /\ o \in Ends /\ a \in Ends /\ o # a
    BY EndsPeer DEF OrderInv, SynInv, Streams
<1>2. /\ ch[e] \in Seq(Frames) /\ ch[e] # <<>> /\ f = Head(ch[e])
      /\ ch'[e] = Tail(ch[e]) /\ \A d \in Ends \ {e} : ch'[d] = ch[d]
    BY <1>1, TookWay, EndsPeer
<1>3. /\ Nums(ch'[e], s) \subseteq Nums(ch[e], s)
      /\ f.cmd = "PSH" /\ f.sid = s => Nums(ch[e], s) # {}
      /\ f.cmd = "SYN" /\ f.sid = s => HasSyn(ch[e], s)
    <2>1. f.cmd = "SYN" /\ f.sid = s => HasSyn(ch[e], s)
        BY <1>1, <1>2, TailFrame
    <2>2. /\ f.cmd = "PSH" /\ f.sid = s => Nums(ch[e], s) = Nums(ch'[e], s) \cup {f.n}
          /\ f.cmd # "PSH" \/ f.sid # s => Nums(ch[e], s) = Nums(ch'[e], s)
        BY <1>1, <1>2, TailBody
    <2> QED
        BY <2>1, <2>2
<1>4. s \in table'[o] => s \in table[o]
    <2>1. ~(e = o /\ f.cmd = "SYN" /\ f.sid = s)
        BY <1>1, <1>3 DEF OwnSyn
    <2> QED
        BY <1>1, <2>1, TookTables, FrameCmds
<1>5. Nums(ch'[a], s) # {} \/ rcv'[a][s] > 0 => Nums(ch[a], s) # {} \/ rcv[a][s] > 0
    <2>1. Nums(ch'[a], s) \subseteq Nums(ch[a], s)
        BY <1>1, <1>2, <1>3
    <2>2. rcv'[a][s] > 0 => rcv[a][s] > 0 \/ (a = e /\ f.cmd = "PSH" /\ f.sid = s)
        BY <1>1, TookTables, FrameCmds
    <2> QED
        BY <1>3, <2>1, <2>2
<1>6. \A d \in Ends : Queued(d, s)' <=> Queued(d, s)
    BY DEF Queued
<1> QED
    BY <1>1, <1>4, <1>5, <1>6 DEF Routed

\* The flow of a stream and what its reader has seen of it.
LEMMA TookFlow ==
    ASSUME OrderInv, SplitTypes', NEW e \in Ends, NEW f \in Frames, Took(e, f),
           UNCHANGED <<q, data, ctrl, sent, closed>>, NEW s \in Streams, Calm(s), Calm(s)'
    PROVE  \A d \in Ends : Flow(d, s)' /\ <<d, s>> \notin disorder'
<1> DEFINE w == Peer(e)
           lo == rcv[e][s]
           hi == sent[w][s]
<1>1. /\ SplitTypes /\ LifeOf(s) /\ OwnSyn(s) /\ Flow(w, s) /\ Flow(e, s)
      /\ \A d \in Ends : (d = e \/ d = w) /\ <<d, s>> \notin disorder
    BY EndsPeer DEF OrderInv, SynInv
<1>2. /\ w \in Ends /\ w # e /\ Peer(w) = e
      /\ ch[e] \in Seq(Frames) /\ ch[e] # <<>> /\ f = Head(ch[e])
      /\ Way(w) \in Ways /\ Way(w)' \in Ways /\ Way(e)' = Way(e)
      /\ Way(w)[1] = ch[e] /\ Way(w)'[1] = Tail(Way(w)[1])
      /\ \A m \in Stages \ {1} : Way(w)'[m] = Way(w)[m]
    BY <1>1, TookWay
<1>3. lo \in Nat /\ hi \in Nat
    BY <1>1, <1>2 DEF SplitTypes
<1>4. rcv'[w][s] = rcv[w][s]
    BY <1>1, <1>2, TookTables
<1>5. Flow(e, s)'
    BY <1>1, <1>2, <1>4 DEF Flow
<1> HIDE DEF w
<1>6. ASSUME s \notin closed[e]
      PROVE  /\ Aligned(Way(w)', s) /\ Whole(Way(w)', rcv'[e][s], hi, s)
             /\ f.cmd = "PSH" /\ f.sid = s => f.n = lo + 1
             /\ f.cmd = "FIN" /\ f.sid = s => lo = hi
    <2>1. Aligned(Way(w), s) /\ Whole(Way(w), lo, hi, s)
        BY <1>1, <1>2, <1>6 DEF Flow
    <2>2. f.cmd # "SYN" /\ f.sid = s => s \in table[e]
        BY <1>2, <1>6, HeadIsOpen DEF Body
    <2>3. f.cmd = "SYN" /\ f.sid = s /\ s \notin table[e] => lo = 0
        <3> SUFFICES ASSUME f.cmd = "SYN", f.sid = s, s \notin table[e] PROVE lo = 0
            OBVIOUS
        <3>1. HasSyn(ch[e], s)
            BY <1>2, TailFrame
        <3>2. e = Acceptor(s)
            BY <1>1, <3>1, EndsPeer DEF OwnSyn, Acceptor
        <3>3. accepts'[e][s] = accepts[e][s] + 1 /\ accepts'[e][s] <= 1 /\ accepts[e][s] \in Nat
            BY <1>1, TookTables DEF Calm, SplitTypes
        <3>4. accepts[e][s] = 0
            BY <3>3
        <3> QED
            BY <1>1, <3>2, <3>4 DEF LifeOf
    <2>4. /\ f.cmd = "PSH" /\ f.sid = s => rcv'[e][s] = lo + 1
          /\ f.cmd # "PSH" \/ f.sid # s => rcv'[e][s] = lo
        BY <1>1, <2>2, <2>3, TookTables, FrameCmds
    <2> HIDE DEF lo, hi
    <2>5. /\ Aligned(Way(w)', s)
          /\ f.cmd # "PSH" \/ f.sid # s => Whole(Way(w)', lo, hi, s)
          /\ f.cmd = "PSH" /\ f.sid = s => f.n = lo + 1 /\ Whole(Way(w)', lo + 1, hi, s)
          /\ f.cmd = "FIN" /\ f.sid = s => lo = hi
        BY <1>2, <1>3, <2>1, WayTake
    <2> QED
        BY <2>4, <2>5
<1>7. Flow(w, s)'
    BY <1>2, <1>6 DEF Flow
<1>8. <<e, f.sid>> \in disorder' /\ f.sid = s => <<e, s>> \in disorder
    <2> SUFFICES ASSUME f.sid = s, disorder' # disorder PROVE FALSE
        OBVIOUS
    <2>1. /\ s \in table[e]
          /\ \/ f.cmd = "PSH" /\ f.n # lo + 1
             \/ f.cmd = "FIN" /\ lo < hi
        BY DEF Took, w
    <2>2. s \notin closed[e]
        BY <2>1, UsedIsOpen
    <2> QED
        BY <1>3, <1>6, <2>1, <2>2
<1>9. \A d \in Ends : <<d, s>> \in disorder' => <<d, s>> \in disorder
    <2>1. disorder' = disorder \/ disorder' = disorder \cup {<<e, f.sid>>}
        BY DEF Took
    <2> QED
        BY <1>8, <2>1
<1> QED
    BY <1>1, <1>5, <1>7, <1>9

\* smux's receive loop.
LEMMA RecvOrder ==
    ASSUME OrderInv, SynInv', NEW e \in Ends, Recv(e)
    PROVE  OrderInv'
<1>1. /\ SynInv /\ SplitTypes /\ SplitTypes' /\ gotFin \in [Ends -> SUBSET Streams]
    BY DEF OrderInv, SynInv
<1>2. UNCHANGED <<q, data, ctrl, ctrlStreams, sent, closed, rejected>>
    BY <1>1, RecvTakes
<1>3. PICK f \in Frames : Took(e, f)
    BY <1>1, RecvTakes
<1>4. ASSUME NEW s \in Streams, Calm(s)' PROVE Calm(s)
    <2>1. \A d \in Ends : accepts'[d][s] >= accepts[d][s]
        <3>1. ASSUME NEW d \in Ends PROVE accepts'[d][s] >= accepts[d][s]
            <4>1. accepts[d][s] \in Nat /\ accepts[e][s] \in Nat
                BY <1>1 DEF SplitTypes
            <4>2. accepts'[d][s] = accepts[d][s] \/ accepts'[d][s] = accepts[d][s] + 1
                BY <1>1, <1>3, TookTables, FrameCmds
            <4> QED
                BY <4>1, <4>2
        <3> QED
            BY <3>1
    <2> QED
        BY <1>1, <1>2, <1>4, <2>1, CalmBefore
<1>5. gotFin' \in [Ends -> SUBSET Streams]
    <2>1. gotFin' = gotFin \/ gotFin' = [gotFin EXCEPT ![e] = @ \cup {f.sid}]
        BY <1>3 DEF Took
    <2> QED
        BY <1>1, <2>1, FrameCmds
<1>6. \A s \in Streams : LifeOf(s)'
    BY <1>2, <1>3, TookLife
<1>7. \A d \in Ends, s \in Streams : FinsAreClosed(d, s)' /\ DnsOnly(d, s)'
    BY <1>1, <1>2, <1>3, TookFins
<1>8. \A s \in Dns : Calm(s)' => Routed(s)'
    BY <1>1, <1>2, <1>3, <1>4, TookRoute DEF Streams
<1>9. \A d \in Ends, s \in Streams : Calm(s)' => Flow(d, s)' /\ <<d, s>> \notin disorder'
    BY <1>1, <1>2, <1>3, <1>4, TookFlow
<1> QED
    BY <1>5, <1>6, <1>7, <1>8, <1>9 DEF OrderInv

-----------------------------------------------------------------------------
(* The invariant and the theorem.                                          *)

\* At first nothing is on the way.
LEMMA OrderInit == Init => OrderInv
<1> SUFFICES ASSUME Init PROVE OrderInv
    OBVIOUS
<1>1. SynInv
    BY SynInit
<1>2. \A e \in Ends :
        /\ ch[e] = <<>> /\ data[e] = <<>> /\ ctrl[e] = <<>> /\ \A c \in Cmds : q[e][c] = <<>>
        /\ ctrlStreams[e] = {} /\ table[e] = {} /\ closed[e] = {} /\ gotFin[e] = {}
        /\ \A s \in Streams : accepts[e][s] = 0 /\ sent[e][s] = 0 /\ rcv[e][s] = 0
    BY DEF Init, PerEnd, Cmds
<1>3. gotFin \in [Ends -> SUBSET Streams] /\ disorder = {}
    BY DEF Init, PerEnd
<1>4. \A s \in Streams : /\ Nums(<<>>, s) = {} /\ ~HasFin(<<>>, s) /\ Rising(<<>>, s)
                         /\ ~HasSyn(<<>>, s) /\ ~HasBody(<<>>, s)
    BY DEF Nums, HasFin, Rising, HasSyn, HasBody
<1>5. \A w \in Ends : /\ \A k \in Stages : Way(w)[k] = <<>>
                      /\ q[w].FIN = <<>>
    <2> SUFFICES ASSUME NEW w \in Ends PROVE /\ \A k \in Stages : Way(w)[k] = <<>>
                                             /\ q[w].FIN = <<>>
        OBVIOUS
    <2>1. /\ ch[Peer(w)] = <<>> /\ ctrl[w] = <<>> /\ data[w] = <<>>
          /\ q[w]["PSH"] = <<>> /\ q[w]["FIN"] = <<>>
        BY <1>2, EndsPeer DEF Cmds
    <2>2. /\ Way(w)[1] = ch[Peer(w)] /\ Way(w)[2] = ctrl[w] /\ Way(w)[3] = data[w]
          /\ Way(w)[4] = q[w]["PSH"] /\ Way(w)[5] = q[w]["FIN"]
        BY <1>1, WayIs DEF SynInv
    <2> QED
        BY <2>1, <2>2, FiveStages
<1>6. ASSUME NEW s \in Streams PROVE LifeOf(s)
    BY <1>2, <1>4, EndsPeer DEF LifeOf, Acceptor
<1>7. ASSUME NEW w \in Ends, NEW s \in Streams
      PROVE  FinsAreClosed(w, s) /\ DnsOnly(w, s) /\ Flow(w, s)
    <2>1. FinsAreClosed(w, s) /\ DnsOnly(w, s)
        BY <1>2, <1>4, <1>5, EndsPeer DEF FinsAreClosed, DnsOnly
    <2>2. Aligned(Way(w), s)
        BY <1>4, <1>5 DEF Aligned, Before
    <2>3. Whole(Way(w), 0, 0, s)
        BY <1>4, <1>5 DEF Whole
    <2> QED
        BY <1>2, <2>1, <2>2, <2>3, EndsPeer DEF Flow
<1>8. ASSUME NEW s \in Dns PROVE Routed(s)
    <2>1. s \in Streams /\ Opener(s) \in Ends /\ Acceptor(s) \in Ends
        BY EndsPeer DEF Streams
    <2>2. \A e \in Ends : ~Queued(e, s)
        BY <1>2, <1>4, <2>1 DEF Queued
    <2> QED
        BY <1>2, <1>4, <2>1, <2>2 DEF Routed
<1> QED
    BY <1>1, <1>3, <1>6, <1>7, <1>8 DEF OrderInv

\* Every step keeps the order.
LEMMA OrderNext == OrderInv /\ [Next]_vars => OrderInv'
<1> SUFFICES ASSUME OrderInv, [Next]_vars PROVE OrderInv'
    OBVIOUS
<1>1. SynInv /\ SplitTypes /\ SynInv'
    BY SynNext DEF OrderInv, SynInv
<1>2. ASSUME NEW e \in Ends, NetStep(e) PROVE OrderInv'
    BY <1>1, <1>2, DrainOrder, PumpDataOrder, PumpCtrlOrder, RecvOrder DEF NetStep
<1>3. ASSUME NEW e \in Ends, NEW t \in Streams,
             Open(t) \/ Send(e, t) \/ Reject(t) \/ CloseStream(e, t)
      PROVE  OrderInv'
    <2>1. PICK d \in Ends, f \in Frames : Wrote(d, f)
        BY <1>1, <1>3, UsersWrite
    <2> QED
        BY <1>1, <2>1, WroteKeeps
<1>4. ASSUME UNCHANGED vars PROVE OrderInv'
    <2>1. /\ q' = q /\ data' = data /\ ctrl' = ctrl /\ ch' = ch /\ ctrlStreams' = ctrlStreams
          /\ table' = table /\ accepts' = accepts /\ sent' = sent /\ rcv' = rcv
          /\ closed' = closed /\ gotFin' = gotFin /\ rejected' = rejected /\ disorder' = disorder
        BY <1>4 DEF vars, qVars, appVars, rcvVars
    <2>2. \A s \in Streams : /\ LifeOf(s)' <=> LifeOf(s)
                             /\ Calm(s)' <=> Calm(s)
                             /\ Routed(s)' <=> Routed(s)
        BY <2>1 DEF LifeOf, Calm, Routed, Queued
    <2>3. \A w \in Ends : Way(w)' = Way(w)
        BY <2>1 DEF Way
    <2>4. \A w \in Ends, s \in Streams : /\ FinsAreClosed(w, s)' <=> FinsAreClosed(w, s)
                                         /\ DnsOnly(w, s)' <=> DnsOnly(w, s)
                                         /\ Flow(w, s)' <=> Flow(w, s)
        BY <2>1, <2>3 DEF FinsAreClosed, DnsOnly, Flow
    <2> QED
        BY <1>1, <2>1, <2>2, <2>4 DEF OrderInv, Streams
<1>5. "client" \in Ends
    BY DEF Ends
<1> QED
    BY <1>2, <1>3, <1>4, <1>5 DEF Next

\* split_conn.go: data of a stream arrives in order, and all of it before its
\* FIN, though DNS streams change their connection when the other end learns
\* them: neither the queues of splitWriter nor the two pumps let a frame of a
\* stream overtake another, for every set of streams and every number of frames.
THEOREM DataArrivesInOrder == Spec => []DataBeforeFin
<1>1. OrderInv => DataBeforeFin
    BY DEF OrderInv, DataBeforeFin, Calm
<1> QED
    BY <1>1, OrderInit, OrderNext, PTL DEF Spec

---------------------------------------------------------------------------
(***************************************************************************)
(* The pool that runs over such connections: no SSH connection of it to    *)
(* the server is left without an owner, for every pool size, number of     *)
(* attempts and number of deaths, with jump hosts or without.              *)
(*                                                                         *)
(* ConnsOwned is not inductive: that Teardown leaves nothing behind needs  *)
(* the goroutines to run only once the backend is up, and that they start  *)
(* with owned connections needs every client made before to be the first   *)
(* of its member.  Phases adds both.                                       *)
(***************************************************************************)
ConnTypes ==
    /\ bpc \in {"dial", "mux", "up", "failed"} /\ bnext \in Members
    /\ pc \in [Members -> MemberPCs]
    /\ cur \in [Members -> Nat]
    /\ conns \in [Members -> [Gens -> SUBSET {"data", "ctrl", "hop"}]]

Owned(m, g) == \/ g = cur[m] /\ pc[m] \in {"run", "teardown"}
               \/ g = cur[m] + 1 /\ pc[m] \in {"ctrl", "sync"}

\* A connection to the server that was opened for the client is open.
ToServer(m, g) == "data" \in conns[m][g] \/ "ctrl" \in conns[m][g]

Phases ==
    /\ bpc # "up" => \A m \in Members : pc[m] = "idle" /\ cur[m] = 1
    /\ bpc \in {"dial", "mux"} => \A m \in Members, g \in Gens : conns[m][g] # {} => g = 1
    /\ bpc = "failed" => \A m \in Members, g \in Gens : "data" \notin conns[m][g]
    /\ bpc = "up" => \A m \in Members, g \in Gens : ToServer(m, g) => Owned(m, g)

ConnInv == ConnTypes /\ Phases

\* The variables ConnInv depends on.
connVars == <<bpc, bnext, pc, cur, conns>>

\* Initially no connection is open and no goroutine runs.
LEMMA ConnInit == PoolInit => ConnInv
BY PoolAssumption DEF PoolInit, ConnInv, ConnTypes, Phases, PerClient, Members, Gens, MemberPCs

\* A step that leaves the connections, the member goroutines and the progress
\* of connectBackend alone preserves the invariant.
LEMMA ConnFrame == ConnInv /\ UNCHANGED connVars => ConnInv'
BY DEF ConnInv, ConnTypes, Phases, Owned, ToServer, connVars

\* Dialing, failing and finishing in connectBackend.
LEMMA BackendKeeps ==
    ConnInv /\ (BackendDial \/ BackendFails \/ BackendMux) => ConnInv'
<1> SUFFICES ASSUME ConnInv, BackendDial \/ BackendFails \/ BackendMux PROVE ConnInv'
    OBVIOUS
<1> USE DEF ConnInv, ConnTypes, Phases, Owned, ToServer
<1>0. 1 \in Gens /\ PoolSize \in Nat \ {0} /\ Hops \subseteq {"hop"}
    BY PoolAssumption DEF Gens, Hops
<1>1. CASE BackendDial
    BY <1>0, <1>1 DEF BackendDial, Dialed, memberVars, Members
<1>2. CASE BackendFails
    <2>1. PICK left \in SUBSET {"hop"} :
              conns' = [CloseData EXCEPT ![bnext][1] = CloseData[bnext][1] \cup left]
        BY <1>0, <1>2 DEF BackendFails, LeftByDial
    <2>2. /\ CloseData \in [Members -> [Gens -> SUBSET {"data", "ctrl", "hop"}]]
          /\ \A m \in Members, g \in Gens : "data" \notin CloseData[m][g]
        BY DEF CloseData
    <2> DEFINE C == CloseData
               S == C[bnext][1] \cup left
    <2> HIDE DEF C
    <2>3. /\ conns' \in [Members -> [Gens -> SUBSET {"data", "ctrl", "hop"}]]
          /\ \A m \in Members, g \in Gens : "data" \notin conns'[m][g]
        <3>1. C \in [Members -> [Gens -> SUBSET {"data", "ctrl", "hop"}]]
            BY <2>2 DEF C
        <3>2. \A m \in Members, g \in Gens : "data" \notin C[m][g]
            BY <2>2 DEF C
        <3>3. bnext \in Members /\ conns' = [C EXCEPT ![bnext] = [C[bnext] EXCEPT ![1] = S]]
            BY <2>1 DEF C
        <3>4. S \in SUBSET {"data", "ctrl", "hop"} /\ "data" \notin S
            BY ONLY <1>0, <3>1, <3>2, <3>3, left \in SUBSET {"hop"}
        <3> HIDE DEF S
        <3>5. [C[bnext] EXCEPT ![1] = S] \in [Gens -> SUBSET {"data", "ctrl", "hop"}]
            BY ONLY <3>1, <3>3, <3>4
        <3>6. \A m \in Members, g \in Gens :
                  conns'[m][g] = IF m = bnext /\ g = 1 THEN S ELSE C[m][g]
            BY ONLY <3>1, <3>3
        <3> QED
            BY ONLY <3>1, <3>2, <3>3, <3>4, <3>5, <3>6
    <2> QED
        BY <1>2, <2>3 DEF BackendFails, memberVars
<1>3. CASE BackendMux
    <2> DEFINE new == IF Split THEN Dialed("ctrl") ELSE {}
    <2>0. new \subseteq {"ctrl", "hop"}
        BY <1>0 DEF Dialed
    <2>1. conns' = [conns EXCEPT ![bnext][1] = @ \cup new] /\ cur' = cur
        BY <1>3 DEF BackendMux
    <2> HIDE DEF new
    <2>2. /\ conns' \in [Members -> [Gens -> SUBSET {"data", "ctrl", "hop"}]]
          /\ \A m \in Members, g \in Gens : conns'[m][g] # {} => g = 1
        BY <1>0, <1>3, <2>0, <2>1 DEF BackendMux
    <2>3. CASE bnext = PoolSize
        BY <1>3, <2>1, <2>2, <2>3 DEF BackendMux, MemberPCs
    <2>4. CASE bnext # PoolSize
        BY <1>0, <1>3, <2>1, <2>2, <2>4 DEF BackendMux, Members
    <2> QED
        BY <2>3, <2>4
<1> QED
    BY <1>1, <1>2, <1>3

\* A member's goroutine opens and closes connections to the server only of its
\* newest client and of the attempt in progress, and hands them over in one step.
LEMMA MemberKeeps ==
    ASSUME NEW m \in Members, ConnInv, MemberStep(m) PROVE ConnInv'
<1> USE DEF ConnInv, ConnTypes, Phases, Owned, ToServer
<1> DEFINE n == cur[m] + 1
           Kinds == {"data", "ctrl", "hop"}
<1>0. Hops \subseteq {"hop"}
    BY DEF Hops
<1>1. bpc = "up" /\ bpc' = bpc /\ bnext' = bnext
    <2>1. pc[m] # "idle"
        BY DEF MemberStep, LocalStep, RemoteStep, AcceptFails, Teardown, MarkDone, Awake,
               Redial, RedialCtrl, Reconnected, AttemptFails
    <2>2. bpc' = bpc /\ bnext' = bnext
        BY DEF MemberStep, LocalStep, RemoteStep, AcceptFails, Teardown, MarkDone, Awake,
               Redial, RedialCtrl, Reconnected, AttemptFails, backVars
    <2> QED
        BY <2>1, <2>2
<1>2. CASE AcceptFails(m)
    BY <1>1, <1>2 DEF AcceptFails, MemberPCs, clientVars
<1>3. CASE Teardown(m)
    <2>1. /\ conns' = [conns EXCEPT ![m] = [conns[m] EXCEPT ![cur[m]] = conns[m][cur[m]] \ {"data", "ctrl"}]]
          /\ pc' = [pc EXCEPT ![m] = "mark"] /\ pc[m] = "teardown" /\ cur' = cur
        BY <1>3 DEF Teardown, Released
    <2>2. conns' \in [Members -> [Gens -> SUBSET Kinds]]
        <3>1. [conns[m] EXCEPT ![cur[m]] = conns[m][cur[m]] \ {"data", "ctrl"}] \in [Gens -> SUBSET Kinds]
            <4>1. conns[m] \in [Gens -> SUBSET Kinds]
                OBVIOUS
            <4>2. cur[m] \in Gens => conns[m][cur[m]] \ {"data", "ctrl"} \in SUBSET Kinds
                BY <4>1
            <4> QED
                BY ONLY <4>1, <4>2
        <3> QED
            BY <2>1, <3>1
    <2>3. pc' \in [Members -> MemberPCs]
        BY <2>1 DEF MemberPCs
    <2>4. ASSUME NEW x \in Members, NEW g \in Gens, ToServer(x, g)' PROVE Owned(x, g)'
        <3>1. ToServer(x, g) /\ ~(x = m /\ g = cur[m])
            BY <2>1, <2>4
        <3> QED
            BY <1>1, <2>1, <3>1
    <2> QED
        BY <1>1, <2>1, <2>2, <2>3, <2>4
<1>4. CASE MarkDone(m)
    BY <1>1, <1>4 DEF MarkDone, MemberPCs
<1>5. CASE Awake(m)
    BY <1>1, <1>5 DEF Awake, MemberPCs, clientVars
<1>6. ASSUME NEW S \in SUBSET Kinds,
             conns' = [conns EXCEPT ![m] = [conns[m] EXCEPT ![n] = S]]
      PROVE  /\ conns' \in [Members -> [Gens -> SUBSET Kinds]]
             /\ \A x \in Members, g \in Gens :
                   conns'[x][g] = IF x = m /\ g = n THEN S ELSE conns[x][g]
    <2>1. [conns[m] EXCEPT ![n] = S] \in [Gens -> SUBSET Kinds]
        BY <1>6
    <2> QED
        BY <1>6, <2>1
<1>7. CASE Redial(m) \/ RedialCtrl(m)
    <2>1. PICK c \in {"data", "ctrl"} :
              conns' = [conns EXCEPT ![m] = [conns[m] EXCEPT ![n] = conns[m][n] \cup Dialed(c)]]
        BY <1>7 DEF Redial, RedialCtrl
    <2>2. /\ pc' = [pc EXCEPT ![m] = pc'[m]] /\ pc'[m] \in {"ctrl", "sync"}
          /\ cur' = cur /\ pc[m] \in {"dial", "ctrl"}
        BY <1>7 DEF Redial, RedialCtrl
    <2>3. CASE n \in Gens
        <3>1. conns[m][n] \cup Dialed(c) \in SUBSET Kinds
            <4>1. conns[m][n] \in SUBSET Kinds
                BY <2>3
            <4> QED
                BY ONLY <1>0, <4>1, c \in {"data", "ctrl"} DEF Dialed
        <3>2. /\ conns' \in [Members -> [Gens -> SUBSET Kinds]]
              /\ \A x \in Members, g \in Gens :
                    conns'[x][g] = IF x = m /\ g = n THEN conns[m][n] \cup Dialed(c)
                                                    ELSE conns[x][g]
            BY ONLY <1>6, <2>1, <3>1
        <3>3. pc' \in [Members -> MemberPCs]
            BY <2>2 DEF MemberPCs
        <3>4. ASSUME NEW x \in Members, NEW g \in Gens, ToServer(x, g)' PROVE Owned(x, g)'
            BY <1>1, <2>2, <3>2, <3>4
        <3> QED
            BY <1>1, <2>2, <3>2, <3>3, <3>4
    <2>4. CASE n \notin Gens
        <3>1. conns' = conns
            BY <2>1, <2>4
        <3>2. pc' \in [Members -> MemberPCs]
            BY <2>2 DEF MemberPCs
        <3>3. ASSUME NEW x \in Members, NEW g \in Gens, ToServer(x, g)' PROVE Owned(x, g)'
            BY <1>1, <2>2, <3>1, <3>3
        <3> QED
            BY <1>1, <2>2, <3>1, <3>2, <3>3
    <2> QED
        BY <2>3, <2>4
<1>8. CASE Reconnected(m)
    BY <1>1, <1>8 DEF Reconnected, MemberPCs
<1>9. CASE AttemptFails(m)
    <2>1. PICK left \in SUBSET {"hop"} :
              conns' = [conns EXCEPT ![m] = [conns[m] EXCEPT ![n] =
                                               (conns[m][n] \ {"data", "ctrl"}) \cup left]]
        BY <1>0, <1>9 DEF AttemptFails, LeftByDial
    <2>2. /\ pc' = [pc EXCEPT ![m] = pc'[m]] /\ pc'[m] \in {"sleep", "gaveup"}
          /\ cur' = cur /\ pc[m] \in {"dial", "ctrl", "sync"}
        BY <1>9 DEF AttemptFails
    <2>3. /\ conns' \in [Members -> [Gens -> SUBSET Kinds]]
          /\ \A x \in Members, g \in Gens :
                ToServer(x, g)' => ToServer(x, g) /\ ~(x = m /\ g = n)
        <3>1. CASE n \in Gens
            <4>1. (conns[m][n] \ {"data", "ctrl"}) \cup left \in SUBSET Kinds
                <5>1. conns[m][n] \in SUBSET Kinds
                    BY <3>1
                <5> QED
                    BY ONLY <5>1, left \in SUBSET {"hop"}
            <4>2. /\ conns' \in [Members -> [Gens -> SUBSET Kinds]]
                  /\ \A x \in Members, g \in Gens :
                        conns'[x][g] = IF x = m /\ g = n
                                       THEN (conns[m][n] \ {"data", "ctrl"}) \cup left
                                       ELSE conns[x][g]
                BY ONLY <1>6, <2>1, <4>1
            <4> QED
                BY <4>2
        <3>2. CASE n \notin Gens
            <4>1. conns' = conns
                BY <2>1, <3>2
            <4> QED
                BY <3>2, <4>1
        <3> QED
            BY <3>1, <3>2
    <2>4. pc' \in [Members -> MemberPCs]
        BY <2>2 DEF MemberPCs
    <2>5. ASSUME NEW x \in Members, NEW g \in Gens, ToServer(x, g)' PROVE Owned(x, g)'
        <3>1. ToServer(x, g) /\ ~(x = m /\ g = n)
            BY <2>3, <2>5
        <3>2. Owned(x, g)
            BY <1>1, <3>1
        <3> HIDE DEF ConnInv, ConnTypes, Phases, ToServer
        <3>3. pc \in [Members -> MemberPCs] /\ cur \in [Members -> Nat]
            BY DEF ConnInv, ConnTypes
        <3> QED
            BY ONLY <2>2, <3>1, <3>2, <3>3 DEF Owned
    <2> QED
        BY <1>1, <2>2, <2>3, <2>4, <2>5
<1> QED
    BY <1>2, <1>3, <1>4, <1>5, <1>7, <1>8, <1>9 DEF MemberStep, LocalStep, RemoteStep

\* Every step of the pool preserves the invariant; sessions, the engine and the
\* flows do not touch connections.
LEMMA ConnNext == ConnInv /\ [PoolNext]_poolVars => ConnInv'
<1> SUFFICES ASSUME ConnInv, [PoolNext]_poolVars PROVE ConnInv'
    OBVIOUS
<1>1. CASE BackendDial \/ BackendFails \/ BackendMux
    BY <1>1, BackendKeeps
<1>2. ASSUME NEW m \in Members, MemberStep(m) PROVE ConnInv'
    BY <1>2, MemberKeeps
<1>3. ASSUME NEW m \in Members, NEW g \in Gens, SessionDies(m, g) PROVE ConnInv'
    BY <1>3, ConnFrame DEF SessionDies, connVars, backVars, memberVars
<1>4. CASE EngineLosesPool \/ EngineStops
    BY <1>4, ConnFrame DEF EngineLosesPool, EngineStops, connVars, backVars,
                           memberVars, clientVars
<1>5. ASSUME NEW f \in Flows,
             PickRoundRobin(f) \/ PickLeastLoaded(f) \/ PickMostLoaded(f) \/ DnsStart(f)
      PROVE ConnInv'
    BY <1>5, ConnFrame DEF PickRoundRobin, PickLeastLoaded, PickMostLoaded, Picked,
                           DnsStart, connVars, backVars, memberVars, clientVars
<1>6. ASSUME NEW f \in Flows, FlowStep(f) \/ Close(f) PROVE ConnInv'
    BY <1>6, ConnFrame DEF FlowStep, OpenStream, Opened, OpenFails, DnsAnswered, DnsFails,
                           Close, connVars, backVars, memberVars, clientVars
<1>7. CASE UNCHANGED poolVars
    BY <1>7, ConnFrame DEF poolVars, connVars, backVars, memberVars, clientVars
<1> QED
    BY <1>1, <1>2, <1>3, <1>4, <1>5, <1>6, <1>7 DEF PoolNext

\* What the invariant says of the connections' owners.
LEMMA ConnInvOwned == ConnInv => ConnsOwned
BY DEF ConnInv, ConnTypes, Phases, Owned, ToServer, ConnsOwned, InUse

\* Every open SSH connection to the server has an owner that will close it, for
\* every pool size: reconnects, failed attempts and failed backends leak none,
\* the ctrl connections of a failed backend excepted.  It says nothing of the
\* connections to jump hosts, which do leak (HopsOwned).
THEOREM ConnectionsOwned == PoolSpec => []ConnsOwned
<1>1. PoolSpec => []ConnInv
    BY ConnInit, ConnNext, PTL DEF PoolSpec
<1> QED
    BY <1>1, ConnInvOwned, PTL
=============================================================================
