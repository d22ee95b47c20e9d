----------------------------- MODULE FairWriter -----------------------------
(***************************************************************************)
(* The deficit-round-robin frame scheduler between smux and a single byte  *)
(* connection (netferry-relay/internal/mux/fair_writer.go).                *)
(*                                                                         *)
(* Two goroutines meet here.  smux's send loop calls Write once per frame; *)
(* Write puts the frame into inputCh, a buffered channel, and blocks only  *)
(* when that channel is full.  The drain goroutine takes frames out,       *)
(* classifies them into a priority list or a per-stream queue, and writes  *)
(* them to the connection: every priority frame first, then data frames in *)
(* rounds, each active stream getting Quantum bytes a round.               *)
(*                                                                         *)
(* A frame carries its command, its stream, its size and, for a data       *)
(* frame, its number in its stream; payloads are left out.  The variables  *)
(* in the last group record what was accepted and what reached the         *)
(* connection; no guard of the program reads them.                         *)
(***************************************************************************)
EXTENDS Integers, Sequences, FiniteSets

\* A definition named X_Y, next to a definition X, is X with a fault a
\* maintainer could introduce.  No specification uses it; with it in the place
\* of X the properties must fail.

CONSTANTS
    Streams,    \* stream identifiers
    BufSize,    \* capacity of inputCh (fairWriterBufSize)
    Quantum,    \* bytes a stream may send per round (drrQuantum)
    Sizes,      \* sizes a data frame may have, header included
    HdrLen,     \* size of a frame without payload (smuxHdrLen)
    MaxPsh,     \* bound: data frames per stream
    MaxCtl      \* bound: window-update and keepalive frames in all

ASSUME StreamsAssumption == IsFiniteSet(Streams) /\ Streams # {}
ASSUME BoundsAssumption == /\ BufSize \in Nat \ {0}
                           /\ MaxPsh \in Nat
                           /\ MaxCtl \in Nat
ASSUME SizeAssumption == /\ Quantum \in Nat
                         /\ HdrLen \in 1..Quantum
                         /\ Sizes \subseteq HdrLen..Quantum

VARIABLES
    input,      \* inputCh
    done,       \* the done channel is closed
    wpc,        \* where the caller of Write is: "ready", "select", "failed"
    wframe,     \* the frame Write was called with
    pc,         \* where the drain goroutine is
    queues,     \* per-stream queues; a stream without one has <<>>
    deficit,    \* per-stream deficits; a stream without a queue has 0
    active,     \* streams still to be served in this round, in order
    remaining,  \* streams already scheduled for the next round, in order
    activeSet,  \* streams that have a queue
    priority,   \* frames that bypass the scheduler
    cur,        \* the data frame taken off its queue, not yet written
    \* what happened so far
    opened, nsent, finished,      \* per stream: SYN, #PSH, FIN accepted by Write
    synWire, nwire, finWire,      \* per stream: SYN, #PSH, FIN on the connection
    nctl,                         \* UPD/NOP frames accepted
    dataWrites,                   \* frames written by the round, in all
    served,                       \* bytes written in the current turn
    wait                          \* turns of others since a stream was scheduled

writerVars == <<wpc, wframe, opened, nsent, finished, nctl>>
qVars == <<queues, deficit, active, remaining, activeSet, priority>>
netVars == <<synWire, nwire, finWire, dataWrites>>
turnVars == <<served, wait>>
vars == <<input, done, pc, cur, writerVars, qVars, netVars, turnVars>>

Cmds == {"SYN", "PSH", "FIN", "CTL"}    \* CTL stands for UPD and NOP

\* n numbers the data frames of a stream; at is, for SYN and CTL, the value
\* of dataWrites when the frame entered inputCh.
Frame == [cmd : Cmds, sid : Streams, n : Nat, size : Nat, at : Nat]

NoFrame == [cmd |-> "none"]

PCs == {"collect", "flush", "turn", "serve",
        "collectTurn", "flushTurn", "write", "exit"}

-----------------------------------------------------------------------------
(***************************************************************************)
(* NewFairWriter: empty channel, empty maps, the drain goroutine started.  *)
(***************************************************************************)
Init ==
    /\ input = <<>> /\ done = FALSE
    /\ wpc = "ready" /\ wframe = NoFrame
    /\ pc = "collect"
    /\ queues = [s \in Streams |-> <<>>]
    /\ deficit = [s \in Streams |-> 0]
    /\ active = <<>> /\ remaining = <<>> /\ activeSet = {}
    /\ priority = <<>> /\ cur = NoFrame
    /\ opened = {} /\ finished = {} /\ nsent = [s \in Streams |-> 0]
    /\ synWire = {} /\ finWire = {} /\ nwire = [s \in Streams |-> 0]
    /\ nctl = 0 /\ dataWrites = 0
    /\ served = 0 /\ wait = [s \in Streams |-> 0]

-----------------------------------------------------------------------------
(***************************************************************************)
(* The frames smux hands to Write: a stream's SYN, its data frames, its    *)
(* FIN, in that order and from one goroutine, and CTL frames at any time.  *)
(***************************************************************************)
MkFrame(cmd, s, n, size) ==
    [cmd |-> cmd, sid |-> s, n |-> n, size |-> size, at |-> 0]

SmuxFrames ==
    {MkFrame("SYN", s, 0, HdrLen) : s \in Streams \ opened}
    \cup {MkFrame("PSH", s, nsent[s] + 1, z) :
            s \in {t \in opened \ finished : nsent[t] < MaxPsh}, z \in Sizes}
    \cup {MkFrame("FIN", s, 0, HdrLen) : s \in opened \ finished}
    \cup (IF nctl < MaxCtl
            THEN {MkFrame("CTL", s, 0, HdrLen) : s \in opened} ELSE {})

\* Write is called: its first select looks at done only.
WriteBegin ==
    /\ wpc = "ready"
    /\ wframe' \in SmuxFrames
    /\ wpc' = IF done THEN "failed" ELSE "select"
    /\ UNCHANGED <<input, done, pc, cur, opened, nsent, finished, nctl, qVars,
                   netVars, turnVars>>

\* A send on inputCh can proceed.
HasRoom == Len(input) < BufSize

\* The second select takes the inputCh case.  It may do so even when done is
\* closed: select chooses freely among the cases that are ready.
WriteEnqueue ==
    /\ wpc = "select"
    /\ HasRoom
    /\ LET f == IF wframe.cmd \in {"SYN", "CTL"}
                  THEN [wframe EXCEPT !.at = dataWrites] ELSE wframe
       IN input' = Append(input, f)
    /\ wpc' = "ready" /\ wframe' = NoFrame
    /\ opened' = IF wframe.cmd = "SYN" THEN opened \cup {wframe.sid} ELSE opened
    /\ finished' =
         IF wframe.cmd = "FIN" THEN finished \cup {wframe.sid} ELSE finished
    /\ nsent' = IF wframe.cmd = "PSH"
                  THEN [nsent EXCEPT ![wframe.sid] = @ + 1] ELSE nsent
    /\ nctl' = IF wframe.cmd = "CTL" THEN nctl + 1 ELSE nctl
    /\ UNCHANGED <<done, pc, cur, qVars, netVars, turnVars>>

\* The second select takes the done case: the call fails and smux gives the
\* session up.
WriteClosed ==
    /\ wpc = "select" /\ done
    /\ wpc' = "failed"
    /\ UNCHANGED <<input, done, pc, cur, wframe, opened, nsent, finished, nctl,
                   qVars, netVars, turnVars>>

\* Close, called by the owner of the connection at any time.
Close ==
    /\ ~done /\ done' = TRUE
    /\ UNCHANGED <<input, pc, cur, writerVars, qVars, netVars, turnVars>>

-----------------------------------------------------------------------------
(***************************************************************************)
(* classify.  list is the list of scheduled streams the caller passes:     *)
(* active outside a round, remaining inside one.                           *)
(***************************************************************************)

Queued(f) == f.cmd = "PSH" \/ (f.cmd = "FIN" /\ queues[f.sid] # <<>>)

Activates(f) == f.cmd = "PSH" /\ f.sid \notin activeSet

Classify(f) ==
    /\ queues' = IF Queued(f) THEN [queues EXCEPT ![f.sid] = Append(@, f)]
                              ELSE queues
    /\ priority' = IF Queued(f) THEN priority ELSE Append(priority, f)
    /\ activeSet' = IF Activates(f) THEN activeSet \cup {f.sid} ELSE activeSet
    /\ wait' = IF Activates(f) THEN [wait EXCEPT ![f.sid] = 0] ELSE wait
    /\ UNCHANGED <<deficit, served>>

Schedule(list, f) == IF Activates(f) THEN Append(list, f.sid) ELSE list

\* The top of the drain loop: the blocking receive when nothing is pending,
\* then collectPending.  Both take one frame and classify it.
CollectBefore ==
    /\ pc = "collect" /\ input # <<>>
    /\ Classify(Head(input))
    /\ active' = Schedule(active, Head(input))
    /\ input' = Tail(input)
    /\ UNCHANGED <<done, pc, cur, writerVars, remaining, netVars>>

\* The done case of the blocking receive.
DrainStop ==
    /\ pc = "collect" /\ active = <<>> /\ priority = <<>>
    /\ done
    /\ pc' = "exit"
    /\ UNCHANGED <<input, done, cur, writerVars, qVars, netVars, turnVars>>

\* collectPending inside a round.
CollectInside ==
    /\ pc = "collectTurn" /\ input # <<>>
    /\ Classify(Head(input))
    /\ remaining' = Schedule(remaining, Head(input))
    /\ input' = Tail(input)
    /\ UNCHANGED <<done, pc, cur, writerVars, active, netVars>>

AfterCollect_NoFlush == IF pc = "collect" THEN "flush" ELSE "write"

AfterCollect == IF pc = "collect" THEN "flush" ELSE "flushTurn"

\* collectPending's default case; before the round the goroutine is past the
\* blocking receive.
CollectEnd ==
    /\ input = <<>>
    /\ \/ pc = "collect" /\ (active # <<>> \/ priority # <<>>)
       \/ pc = "collectTurn"
    /\ pc' = AfterCollect
    /\ UNCHANGED <<input, done, cur, writerVars, qVars, netVars, turnVars>>

-----------------------------------------------------------------------------
(***************************************************************************)
(* writeFrame and its callers.                                             *)
(***************************************************************************)
OnWire(f) ==
    /\ synWire' = IF f.cmd = "SYN" THEN synWire \cup {f.sid} ELSE synWire
    /\ finWire' = IF f.cmd = "FIN" THEN finWire \cup {f.sid} ELSE finWire
    /\ nwire' = IF f.cmd = "PSH" THEN [nwire EXCEPT ![f.sid] = @ + 1] ELSE nwire

FlushOne ==
    /\ pc \in {"flush", "flushTurn"} /\ priority # <<>>
    /\ OnWire(Head(priority))
    /\ priority' = Tail(priority)
    /\ UNCHANGED <<input, done, pc, cur, writerVars, queues, deficit, active,
                   remaining, activeSet, dataWrites, turnVars>>

\* The loop stops one frame early.
Flushed_ButOne == pc \in {"flush", "flushTurn"} /\ Len(priority) <= 1

\* flushSlice returns true only when it has written the whole list.
Flushed == pc \in {"flush", "flushTurn"} /\ priority = <<>>

FlushEnd ==
    /\ Flushed
    /\ pc' = CASE pc = "flushTurn" -> "write"
               [] pc = "flush" /\ active = <<>> -> "collect"
               [] OTHER -> "turn"
    /\ UNCHANGED <<input, done, cur, writerVars, qVars, netVars, turnVars>>

WriteData ==
    /\ pc = "write"
    /\ OnWire(cur)
    /\ dataWrites' = dataWrites + 1
    /\ served' = served + cur.size
    /\ cur' = NoFrame
    /\ pc' = "serve"
    /\ UNCHANGED <<input, done, writerVars, qVars, wait>>

\* The once.Do of writeFrame.
DoneAfterError == TRUE

\* The connection refuses a write: done is closed, the goroutine returns.
WriteError ==
    /\ \/ pc \in {"flush", "flushTurn"} /\ priority # <<>>
       \/ pc = "write"
    /\ done' = DoneAfterError
    /\ pc' = "exit"
    /\ UNCHANGED <<input, cur, writerVars, qVars, netVars, turnVars>>

-----------------------------------------------------------------------------
(***************************************************************************)
(* The round: for _, sid := range active.                                  *)
(***************************************************************************)
sid == Head(active)

TurnBegin ==
    /\ pc = "turn" /\ active # <<>>
    /\ deficit' = [deficit EXCEPT ![sid] = @ + Quantum]
    /\ served' = 0
    /\ wait' = [s \in Streams |-> IF s = sid THEN 0
                                  ELSE IF s \in activeSet THEN wait[s] + 1
                                  ELSE wait[s]]
    /\ pc' = "serve"
    /\ UNCHANGED <<input, done, cur, writerVars, queues, active, remaining,
                   activeSet, priority, netVars>>

RoundEnd ==
    /\ pc = "turn" /\ active = <<>>
    /\ active' = remaining /\ remaining' = <<>>
    /\ pc' = "collect"
    /\ UNCHANGED <<input, done, cur, writerVars, queues, deficit, activeSet,
                   priority, netVars, turnVars>>

Fits == queues[sid] # <<>> /\ Head(queues[sid]).size <= deficit[sid]

Charged(d, f) == d - f.size

Popped_Stays(q) == q

Popped(q) == Tail(q)

Pop ==
    /\ pc = "serve" /\ Fits
    /\ cur' = Head(queues[sid])
    /\ queues' = [queues EXCEPT ![sid] = Popped(@)]
    /\ deficit' = [deficit EXCEPT ![sid] = Charged(@, Head(queues[sid]))]
    /\ pc' = "collectTurn"
    /\ UNCHANGED <<input, done, writerVars, active, remaining, activeSet,
                   priority, netVars, turnVars>>

\* The loop over active moves on.
NextInRound == Tail(active)

\* The stream has more than its deficit allows: it stays for the next round.
TurnEndBacklog ==
    /\ pc = "serve" /\ ~Fits /\ queues[sid] # <<>>
    /\ remaining' = Append(remaining, sid)
    /\ active' = NextInRound
    /\ pc' = "turn"
    /\ UNCHANGED <<input, done, cur, writerVars, queues, deficit, activeSet,
                   priority, netVars, turnVars>>

Unmarked_Kept == activeSet

\* delete(activeSet, sid)
Unmarked == activeSet \ {sid}

\* The stream has nothing left: its queue is dropped.
TurnEndEmpty ==
    /\ pc = "serve" /\ queues[sid] = <<>>
    /\ deficit' = [deficit EXCEPT ![sid] = 0]
    /\ activeSet' = Unmarked
    /\ active' = NextInRound
    /\ pc' = "turn"
    /\ UNCHANGED <<input, done, cur, writerVars, queues, remaining, priority,
                   netVars, turnVars>>

-----------------------------------------------------------------------------
DrainStep ==
    \/ CollectBefore \/ DrainStop \/ CollectInside \/ CollectEnd
    \/ FlushOne \/ FlushEnd \/ WriteData
    \/ TurnBegin \/ RoundEnd \/ Pop \/ TurnEndBacklog \/ TurnEndEmpty

WriterStep == WriteEnqueue \/ WriteClosed

Next == DrainStep \/ WriteError \/ WriterStep \/ WriteBegin \/ Close

Spec == Init /\ [][Next]_vars

\* The drain goroutine runs whenever it can, and a connection write returns;
\* a Write call that can go on does.  Nobody has to write, close or fail.
FairSpec == Spec /\ WF_vars(DrainStep) /\ WF_vars(WriterStep)
-----------------------------------------------------------------------------
(***************************************************************************)
(* Properties.                                                             *)
(***************************************************************************)
Serving == pc \in {"serve", "collectTurn", "flushTurn", "write"}

\* Types of all variables; cur is a frame exactly while one is held.
TypeOK ==
    /\ input \in Seq(Frame) /\ Len(input) <= BufSize
    /\ done \in BOOLEAN
    /\ wpc \in {"ready", "select", "failed"}
    /\ wframe \in Frame \cup {NoFrame}
    /\ (wpc = "select") => wframe \in Frame
    /\ pc \in PCs
    /\ queues \in [Streams -> Seq(Frame)]
    /\ deficit \in [Streams -> Nat]
    /\ active \in Seq(Streams) /\ remaining \in Seq(Streams)
    /\ activeSet \in SUBSET Streams
    /\ priority \in Seq(Frame)
    /\ cur \in Frame \cup {NoFrame}
    /\ (pc \in {"collectTurn", "flushTurn", "write"}) => cur \in Frame
    /\ (pc \notin {"collectTurn", "flushTurn", "write", "exit"}) => cur = NoFrame
    /\ opened \in SUBSET Streams /\ finished \in SUBSET Streams
    /\ nsent \in [Streams -> Nat]
    /\ synWire \in SUBSET Streams /\ finWire \in SUBSET Streams
    /\ nwire \in [Streams -> Nat]
    /\ nctl \in Nat /\ dataWrites \in Nat /\ served \in Nat
    /\ wait \in [Streams -> Nat]

InSeq(s, q) == \E i \in DOMAIN q : q[i] = s

NoRepeat(q) == \A i, j \in DOMAIN q : q[i] = q[j] => i = j

\* The bookkeeping of drain's active, remaining and activeSet agrees: a stream
\* is scheduled at most once, in this round or the next; exactly the streams
\* with a queue entry are scheduled (so queues[sid] in the round is never nil,
\* and no queue is forgotten when collectPending appends during a round); and
\* a queue is only empty while its stream is being served.
ScheduledOnce ==
    /\ NoRepeat(active) /\ NoRepeat(remaining)
    /\ \A s \in Streams :
         /\ ~(InSeq(s, active) /\ InSeq(s, remaining))
         /\ s \in activeSet <=> (InSeq(s, active) \/ InSeq(s, remaining))
         /\ queues[s] # <<>> => s \in activeSet
         /\ s \in activeSet =>
              queues[s] # <<>> \/ (Serving /\ sid = s) \/ pc = "exit"
    /\ Serving => active # <<>>

IsData(f, s) == f.cmd = "PSH" /\ f.sid = s

\* The numbers of the data frames of stream s in a sequence of frames, and
\* whether they come in ascending order.
Numbers(q, s) == {q[i].n : i \in {j \in DOMAIN q : IsData(q[j], s)}}

Ascending(q, s) ==
    \A i, j \in DOMAIN q :
        (i < j /\ IsData(q[i], s) /\ IsData(q[j], s)) => q[i].n < q[j].n

Held == IF cur = NoFrame THEN <<>> ELSE <<cur>>

\* Every data frame of a stream reaches the connection in the order smux wrote
\* it, none skipped and none twice, whatever the interleaving of classify,
\* collectPending and the round: those still on their way, in the order the
\* drain goroutine will meet them, are numbered from the first unwritten one
\* to the last accepted one.
DataInOrder ==
    \A s \in Streams :
        LET path == Held \o queues[s] \o input
        IN /\ Numbers(path, s) = (nwire[s] + 1) .. nsent[s]
           /\ Ascending(path, s)

\* A stream's SYN bypasses the scheduler and its data does not, but no data
\* frame (nor FIN) of a stream reaches the connection before its SYN.
SynBeforeData ==
    \A s \in Streams : (nwire[s] > 0 \/ s \in finWire) => s \in synWire

\* SYN, UPD and NOP frames "are never delayed by more than one data-frame
\* write" (drain): at most one frame of the round is written between the
\* moment Write accepts such a frame and the moment it is written itself.
ControlDelay ==
    \A q \in {input, priority} : \A i \in DOMAIN q :
        q[i].cmd \in {"SYN", "CTL"} => dataWrites <= q[i].at + 1

\* What classify achieves for FIN: when a FIN reaches the connection every
\* data frame of its stream has, except at most the one that drain has taken
\* off the queue and not written yet.
FinOvertakesOneAtMost ==
    \A s \in finWire :
        nsent[s] <= nwire[s] + (IF cur # NoFrame /\ cur.sid = s THEN 1 ELSE 0)

\* The type comment says of FIN: "the FIN is appended to the stream's queue so
\* it is sent after all preceding data".
FinAfterData == \A s \in finWire : nwire[s] = nsent[s]

\* Deficit round robin: in one turn a stream writes less than a quantum plus
\* the largest frame, even when its frames keep arriving during the turn.
TurnBound == \E z \in Sizes : served < Quantum + z

\* A scheduled stream waits for at most one turn of every other stream, even
\* when streams run empty and come back within the round.
WaitBound == \A s \in activeSet : wait[s] < Cardinality(Streams)

\* Nothing that Write accepted is stuck: it is written, or the writer was
\* closed or failed.
Drained ==
    /\ input = <<>> /\ priority = <<>> /\ activeSet = {} /\ cur = NoFrame
EventuallyDrained == (input # <<>>) ~> (Drained \/ done)

\* A caller blocked in Write on a full channel always gets out, also when
\* Close or a write error comes first.
WriteReturns == (wpc = "select") ~> (wpc # "select")
=============================================================================
