-------------------------- MODULE FairWriterProofs --------------------------
(***************************************************************************)
(* Proofs about FairWriter, for every set of streams, every channel        *)
(* capacity, every quantum and every set of frame sizes up to the quantum. *)
(***************************************************************************)
EXTENDS FairWriter, TLAPS

-----------------------------------------------------------------------------
(***************************************************************************)
(* Type correctness.  TypeOK alone is not inductive: the round reads       *)
(* Head(active), so that active is not empty while a stream is served.     *)
(***************************************************************************)
TypeInv == TypeOK /\ (Serving => active # <<>>)

\* Every frame smux may hand to Write is a frame.
LEMMA SmuxFramesType ==
    ASSUME TypeOK
    PROVE  SmuxFrames \subseteq Frame
<1>1. HdrLen \in Nat /\ Sizes \subseteq Nat
  BY SizeAssumption
<1>2. ASSUME NEW s \in Streams, NEW n \in Nat, NEW z \in Nat, NEW c \in Cmds
      PROVE  MkFrame(c, s, n, z) \in Frame
  BY DEF MkFrame, Frame
<1>3. opened \subseteq Streams /\ nsent \in [Streams -> Nat]
  BY DEF TypeOK
<1>4. {MkFrame("SYN", s, 0, HdrLen) : s \in Streams \ opened} \subseteq Frame
  BY <1>1, <1>2 DEF Cmds
<1>5. {MkFrame("PSH", s, nsent[s] + 1, z) :
         s \in {t \in opened \ finished : nsent[t] < MaxPsh}, z \in Sizes}
      \subseteq Frame
  BY <1>1, <1>2, <1>3 DEF Cmds
<1>6. {MkFrame("FIN", s, 0, HdrLen) : s \in opened \ finished} \subseteq Frame
  BY <1>1, <1>2, <1>3 DEF Cmds
<1>7. {MkFrame("CTL", s, 0, HdrLen) : s \in opened} \subseteq Frame
  BY <1>1, <1>2, <1>3 DEF Cmds
<1> QED BY <1>4, <1>5, <1>6, <1>7 DEF SmuxFrames

\* What classify does to the types of its data, whichever list it is given.
LEMMA ClassifyType ==
    ASSUME TypeOK, input # <<>>, Classify(Head(input))
    PROVE  /\ Head(input) \in Frame /\ Tail(input) \in Seq(Frame)
           /\ Len(Tail(input)) <= BufSize
           /\ queues' \in [Streams -> Seq(Frame)]
           /\ priority' \in Seq(Frame)
           /\ activeSet' \in SUBSET Streams
           /\ wait' \in [Streams -> Nat]
           /\ UNCHANGED <<deficit, served>>
           /\ Schedule(active, Head(input)) \in Seq(Streams)
           /\ Schedule(remaining, Head(input)) \in Seq(Streams)
<1> DEFINE f == Head(input)
<1>1. f \in Frame /\ Tail(input) \in Seq(Frame) /\ Len(Tail(input)) <= BufSize
  BY BoundsAssumption DEF TypeOK
<1>2. f.sid \in Streams
  BY <1>1 DEF Frame
<1>3. queues' \in [Streams -> Seq(Frame)]
  <2>1. queues \in [Streams -> Seq(Frame)]
    BY DEF TypeOK
  <2>2. Append(queues[f.sid], f) \in Seq(Frame)
    BY <1>1, <1>2, <2>1
  <2> QED BY <1>2, <2>1, <2>2 DEF Classify
<1>4. priority' \in Seq(Frame)
  BY <1>1 DEF TypeOK, Classify
<1>5. activeSet' \in SUBSET Streams
  BY <1>2 DEF TypeOK, Classify
<1>7. wait' \in [Streams -> Nat]
  <2>1. wait \in [Streams -> Nat]
    BY DEF TypeOK
  <2> QED BY <1>2, <2>1 DEF Classify
<1>6. Schedule(active, f) \in Seq(Streams) /\ Schedule(remaining, f) \in Seq(Streams)
  BY <1>2 DEF TypeOK, Schedule
<1> QED BY <1>1, <1>3, <1>4, <1>5, <1>6, <1>7 DEF Classify

\* What a frame on the connection does to the types of the records of it.
LEMMA OnWireType ==
    ASSUME TypeOK, NEW f \in Frame, OnWire(f)
    PROVE  /\ synWire' \in SUBSET Streams /\ finWire' \in SUBSET Streams
           /\ nwire' \in [Streams -> Nat]
<1>1. f.sid \in Streams
  BY DEF Frame
<1>2. synWire' \in SUBSET Streams /\ finWire' \in SUBSET Streams
  BY <1>1 DEF TypeOK, OnWire
<1>3. nwire \in [Streams -> Nat]
  BY DEF TypeOK
<1>4. nwire' \in [Streams -> Nat]
  BY <1>1, <1>3 DEF OnWire
<1> QED BY <1>2, <1>4

\* Every step of the writers and of the drain goroutine keeps the types.
LEMMA TypeInvInductive == TypeInv /\ [Next]_vars => TypeInv'
<1> SUFFICES ASSUME TypeInv, [Next]_vars PROVE TypeInv'
  OBVIOUS
<1> USE DEF TypeInv, Serving, PCs
<1>1. CASE WriteBegin
  <2>1. wframe' \in Frame
    BY <1>1, SmuxFramesType DEF WriteBegin
  <2> QED BY <1>1, <2>1 DEF WriteBegin, TypeOK, qVars, writerVars, netVars, turnVars
<1>2. CASE WriteEnqueue
  <2> DEFINE f == IF wframe.cmd \in {"SYN", "CTL"}
                    THEN [wframe EXCEPT !.at = dataWrites] ELSE wframe
  <2>1. wframe \in Frame /\ f \in Frame
    BY <1>2 DEF WriteEnqueue, TypeOK, Frame
  <2>2. input' \in Seq(Frame) /\ Len(input') <= BufSize
    BY <1>2, <2>1, BoundsAssumption DEF WriteEnqueue, TypeOK, HasRoom
  <2>3. wframe.sid \in Streams
    BY <2>1 DEF Frame
  <2>4. opened' \in SUBSET Streams /\ finished' \in SUBSET Streams
    BY <1>2, <2>3 DEF WriteEnqueue, TypeOK
  <2>5. nsent \in [Streams -> Nat] /\ nctl \in Nat
    BY DEF TypeOK
  <2>6. nsent' \in [Streams -> Nat] /\ nctl' \in Nat
    BY <1>2, <2>3, <2>5 DEF WriteEnqueue
  <2> QED BY <1>2, <2>2, <2>4, <2>6 DEF WriteEnqueue, TypeOK, qVars, netVars, turnVars
<1>3. CASE WriteClosed
  BY <1>3 DEF WriteClosed, TypeOK, qVars, writerVars, netVars, turnVars
<1>4. CASE Close
  BY <1>4 DEF Close, TypeOK, qVars, writerVars, netVars, turnVars
<1>6. CASE DrainStop
  BY <1>6 DEF DrainStop, TypeOK, qVars, writerVars, netVars, turnVars
<1>8. CASE CollectBefore
  <2>1. input # <<>> /\ Classify(Head(input))
    BY <1>8 DEF CollectBefore
  <2> QED BY <1>8, <2>1, ClassifyType DEF CollectBefore, TypeOK, writerVars, netVars
<1>9. CASE CollectInside
  <2>1. input # <<>> /\ Classify(Head(input))
    BY <1>9 DEF CollectInside
  <2> QED BY <1>9, <2>1, ClassifyType DEF CollectInside, TypeOK, writerVars, netVars
<1>10. CASE CollectEnd
  BY <1>10 DEF CollectEnd, AfterCollect, TypeOK, qVars, writerVars, netVars, turnVars
<1>11. CASE FlushOne
  <2>1. Head(priority) \in Frame /\ priority' \in Seq(Frame)
    BY <1>11 DEF FlushOne, TypeOK
  <2>2. /\ synWire' \in SUBSET Streams /\ finWire' \in SUBSET Streams
        /\ nwire' \in [Streams -> Nat]
    BY <1>11, <2>1, OnWireType DEF FlushOne
  <2> QED BY <1>11, <2>1, <2>2 DEF FlushOne, TypeOK, writerVars, turnVars
<1>12. CASE FlushEnd
  BY <1>12 DEF FlushEnd, Flushed, TypeOK, qVars, writerVars, netVars, turnVars
<1>13. CASE WriteData
  <2>1. cur \in Frame /\ cur.size \in Nat /\ cur.sid \in Streams
    BY <1>13 DEF WriteData, TypeOK, Frame
  <2>2. /\ synWire' \in SUBSET Streams /\ finWire' \in SUBSET Streams
        /\ nwire' \in [Streams -> Nat]
    BY <1>13, <2>1, OnWireType DEF WriteData
  <2>3. served \in Nat /\ dataWrites \in Nat
    BY DEF TypeOK
  <2>5. served' \in Nat /\ dataWrites' \in Nat
    BY <1>13, <2>1, <2>3 DEF WriteData
  <2>4. cur' = NoFrame /\ pc' = "serve" /\ active # <<>>
    BY <1>13 DEF WriteData
  <2> QED BY <1>13, <2>2, <2>4, <2>5 DEF WriteData, TypeOK, qVars, writerVars
<1>14. CASE WriteError
  BY <1>14 DEF WriteError, DoneAfterError, TypeOK, qVars, writerVars, netVars, turnVars
<1>15. CASE TurnBegin
  <2>1. sid \in Streams /\ Quantum \in Nat
    BY <1>15, SizeAssumption DEF TurnBegin, TypeOK, sid
  <2>2. deficit \in [Streams -> Nat] /\ wait \in [Streams -> Nat]
    BY DEF TypeOK
  <2>3. deficit' \in [Streams -> Nat]
    BY <1>15, <2>1, <2>2 DEF TurnBegin
  <2>4. wait' \in [Streams -> Nat]
    BY <1>15, <2>2 DEF TurnBegin
  <2> QED BY <1>15, <2>3, <2>4 DEF TurnBegin, TypeOK, writerVars, netVars
<1>16. CASE RoundEnd
  BY <1>16 DEF RoundEnd, TypeOK, writerVars, netVars, turnVars
<1>17. CASE Pop
  <2>1. sid \in Streams
    BY <1>17 DEF Pop, TypeOK, sid
  <2>2. /\ queues[sid] # <<>> /\ queues[sid] \in Seq(Frame)
        /\ Head(queues[sid]).size <= deficit[sid]
    BY <1>17, <2>1 DEF Pop, Fits, TypeOK
  <2>3. Head(queues[sid]) \in Frame /\ Tail(queues[sid]) \in Seq(Frame)
    BY <2>2
  <2>4. Head(queues[sid]).size \in Nat
    BY <2>3 DEF Frame
  <2>5. deficit \in [Streams -> Nat] /\ queues \in [Streams -> Seq(Frame)]
    BY DEF TypeOK
  <2>6. deficit[sid] - Head(queues[sid]).size \in Nat
    BY <2>1, <2>2, <2>4, <2>5
  <2>7. deficit' \in [Streams -> Nat]
    BY <1>17, <2>1, <2>5, <2>6 DEF Pop, Charged
  <2>8. queues' \in [Streams -> Seq(Frame)]
    BY <1>17, <2>1, <2>3, <2>5 DEF Pop, Popped
  <2> QED BY <1>17, <2>3, <2>7, <2>8 DEF Pop, TypeOK, writerVars, netVars, turnVars
<1>18. CASE TurnEndBacklog
  <2>1. /\ sid \in Streams /\ remaining' \in Seq(Streams)
        /\ active' \in Seq(Streams)
    BY <1>18 DEF TurnEndBacklog, NextInRound, TypeOK, sid
  <2> QED BY <1>18, <2>1 DEF TurnEndBacklog, TypeOK, writerVars, netVars, turnVars
<1>19. CASE TurnEndEmpty
  <2>1. active' \in Seq(Streams) /\ activeSet' \in SUBSET Streams
    BY <1>19 DEF TurnEndEmpty, NextInRound, Unmarked, TypeOK
  <2>2. deficit \in [Streams -> Nat]
    BY DEF TypeOK
  <2>3. deficit' \in [Streams -> Nat]
    BY <1>19, <2>2 DEF TurnEndEmpty
  <2> QED BY <1>19, <2>1, <2>3 DEF TurnEndEmpty, TypeOK, writerVars, netVars, turnVars
<1>20. CASE UNCHANGED vars
  BY <1>20 DEF vars, writerVars, qVars, netVars, turnVars, TypeOK
<1> QED
  BY <1>1, <1>2, <1>3, <1>4, <1>6, <1>8, <1>9, <1>10, <1>11, <1>12,
     <1>13, <1>14, <1>15, <1>16, <1>17, <1>18, <1>19, <1>20
     DEF Next, DrainStep, WriterStep

\* The types hold at the start.
LEMMA TypeInvInit == Init => TypeInv
<1> SUFFICES ASSUME Init PROVE TypeInv
  OBVIOUS
<1>1. /\ input \in Seq(Frame) /\ priority \in Seq(Frame)
      /\ active \in Seq(Streams) /\ remaining \in Seq(Streams)
      /\ queues \in [Streams -> Seq(Frame)]
  BY DEF Init
<1>2. Len(input) <= BufSize
  BY BoundsAssumption DEF Init
<1>3. /\ deficit \in [Streams -> Nat] /\ nsent \in [Streams -> Nat]
      /\ nwire \in [Streams -> Nat] /\ wait \in [Streams -> Nat]
  BY DEF Init
<1> QED BY <1>1, <1>2, <1>3 DEF Init, TypeInv, TypeOK, Serving, PCs

\* TypeOK holds in every reachable state of the scheduler.
THEOREM TypeCorrect == Spec => []TypeOK
<1>1. TypeInv => TypeOK
  BY DEF TypeInv
<1> QED BY <1>1, TypeInvInit, TypeInvInductive, PTL DEF Spec

-----------------------------------------------------------------------------
(***************************************************************************)
(* Latency of control frames.  The invariant that makes ControlDelay       *)
(* inductive says what the two flushes achieve: the priority list is empty *)
(* whenever a data frame is about to be written, and frames accepted since *)
(* the last collectPending are younger than the last data write.           *)
(***************************************************************************)
IsControl(f) == f.cmd \in {"SYN", "CTL"}

OnTime(q, d) == \A i \in DOMAIN q : IsControl(q[i]) => dataWrites <= q[i].at + d

DelayInv ==
    /\ OnTime(input, 1) /\ OnTime(priority, 1)
    /\ (pc \in {"flushTurn", "write"}) => OnTime(input, 0)
    /\ (pc \in {"turn", "serve", "write"}) => priority = <<>>

\* A sequence of frames stays on time when its head is removed or a frame is
\* appended that is on time itself.
LEMMA OnTimeTail ==
    ASSUME NEW q \in Seq(Frame), q # <<>>, NEW d \in Nat, OnTime(q, d)
    PROVE  OnTime(Tail(q), d) /\ (IsControl(Head(q)) => dataWrites <= Head(q).at + d)
<1>1. Tail(q) \in Seq(Frame) /\ Len(Tail(q)) = Len(q) - 1
  OBVIOUS
<1>2. \A i \in DOMAIN Tail(q) : i + 1 \in DOMAIN q /\ Tail(q)[i] = q[i + 1]
  BY <1>1
<1>3. Head(q) = q[1] /\ 1 \in DOMAIN q
  OBVIOUS
<1> QED BY <1>2, <1>3 DEF OnTime

\* A frame appended to a queue whose control frames are on time.
LEMMA OnTimeAppend ==
    ASSUME NEW q \in Seq(Frame), NEW f \in Frame, NEW d \in Nat, OnTime(q, d),
           IsControl(f) => dataWrites <= f.at + d
    PROVE  OnTime(Append(q, f), d)
<1>1. /\ Len(Append(q, f)) = Len(q) + 1 /\ DOMAIN Append(q, f) = 1 .. (Len(q) + 1)
      /\ Append(q, f)[Len(q) + 1] = f
      /\ \A i \in DOMAIN q : Append(q, f)[i] = q[i]
  OBVIOUS
<1> QED BY <1>1 DEF OnTime

\* classify keeps input and the priority list on time.
LEMMA ClassifyOnTime ==
    ASSUME TypeOK, DelayInv, input # <<>>, Classify(Head(input)),
           input' = Tail(input), UNCHANGED dataWrites
    PROVE  OnTime(input, 1)' /\ OnTime(priority, 1)'
<1>1. input \in Seq(Frame) /\ Head(input) \in Frame /\ priority \in Seq(Frame)
  BY DEF TypeOK
<1>2. /\ OnTime(Tail(input), 1)
      /\ IsControl(Head(input)) => dataWrites <= Head(input).at + 1
  BY <1>1, OnTimeTail DEF DelayInv
<1>3. OnTime(Append(priority, Head(input)), 1)
  BY <1>1, <1>2, OnTimeAppend DEF DelayInv
<1>4. priority' = priority \/ priority' = Append(priority, Head(input))
  BY DEF Classify
<1>5. OnTime(input, 1)'
  BY <1>2 DEF OnTime
<1>6. OnTime(priority, 1)'
  BY <1>3, <1>4 DEF OnTime, DelayInv
<1> QED BY <1>5, <1>6

\* Every step keeps the bound on the data frames written before a control frame.
LEMMA DelayInvInductive == TypeInv /\ DelayInv /\ [Next]_vars => DelayInv'
<1> SUFFICES ASSUME TypeInv, DelayInv, [Next]_vars PROVE DelayInv'
  OBVIOUS
<1>0. TypeOK /\ input \in Seq(Frame) /\ priority \in Seq(Frame) /\ dataWrites \in Nat
  BY DEF TypeInv, TypeOK
<1>1. CASE WriteEnqueue
  <2> DEFINE f == IF wframe.cmd \in {"SYN", "CTL"}
                    THEN [wframe EXCEPT !.at = dataWrites] ELSE wframe
  <2>1. wframe \in Frame /\ f \in Frame
    BY <1>0, <1>1 DEF WriteEnqueue, TypeOK, Frame
  <2>2. IsControl(f) => f.at = dataWrites
    BY <2>1 DEF IsControl, Frame
  <2>3. \A d \in Nat : IsControl(f) => dataWrites <= f.at + d
    BY <1>0, <2>2
  <2>4. \A d \in {0, 1} : OnTime(input, d) => OnTime(Append(input, f), d)
    BY <1>0, <2>1, <2>3, OnTimeAppend
  <2>5. input' = Append(input, f) /\ UNCHANGED <<dataWrites, priority, pc>>
    BY <1>1 DEF WriteEnqueue, qVars, netVars
  <2> QED BY <2>4, <2>5 DEF DelayInv, OnTime
<1>3. CASE CollectBefore
  <2>1. OnTime(input, 1)' /\ OnTime(priority, 1)'
    BY <1>0, <1>3, ClassifyOnTime DEF CollectBefore, netVars
  <2> QED BY <1>3, <2>1 DEF CollectBefore, DelayInv
<1>4. CASE CollectInside
  <2>1. OnTime(input, 1)' /\ OnTime(priority, 1)'
    BY <1>0, <1>4, ClassifyOnTime DEF CollectInside, netVars
  <2> QED BY <1>4, <2>1 DEF CollectInside, DelayInv
<1>5. CASE CollectEnd
  BY <1>0, <1>5 DEF CollectEnd, AfterCollect, DelayInv, OnTime, qVars, netVars
<1>6. CASE FlushOne
  <2>1. OnTime(Tail(priority), 1)
    BY <1>0, <1>6, OnTimeTail DEF FlushOne, DelayInv
  <2> QED BY <1>6, <2>1 DEF FlushOne, DelayInv, OnTime
<1>7. CASE FlushEnd
  <2>1. pc \in {"flush", "flushTurn"} /\ priority = <<>>
    BY <1>7 DEF FlushEnd, Flushed
  <2>2. /\ pc = "flushTurn" => pc' = "write"
        /\ pc = "flush" => pc' \in {"collect", "turn"}
    BY <1>7, <2>1 DEF FlushEnd
  <2> QED BY <1>7, <2>1, <2>2 DEF FlushEnd, DelayInv, OnTime, qVars, netVars
<1>8. CASE WriteData
  <2>1. OnTime(input, 0) /\ priority = <<>>
    BY <1>8 DEF WriteData, DelayInv
  <2>2. \A i \in DOMAIN input : input[i].at \in Nat
    <3>1. \A i \in DOMAIN input : input[i] \in Frame
      BY <1>0
    <3> QED BY <3>1 DEF Frame
  <2>3. input' = input /\ priority' = <<>> /\ dataWrites' = dataWrites + 1 /\ pc' = "serve"
    BY <1>8, <2>1 DEF WriteData, qVars
  <2> QED BY <1>0, <2>1, <2>2, <2>3 DEF DelayInv, OnTime
<1>9. ASSUME UNCHANGED <<input, priority, dataWrites>>,
             pc' \in {"flushTurn", "write"} => pc' = pc,
             pc' \in {"turn", "serve", "write"} =>
               pc \in {"turn", "serve", "write"}
      PROVE  DelayInv'
  BY <1>9 DEF DelayInv, OnTime
<1>10. CASE \/ WriteBegin \/ WriteClosed \/ Close \/ DrainStop
            \/ WriteError \/ UNCHANGED vars
  BY <1>9, <1>10 DEF WriteBegin, WriteClosed, Close, DrainStop,
     WriteError, vars, qVars, netVars
<1>11. CASE TurnBegin \/ RoundEnd \/ Pop \/ TurnEndBacklog \/ TurnEndEmpty
  BY <1>9, <1>11 DEF TurnBegin, RoundEnd, Pop, TurnEndBacklog, TurnEndEmpty, netVars
<1> QED
  BY <1>1, <1>3, <1>4, <1>5, <1>6, <1>7, <1>8, <1>10, <1>11
     DEF Next, DrainStep, WriterStep

\* SYN, UPD and NOP frames are never delayed by more than one data-frame write
\* once Write has accepted them (the promise in drain's comment), for any
\* number of streams and any channel capacity.
THEOREM ControlDelayed == Spec => []ControlDelay
<1>1. Init => TypeInv /\ DelayInv
  <2>1. Init => DelayInv
    BY DEF Init, DelayInv, OnTime
  <2> QED BY <2>1, TypeInvInit
<1>2. TypeInv /\ DelayInv /\ [Next]_vars => (TypeInv /\ DelayInv)'
  BY TypeInvInductive, DelayInvInductive
<1>3. DelayInv => ControlDelay
  BY DEF DelayInv, ControlDelay, OnTime, IsControl
<1> QED BY <1>1, <1>2, <1>3, PTL DEF Spec

-----------------------------------------------------------------------------
(***************************************************************************)
(* Order and completeness of a stream's data.  Four facts about Numbers    *)
(* and Ascending carry the proof; the steps of the drain goroutine are     *)
(* then reasoned about as moves of one number between three sets.          *)
(***************************************************************************)
LEMMA NumbersAppend ==
    ASSUME NEW q \in Seq(Frame), NEW f \in Frame, NEW s \in Streams
    PROVE  /\ Numbers(Append(q, f), s) =
                Numbers(q, s) \cup (IF IsData(f, s) THEN {f.n} ELSE {})
           /\ Ascending(q, s) /\ (\A m \in Numbers(q, s) : m < f.n)
                => Ascending(Append(q, f), s)
<1> DEFINE r == Append(q, f)
<1>1. /\ DOMAIN q = 1 .. Len(q) /\ DOMAIN r = 1 .. (Len(q) + 1) /\ Len(q) \in Nat
      /\ r[Len(q) + 1] = f /\ \A i \in DOMAIN q : r[i] = q[i]
  OBVIOUS
<1> HIDE DEF r
<1>2. Numbers(r, s) = Numbers(q, s) \cup (IF IsData(f, s) THEN {f.n} ELSE {})
  BY <1>1 DEF Numbers
<1>3. ASSUME Ascending(q, s), \A m \in Numbers(q, s) : m < f.n
      PROVE  Ascending(r, s)
  <2> SUFFICES ASSUME NEW i \in DOMAIN r, NEW j \in DOMAIN r, i < j,
                      IsData(r[i], s), IsData(r[j], s)
               PROVE  r[i].n < r[j].n
    BY DEF Ascending
  <2>1. i \in DOMAIN q /\ r[i] = q[i]
    BY <1>1
  <2>2. CASE j \in DOMAIN q
    BY <1>1, <1>3, <2>1, <2>2 DEF Ascending
  <2>3. CASE j = Len(q) + 1
    BY <1>1, <1>3, <2>1, <2>3 DEF Numbers
  <2> QED BY <1>1, <2>2, <2>3
<1> QED BY <1>2, <1>3 DEF r

\* Taking the first frame of a queue takes the number it carries and keeps the order.
LEMMA NumbersTail ==
    ASSUME NEW q \in Seq(Frame), q # <<>>, NEW s \in Streams
    PROVE  /\ Numbers(q, s) = Numbers(Tail(q), s)
                \cup (IF IsData(Head(q), s) THEN {Head(q).n} ELSE {})
           /\ Ascending(q, s) =>
                /\ Ascending(Tail(q), s)
                /\ IsData(Head(q), s) =>
                     \A m \in Numbers(Tail(q), s) : Head(q).n < m
<1> DEFINE r == Tail(q)
<1>1. /\ DOMAIN q = 1 .. Len(q) /\ DOMAIN r = 1 .. (Len(q) - 1)
      /\ Len(q) \in Nat /\ Len(q) >= 1 /\ Head(q) = q[1]
      /\ \A i \in DOMAIN r : r[i] = q[i + 1]
  OBVIOUS
<1> HIDE DEF r
<1>2. \A i \in DOMAIN r : i + 1 \in DOMAIN q /\ i + 1 > 1
  BY <1>1
<1>3. \A i \in DOMAIN q : i = 1 \/ (i - 1 \in DOMAIN r /\ r[i - 1] = q[i])
  BY <1>1
<1>4. 1 \in DOMAIN q
  BY <1>1
<1>5. Numbers(q, s) = Numbers(r, s)
         \cup (IF IsData(Head(q), s) THEN {Head(q).n} ELSE {})
  <2>1. ASSUME NEW m \in Numbers(q, s)
        PROVE  m \in Numbers(r, s) \cup (IF IsData(Head(q), s) THEN {Head(q).n} ELSE {})
    BY <1>1, <1>3 DEF Numbers
  <2>2. Numbers(r, s) \subseteq Numbers(q, s)
    BY <1>1, <1>2 DEF Numbers
  <2>3. IsData(Head(q), s) => Head(q).n \in Numbers(q, s)
    BY <1>1, <1>4 DEF Numbers
  <2> QED BY <2>1, <2>2, <2>3
<1>6. ASSUME Ascending(q, s) PROVE Ascending(r, s)
  <2> SUFFICES ASSUME NEW i \in DOMAIN r, NEW j \in DOMAIN r, i < j,
                      IsData(r[i], s), IsData(r[j], s)
               PROVE  r[i].n < r[j].n
    BY DEF Ascending
  <2>1. i + 1 < j + 1
    BY <1>1
  <2> QED BY <1>1, <1>2, <1>6, <2>1 DEF Ascending
<1>7. ASSUME Ascending(q, s), IsData(Head(q), s), NEW m \in Numbers(r, s)
      PROVE  Head(q).n < m
  <2>1. PICK i \in DOMAIN r : IsData(r[i], s) /\ m = r[i].n
    BY DEF Numbers
  <2> QED BY <1>1, <1>2, <1>4, <1>7, <2>1 DEF Ascending
<1> QED BY <1>5, <1>6, <1>7 DEF r

\* Two ascending queues, all numbers of the first below those of the second.
LEMMA NumbersConcat ==
    ASSUME NEW q \in Seq(Frame), NEW r \in Seq(Frame), NEW s \in Streams,
           Ascending(q, s), Ascending(r, s),
           \A m \in Numbers(q, s), k \in Numbers(r, s) : m < k
    PROVE  /\ Numbers(q \o r, s) = Numbers(q, s) \cup Numbers(r, s)
           /\ Ascending(q \o r, s)
<1> DEFINE c == q \o r
<1>1. /\ DOMAIN q = 1 .. Len(q) /\ DOMAIN r = 1 .. Len(r)
      /\ DOMAIN c = 1 .. (Len(q) + Len(r)) /\ Len(q) \in Nat /\ Len(r) \in Nat
      /\ \A i \in DOMAIN c :
           c[i] = IF i <= Len(q) THEN q[i] ELSE r[i - Len(q)]
  OBVIOUS
<1> HIDE DEF c
<1>2. \A i \in DOMAIN q : i \in DOMAIN c /\ c[i] = q[i]
  BY <1>1
<1>3. \A i \in DOMAIN r : i + Len(q) \in DOMAIN c /\ c[i + Len(q)] = r[i]
  BY <1>1
<1>4. \A i \in DOMAIN c : \/ i \in DOMAIN q /\ c[i] = q[i]
                          \/ i - Len(q) \in DOMAIN r /\ c[i] = r[i - Len(q)] /\ i > Len(q)
  BY <1>1
<1>5. Numbers(c, s) = Numbers(q, s) \cup Numbers(r, s)
  <2>1. ASSUME NEW m \in Numbers(c, s) PROVE m \in Numbers(q, s) \cup Numbers(r, s)
    BY <1>4 DEF Numbers
  <2>2. Numbers(q, s) \subseteq Numbers(c, s)
    BY <1>2 DEF Numbers
  <2>3. Numbers(r, s) \subseteq Numbers(c, s)
    BY <1>3 DEF Numbers
  <2> QED BY <2>1, <2>2, <2>3
<1>6. Ascending(c, s)
  <2> SUFFICES ASSUME NEW i \in DOMAIN c, NEW j \in DOMAIN c, i < j,
                      IsData(c[i], s), IsData(c[j], s)
               PROVE  c[i].n < c[j].n
    BY DEF Ascending
  <2>1. CASE i \in DOMAIN q /\ j \in DOMAIN q
    BY <1>2, <2>1 DEF Ascending
  <2>2. CASE i \in DOMAIN q /\ j > Len(q)
    <3>1. c[i].n \in Numbers(q, s)
      BY <1>2, <2>2 DEF Numbers
    <3>2. c[j].n \in Numbers(r, s)
      BY <1>1, <1>4, <2>2 DEF Numbers
    <3> QED BY <3>1, <3>2
  <2>3. CASE i > Len(q)
    <3>1. /\ i - Len(q) \in DOMAIN r /\ j - Len(q) \in DOMAIN r
          /\ i - Len(q) < j - Len(q)
          /\ c[i] = r[i - Len(q)] /\ c[j] = r[j - Len(q)]
      BY <1>1, <1>4, <2>3
    <3> QED BY <3>1 DEF Ascending
  <2> QED BY <1>1, <2>1, <2>2, <2>3
<1> QED BY <1>5, <1>6 DEF c

\* The frame the drain goroutine holds, as a queue of at most one frame.
LEMMA NumbersHeld ==
    ASSUME TypeOK, NEW s \in Streams
    PROVE  /\ Held \in Seq(Frame) /\ Ascending(Held, s)
           /\ cur = NoFrame => Numbers(Held, s) = {}
           /\ cur \in Frame =>
                Numbers(Held, s) = (IF IsData(cur, s) THEN {cur.n} ELSE {})
<1>1. CASE cur = NoFrame
  <2>1. NoFrame \notin Frame
    BY DEF NoFrame, Frame, Cmds
  <2> QED BY <1>1, <2>1 DEF Held, Numbers, Ascending
<1>2. CASE cur \in Frame
  <2>1. cur # NoFrame
    BY <1>2 DEF NoFrame, Frame, Cmds
  <2>2. Held = <<cur>>
    BY <2>1 DEF Held
  <2>3. Held \in Seq(Frame) /\ DOMAIN Held = {1} /\ Held[1] = cur
    BY <1>2, <2>2
  <2> QED BY <2>1, <2>3 DEF Numbers, Ascending
<1> QED BY <1>1, <1>2 DEF TypeOK

Before(A, B) == \A a \in A, b \in B : a < b

\* The numbers of a stream's unwritten data are split, in order, over the
\* frame in hand, the stream's queue and the input channel.
OrderedStream(s) ==
    /\ Numbers(Held, s) \cup Numbers(queues[s], s) \cup Numbers(input, s)
         = (nwire[s] + 1) .. nsent[s]
    /\ Before(Numbers(Held, s), Numbers(queues[s], s))
    /\ Before(Numbers(Held, s), Numbers(input, s))
    /\ Before(Numbers(queues[s], s), Numbers(input, s))
    /\ Ascending(queues[s], s) /\ Ascending(input, s)
    /\ nwire[s] <= nsent[s]

OrderInv ==
    /\ (wpc = "select" /\ wframe.cmd = "PSH") => wframe.n = nsent[wframe.sid] + 1
    /\ \A i \in DOMAIN priority : priority[i].cmd # "PSH"
    /\ \A s \in Streams : \A i \in DOMAIN queues[s] : queues[s][i].sid = s
    /\ \A s \in Streams : OrderedStream(s)

\* classify moves at most one number from the input channel to its queue.
LEMMA ClassifyOrder ==
    ASSUME TypeOK, OrderInv, input # <<>>, Classify(Head(input)),
           input' = Tail(input), UNCHANGED <<cur, wpc, wframe, nsent, nwire>>
    PROVE  OrderInv'
<1> DEFINE f == Head(input)
<1>1. /\ input \in Seq(Frame) /\ f \in Frame /\ priority \in Seq(Frame)
      /\ queues \in [Streams -> Seq(Frame)]
  BY DEF TypeOK
<1>2. f.sid \in Streams /\ f.n \in Nat
  BY <1>1 DEF Frame
<1>3. \A i \in DOMAIN priority' : priority'[i].cmd # "PSH"
  <2>1. CASE Queued(f)
    BY <2>1 DEF Classify, OrderInv
  <2>2. CASE ~Queued(f)
    <3>1. f.cmd # "PSH" /\ priority' = Append(priority, f)
      BY <2>2 DEF Queued, Classify
    <3>2. \A i \in DOMAIN priority' :
            priority'[i] = f \/ (i \in DOMAIN priority /\ priority'[i] = priority[i])
      BY <1>1, <3>1
    <3> QED BY <3>1, <3>2 DEF OrderInv
  <2> QED BY <2>1, <2>2
<1>4. ASSUME NEW s \in Streams
      PROVE  /\ \A i \in DOMAIN queues'[s] : queues'[s][i].sid = s
             /\ OrderedStream(s)'
  <2>1. Held' = Held
    BY DEF Held
  <2>2. /\ Numbers(input, s) = Numbers(Tail(input), s)
             \cup (IF IsData(f, s) THEN {f.n} ELSE {})
        /\ Ascending(Tail(input), s)
        /\ IsData(f, s) => \A m \in Numbers(Tail(input), s) : f.n < m
    BY <1>1, NumbersTail DEF OrderInv, OrderedStream
  <2>3. CASE Queued(f) /\ f.sid = s
    <3>1. queues'[s] = Append(queues[s], f) /\ queues[s] \in Seq(Frame)
      BY <1>1, <2>3 DEF Classify
    <3>2. \A i \in DOMAIN queues'[s] :
            queues'[s][i] = f \/ (i \in DOMAIN queues[s] /\ queues'[s][i] = queues[s][i])
      BY <1>1, <3>1
    <3>3. \A i \in DOMAIN queues'[s] : queues'[s][i].sid = s
      BY <2>3, <3>2 DEF OrderInv
    <3>4. Numbers(queues'[s], s) =
            Numbers(queues[s], s) \cup (IF IsData(f, s) THEN {f.n} ELSE {})
      BY <1>1, <3>1, NumbersAppend
    <3>5. IsData(f, s) => Ascending(queues'[s], s)
      <4>1. IsData(f, s) => \A m \in Numbers(queues[s], s) : m < f.n
        BY <2>2 DEF OrderInv, OrderedStream, Before
      <4>2. Ascending(queues[s], s)
        BY DEF OrderInv, OrderedStream
      <4> QED BY <1>1, <3>1, <4>1, <4>2, NumbersAppend
    <3>6. ~IsData(f, s) => Ascending(queues'[s], s)
      <4>1. Ascending(queues[s], s)
        BY DEF OrderInv, OrderedStream
      <4>2. DOMAIN queues'[s] = 1 .. (Len(queues[s]) + 1) /\ DOMAIN queues[s] = 1 .. Len(queues[s])
            /\ queues'[s][Len(queues[s]) + 1] = f /\ Len(queues[s]) \in Nat
        BY <1>1, <3>1
      <4> QED BY <3>2, <4>1, <4>2 DEF Ascending
    <3>7. OrderedStream(s) /\ Ascending(queues'[s], s)
      BY <3>5, <3>6 DEF OrderInv
    <3> HIDE DEF f
    <3>8. OrderedStream(s)'
      BY <2>1, <2>2, <3>4, <3>7 DEF OrderedStream, Before
    <3> QED BY <3>3, <3>8
  <2>4. CASE ~(Queued(f) /\ f.sid = s)
    <3>1. queues'[s] = queues[s]
      BY <1>1, <1>2, <2>4 DEF Classify
    <3>2. ~IsData(f, s)
      BY <2>4 DEF IsData, Queued
    <3> QED BY <2>1, <2>2, <3>1, <3>2 DEF OrderInv, OrderedStream, Before
  <2> QED BY <2>3, <2>4
<1> QED BY <1>3, <1>4 DEF OrderInv

\* Every step keeps the data of a stream in the order it was written.
LEMMA OrderInvInductive == TypeInv /\ OrderInv /\ [Next]_vars => OrderInv'
<1> SUFFICES ASSUME TypeInv, OrderInv, [Next]_vars PROVE OrderInv'
  OBVIOUS
<1>0. /\ TypeOK /\ input \in Seq(Frame) /\ priority \in Seq(Frame)
      /\ queues \in [Streams -> Seq(Frame)]
      /\ nsent \in [Streams -> Nat] /\ nwire \in [Streams -> Nat]
      /\ opened \subseteq Streams
  BY DEF TypeInv, TypeOK
<1>1. CASE WriteBegin
  <2>1. UNCHANGED <<input, queues, cur, priority, nsent, nwire>>
    BY <1>1 DEF WriteBegin, qVars, writerVars, netVars
  <2>2. wframe'.cmd = "PSH" => wframe'.n = nsent[wframe'.sid] + 1
    BY <1>0, <1>1 DEF WriteBegin, SmuxFrames, MkFrame
  <2> QED BY <2>1, <2>2 DEF OrderInv, OrderedStream, Held
<1>2. CASE WriteEnqueue
  <2> DEFINE f == IF wframe.cmd \in {"SYN", "CTL"}
                    THEN [wframe EXCEPT !.at = dataWrites] ELSE wframe
  <2>1. wframe \in Frame /\ f \in Frame
    BY <1>0, <1>2 DEF WriteEnqueue, TypeOK, Frame
  <2>2. f.cmd = wframe.cmd /\ f.sid = wframe.sid /\ f.n = wframe.n
    BY <2>1 DEF Frame
  <2>3. f.n \in Nat /\ f.sid \in Streams
    BY <2>1 DEF Frame
  <2>4. f.cmd = "PSH" => f.n = nsent[f.sid] + 1
    BY <1>2, <2>2 DEF WriteEnqueue, OrderInv
  <2>5. input' = Append(input, f) /\ UNCHANGED <<queues, cur, priority, nwire>> /\ wpc' = "ready"
    BY <1>2 DEF WriteEnqueue, qVars, netVars
  <2>6. nsent' = IF f.cmd = "PSH" THEN [nsent EXCEPT ![f.sid] = @ + 1] ELSE nsent
    BY <1>2, <2>2 DEF WriteEnqueue
  <2> HIDE DEF f
  <2>7. ASSUME NEW s \in Streams PROVE OrderedStream(s)'
    <3>1. Held' = Held /\ queues'[s] = queues[s] /\ nwire'[s] = nwire[s]
      BY <2>5 DEF Held
    <3>2. nsent'[s] = IF IsData(f, s) THEN nsent[s] + 1 ELSE nsent[s]
      BY <1>0, <2>3, <2>6 DEF IsData
    <3>3. /\ Numbers(input', s) = Numbers(input, s) \cup (IF IsData(f, s) THEN {f.n} ELSE {})
          /\ Ascending(input, s) /\ (\A m \in Numbers(input, s) : m < f.n)
                => Ascending(input', s)
      BY <1>0, <2>1, <2>5, NumbersAppend
    <3>4. OrderedStream(s) /\ nsent[s] \in Nat /\ nwire[s] \in Nat
      BY <1>0 DEF OrderInv
    <3>5. CASE IsData(f, s)
      <4>1. f.n = nsent[s] + 1
        BY <2>4, <3>5 DEF IsData
      <4>2. \A m \in Numbers(Held, s) \cup Numbers(queues[s], s) \cup Numbers(input, s) :
              m \in (nwire[s] + 1) .. nsent[s]
        BY <3>4 DEF OrderedStream
      <4>3. \A m \in Numbers(Held, s) \cup Numbers(queues[s], s) \cup Numbers(input, s) :
              m < f.n
        BY <3>4, <4>1, <4>2
      <4>4. Ascending(input', s)
        BY <3>3, <3>4, <4>3 DEF OrderedStream
      <4>5. nwire[s] <= nsent[s]
        BY <3>4 DEF OrderedStream
      <4>6. Numbers(Held, s) \cup Numbers(queues[s], s) \cup Numbers(input', s)
              = (nwire[s] + 1) .. (nsent[s] + 1)
        <5>1. (nwire[s] + 1) .. (nsent[s] + 1) = ((nwire[s] + 1) .. nsent[s]) \cup {nsent[s] + 1}
          BY <3>4, <4>5
        <5> QED BY <3>3, <3>4, <3>5, <4>1, <5>1 DEF OrderedStream
      <4> QED BY <3>1, <3>2, <3>3, <3>4, <3>5, <4>3, <4>4, <4>6 DEF OrderedStream, Before
    <3>6. CASE ~IsData(f, s)
      <4>1. Ascending(input', s)
        <5>1. /\ DOMAIN input' = 1 .. (Len(input) + 1) /\ DOMAIN input = 1 .. Len(input)
              /\ input'[Len(input) + 1] = f /\ Len(input) \in Nat
              /\ \A i \in DOMAIN input : input'[i] = input[i]
          BY <1>0, <2>1, <2>5
        <5>2. Ascending(input, s)
          BY <3>4 DEF OrderedStream
        <5> QED BY <3>6, <5>1, <5>2 DEF Ascending
      <4> QED BY <3>1, <3>2, <3>3, <3>4, <3>6, <4>1 DEF OrderedStream
    <3> QED BY <3>5, <3>6
  <2> QED BY <2>5, <2>7 DEF OrderInv
<1>4. CASE CollectBefore
  BY <1>0, <1>4, ClassifyOrder DEF CollectBefore, writerVars, netVars
<1>5. CASE CollectInside
  BY <1>0, <1>5, ClassifyOrder DEF CollectInside, writerVars, netVars
<1>6. CASE FlushOne
  <2>1. Head(priority) = priority[1] /\ 1 \in DOMAIN priority
        /\ \A i \in DOMAIN Tail(priority) :
             i + 1 \in DOMAIN priority /\ Tail(priority)[i] = priority[i + 1]
    BY <1>0, <1>6 DEF FlushOne
  <2>2. Head(priority).cmd # "PSH"
    BY <2>1 DEF OrderInv
  <2>3. nwire' = nwire /\ priority' = Tail(priority)
        /\ UNCHANGED <<input, queues, cur, nsent, wpc, wframe>>
    BY <1>6, <2>2 DEF FlushOne, OnWire, writerVars
  <2>4. \A i \in DOMAIN priority' : priority'[i].cmd # "PSH"
    BY <2>1, <2>3 DEF OrderInv
  <2> QED BY <2>3, <2>4 DEF OrderInv, OrderedStream, Held
<1>7. CASE WriteData
  <2>1. cur \in Frame /\ cur' = NoFrame
    BY <1>0, <1>7 DEF WriteData, TypeOK
  <2>2. cur.sid \in Streams /\ cur.n \in Nat
    BY <2>1 DEF Frame
  <2>3. UNCHANGED <<input, queues, priority, nsent, wpc, wframe>>
    BY <1>7 DEF WriteData, qVars, writerVars
  <2>4. nwire' = IF cur.cmd = "PSH" THEN [nwire EXCEPT ![cur.sid] = @ + 1] ELSE nwire
    BY <1>7 DEF WriteData, OnWire
  <2>5. ASSUME NEW s \in Streams PROVE OrderedStream(s)'
    <3>1. Numbers(Held, s) = (IF IsData(cur, s) THEN {cur.n} ELSE {})
      BY <1>0, <2>1, NumbersHeld
    <3>2. Numbers(Held', s) = {}
      BY <2>1 DEF Held, Numbers
    <3>3. OrderedStream(s) /\ nsent[s] \in Nat /\ nwire[s] \in Nat
      BY <1>0 DEF OrderInv
    <3>4. nwire'[s] = IF IsData(cur, s) THEN nwire[s] + 1 ELSE nwire[s]
      BY <1>0, <2>2, <2>4 DEF IsData
    <3>5. CASE IsData(cur, s)
      <4> DEFINE Rest == Numbers(queues[s], s) \cup Numbers(input, s)
      <4>1. {cur.n} \cup Rest = (nwire[s] + 1) .. nsent[s]
        BY <3>1, <3>3, <3>5 DEF OrderedStream
      <4>2. \A m \in Rest : cur.n < m
        BY <3>1, <3>3, <3>5 DEF OrderedStream, Before
      <4> HIDE DEF Rest
      <4>3. cur.n \in (nwire[s] + 1) .. nsent[s] /\ nwire[s] + 1 \in {cur.n} \cup Rest
        BY <3>3, <4>1
      <4>4. cur.n = nwire[s] + 1
        BY <3>3, <4>2, <4>3
      <4>5. Rest = (nwire[s] + 2) .. nsent[s]
        <5>1. ASSUME NEW m \in Rest PROVE m \in (nwire[s] + 2) .. nsent[s]
          BY <3>3, <4>1, <4>2, <4>4
        <5>2. ASSUME NEW m \in (nwire[s] + 2) .. nsent[s] PROVE m \in Rest
          <6>1. m \in (nwire[s] + 1) .. nsent[s] /\ m # cur.n
            BY <3>3, <4>4
          <6> QED BY <4>1, <6>1
        <5> QED BY <5>1, <5>2
      <4>6. nwire'[s] <= nsent[s] /\ nwire'[s] + 1 = nwire[s] + 2
        BY <3>3, <3>4, <3>5, <4>3, <4>4
      <4> QED BY <2>3, <3>2, <3>3, <4>5, <4>6 DEF OrderedStream, Before, Rest
    <3>6. CASE ~IsData(cur, s)
      BY <2>3, <3>1, <3>2, <3>3, <3>4, <3>6 DEF OrderedStream, Before
    <3> QED BY <3>5, <3>6
  <2> QED BY <2>3, <2>5 DEF OrderInv
<1>8. CASE Pop
  <2> DEFINE h == Head(queues[sid])
  <2>1. sid \in Streams /\ queues[sid] # <<>> /\ queues[sid] \in Seq(Frame) /\ cur = NoFrame
    BY <1>0, <1>8 DEF Pop, Fits, TypeInv, TypeOK, Serving, sid
  <2>2. h \in Frame /\ h = queues[sid][1] /\ 1 \in DOMAIN queues[sid]
    BY <2>1
  <2>3. /\ cur' = h /\ queues' = [queues EXCEPT ![sid] = Tail(queues[sid])]
        /\ UNCHANGED <<input, priority, nsent, nwire, wpc, wframe>>
    BY <1>8 DEF Pop, Popped, writerVars, netVars
  <2>4. h.sid = sid
    BY <2>1, <2>2 DEF OrderInv
  <2>5. cur' # NoFrame
    BY <2>2, <2>3 DEF NoFrame, Frame, Cmds
  <2>6. Held' = <<h>>
    BY <2>3, <2>5 DEF Held
  <2>7. ASSUME NEW s \in Streams
        PROVE  /\ \A i \in DOMAIN queues'[s] : queues'[s][i].sid = s
               /\ OrderedStream(s)'
    <3>1. Numbers(Held, s) = {}
      BY <1>0, <2>1, NumbersHeld
    <3>2. Numbers(Held', s) = (IF IsData(h, s) THEN {h.n} ELSE {})
      <4>1. DOMAIN <<h>> = {1} /\ <<h>>[1] = h
        OBVIOUS
      <4> QED BY <2>6, <4>1 DEF Numbers
    <3>3. OrderedStream(s)
      BY DEF OrderInv
    <3>4. CASE s = sid
      <4>1. queues'[s] = Tail(queues[s]) /\ queues[s] \in Seq(Frame) /\ queues[s] # <<>>
        BY <1>0, <2>1, <2>3, <3>4
      <4>2. \A i \in DOMAIN Tail(queues[s]) :
              i + 1 \in DOMAIN queues[s] /\ Tail(queues[s])[i] = queues[s][i + 1]
        BY <4>1
      <4>3. \A i \in DOMAIN queues'[s] : queues'[s][i].sid = s
        BY <4>1, <4>2 DEF OrderInv
      <4>4. /\ Numbers(queues[s], s) = Numbers(queues'[s], s)
                 \cup (IF IsData(h, s) THEN {h.n} ELSE {})
            /\ Ascending(queues'[s], s)
            /\ IsData(h, s) => \A m \in Numbers(queues'[s], s) : h.n < m
        BY <3>3, <3>4, <4>1, NumbersTail DEF OrderedStream
      <4> QED BY <2>3, <3>1, <3>2, <3>3, <4>3, <4>4 DEF OrderedStream, Before
    <3>5. CASE s # sid
      <4>1. queues'[s] = queues[s]
        BY <1>0, <2>3, <3>5
      <4>2. ~IsData(h, s)
        BY <2>4, <3>5 DEF IsData
      <4> QED BY <2>3, <3>1, <3>2, <3>3, <4>1, <4>2 DEF OrderInv, OrderedStream, Before
    <3> QED BY <3>4, <3>5
  <2> QED BY <2>3, <2>7 DEF OrderInv
<1>9. ASSUME UNCHANGED <<input, queues, cur, priority, nsent, nwire>>,
             wpc' = "select" => UNCHANGED <<wpc, wframe>>
      PROVE  OrderInv'
  BY <1>9 DEF OrderInv, OrderedStream, Held
<1>10. CASE \/ WriteClosed \/ Close \/ DrainStop \/ CollectEnd
            \/ FlushEnd \/ WriteError \/ UNCHANGED vars
  BY <1>9, <1>10 DEF WriteClosed, Close, DrainStop, CollectEnd,
     FlushEnd, WriteError, vars, qVars, writerVars, netVars
<1>11. CASE TurnBegin \/ RoundEnd \/ TurnEndBacklog \/ TurnEndEmpty
  BY <1>9, <1>11 DEF TurnBegin, RoundEnd, TurnEndBacklog, TurnEndEmpty, writerVars, netVars
<1> QED
  BY <1>1, <1>2, <1>4, <1>5, <1>6, <1>7, <1>8, <1>10, <1>11
     DEF Next, DrainStep, WriterStep

\* No data frame of any stream is lost, duplicated or reordered between the
\* Write call that accepted it and the connection, for any number of streams,
\* any channel capacity, any quantum and any frame sizes up to the quantum.
THEOREM DataOrdered == Spec => []DataInOrder
<1>1. Init => OrderInv
  <2> SUFFICES ASSUME Init PROVE OrderInv
    OBVIOUS
  <2>1. wpc = "ready" /\ priority = <<>> /\ \A s \in Streams : queues[s] = <<>>
    BY DEF Init
  <2>2. ASSUME NEW s \in Streams PROVE OrderedStream(s)
    <3>1. input = <<>> /\ queues[s] = <<>> /\ Held = <<>> /\ nwire[s] = 0 /\ nsent[s] = 0
      BY DEF Init, Held
    <3> QED BY <3>1 DEF OrderedStream, Numbers, Ascending, Before
  <2> QED BY <2>1, <2>2 DEF OrderInv
<1>2. TypeInv /\ OrderInv => DataInOrder
  <2> SUFFICES ASSUME TypeInv, OrderInv, NEW s \in Streams
               PROVE  LET path == Held \o queues[s] \o input
                      IN /\ Numbers(path, s) = (nwire[s] + 1) .. nsent[s]
                         /\ Ascending(path, s)
    BY DEF DataInOrder
  <2>1. OrderedStream(s) /\ TypeOK /\ queues[s] \in Seq(Frame) /\ input \in Seq(Frame)
    BY DEF OrderInv, TypeInv, TypeOK
  <2>2. Held \in Seq(Frame) /\ Ascending(Held, s)
    BY <2>1, NumbersHeld
  <2>3. /\ Numbers(Held \o queues[s], s) = Numbers(Held, s) \cup Numbers(queues[s], s)
        /\ Ascending(Held \o queues[s], s)
    BY <2>1, <2>2, NumbersConcat DEF OrderedStream, Before
  <2>4. Held \o queues[s] \in Seq(Frame)
    BY <2>1, <2>2
  <2>5. /\ Numbers((Held \o queues[s]) \o input, s) =
             Numbers(Held \o queues[s], s) \cup Numbers(input, s)
        /\ Ascending((Held \o queues[s]) \o input, s)
    BY <2>1, <2>3, <2>4, NumbersConcat DEF OrderedStream, Before
  <2> QED BY <2>1, <2>3, <2>5 DEF OrderedStream
<1>3. TypeInv /\ OrderInv /\ [Next]_vars => (TypeInv /\ OrderInv)'
  BY TypeInvInductive, OrderInvInductive
<1> QED BY <1>1, <1>2, <1>3, TypeInvInit, PTL DEF Spec
=============================================================================
