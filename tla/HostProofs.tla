------------------------------ MODULE HostProofs ------------------------------
(***************************************************************************)
(* Proofs about what netferry installs on the host and what it shows of    *)
(* its work there: the event stream of the open connections, the history   *)
(* of the closed ones, and what the firewall methods leave on the host and *)
(* do with its packets.                                                    *)
(***************************************************************************)
EXTENDS Firewall, Stats, FiniteSetTheorems, SequenceTheorems, TLAPS

(***************************************************************************)
(* Stats.  ViewExact speaks of the moment when nothing is on the way, so   *)
(* the invariant says what is on the way: of every connection whose event  *)
(* is queued, a reader that goes through its channel, the snapshot the     *)
(* broadcaster has taken and the queued events, in this order, ends up     *)
(* with the truth.  Messages may be stale on the way: a snapshot is newer  *)
(* than events still queued, which are then applied to it, or older than   *)
(* what the reader knows already.  What such a message gets wrong, a later *)
(* one on the way puts right.                                              *)
(***************************************************************************)
\* The records of the events and of the snapshots.
ConnEvents == [t : {"open", "close"}, id : Ids]
Messages == ConnEvents \cup [t : {"snapshot"}, ids : SUBSET Ids]

\* The message says whether connection i is open; and it says that it is.
Tells(m, i) == m.t = "snapshot" \/ m.id = i
SaysOpen(m, i) == m.t = "open" \/ (m.t = "snapshot" /\ i \in m.ids)

\* What a reader knows who begins with view and reads the messages: of each
\* connection, what the last message that tells of it says.
After(view, ms) ==
    {i \in Ids :
        \/ /\ i \in view
           /\ \A k \in DOMAIN ms : ~Tells(ms[k], i)
        \/ \E k \in DOMAIN ms : /\ Tells(ms[k], i) /\ SaysOpen(ms[k], i)
                                /\ \A l \in DOMAIN ms : k < l => ~Tells(ms[l], i)}

\* The snapshot that the broadcaster is about to send replaces the view.
Snapped(view) == IF bcast.pc = "snapshot" THEN bcast.snap ELSE view

\* What the record of a subscriber begins with, and what subscriber s will know
\* when it has read all that is on its way.
Base(r) == IF r.st = "registered" THEN r.snap ELSE r.view
WillKnow(s) == After(Snapped(After(Base(sub[s]), sub[s].q)), events)

\* No event of the connection is still to be queued.
Settled(i) == pc[i] \in {"none", "open", "failed", "done"}

StatsTypes ==
    /\ nextConnID \in Nat /\ OpenConns \in SUBSET Ids
    /\ pc \in [Ids -> {"none", "opening", "open", "persist", "closing", "failed", "done"}]
    /\ events \in Seq(ConnEvents)
    /\ sub \in [Subscribers -> [st : {"off", "registered", "on"}, snap : SUBSET Ids,
                                q : Seq(Messages), view : SUBSET Ids, lossy : BOOLEAN]]
    /\ bcast \in [pc : {"idle", "snapshot"}, snap : SUBSET Ids]

\* What is on the way brings every subscriber the truth about the connections
\* that are settled, and so does what the broadcaster has still to send.
PipeExact ==
    ~lost => \A i \in Ids : Settled(i) =>
                (i \in After(Snapped(OpenConns), events) <=> i \in OpenConns)
KnowExact ==
    ~lost => \A s \in Http : sub[s].st # "off" /\ ~sub[s].lossy =>
                \A i \in Ids : Settled(i) => (i \in WillKnow(s) <=> i \in OpenConns)

\* Besides, ids beyond the newest are unused, and a connection is in the table
\* from its opening to the step that removes it.
StreamInv ==
    /\ StatsTypes
    /\ \A i \in Ids : nextConnID < i => pc[i] = "none"
    /\ \A i \in Ids : i \in OpenConns <=> pc[i] \in {"opening", "open"}
    /\ PipeExact
    /\ KnowExact

\* One message, and what it changes for each connection.
LEMMA AppliedTells ==
    ASSUME NEW m \in Messages, NEW view \in SUBSET Ids
    PROVE  /\ Applied(view, m) \in SUBSET Ids
           /\ \A i \in Ids : /\ Tells(m, i) => (i \in Applied(view, m) <=> SaysOpen(m, i))
                             /\ ~Tells(m, i) => (i \in Applied(view, m) <=> i \in view)
<1>1. CASE m \in ConnEvents
  <2>1. m.t \in {"open", "close"} /\ m.id \in Ids
      BY <1>1 DEF ConnEvents
  <2>2. CASE m.t = "open"
      BY <2>1, <2>2 DEF Applied, Tells, SaysOpen
  <2>3. CASE m.t = "close"
      BY <2>1, <2>3 DEF Applied, Tells, SaysOpen
  <2> QED
      BY <2>1, <2>2, <2>3
<1>2. CASE m \in [t : {"snapshot"}, ids : SUBSET Ids]
  <2>1. m.t = "snapshot" /\ m.ids \in SUBSET Ids
      BY <1>2
  <2>2. Applied(view, m) = m.ids
      BY <2>1 DEF Applied
  <2> QED
      BY <2>1, <2>2 DEF Tells, SaysOpen
<1> QED
    BY <1>1, <1>2 DEF Messages

LEMMA AfterNone == \A view \in SUBSET Ids : After(view, <<>>) = view
BY DEF After

\* The messages decide of connection i, or leave what was known of it.
LEMMA AfterAny ==
    ASSUME NEW ms, NEW i \in Ids
    PROVE  \/ \A v : i \in After(v, ms) <=> i \in v
           \/ \A v, w : i \in After(v, ms) <=> i \in After(w, ms)
<1>1. CASE \A k \in DOMAIN ms : ~Tells(ms[k], i)
    BY <1>1 DEF After
<1>2. CASE \E k \in DOMAIN ms : Tells(ms[k], i)
    BY <1>2 DEF After
<1> QED
    BY <1>1, <1>2

\* One more message.
LEMMA AfterAppend ==
    ASSUME NEW ms \in Seq(Messages), NEW m \in Messages, NEW view \in SUBSET Ids
    PROVE  After(view, Append(ms, m)) = Applied(After(view, ms), m)
<1> DEFINE n == Len(ms)
           l == Append(ms, m)
<1>1. /\ n \in Nat /\ DOMAIN ms = 1 .. n /\ DOMAIN l = 1 .. n + 1
      /\ \A k \in 1 .. n : l[k] = ms[k]
      /\ l[n + 1] = m
    OBVIOUS
<1> HIDE DEF n, l
<1>2. After(view, ms) \in SUBSET Ids /\ After(view, l) \in SUBSET Ids
    BY DEF After
<1>3. ASSUME NEW i \in Ids PROVE i \in After(view, l) <=> i \in Applied(After(view, ms), m)
  <2>1. CASE Tells(m, i)
    <3>1. i \in Applied(After(view, ms), m) <=> SaysOpen(m, i)
        BY <1>2, <2>1, AppliedTells
    <3>2. \A k \in 1 .. n : k < n + 1 /\ k \in 1 .. n + 1 /\ ~(n + 1 < k)
        BY <1>1
    <3>3. /\ n + 1 \in 1 .. n + 1 /\ ~(n + 1 < n + 1)
      /\ \A k \in 1 .. n + 1 : k \in 1 .. n \/ k = n + 1
        BY <1>1
    <3>4. SaysOpen(m, i) => i \in After(view, l)
      <4>1. \A k \in 1 .. n + 1 : ~(n + 1 < k)
          BY <3>2, <3>3
      <4> QED
          BY <1>1, <2>1, <3>3, <4>1 DEF After
    <3>5. i \in After(view, l) => SaysOpen(m, i)
        BY <1>1, <2>1, <3>2, <3>3 DEF After
    <3> QED
        BY <3>1, <3>4, <3>5
  <2>2. CASE ~Tells(m, i)
    <3>1. i \in Applied(After(view, ms), m) <=> i \in After(view, ms)
        BY <1>2, <2>2, AppliedTells
    <3>2. \A k \in 1 .. n : k \in 1 .. n + 1
        BY <1>1
    <3>3. \A k \in 1 .. n + 1 : Tells(l[k], i) => k \in 1 .. n /\ l[k] = ms[k]
        BY <1>1, <2>2
    <3>4. i \in After(view, ms) => i \in After(view, l)
        BY <1>1, <3>2, <3>3 DEF After
    <3>5. i \in After(view, l) => i \in After(view, ms)
        BY <1>1, <3>2, <3>3 DEF After
    <3> QED
        BY <3>1, <3>4, <3>5
  <2> QED
      BY <2>1, <2>2
<1>4. Applied(After(view, ms), m) \in SUBSET Ids
    BY <1>2, AppliedTells
<1> QED
    BY <1>2, <1>3, <1>4 DEF l

\* The first message has been read.
LEMMA AfterHead ==
    ASSUME NEW ms \in Seq(Messages), ms # <<>>, NEW view \in SUBSET Ids
    PROVE  After(view, ms) = After(Applied(view, Head(ms)), Tail(ms))
<1> DEFINE n == Len(ms)
           l == Tail(ms)
           m == Head(ms)
           known == Applied(view, m)
<1>1. /\ n \in Nat /\ n > 0 /\ DOMAIN ms = 1 .. n /\ DOMAIN l = 1 .. n - 1
      /\ \A k \in 1 .. n - 1 : l[k] = ms[k + 1]
      /\ m = ms[1] /\ m \in Messages
    OBVIOUS
<1> HIDE DEF n, l, m
<1>2. known \in SUBSET Ids
    BY <1>1, AppliedTells
<1>3. /\ \A k \in 1 .. n : k # 1 => k - 1 \in 1 .. n - 1 /\ ms[k] = l[k - 1]
      /\ \A k \in 1 .. n - 1 : k + 1 \in 1 .. n /\ k + 1 # 1 /\ 1 < k + 1 /\ ms[k + 1] = l[k]
      /\ 1 \in 1 .. n
    BY <1>1
<1>4. ASSUME NEW i \in Ids PROVE i \in After(view, ms) <=> i \in After(known, l)
  <2>1. CASE \E k \in 1 .. n - 1 : Tells(l[k], i)
    <3> DEFINE Decides(k) == /\ Tells(l[k], i) /\ SaysOpen(l[k], i)
                             /\ \A j \in 1 .. n - 1 : k < j => ~Tells(l[j], i)
    <3>1. i \in After(known, l) <=> \E k \in 1 .. n - 1 : Decides(k)
        BY <1>1, <2>1 DEF After
    <3>2. ASSUME NEW k \in 1 .. n - 1, Decides(k) PROVE i \in After(view, ms)
      <4>1. /\ k + 1 \in 1 .. n /\ Tells(ms[k + 1], i) /\ SaysOpen(ms[k + 1], i)
            /\ \A j \in 1 .. n : k + 1 < j => ~Tells(ms[j], i)
        <5>1. ASSUME NEW j \in 1 .. n, k + 1 < j PROVE ~Tells(ms[j], i)
          <6>1. j # 1 /\ k < j - 1
              BY <1>1, <5>1
          <6> QED
              BY <1>3, <3>2, <6>1
        <5> QED
            BY <1>3, <3>2, <5>1
      <4> QED
          BY <1>1, <4>1 DEF After
    <3>3. ASSUME i \in After(view, ms) PROVE \E k \in 1 .. n - 1 : Decides(k)
      <4>1. PICK k \in 1 .. n : /\ Tells(ms[k], i) /\ SaysOpen(ms[k], i)
                                /\ \A j \in 1 .. n : k < j => ~Tells(ms[j], i)
        <5>1. \E k \in 1 .. n : Tells(ms[k], i)
            BY <1>3, <2>1
        <5> QED
            BY <1>1, <3>3, <5>1 DEF After
      <4>2. k # 1
          BY <1>3, <2>1, <4>1
      <4>3. \A j \in 1 .. n - 1 : k - 1 < j => ~Tells(l[j], i)
        <5>1. ASSUME NEW j \in 1 .. n - 1, k - 1 < j PROVE ~Tells(l[j], i)
          <6>1. k < j + 1
              BY <1>1, <5>1
          <6> QED
              BY <1>3, <4>1, <6>1
        <5> QED
            BY <5>1
      <4> QED
          BY <1>3, <4>1, <4>2, <4>3
    <3> QED
        BY <3>1, <3>2, <3>3
  <2>2. CASE \A k \in 1 .. n - 1 : ~Tells(l[k], i)
    <3>1. i \in After(known, l) <=> i \in known
        BY <1>1, <2>2 DEF After
    <3>2. \A k \in 1 .. n : k # 1 => ~Tells(ms[k], i)
        BY <1>3, <2>2
    <3>3. CASE Tells(m, i)
      <4>1. i \in known <=> SaysOpen(m, i)
          BY <1>1, <3>3, AppliedTells
      <4>2. \A k \in 1 .. n : 1 < k => ~Tells(ms[k], i)
          BY <3>2
      <4>3. i \in After(view, ms) <=> SaysOpen(m, i)
          BY <1>1, <1>3, <3>2, <3>3, <4>2 DEF After
      <4> QED
          BY <3>1, <4>1, <4>3
    <3>4. CASE ~Tells(m, i)
      <4>1. i \in known <=> i \in view
          BY <1>1, <3>4, AppliedTells
      <4>2. \A k \in 1 .. n : ~Tells(ms[k], i)
          BY <1>1, <3>2, <3>4
      <4>3. i \in After(view, ms) <=> i \in view
          BY <1>1, <4>2 DEF After
      <4> QED
          BY <3>1, <4>1, <4>3
    <3> QED
        BY <3>3, <3>4
  <2> QED
      BY <2>1, <2>2
<1>5. After(view, ms) \in SUBSET Ids /\ After(known, l) \in SUBSET Ids
    BY DEF After
<1> QED
    BY <1>4, <1>5 DEF l, m

\* A set of open connections that differs elsewhere makes no difference.
LEMMA AfterSame ==
    ASSUME NEW ms, NEW i \in Ids, NEW v, NEW w, i \in v <=> i \in w
    PROVE  i \in After(v, ms) <=> i \in After(w, ms)
BY AfterAny

\* What is on the way has its type.
LEMMA OnTheWay ==
    ASSUME StatsTypes
    PROVE  /\ ConnEvents \subseteq Messages /\ events \in Seq(Messages)
           /\ bcast.snap \in SUBSET Ids /\ \A v \in SUBSET Ids : Snapped(v) \in SUBSET Ids
           /\ \A s \in Subscribers : /\ sub[s].q \in Seq(Messages) /\ Base(sub[s]) \in SUBSET Ids
                                     /\ sub[s].view \in SUBSET Ids /\ sub[s].snap \in SUBSET Ids
           /\ \A v, ms : After(v, ms) \in SUBSET Ids
           /\ Http \subseteq Subscribers
<1>1. ConnEvents \subseteq Messages /\ events \in Seq(ConnEvents)
    BY DEF StatsTypes, Messages
<1>2. events \in Seq(Messages)
    BY <1>1
<1>3. bcast.snap \in SUBSET Ids /\ \A v \in SUBSET Ids : Snapped(v) \in SUBSET Ids
    BY DEF StatsTypes, Snapped
<1>4. \A s \in Subscribers : /\ sub[s].q \in Seq(Messages) /\ Base(sub[s]) \in SUBSET Ids
                             /\ sub[s].view \in SUBSET Ids /\ sub[s].snap \in SUBSET Ids
    BY DEF StatsTypes, Base
<1>5. \A v, ms : After(v, ms) \in SUBSET Ids
    BY DEF After
<1> QED
    BY <1>1, <1>2, <1>3, <1>4, <1>5 DEF Subscribers

\* A connection opens or ends; its event is not queued yet.
LEMMA TablesMove ==
    ASSUME PipeExact, KnowExact, NEW id \in Ids, UNCHANGED stream,
           \A i \in Ids \ {id} : pc'[i] = pc[i] /\ (i \in OpenConns' <=> i \in OpenConns),
           Settled(id)' => Settled(id) /\ (id \in OpenConns' <=> id \in OpenConns)
    PROVE  PipeExact' /\ KnowExact'
<1>1. UNCHANGED <<events, sub, bcast, lost>>
    BY DEF stream
<1>2. \A i \in Ids : Settled(i)' => Settled(i) /\ (i \in OpenConns' <=> i \in OpenConns)
    BY DEF Settled
<1>3. \A s \in Http : WillKnow(s)' = WillKnow(s)
    BY <1>1 DEF WillKnow, Base, Snapped, After, Tells, SaysOpen
<1>4. KnowExact'
    BY <1>1, <1>2, <1>3 DEF KnowExact
<1>5. ASSUME ~lost, NEW i \in Ids, Settled(i)'
      PROVE  i \in After(Snapped(OpenConns), events)' <=> i \in OpenConns'
  <2>1. i \in Snapped(OpenConns)' <=> i \in Snapped(OpenConns)
      BY <1>1, <1>2, <1>5 DEF Snapped
  <2>2. i \in After(Snapped(OpenConns)', events) <=> i \in After(Snapped(OpenConns), events)
      BY <2>1, AfterSame
  <2>3. After(Snapped(OpenConns), events)' = After(Snapped(OpenConns)', events)
      BY <1>1 DEF After, Tells, SaysOpen
  <2>4. i \in After(Snapped(OpenConns), events) <=> i \in OpenConns
      BY <1>2, <1>5 DEF PipeExact
  <2> QED
      BY <1>2, <1>5, <2>2, <2>3, <2>4
<1>6. PipeExact'
    BY <1>1, <1>5 DEF PipeExact
<1> QED
    BY <1>4, <1>6

\* An event of a connection that has opened, or ended, is queued or lost.
LEMMA EventSent ==
    ASSUME StatsTypes, PipeExact, KnowExact, NEW id \in Ids, NEW next,
           NEW action \in {"open", "close"}, SendEvent(id, action, next),
           id \in OpenConns <=> action = "open"
    PROVE  /\ PipeExact' /\ KnowExact'
           /\ events' \in Seq(ConnEvents) /\ pc' = [pc EXCEPT ![id] = next]
           /\ UNCHANGED <<tables, sub, bcast>>
<1> DEFINE m == [t |-> action, id |-> id]
<1>1. /\ pc' = [pc EXCEPT ![id] = next] /\ UNCHANGED <<tables, sub, bcast>>
      /\ \/ events' = Append(events, m) /\ lost' = lost
         \/ events' = events /\ lost' = TRUE
    BY DEF SendEvent
<1>2. conns' = conns /\ OpenConns' = OpenConns
    BY <1>1 DEF tables, OpenConns
<1>3. m \in ConnEvents /\ m \in Messages /\ events \in Seq(ConnEvents)
    BY DEF ConnEvents, Messages, StatsTypes
<1>4. events' \in Seq(ConnEvents)
    BY <1>1, <1>3
<1>5. ASSUME ~lost', NEW i \in Ids, Settled(i)', NEW v \in SUBSET Ids,
             Settled(i) => (i \in After(v, events) <=> i \in OpenConns)
      PROVE  i \in After(v, events') <=> i \in OpenConns
  <2>1. events' = Append(events, m)
      BY <1>1, <1>5
  <2>2. After(v, events') = Applied(After(v, events), m)
      BY <1>3, <2>1, OnTheWay, AfterAppend
  <2>3. /\ Tells(m, i) => (i \in After(v, events') <=> SaysOpen(m, i))
        /\ ~Tells(m, i) => (i \in After(v, events') <=> i \in After(v, events))
      BY <1>3, <2>2, OnTheWay, AppliedTells
  <2>4. Tells(m, i) <=> i = id
      BY DEF Tells
  <2>5. SaysOpen(m, i) <=> action = "open"
      BY DEF SaysOpen
  <2>6. i # id => Settled(i)
      BY <1>1, <1>5 DEF Settled, StatsTypes
  <2> QED
      BY <1>5, <2>3, <2>4, <2>5, <2>6
<1> HIDE DEF m
<1>6. ~lost' => ~lost
    BY <1>1
<1>7. PipeExact'
  <2> SUFFICES ASSUME ~lost', NEW i \in Ids, Settled(i)'
               PROVE  i \in After(Snapped(OpenConns), events)' <=> i \in OpenConns'
      BY DEF PipeExact
  <2>1. Snapped(OpenConns)' = Snapped(OpenConns)
      BY <1>1, <1>2 DEF Snapped
  <2>2. After(Snapped(OpenConns), events)' = After(Snapped(OpenConns), events')
      BY <2>1 DEF After, Tells, SaysOpen
  <2>3. Snapped(OpenConns) \in SUBSET Ids
      BY OnTheWay DEF StatsTypes
  <2> QED
      BY <1>2, <1>5, <1>6, <2>2, <2>3 DEF PipeExact
<1>8. KnowExact'
  <2> SUFFICES ASSUME ~lost', NEW s \in Http, sub'[s].st # "off", ~sub'[s].lossy,
                      NEW i \in Ids, Settled(i)'
               PROVE  i \in WillKnow(s)' <=> i \in OpenConns'
      BY DEF KnowExact
  <2> DEFINE v == Snapped(After(Base(sub[s]), sub[s].q))
  <2>1. WillKnow(s)' = After(v, events')
      BY <1>1 DEF WillKnow, Base, Snapped, After, Tells, SaysOpen
  <2>2. v \in SUBSET Ids
      BY OnTheWay
  <2>3. Settled(i) => (i \in After(v, events) <=> i \in OpenConns)
      BY <1>1, <1>6 DEF KnowExact, WillKnow
  <2> HIDE DEF v
  <2> QED
      BY <1>2, <1>5, <2>1, <2>2, <2>3
<1> QED
    BY <1>1, <1>4, <1>7, <1>8

\* The steps of the goroutines of the connections.
LEMMA ConnKeeps ==
    ASSUME StreamInv, ConnStep
    PROVE  StreamInv'
<1>1. StatsTypes /\ PipeExact /\ KnowExact
    BY DEF StreamInv
<1>2. /\ nextConnID \in Nat /\ OpenConns \in SUBSET Ids
      /\ pc \in [Ids -> {"none", "opening", "open", "persist", "closing", "failed", "done"}]
      /\ \A i \in Ids : nextConnID < i => pc[i] = "none"
      /\ \A i \in Ids : i \in OpenConns <=> pc[i] \in {"opening", "open"}
      /\ \A i \in Ids : i \in Nat
    BY StatsAssumption DEF StreamInv, StatsTypes, Ids
<1>3. ASSUME NEW d \in Dests, ConnOpenRoute(d) PROVE StreamInv'
  <2> DEFINE id == nextConnID + 1
  <2>1. /\ id \in Ids /\ nextConnID' = id /\ pc' = [pc EXCEPT ![id] = "opening"]
        /\ DOMAIN conns' = {id} \cup DOMAIN conns /\ UNCHANGED stream
      BY <1>3 DEF ConnOpenRoute
  <2>2. UNCHANGED <<events, sub, bcast>>
      BY <2>1 DEF stream
  <2>3. OpenConns' = OpenConns \cup {id}
      BY <2>1 DEF OpenConns
  <2>4. id # nextConnID /\ nextConnID < id /\ \A i \in Ids : id < i => nextConnID < i /\ i # id
      BY <1>2
  <2> HIDE DEF id
  <2>5. StatsTypes'
      BY <1>1, <1>2, <2>1, <2>2, <2>3 DEF StatsTypes
  <2>6. /\ \A i \in Ids : nextConnID' < i => pc'[i] = "none"
        /\ \A i \in Ids : i \in OpenConns' <=> pc'[i] \in {"opening", "open"}
      BY <1>2, <2>1, <2>3, <2>4
  <2>7. PipeExact' /\ KnowExact'
      BY <1>1, <1>2, <2>1, <2>3, TablesMove DEF Settled
  <2> QED
      BY <2>5, <2>6, <2>7 DEF StreamInv
<1>4. ASSUME NEW k \in Ids, ConnFailed(k) PROVE StreamInv'
  <2> DEFINE id == nextConnID + 1
  <2>1. /\ id \in Ids /\ nextConnID' = id /\ pc' = [pc EXCEPT ![id] = "failed"]
        /\ conns' = conns /\ UNCHANGED stream
      BY <1>4 DEF ConnFailed
  <2>2. UNCHANGED <<events, sub, bcast>> /\ OpenConns' = OpenConns
      BY <2>1 DEF stream, OpenConns
  <2>3. id # nextConnID /\ nextConnID < id /\ \A i \in Ids : id < i => nextConnID < i /\ i # id
      BY <1>2
  <2> HIDE DEF id
  <2>4. StatsTypes'
      BY <1>1, <1>2, <2>1, <2>2 DEF StatsTypes
  <2>5. /\ \A i \in Ids : nextConnID' < i => pc'[i] = "none"
        /\ \A i \in Ids : i \in OpenConns' <=> pc'[i] \in {"opening", "open"}
      BY <1>2, <2>1, <2>2, <2>3
  <2>6. PipeExact' /\ KnowExact'
    <3>1. Settled(id)
        BY <1>2, <2>1, <2>3 DEF Settled
    <3> QED
        BY <1>1, <1>2, <2>1, <2>2, <3>1, TablesMove
  <2> QED
      BY <2>4, <2>5, <2>6 DEF StreamInv
<1>5. ASSUME NEW id \in Ids, NEW next \in {"open", "done"}, NEW action \in {"open", "close"},
             SendEvent(id, action, next), action = "open" <=> next = "open",
             pc[id] \in {"opening", "closing", "done"}, action = "open" <=> pc[id] = "opening"
      PROVE  StreamInv'
  <2>1. id \in OpenConns <=> action = "open"
      BY <1>2, <1>5
  <2>2. /\ PipeExact' /\ KnowExact'
        /\ events' \in Seq(ConnEvents) /\ pc' = [pc EXCEPT ![id] = next]
        /\ UNCHANGED <<tables, sub, bcast>>
      BY <1>1, <1>5, <2>1, EventSent
  <2>3. nextConnID' = nextConnID /\ OpenConns' = OpenConns
      BY <2>2 DEF tables, OpenConns
  <2>4. StatsTypes'
      BY <1>1, <1>2, <2>2, <2>3 DEF StatsTypes
  <2>5. /\ \A i \in Ids : nextConnID' < i => pc'[i] = "none"
        /\ \A i \in Ids : i \in OpenConns' <=> pc'[i] \in {"opening", "open"}
      BY <1>2, <1>5, <2>1, <2>2, <2>3
  <2> QED
      BY <2>2, <2>4, <2>5 DEF StreamInv
<1>6. ASSUME NEW id \in Ids, PersistConn(id) PROVE StreamInv'
  <2>1. /\ pc[id] \in {"persist", "failed"} /\ UNCHANGED <<tables, stream>>
        /\ pc' = [pc EXCEPT ![id] = IF pc[id] = "persist" THEN "closing" ELSE "done"]
      BY <1>6 DEF PersistConn
  <2>2. UNCHANGED <<events, sub, bcast, nextConnID>> /\ OpenConns' = OpenConns
      BY <2>1 DEF stream, tables, OpenConns
  <2>3. StatsTypes'
      BY <1>1, <1>2, <2>1, <2>2 DEF StatsTypes
  <2>4. /\ \A i \in Ids : nextConnID' < i => pc'[i] = "none"
        /\ \A i \in Ids : i \in OpenConns' <=> pc'[i] \in {"opening", "open"}
      BY <1>2, <2>1, <2>2
  <2>5. PipeExact' /\ KnowExact'
      BY <1>1, <1>2, <2>1, <2>2, TablesMove DEF Settled
  <2> QED
      BY <2>3, <2>4, <2>5 DEF StreamInv
<1>7. ASSUME NEW id \in Ids, NEW e \in BOOLEAN, ConnCloseErr(id, e) PROVE StreamInv'
  <2>1. /\ pc[id] = "open" /\ pc' = [pc EXCEPT ![id] = "persist"]
        /\ conns' = Restrict(conns, DOMAIN conns \ {id}) /\ UNCHANGED <<nextConnID, stream>>
      BY <1>7 DEF ConnCloseErr
  <2>2. UNCHANGED <<events, sub, bcast, nextConnID>> /\ OpenConns' = OpenConns \ {id}
      BY <2>1 DEF stream, OpenConns, Restrict
  <2>3. StatsTypes'
      BY <1>1, <1>2, <2>1, <2>2 DEF StatsTypes
  <2>4. /\ \A i \in Ids : nextConnID' < i => pc'[i] = "none"
        /\ \A i \in Ids : i \in OpenConns' <=> pc'[i] \in {"opening", "open"}
      BY <1>2, <2>1, <2>2
  <2>5. PipeExact' /\ KnowExact'
      BY <1>1, <1>2, <2>1, <2>2, TablesMove DEF Settled
  <2> QED
      BY <2>3, <2>4, <2>5 DEF StreamInv
<1>8. ASSUME NEW id \in Ids, OpenEvent(id) \/ CloseEvent(id) \/ ConnCloseAgain(id) PROVE StreamInv'
    BY <1>5, <1>8 DEF OpenEvent, CloseEvent, ConnCloseAgain
<1> QED
    BY <1>3, <1>4, <1>6, <1>7, <1>8 DEF ConnStep

\* What is known in the next state.
LEMMA KnowIs ==
    ASSUME NEW s
    PROVE  /\ WillKnow(s) = After(IF bcast.pc = "snapshot" THEN bcast.snap
                                  ELSE After(Base(sub[s]), sub[s].q), events)
           /\ WillKnow(s)' = After(IF bcast'.pc = "snapshot" THEN bcast'.snap
                                   ELSE After(Base(sub'[s]), sub'[s].q), events')
<1>1. WillKnow(s) = After(IF bcast.pc = "snapshot" THEN bcast.snap
                          ELSE After(Base(sub[s]), sub[s].q), events)
    BY DEF WillKnow, Snapped
<1>2. WillKnow(s)' = After(IF bcast'.pc = "snapshot" THEN bcast'.snap
                           ELSE After(Base(sub'[s]), sub'[s].q), events')
    BY DEF WillKnow, Base, Snapped, After, Tells, SaysOpen
<1> QED
    BY <1>1, <1>2

\* The tables stay, and so does what is on the way to the subscribers other
\* than the ones of R.
LEMMA OthersKnow ==
    ASSUME KnowExact, UNCHANGED <<conns, pc, events, bcast, lost>>, NEW R,
           \A s \in Http \ R : \/ sub'[s] = sub[s]
                               \/ sub'[s].st = "off"
                               \/ /\ sub[s].st # "off" /\ sub'[s].lossy = sub[s].lossy
                                  /\ After(Base(sub'[s]), sub'[s].q)
                                       = After(Base(sub[s]), sub[s].q),
           ~lost => \A s \in Http \cap R : sub'[s].st # "off" /\ ~sub'[s].lossy =>
                        \A i \in Ids : Settled(i) => (i \in WillKnow(s)' <=> i \in OpenConns)
    PROVE  KnowExact'
<1>1. OpenConns' = OpenConns /\ \A i \in Ids : Settled(i)' <=> Settled(i)
    BY DEF OpenConns, Settled
<1>2. ASSUME NEW s \in Http \ R, sub'[s].st # "off", ~sub'[s].lossy
      PROVE  sub[s].st # "off" /\ ~sub[s].lossy /\ WillKnow(s)' = WillKnow(s)
  <2>1. sub'[s] = sub[s] => After(Base(sub'[s]), sub'[s].q) = After(Base(sub[s]), sub[s].q)
      BY DEF Base
  <2>2. /\ sub[s].st # "off" /\ ~sub[s].lossy
        /\ After(Base(sub'[s]), sub'[s].q) = After(Base(sub[s]), sub[s].q)
      BY <1>2, <2>1
  <2> QED
      BY <2>2, KnowIs
<1>3. ASSUME ~lost', NEW s \in Http, sub'[s].st # "off", ~sub'[s].lossy, NEW i \in Ids, Settled(i)'
      PROVE  i \in WillKnow(s)' <=> i \in OpenConns'
  <2>1. CASE s \in R
      BY <1>1, <1>3, <2>1
  <2>2. CASE s \notin R
      BY <1>1, <1>2, <1>3, <2>2 DEF KnowExact
  <2> QED
      BY <2>1, <2>2
<1> QED
    BY <1>3 DEF KnowExact

\* What broadcast does to the channels.
LEMMA Sent ==
    ASSUME StatsTypes, NEW m \in Messages, sub' = Broadcast(sub, m)
    PROVE  /\ sub' \in [Subscribers -> [st : {"off", "registered", "on"}, snap : SUBSET Ids,
                                        q : Seq(Messages), view : SUBSET Ids, lossy : BOOLEAN]]
           /\ \A s \in Subscribers : sub'[s].st # "off" /\ ~sub'[s].lossy =>
                /\ sub[s].st # "off" /\ ~sub[s].lossy
                /\ After(Base(sub'[s]), sub'[s].q) = Applied(After(Base(sub[s]), sub[s].q), m)
<1> DEFINE T == [st : {"off", "registered", "on"}, snap : SUBSET Ids,
                 q : Seq(Messages), view : SUBSET Ids, lossy : BOOLEAN]
<1>1. ASSUME NEW s \in Subscribers
      PROVE  /\ sub'[s] \in T
             /\ sub'[s].st # "off" /\ ~sub'[s].lossy =>
                  /\ sub[s].st # "off" /\ ~sub[s].lossy
                  /\ After(Base(sub'[s]), sub'[s].q) = Applied(After(Base(sub[s]), sub[s].q), m)
  <2>1. sub[s] \in T
      BY DEF StatsTypes
  <2>2. CASE sub[s].st = "off"
    <3>1. sub'[s] = sub[s]
        BY <2>2 DEF Broadcast
    <3> QED
        BY <2>1, <2>2, <3>1
  <2>3. CASE sub[s].st # "off" /\ Len(sub[s].q) < QueueCap
    <3>1. sub'[s] = [sub[s] EXCEPT !.q = Append(@, m)]
        BY <2>3 DEF Broadcast
    <3>0. sub[s].q \in Seq(Messages) /\ Append(sub[s].q, m) \in Seq(Messages)
        BY <2>1
    <3>2. /\ sub'[s] \in T /\ sub'[s].st = sub[s].st /\ sub'[s].q = Append(sub[s].q, m)
          /\ sub'[s].snap = sub[s].snap /\ sub'[s].view = sub[s].view
          /\ sub'[s].lossy = sub[s].lossy
        BY <2>1, <3>0, <3>1
    <3>3. Base(sub'[s]) = Base(sub[s])
        BY <3>2 DEF Base
    <3>4. sub[s].q \in Seq(Messages) /\ Base(sub[s]) \in SUBSET Ids
        BY OnTheWay
    <3>5. After(Base(sub[s]), Append(sub[s].q, m)) = Applied(After(Base(sub[s]), sub[s].q), m)
        BY <3>4, AfterAppend
    <3> QED
        BY <2>3, <3>2, <3>3, <3>5
  <2>4. CASE sub[s].st # "off" /\ ~(Len(sub[s].q) < QueueCap)
    <3>1. sub'[s] = [sub[s] EXCEPT !.lossy = TRUE]
        BY <2>4 DEF Broadcast
    <3> QED
        BY <2>1, <3>1
  <2> QED
      BY <2>2, <2>3, <2>4
<1>2. sub' = [s \in Subscribers |-> sub'[s]]
    BY DEF Broadcast
<1> HIDE DEF T
<1>3. sub' \in [Subscribers -> T]
    BY <1>1, <1>2
<1> QED
    BY <1>1, <1>3 DEF T

\* A step of the event stream leaves the tables alone.
LEMMA StreamParts ==
    ASSUME StreamInv, UNCHANGED <<tables, pc>>, events' \in Seq(ConnEvents),
           sub' \in [Subscribers -> [st : {"off", "registered", "on"}, snap : SUBSET Ids,
                                     q : Seq(Messages), view : SUBSET Ids, lossy : BOOLEAN]],
           bcast' \in [pc : {"idle", "snapshot"}, snap : SUBSET Ids],
           PipeExact', KnowExact'
    PROVE  StreamInv'
BY DEF StreamInv, StatsTypes, tables, OpenConns

\* A step of one subscriber.
LEMMA ReaderKeeps ==
    ASSUME StreamInv, NEW s \in Subscribers,
           Subscribe(s) \/ HttpSnapshot(s) \/ LocalSnapshot(s) \/ Read(s) \/ Unsubscribe(s)
    PROVE  StreamInv'
<1> DEFINE T == [st : {"off", "registered", "on"}, snap : SUBSET Ids,
                 q : Seq(Messages), view : SUBSET Ids, lossy : BOOLEAN]
           r == sub[s]
<1>1. /\ StatsTypes /\ PipeExact /\ KnowExact /\ OpenConns \in SUBSET Ids
      /\ sub \in [Subscribers -> T] /\ r \in T
    BY DEF StreamInv, StatsTypes
<1>2. UNCHANGED <<tables, pc, events, bcast, lost>>
    BY DEF Subscribe, HttpSnapshot, LocalSnapshot, Read, Unsubscribe
<1>3. conns' = conns /\ PipeExact'
  <2>1. conns' = conns /\ OpenConns' = OpenConns /\ \A i \in Ids : Settled(i)' <=> Settled(i)
      BY <1>2 DEF tables, OpenConns, Settled
  <2>2. After(Snapped(OpenConns), events)' = After(Snapped(OpenConns), events)
      BY <1>2, <2>1 DEF After, Snapped, Tells, SaysOpen
  <2> QED
      BY <1>1, <1>2, <2>1, <2>2 DEF PipeExact
<1>4. Off \in T /\ Off.st = "off" /\ Off.q = <<>>
    BY DEF Off
<1>5. ASSUME NEW x \in T, sub' = [sub EXCEPT ![s] = x],
             \/ s \notin Http \/ x.st = "off"
             \/ /\ r.st # "off" /\ x.lossy = r.lossy
                /\ After(Base(x), x.q) = After(Base(r), r.q)
             \/ After(Base(x), x.q) = OpenConns
      PROVE  StreamInv'
  <2>1. sub' \in [Subscribers -> T] /\ sub'[s] = x /\ \A t \in Http \ {s} : sub'[t] = sub[t]
      BY <1>1, <1>5 DEF Subscribers
  <2>2. KnowExact'
    <3>1. CASE After(Base(x), x.q) # OpenConns
      <4>1. \/ s \notin Http \/ sub'[s].st = "off"
            \/ /\ r.st # "off" /\ sub'[s].lossy = r.lossy
               /\ After(Base(sub'[s]), sub'[s].q) = After(Base(r), r.q)
          BY <1>5, <2>1, <3>1
      <4>2. \A t \in Http \ {} :
              \/ sub'[t] = sub[t]
              \/ sub'[t].st = "off"
              \/ /\ sub[t].st # "off" /\ sub'[t].lossy = sub[t].lossy
                 /\ After(Base(sub'[t]), sub'[t].q) = After(Base(sub[t]), sub[t].q)
          BY <2>1, <4>1
      <4>3. \A t \in Http \cap {} : sub'[t].st # "off" /\ ~sub'[t].lossy =>
               \A i \in Ids : Settled(i) => (i \in WillKnow(t)' <=> i \in OpenConns)
          OBVIOUS
      <4> QED
          BY <1>1, <1>2, <1>3, <4>2, <4>3, OthersKnow
    <3>2. CASE After(Base(x), x.q) = OpenConns
      <4>1. ASSUME ~lost, NEW i \in Ids, Settled(i)
            PROVE  i \in WillKnow(s)' <=> i \in OpenConns
        <5>1. WillKnow(s)' = After(Snapped(OpenConns), events)
            BY <1>2, <2>1, <3>2, KnowIs DEF Snapped
        <5> QED
            BY <1>1, <4>1, <5>1 DEF PipeExact
      <4> QED
          BY <1>1, <1>2, <1>3, <2>1, <4>1, OthersKnow
    <3> QED
        BY <3>1, <3>2
  <2> QED
      BY <1>1, <1>2, <1>3, <2>1, <2>2, StreamParts DEF StatsTypes
<1>6. CASE Subscribe(s)
  <2> DEFINE x == [Off EXCEPT !.st = "registered", !.snap = OpenConns]
  <2>0. sub' = [sub EXCEPT ![s] = x]
      BY <1>6 DEF Subscribe
  <2>1. x \in T /\ x.st = "registered" /\ x.snap = OpenConns /\ x.q = <<>>
      BY <1>1, <1>4
  <2>2. After(Base(x), x.q) = OpenConns
      BY <1>1, <2>1, AfterNone DEF Base
  <2> QED
      BY <1>5, <2>0, <2>1, <2>2
<1>7. CASE HttpSnapshot(s)
  <2> DEFINE x == [r EXCEPT !.st = "on", !.view = r.snap, !.snap = {}]
  <2>1. x \in T /\ x.st = "on" /\ x.view = r.snap /\ x.q = r.q /\ x.lossy = r.lossy
      BY <1>1
  <2>2. sub' = [sub EXCEPT ![s] = x] /\ r.st = "registered"
      BY <1>1, <1>7 DEF HttpSnapshot
  <2> HIDE DEF x, r
  <2>3. Base(x) = Base(r)
      BY <2>1, <2>2 DEF Base
  <2> QED
      BY <1>5, <2>1, <2>2, <2>3
<1>8. CASE LocalSnapshot(s)
  <2>1. s \notin Http
      BY <1>8, StatsAssumption DEF LocalSnapshot
  <2>2. CASE sub' = [sub EXCEPT ![s].st = "on"]
    <3>1. [r EXCEPT !.st = "on"] \in T /\ sub' = [sub EXCEPT ![s] = [r EXCEPT !.st = "on"]]
        BY <1>1, <2>2
    <3> QED
        BY <1>5, <2>1, <3>1
  <2>3. CASE sub' = [sub EXCEPT ![s].st = "on", ![s].snap = {},
                       ![s].q = Append(@, [t |-> "snapshot", ids |-> sub[s].snap])]
    <3> DEFINE m == [t |-> "snapshot", ids |-> r.snap]
               x == [r EXCEPT !.st = "on", !.snap = {}, !.q = Append(@, m)]
    <3>1. m \in Messages
        BY <1>1 DEF Messages
    <3>2. r.q \in Seq(Messages) /\ Append(r.q, m) \in Seq(Messages)
        BY <1>1, <3>1
    <3>3. x \in T
        BY <1>1, <3>2
    <3>4. sub' = [sub EXCEPT ![s] = x]
        BY <1>1, <2>3
    <3> QED
        BY <1>5, <2>1, <3>3, <3>4
  <2> QED
      BY <1>8, <2>2, <2>3 DEF LocalSnapshot
<1>9. CASE Read(s)
  <2> DEFINE v == Applied(r.view, Head(r.q))
             x == [r EXCEPT !.view = v, !.q = Tail(@)]
  <2>1. r.st = "on" /\ r.q # <<>> /\ sub' = [sub EXCEPT ![s] = x]
      BY <1>1, <1>9 DEF Read
  <2>2. /\ r.q \in Seq(Messages) /\ Tail(r.q) \in Seq(Messages) /\ Head(r.q) \in Messages
        /\ r.view \in SUBSET Ids
      BY <1>1, <2>1
  <2>3. v \in SUBSET Ids /\ After(r.view, r.q) = After(v, Tail(r.q))
      BY <2>1, <2>2, AfterHead, AppliedTells
  <2> HIDE DEF v
  <2>4. x \in T /\ x.st = "on" /\ x.view = v /\ x.q = Tail(r.q) /\ x.lossy = r.lossy
      BY <1>1, <2>1, <2>2, <2>3
  <2> HIDE DEF x, r
  <2>5. After(Base(x), x.q) = After(Base(r), r.q)
      BY <2>1, <2>3, <2>4 DEF Base
  <2> QED
      BY <1>5, <2>1, <2>4, <2>5
<1>10. CASE Unsubscribe(s)
  <2>1. sub' = [sub EXCEPT ![s] = Off]
      BY <1>10 DEF Unsubscribe
  <2> QED
      BY <1>4, <1>5, <2>1
<1> QED
    BY <1>6, <1>7, <1>8, <1>9, <1>10

\* The steps of the broadcaster.
LEMMA BroadcastKeeps ==
    ASSUME StreamInv, BroadcastEvent \/ Tick \/ BroadcastSnapshot
    PROVE  StreamInv'
<1>1. /\ StatsTypes /\ PipeExact /\ KnowExact /\ OpenConns \in SUBSET Ids
      /\ events \in Seq(ConnEvents) /\ bcast \in [pc : {"idle", "snapshot"}, snap : SUBSET Ids]
    BY DEF StreamInv, StatsTypes
<1>2. UNCHANGED <<tables, pc, lost>>
    BY DEF BroadcastEvent, Tick, BroadcastSnapshot
<1>3. OpenConns' = OpenConns /\ \A i \in Ids : Settled(i)' <=> Settled(i)
    BY <1>2 DEF tables, OpenConns, Settled
<1>4. \A v : /\ bcast.pc = "snapshot" => Snapped(v) = bcast.snap
             /\ bcast.pc # "snapshot" => Snapped(v) = v
    BY DEF Snapped
<1>5. CASE BroadcastEvent
  <2> DEFINE m == Head(events)
  <2>1. /\ bcast.pc # "snapshot" /\ events # <<>> /\ events' = Tail(events) /\ bcast' = bcast
        /\ sub' = Broadcast(sub, m)
      BY <1>5 DEF BroadcastEvent
  <2>2. m \in ConnEvents /\ m \in Messages /\ events' \in Seq(ConnEvents)
      BY <1>1, <2>1 DEF Messages
  <2> HIDE DEF m
  <2>3. PipeExact'
    <3> SUFFICES ASSUME ~lost, NEW i \in Ids, Settled(i)
                 PROVE  i \in After(Snapped(OpenConns), events)' <=> i \in OpenConns
        BY <1>2, <1>3 DEF PipeExact
    <3>1. After(Snapped(OpenConns), events)' = After(OpenConns, events')
        BY <1>3, <2>1 DEF After, Snapped, Tells, SaysOpen
    <3>2. i \in After(OpenConns, events) <=> i \in OpenConns
        BY <1>1, <1>4, <2>1 DEF PipeExact
    <3>3. After(OpenConns, events) = After(Applied(OpenConns, m), events')
        BY <1>1, <2>1, OnTheWay, AfterHead DEF m
    <3> QED
        BY <3>1, <3>2, <3>3, AfterAny
  <2>4. KnowExact'
    <3> SUFFICES ASSUME ~lost, NEW s \in Http, sub'[s].st # "off", ~sub'[s].lossy,
                        NEW i \in Ids, Settled(i)
                 PROVE  i \in WillKnow(s)' <=> i \in OpenConns
        BY <1>2, <1>3 DEF KnowExact
    <3> DEFINE v == After(Base(sub[s]), sub[s].q)
    <3>1. /\ sub[s].st # "off" /\ ~sub[s].lossy /\ v \in SUBSET Ids
          /\ After(Base(sub'[s]), sub'[s].q) = Applied(v, m)
        BY <1>1, <2>1, <2>2, Sent, OnTheWay
    <3>2. WillKnow(s) = After(v, events) /\ WillKnow(s)' = After(Applied(v, m), events')
        BY <2>1, <3>1, KnowIs
    <3> HIDE DEF v
    <3>3. After(v, events) = After(Applied(v, m), events')
        BY <1>1, <2>1, <3>1, OnTheWay, AfterHead DEF m
    <3> QED
        BY <1>1, <3>1, <3>2, <3>3 DEF KnowExact
  <2> QED
      BY <1>1, <1>2, <2>1, <2>2, <2>3, <2>4, Sent, StreamParts
<1>6. CASE Tick
  <2>1. /\ bcast.pc # "snapshot" /\ bcast' = [pc |-> "snapshot", snap |-> OpenConns]
        /\ events' = events /\ sub' = sub
      BY <1>6 DEF Tick
  <2>2. bcast'.pc = "snapshot" /\ bcast'.snap = OpenConns
      BY <2>1
  <2>3. ~lost => \A i \in Ids : Settled(i) => (i \in After(OpenConns, events) <=> i \in OpenConns)
      BY <1>1, <1>4, <2>1 DEF PipeExact
  <2>4. PipeExact'
    <3>1. After(Snapped(OpenConns), events)' = After(OpenConns, events)
        BY <1>3, <2>1, <2>2 DEF After, Snapped, Tells, SaysOpen
    <3> QED
        BY <1>2, <1>3, <2>3, <3>1 DEF PipeExact
  <2>5. KnowExact'
    <3>1. \A s : WillKnow(s)' = After(OpenConns, events)
        BY <2>1, <2>2, KnowIs
    <3> QED
        BY <1>2, <1>3, <2>3, <3>1 DEF KnowExact
  <2> QED
      BY <1>1, <1>2, <2>1, <2>4, <2>5, StreamParts DEF StatsTypes
<1>7. CASE BroadcastSnapshot
  <2> DEFINE m == [t |-> "snapshot", ids |-> bcast.snap]
  <2>1. /\ bcast.pc = "snapshot" /\ bcast' = [pc |-> "idle", snap |-> {}]
        /\ events' = events /\ sub' = Broadcast(sub, m)
      BY <1>7 DEF BroadcastSnapshot
  <2>2. bcast'.pc # "snapshot" /\ m \in Messages
      BY <1>1, <2>1 DEF Messages
  <2>3. \A v : Applied(v, m) = bcast.snap
      BY DEF Applied
  <2> HIDE DEF m
  <2>4. PipeExact'
    <3> SUFFICES ASSUME ~lost, NEW i \in Ids, Settled(i)
                 PROVE  i \in After(Snapped(OpenConns), events)' <=> i \in OpenConns
        BY <1>2, <1>3 DEF PipeExact
    <3>1. After(Snapped(OpenConns), events)' = After(OpenConns, events)
        BY <1>3, <2>1, <2>2 DEF After, Snapped, Tells, SaysOpen
    <3>2. i \in After(bcast.snap, events) <=> i \in OpenConns
        BY <1>1, <1>4, <2>1 DEF PipeExact
    <3> QED
        BY <3>1, <3>2, AfterAny
  <2>5. KnowExact'
    <3> SUFFICES ASSUME ~lost, NEW s \in Http, sub'[s].st # "off", ~sub'[s].lossy,
                        NEW i \in Ids, Settled(i)
                 PROVE  i \in WillKnow(s)' <=> i \in OpenConns
        BY <1>2, <1>3 DEF KnowExact
    <3>1. /\ sub[s].st # "off" /\ ~sub[s].lossy
          /\ After(Base(sub'[s]), sub'[s].q) = bcast.snap
        BY <1>1, <2>1, <2>2, <2>3, Sent, OnTheWay
    <3>2. WillKnow(s) = After(bcast.snap, events) /\ WillKnow(s)' = After(bcast.snap, events)
        BY <2>1, <2>2, <3>1, KnowIs
    <3> QED
        BY <1>1, <3>1, <3>2 DEF KnowExact
  <2> QED
      BY <1>1, <1>2, <2>1, <2>2, <2>4, <2>5, Sent, StreamParts
<1> QED
    BY <1>5, <1>6, <1>7

\* Nothing is on the way at the start.
LEMMA StreamInit == Init => StreamInv
<1> SUFFICES ASSUME Init PROVE StreamInv
    OBVIOUS
<1>1. /\ nextConnID = 0 /\ pc = [i \in Ids |-> "none"] /\ DOMAIN conns = {}
      /\ events = <<>> /\ bcast = [pc |-> "idle", snap |-> {}]
      /\ sub = [s \in Subscribers |-> Off]
    BY DEF Init
<1>2. StatsTypes
    BY <1>1 DEF StatsTypes, OpenConns, Off
<1>3. \A i \in Ids : Settled(i) /\ pc[i] = "none" /\ i \notin OpenConns
    BY <1>1 DEF Settled, OpenConns
<1>4. PipeExact
  <2>1. Snapped(OpenConns) = {}
      BY <1>1 DEF Snapped, OpenConns
  <2> QED
      BY <1>1, <1>3, <2>1, AfterNone DEF PipeExact
<1>5. KnowExact
    BY <1>1 DEF KnowExact, Off, Subscribers
<1> QED
    BY <1>2, <1>3, <1>4, <1>5 DEF StreamInv

\* Every step keeps what is on the way true.
LEMMA StreamNext == StreamInv /\ [Next]_vars => StreamInv'
<1> SUFFICES ASSUME StreamInv, [Next]_vars PROVE StreamInv'
    OBVIOUS
<1>1. ASSUME UNCHANGED <<tables, pc, stream>> PROVE StreamInv'
  <2>1. nextConnID' = nextConnID /\ conns' = conns /\ UNCHANGED <<events, sub, bcast, lost>>
      BY <1>1 DEF tables, stream
  <2>2. OpenConns' = OpenConns /\ \A i \in Ids : Settled(i)' <=> Settled(i)
      BY <1>1, <2>1 DEF OpenConns, Settled
  <2>3. PipeExact'
    <3>1. After(Snapped(OpenConns), events)' = After(Snapped(OpenConns), events)
        BY <2>1, <2>2 DEF After, Snapped, Tells, SaysOpen
    <3> QED
        BY <2>1, <2>2, <3>1 DEF PipeExact, StreamInv
  <2>4. KnowExact'
    <3>1. \A s : WillKnow(s)' = WillKnow(s)
        BY <2>1, KnowIs
    <3> QED
        BY <2>1, <2>2, <3>1 DEF KnowExact, StreamInv
  <2> QED
      BY <1>1, <2>1, <2>3, <2>4, StreamParts DEF StreamInv, StatsTypes
<1>2. CASE StreamStep
  <2>1. CloseCounters => UNCHANGED <<tables, pc, stream>>
      BY DEF CloseCounters
  <2> QED
      BY <1>1, <1>2, <2>1, ReaderKeeps, BroadcastKeeps DEF StreamStep
<1>3. CASE Query
    BY <1>1, <1>3 DEF Query
<1>4. CASE UNCHANGED vars
    BY <1>1, <1>4 DEF vars
<1> QED
    BY <1>2, <1>3, <1>4, ConnKeeps DEF Next

\* stats.go, handleSSE and broadcaster: a client of the HTTP stream to which no
\* event was dropped knows exactly the open connections once all events have
\* been delivered, for any number of connections and subscribers and channels of
\* any capacity, however old the snapshots are that overtake the events.
THEOREM StreamShowsOpen == Spec => []ViewExact
<1>1. StreamInv => ViewExact
  <2> SUFFICES ASSUME StreamInv, NEW s \in Http, Quiet, ~lost, sub[s].st = "on",
                      ~sub[s].lossy, sub[s].q = <<>>
               PROVE  sub[s].view = OpenConns
      BY DEF ViewExact
  <2>1. StatsTypes /\ KnowExact /\ OpenConns \in SUBSET Ids
      BY DEF StreamInv, StatsTypes
  <2>2. sub[s].view \in SUBSET Ids /\ Base(sub[s]) = sub[s].view
      BY <2>1, OnTheWay DEF Base
  <2>3. WillKnow(s) = sub[s].view
      BY <2>2, KnowIs, AfterNone DEF Quiet
  <2>4. \A i \in Ids : Settled(i)
      BY DEF Quiet, Settled
  <2>5. \A i \in Ids : i \in WillKnow(s) <=> i \in OpenConns
      BY <2>1, <2>4 DEF KnowExact
  <2> QED
      BY <2>1, <2>2, <2>3, <2>5
<1> QED
    BY <1>1, StreamInit, StreamNext, PTL DEF Spec

(***************************************************************************)
(* The history of closed connections.  AnswerExact says two things of an   *)
(* answer.  Its list is what sorting all that was read would give, because *)
(* sorting and cutting early loses nothing: SortTwice.  And it has every   *)
(* record that was there when the request began, once: the invariant says  *)
(* which files the request has read and what they hold, while connections  *)
(* go on closing.                                                          *)
(*                                                                         *)
(* First the sort.  The sorted list is the record of each place, where the *)
(* place of a record is counted from the end: how many are not earlier.    *)
(***************************************************************************)
Recs == [id : Ids, opened : Int, err : BOOLEAN]

\* How many records of a list of n are kept, and the record that is the m-th
\* from the end of the sorted list.
Top(n) == IF Limit > 0 /\ n > Limit THEN Limit ELSE n
From(recs, i) == Cardinality(NotEarlier(recs, i))
Place(recs, m) == CHOOSE i \in DOMAIN recs : From(recs, i) = m

LEMMA EarlierOrder ==
    ASSUME NEW recs \in Seq(Recs)
    PROVE  /\ \A i \in DOMAIN recs : ~Earlier(recs, i, i)
           /\ \A i, j \in DOMAIN recs : i # j => (Earlier(recs, i, j) <=> ~Earlier(recs, j, i))
           /\ \A i, j, k \in DOMAIN recs : Earlier(recs, i, j) /\ Earlier(recs, j, k) => Earlier(recs, i, k)
<1>1. ASSUME NEW i \in DOMAIN recs PROVE i \in Int /\ recs[i].opened \in Int
  <2>1. recs[i] \in Recs /\ i \in Int
      OBVIOUS
  <2> QED
      BY <2>1 DEF Recs
<1> QED
    BY <1>1 DEF Earlier

LEMMA Places ==
    ASSUME NEW recs \in Seq(Recs)
    PROVE  /\ \A i \in DOMAIN recs : From(recs, i) \in 1..Len(recs)
           /\ \A i, j \in DOMAIN recs : Earlier(recs, i, j) => From(recs, j) < From(recs, i)
           /\ \A i, j \in DOMAIN recs : From(recs, i) = From(recs, j) => i = j
           /\ \A m \in 1..Len(recs) : \E i \in DOMAIN recs : From(recs, i) = m
<1> DEFINE N == Len(recs)
<1>0. N \in Nat /\ DOMAIN recs = 1..N /\ IsFiniteSet(1..N) /\ Cardinality(1..N) = N
  <2>1. N \in Nat /\ DOMAIN recs = 1..N
      OBVIOUS
  <2> HIDE DEF N
  <2>2. IsFiniteSet(1..N) /\ Cardinality(1..N) = N
      BY <2>1, FS_Interval
  <2> QED
      BY <2>1, <2>2
<1>1. ASSUME NEW i \in DOMAIN recs
      PROVE  /\ i \in NotEarlier(recs, i) /\ NotEarlier(recs, i) \subseteq 1..N
             /\ IsFiniteSet(NotEarlier(recs, i)) /\ From(recs, i) \in 1..N
  <2>1. i \in NotEarlier(recs, i) /\ NotEarlier(recs, i) \subseteq 1..N
      BY <1>0, EarlierOrder DEF NotEarlier
  <2>2. IsFiniteSet(NotEarlier(recs, i)) /\ From(recs, i) <= N /\ From(recs, i) \in Nat
      BY <1>0, <2>1, FS_Subset, FS_CardinalityType DEF From
  <2>3. From(recs, i) # 0
      BY <2>1, <2>2, FS_EmptySet DEF From
  <2> QED
      BY <2>1, <2>2, <2>3
<1>2. ASSUME NEW i \in DOMAIN recs, NEW j \in DOMAIN recs, Earlier(recs, i, j)
      PROVE  From(recs, j) < From(recs, i)
  <2>1. NotEarlier(recs, j) \subseteq NotEarlier(recs, i)
    <3> SUFFICES ASSUME NEW k \in DOMAIN recs, ~Earlier(recs, k, j) PROVE ~Earlier(recs, k, i)
        BY DEF NotEarlier
    <3> QED
        BY <1>2, EarlierOrder
  <2>2. i \in NotEarlier(recs, i) /\ i \notin NotEarlier(recs, j)
      BY <1>1, <1>2 DEF NotEarlier
  <2>3. NotEarlier(recs, j) # NotEarlier(recs, i)
      BY <2>2
  <2> QED
      BY <1>1, <2>1, <2>3, FS_Subset DEF From
<1>3. \A i, j \in DOMAIN recs : From(recs, i) = From(recs, j) => i = j
  <2> SUFFICES ASSUME NEW i \in DOMAIN recs, NEW j \in DOMAIN recs, i # j PROVE From(recs, i) # From(recs, j)
      OBVIOUS
  <2>1. Earlier(recs, i, j) \/ Earlier(recs, j, i)
      BY EarlierOrder
  <2>2. From(recs, i) < From(recs, j) \/ From(recs, j) < From(recs, i)
      BY <1>2, <2>1
  <2>3. From(recs, i) \in Int /\ From(recs, j) \in Int
      BY <1>0, <1>1
  <2> QED
      BY <2>2, <2>3
<1>4. ASSUME NEW m \in 1..N PROVE \E i \in DOMAIN recs : From(recs, i) = m
  <2> SUFFICES ASSUME \A i \in DOMAIN recs : From(recs, i) # m PROVE FALSE
      OBVIOUS
  <2> DEFINE f == [i \in 1..N |-> From(recs, i)]
             T == (1..N) \ {m}
  <2>1. f \in [1..N -> T]
      BY <1>0, <1>1
  <2>2. IsFiniteSet(T) /\ Cardinality(T) = N - 1
      BY <1>0, FS_RemoveElement, ZenonT(60)
  <2>3. \A x, y \in 1..N : f[x] = f[y] => x = y
      BY <1>0, <1>3
  <2>4. Cardinality(T) < Cardinality(1..N)
      BY <1>0, <2>2
  <2> HIDE DEF f, T
  <2> QED
      BY <1>0, <2>1, <2>2, <2>3, <2>4, FS_PigeonHole
<1> QED
    BY <1>0, <1>1, <1>2, <1>3, <1>4

LEMMA PlaceIs ==
    ASSUME NEW recs \in Seq(Recs)
    PROVE  /\ \A m \in 1..Len(recs) : Place(recs, m) \in DOMAIN recs /\ From(recs, Place(recs, m)) = m
           /\ \A i \in DOMAIN recs : Place(recs, From(recs, i)) = i
<1>1. \A m \in 1..Len(recs) : Place(recs, m) \in DOMAIN recs /\ From(recs, Place(recs, m)) = m
    BY Places DEF Place
<1>2. \A i \in DOMAIN recs : From(recs, i) \in 1..Len(recs)
    BY Places
<1> QED
    BY <1>1, <1>2, Places

LEMMA SortedIs ==
    ASSUME NEW recs \in Seq(Recs)
    PROVE  /\ Top(Len(recs)) \in 0..Len(recs)
           /\ SortConns(recs) = [k \in 1..Top(Len(recs)) |-> recs[Place(recs, Top(Len(recs)) - k + 1)]]
           /\ SortConns(recs) \in Seq(Recs) /\ Len(SortConns(recs)) = Top(Len(recs))
<1>1. Len(recs) \in Nat /\ Top(Len(recs)) \in 0..Len(recs)
    BY StatsAssumption DEF Top
<1>2. SortConns(recs) = [k \in 1..Top(Len(recs)) |-> recs[Place(recs, Top(Len(recs)) - k + 1)]]
    BY DEF SortConns, Top, Place, From
<1>3. \A k \in 1..Top(Len(recs)) : recs[Place(recs, Top(Len(recs)) - k + 1)] \in Recs
    BY <1>1, PlaceIs
<1> HIDE DEF Top
<1> QED
    BY <1>1, <1>2, <1>3

\* g maps the places of X to places of Y and keeps their order; what is not
\* earlier than g[a] is in its image.  Then g keeps the count of a.
Embeds(g, X, Y) ==
    /\ g \in [DOMAIN X -> DOMAIN Y]
    /\ \A a, b \in DOMAIN X : g[a] = g[b] => a = b
    /\ \A a, b \in DOMAIN X : Earlier(X, a, b) <=> Earlier(Y, g[a], g[b])
Covers(g, X, Y, a) == \A q \in NotEarlier(Y, g[a]) : \E b \in DOMAIN X : q = g[b]

LEMMA SameFrom ==
    ASSUME NEW X \in Seq(Recs), NEW Y \in Seq(Recs), NEW g, Embeds(g, X, Y),
           NEW a \in DOMAIN X, Covers(g, X, Y, a)
    PROVE  From(Y, g[a]) = From(X, a)
<1> DEFINE A == NotEarlier(X, a)
           B == NotEarlier(Y, g[a])
           h == [b \in A |-> g[b]]
<1>1. A \subseteq DOMAIN X /\ h \in [A -> B]
    BY DEF NotEarlier, Embeds
<1>2. \A q \in B : \E b \in A : h[b] = q
    BY DEF NotEarlier, Embeds, Covers
<1>3. \A b, c \in A : h[b] = h[c] => b = c
    BY <1>1 DEF Embeds
<1>4. h \in Bijection(A, B)
  <2> HIDE DEF A, B, h
  <2> QED
      BY <1>1, <1>2, <1>3 DEF Bijection, Injection, Surjection, IsInjective
<1>5. IsFiniteSet(A)
  <2>1. DOMAIN X = 1..Len(X) /\ Len(X) \in Nat
      OBVIOUS
  <2>2. IsFiniteSet(DOMAIN X)
      BY <2>1, FS_Interval
  <2> QED
      BY <1>1, <2>2, FS_Subset
<1>6. Cardinality(A) = Cardinality(B)
  <2> HIDE DEF A, B, h
  <2> QED
      BY <1>4, <1>5, FS_Bijection DEF ExistsBijection
<1> QED
    BY <1>6 DEF From

LEMMA SortTwice ==
    ASSUME NEW s \in Seq(Recs), NEW u \in Seq(Recs)
    PROVE  SortConns(SortConns(s) \o u) = SortConns(s \o u)
<1> DEFINE n == Len(s)
           w == Len(u)
           m == Top(n)
           t == SortConns(s)
           X == t \o u
           Y == s \o u
           p(k) == Place(s, m - k + 1)
           g == [k \in DOMAIN X |-> IF k <= m THEN p(k) ELSE n + (k - m)]
<1>1. /\ n \in Nat /\ w \in Nat /\ m \in 0..n /\ t \in Seq(Recs) /\ Len(t) = m
      /\ \A k \in 1..m : t[k] = s[p(k)]
    BY SortedIs, SMTT(60)
<1>2. ASSUME NEW k \in 1..m PROVE p(k) \in 1..n /\ From(s, p(k)) = m - k + 1
  <2>1. m - k + 1 \in 1..n
      BY <1>1
  <2> QED
      BY <2>1, PlaceIs
<1> HIDE DEF t, p
<1>3. /\ X \in Seq(Recs) /\ Len(X) = m + w /\ DOMAIN X = 1..(m + w)
      /\ \A k \in 1..m : X[k] = s[p(k)]
      /\ \A k \in (m + 1)..(m + w) : X[k] = u[k - m]
    BY <1>1, SMTT(60)
<1>4. /\ Y \in Seq(Recs) /\ Len(Y) = n + w /\ DOMAIN Y = 1..(n + w)
      /\ \A k \in 1..n : Y[k] = s[k]
      /\ \A k \in (n + 1)..(n + w) : Y[k] = u[k - n]
    BY <1>1
<1> HIDE DEF n, w, m, X, Y
<1>5. g \in [DOMAIN X -> DOMAIN Y] /\ \A a \in DOMAIN X : Y[g[a]] = X[a]
  <2> SUFFICES ASSUME NEW a \in DOMAIN X PROVE g[a] \in DOMAIN Y /\ Y[g[a]] = X[a]
      OBVIOUS
  <2>1. CASE a <= m
    <3>1. a \in 1..m /\ p(a) \in 1..n
        BY <1>1, <1>2, <1>3, <2>1
    <3>2. g[a] = p(a)
        BY <2>1
    <3>3. X[a] = s[p(a)] /\ Y[p(a)] = s[p(a)] /\ p(a) \in 1..(n + w)
        BY <1>1, <1>3, <1>4, <3>1
    <3> QED
        BY <1>4, <3>2, <3>3
  <2>2. CASE a > m
    <3>1. a \in (m + 1)..(m + w) /\ n + (a - m) \in (n + 1)..(n + w) /\ (n + (a - m)) - n = a - m
        BY <1>1, <1>3, <2>2
    <3>2. g[a] = n + (a - m)
        BY <1>1, <1>3, <2>2
    <3>3. Y[g[a]] = u[(n + (a - m)) - n] /\ X[a] = u[a - m]
        BY <1>3, <1>4, <3>1, <3>2
    <3>4. g[a] \in DOMAIN Y
        BY <1>1, <1>4, <3>1, <3>2, SMTT(60)
    <3> QED
        BY <3>1, <3>3, <3>4
  <2> QED
      BY <1>1, <1>3, <2>1, <2>2
<1>6. \A a \in DOMAIN X : /\ a <= m => g[a] = p(a) /\ p(a) \in 1..n /\ From(s, p(a)) = m - a + 1
                          /\ a > m => g[a] = n + (a - m) /\ g[a] > n
                          /\ a \in Int /\ g[a] \in Int
  <2> SUFFICES ASSUME NEW a \in DOMAIN X
               PROVE  /\ a <= m => g[a] = p(a) /\ p(a) \in 1..n /\ From(s, p(a)) = m - a + 1
                      /\ a > m => g[a] = n + (a - m) /\ g[a] > n
                      /\ a \in Int /\ g[a] \in Int
      OBVIOUS
  <2>1. a \in Int /\ g[a] \in Int /\ g[a] = IF a <= m THEN p(a) ELSE n + (a - m)
      BY <1>3, <1>4, <1>5
  <2>2. a <= m => p(a) \in 1..n /\ From(s, p(a)) = m - a + 1
      BY <1>1, <1>2, <1>3
  <2> HIDE DEF g
  <2> QED
      BY <1>1, <2>1, <2>2
<1> HIDE DEF g
<1>7. \A i, j \in 1..n : Earlier(Y, i, j) <=> Earlier(s, i, j)
    BY <1>4 DEF Earlier
<1>8. \A i, j \in 1..n : From(s, i) < From(s, j) => Earlier(s, j, i)
  <2> SUFFICES ASSUME NEW i \in 1..n, NEW j \in 1..n, From(s, i) < From(s, j), ~Earlier(s, j, i) PROVE FALSE
      OBVIOUS
  <2>1. i \in DOMAIN s /\ j \in DOMAIN s
      BY DEF n
  <2>2. From(s, i) \in Int /\ From(s, j) \in Int
    <3>1. From(s, i) \in 1..Len(s) /\ From(s, j) \in 1..Len(s)
        BY <2>1, Places
    <3> QED
        BY <3>1
  <2>3. i # j
      BY <2>2
  <2>4. Earlier(s, i, j)
      BY <2>1, <2>3, EarlierOrder
  <2>5. From(s, j) < From(s, i)
      BY <2>1, <2>4, Places
  <2> QED
      BY <2>2, <2>5
<1>10. ASSUME NEW a \in DOMAIN X, NEW b \in DOMAIN X, a < b
       PROVE  /\ Earlier(X, a, b) <=> Earlier(Y, g[a], g[b])
              /\ Earlier(X, b, a) <=> Earlier(Y, g[b], g[a])
              /\ g[a] # g[b]
  <2>1. Y[g[a]] = X[a] /\ Y[g[b]] = X[b]
      BY <1>5
  <2>2. X[a].opened \in Int /\ X[b].opened \in Int /\ a \in Int /\ b \in Int /\ m \in Int
    <3>1. X[a] \in Recs /\ X[b] \in Recs
        BY <1>3
    <3> QED
        BY <1>1, <1>6, <3>1 DEF Recs
  <2>3. CASE b <= m
    <3>1. g[a] = p(a) /\ g[b] = p(b) /\ p(a) \in 1..n /\ p(b) \in 1..n /\ From(s, p(b)) < From(s, p(a))
        BY <1>6, <1>10, <2>2, <2>3
    <3>2. Earlier(Y, g[a], g[b])
        BY <1>7, <1>8, <3>1
    <3>3. g[a] \in Int /\ g[b] \in Int
        BY <1>6
    <3> QED
        BY <1>10, <2>1, <2>2, <3>2, <3>3 DEF Earlier
  <2>4. CASE b > m
    <3>1. g[a] \in Int /\ g[b] \in Int /\ g[b] = n + (b - m) /\ g[b] > n
        BY <1>6, <2>4
    <3>2. a <= m => g[a] < g[b]
        BY <1>1, <1>6, <3>1
    <3>3. a > m => g[a] < g[b]
        BY <1>1, <1>6, <1>10, <2>2, <3>1
    <3>4. g[a] < g[b]
        BY <2>2, <3>2, <3>3
    <3> QED
        BY <1>10, <2>1, <2>2, <3>1, <3>4 DEF Earlier
  <2> QED
      BY <2>2, <2>3, <2>4
<1>11. \A a, b \in DOMAIN X : /\ Earlier(X, a, b) <=> Earlier(Y, g[a], g[b])
                              /\ g[a] = g[b] => a = b
  <2> SUFFICES ASSUME NEW a \in DOMAIN X, NEW b \in DOMAIN X
               PROVE  /\ Earlier(X, a, b) <=> Earlier(Y, g[a], g[b])
                      /\ g[a] = g[b] => a = b
      OBVIOUS
  <2>1. a < b \/ b < a \/ a = b
      BY <1>6
  <2>2. CASE a = b
      BY <1>3, <1>4, <1>5, <2>2, EarlierOrder
  <2> QED
      BY <1>10, <2>1, <2>2
<1>12. Top(m + w) = Top(n + w) /\ (m < n => m = Top(m + w))
    BY <1>1, StatsAssumption DEF Top, m
<1>13. ASSUME NEW a \in DOMAIN X, From(X, a) <= Top(m + w), NEW q \in NotEarlier(Y, g[a])
       PROVE  \E b \in DOMAIN X : q = g[b]
  <2> SUFFICES ASSUME \A b \in DOMAIN X : q # g[b] PROVE FALSE
      OBVIOUS
  <2>1. q \in DOMAIN Y /\ ~Earlier(Y, q, g[a])
      BY DEF NotEarlier
  <2>2. q \in 1..n
    <3> SUFFICES ASSUME q > n PROVE FALSE
        BY <1>1, <1>4, <2>1
    <3> DEFINE b == m + (q - n)
    <3>1. b \in DOMAIN X /\ b > m
        BY <1>1, <1>3, <1>4, <2>1
    <3>2. n + (b - m) = q
        BY <1>1, <1>4, <2>1
    <3> HIDE DEF b
    <3> QED
        BY <1>6, <3>1, <3>2
  <2>3. From(s, q) \in 1..n /\ From(s, q) > m
    <3>1. q \in DOMAIN s
        BY <2>2 DEF n
    <3>2. From(s, q) \in 1..n /\ Place(s, From(s, q)) = q
        BY <3>1, Places, PlaceIs DEF n
    <3> DEFINE b == m - From(s, q) + 1
    <3>3. SUFFICES ASSUME From(s, q) <= m PROVE FALSE
        BY <1>1, <3>2
    <3>4. b \in 1..m /\ m - b + 1 = From(s, q)
        BY <1>1, <3>2, <3>3
    <3>5. b \in DOMAIN X /\ b <= m
        BY <1>1, <1>3, <3>4
    <3>6. p(b) = q
        BY <3>2, <3>4 DEF p
    <3> HIDE DEF b
    <3> QED
        BY <1>6, <3>5, <3>6
  <2>4. m < n /\ Top(m + w) = m
      BY <1>1, <1>12, <2>3
  <2>5. \A k \in 1..m : k \in DOMAIN X /\ Earlier(Y, q, g[k])
    <3> SUFFICES ASSUME NEW k \in 1..m PROVE k \in DOMAIN X /\ Earlier(Y, q, g[k])
        OBVIOUS
    <3>1. k \in DOMAIN X /\ k <= m /\ m - k + 1 <= m
        BY <1>1, <1>3
    <3>2. g[k] = p(k) /\ p(k) \in 1..n /\ From(s, p(k)) < From(s, q)
        BY <1>1, <1>6, <2>3, <3>1
    <3> QED
        BY <1>7, <1>8, <2>2, <3>1, <3>2
  <2>6. a \notin 1..m
      BY <2>1, <2>5
  <2>7. Earlier(Y, g[a], q)
      BY <1>4, <1>5, <2>1, EarlierOrder
  <2>8. \A k \in 1..m : k \in NotEarlier(X, a)
    <3> SUFFICES ASSUME NEW k \in 1..m PROVE k \in NotEarlier(X, a)
        OBVIOUS
    <3>1. Earlier(Y, g[a], g[k])
        BY <1>4, <1>5, <2>1, <2>5, <2>7, EarlierOrder
    <3>2. Earlier(X, a, k) /\ k \in DOMAIN X
        BY <1>11, <2>5, <3>1
    <3>3. ~Earlier(X, k, a)
        BY <1>3, <3>2, EarlierOrder
    <3> QED
        BY <3>2, <3>3 DEF NotEarlier
  <2>9. a \in NotEarlier(X, a) /\ NotEarlier(X, a) \subseteq 1..(m + w)
      BY <1>3, EarlierOrder DEF NotEarlier
  <2>10. IsFiniteSet(1..m) /\ Cardinality(1..m) = m /\ IsFiniteSet(1..(m + w))
    <3>1. m \in Nat /\ m \in Int /\ m + w \in Int
        BY <1>1
    <3>2. \A b \in Int : IsFiniteSet(1..b) /\ Cardinality(1..b) = IF 1 > b THEN 0 ELSE b - 1 + 1
        BY FS_Interval
    <3>3. Cardinality(1..m) = m
        BY <3>1, <3>2
    <3> QED
        BY <3>1, <3>2, <3>3
  <2>11. Cardinality((1..m) \cup {a}) = m + 1
      BY <2>6, <2>10, FS_AddElement
  <2>12. (1..m) \cup {a} \subseteq NotEarlier(X, a) /\ IsFiniteSet(NotEarlier(X, a))
      BY <2>8, <2>9, <2>10, FS_Subset
  <2>13. m + 1 <= From(X, a) /\ From(X, a) \in Nat
      BY <2>11, <2>12, FS_Subset, FS_CardinalityType DEF From
  <2> QED
      BY <1>1, <1>13, <2>4, <2>13
<1>14. ASSUME NEW k \in 1..Top(m + w) PROVE SortConns(X)[k] = SortConns(Y)[k]
  <2> DEFINE c == Top(m + w) - k + 1
             a == Place(X, c)
  <2>1. Top(m + w) \in 0..(m + w) /\ Top(n + w) \in 0..(n + w)
      BY <1>3, <1>4, SortedIs
  <2>2. c \in 1..Top(m + w) /\ c \in 1..(m + w) /\ c \in 1..(n + w)
      BY <1>1, <1>12, <2>1
  <2>3. SortConns(X)[k] = X[a] /\ SortConns(Y)[k] = Y[Place(Y, c)]
    <3>1. SortConns(X) = [i \in 1..Top(m + w) |-> X[Place(X, Top(m + w) - i + 1)]]
        BY <1>3, SortedIs
    <3>2. SortConns(Y) = [i \in 1..Top(m + w) |-> Y[Place(Y, Top(m + w) - i + 1)]]
      <4>1. SortConns(Y) = [i \in 1..Top(Len(Y)) |-> Y[Place(Y, Top(Len(Y)) - i + 1)]]
          BY <1>4, SortedIs
      <4>2. Top(Len(Y)) = Top(m + w)
          BY <1>4, <1>12
      <4> QED
          BY <4>1, <4>2
    <3> QED
        BY <3>1, <3>2
  <2>4. a \in DOMAIN X /\ From(X, a) = c
      BY <1>3, <2>2, PlaceIs
  <2> HIDE DEF a
  <2>5. From(X, a) <= Top(m + w)
      BY <2>1, <2>2, <2>4
  <2>6. From(Y, g[a]) = From(X, a)
    <3>1. Covers(g, X, Y, a)
        BY <1>13, <2>4, <2>5 DEF Covers
    <3>2. Embeds(g, X, Y)
        BY <1>5, <1>11 DEF Embeds
    <3> QED
        BY <1>3, <1>4, <2>4, <3>1, <3>2, SameFrom
  <2>7. Place(Y, c) = g[a]
    <3>1. g[a] \in DOMAIN Y
        BY <1>5, <2>4
    <3> QED
        BY <1>4, <2>4, <2>6, <3>1, PlaceIs
  <2> QED
      BY <1>5, <2>3, <2>4, <2>7
<1>15. /\ SortConns(X) \in Seq(Recs) /\ Len(SortConns(X)) = Top(m + w)
       /\ SortConns(Y) \in Seq(Recs) /\ Len(SortConns(Y)) = Top(m + w)
    BY <1>3, <1>4, <1>12, SortedIs
<1>16. SortConns(X) = SortConns(Y)
    BY <1>14, <1>15
<1> QED
    BY <1>16 DEF X, Y, t

LEMMA NatInduct ==
    ASSUME NEW P \in SUBSET Nat, 0 \in P, \A k \in P : k + 1 \in P
    PROVE  P = Nat
<1> SUFFICES ASSUME NEW n \in Nat, n \notin P PROVE FALSE
    OBVIOUS
<1> DEFINE S == 0..n
           T == 0..(n - 1)
           f == [k \in S |-> IF k \in P THEN k ELSE k - 1]
<1>1. n >= 1
    OBVIOUS
<1>2. f \in [S -> T]
    BY <1>1
<1>3. IsFiniteSet(S) /\ Cardinality(S) = n + 1
    BY FS_Interval
<1>4. IsFiniteSet(T) /\ Cardinality(T) = n
    BY <1>1, FS_Interval
<1>5. \A x, y \in S : f[x] = f[y] => x = y
    OBVIOUS
<1>6. Cardinality(T) < Cardinality(S)
    BY <1>3, <1>4
<1> HIDE DEF f, S, T
<1> QED
    BY <1>2, <1>3, <1>4, <1>5, <1>6, FS_PigeonHole


\* A recursive function: what a list grows to, a step at a time.
Growth(N, S, base, grow, f) ==
    f \in [0..N -> S] /\ f[0] = base /\ \A n \in 1..N : f[n] = grow[n][f[n - 1]]

LEMMA Grows ==
    ASSUME NEW N \in Nat, NEW S, NEW base \in S, NEW grow \in [1..N -> [S -> S]]
    PROVE  \E f : Growth(N, S, base, grow, f)
<1> DEFINE Is(f, m) == f \in [0..m -> S] /\ f[0] = base /\ \A n \in 1..m : f[n] = grow[n][f[n - 1]]
           P == {m \in Nat : m <= N => \E f : Is(f, m)}
<1>1. 0 \in P
  <2>1. Is([i \in 0..0 |-> base], 0)
      OBVIOUS
  <2> QED
      BY <2>1
<1>2. ASSUME NEW k \in P PROVE k + 1 \in P
  <2>1. k \in Nat /\ (k <= N => \E f : Is(f, k))
    <3> HIDE DEF Is
    <3> QED
        OBVIOUS
  <2>2. SUFFICES ASSUME k + 1 <= N PROVE \E f : Is(f, k + 1)
    <3> HIDE DEF Is
    <3> QED
        BY <2>1
  <2>3. PICK f : Is(f, k)
    <3> HIDE DEF Is
    <3> QED
        BY <2>1, <2>2
  <2> DEFINE v == grow[k + 1][f[k]]
             g == [i \in 0..(k + 1) |-> IF i <= k THEN f[i] ELSE v]
  <2>4. v \in S
    <3>1. k + 1 \in 1..N /\ f[k] \in S
        BY <2>1, <2>2, <2>3
    <3> QED
        BY <3>1
  <2>5. g \in [0..(k + 1) -> S] /\ g[0] = base
      BY <2>1, <2>3, <2>4
  <2>6. ASSUME NEW n \in 1..(k + 1) PROVE g[n] = grow[n][g[n - 1]]
    <3>1. CASE n <= k
      <4>1. g[n] = f[n] /\ g[n - 1] = f[n - 1] /\ n \in 1..k
          BY <2>1, <3>1
      <4> QED
          BY <2>3, <4>1
    <3>2. CASE n = k + 1
      <4>1. g[n] = v /\ g[n - 1] = f[k]
          BY <2>1, <3>2
      <4> QED
          BY <3>2, <4>1
    <3> QED
        BY <2>1, <3>1, <3>2
  <2> HIDE DEF g, v
  <2> QED
      BY <2>5, <2>6
<1>3. P = Nat
  <2> HIDE DEF Is
  <2> QED
      BY <1>1, <1>2, NatInduct
<1>4. PICK f : Is(f, N)
  <2>1. (N <= N => \E f : Is(f, N)) /\ N <= N
    <3>1. N \in P
        BY <1>3
    <3> HIDE DEF Is
    <3> QED
        BY <3>1
  <2> HIDE DEF Is
  <2> QED
      BY <2>1
<1> QED
    BY <1>4 DEF Growth

\* The lists that Matching and Collect build.
Kept(f, recs, k) ==
    /\ k \in [0..Len(recs) -> Seq(Recs)]
    /\ k[0] = <<>>
    /\ \A n \in 1..Len(recs) : k[n] = IF Match(f, recs[n]) THEN Append(k[n - 1], recs[n]) ELSE k[n - 1]

Gathered(list, f, recs, k) ==
    /\ k \in [0..Len(recs) -> Seq(Recs)]
    /\ k[0] = list
    /\ \A n \in 1..Len(recs) : k[n] = IF Match(f, recs[n]) THEN ListAdd(k[n - 1], recs[n]) ELSE k[n - 1]

LEMMA AddsTyped ==
    ASSUME NEW list \in Seq(Recs), NEW rec \in Recs
    PROVE  Append(list, rec) \in Seq(Recs) /\ ListAdd(list, rec) \in Seq(Recs)
<1>1. Append(list, rec) \in Seq(Recs)
    OBVIOUS
<1> QED
    BY <1>1, SortedIs DEF ListAdd

LEMMA KeptIs ==
    ASSUME NEW f, NEW recs \in Seq(Recs)
    PROVE  \E k : Kept(f, recs, k) /\ Matching(f, recs) = k[Len(recs)]
<1> DEFINE S == Seq(Recs)
           grow == [n \in 1..Len(recs) |-> [l \in S |-> IF Match(f, recs[n]) THEN Append(l, recs[n]) ELSE l]]
           IsK(k) == k = [n \in 0..Len(recs) |->
                        IF n = 0 THEN <<>>
                        ELSE IF Match(f, recs[n]) THEN Append(k[n - 1], recs[n]) ELSE k[n - 1]]
           c == CHOOSE k : IsK(k)
<1>1. Len(recs) \in Nat /\ <<>> \in S /\ \A n \in 1..Len(recs) : recs[n] \in Recs
    OBVIOUS
<1>2. grow \in [1..Len(recs) -> [S -> S]]
    BY <1>1
<1>3. PICK g : Growth(Len(recs), S, <<>>, grow, g)
  <2> HIDE DEF S, grow
  <2> QED
      BY <1>1, <1>2, Grows
<1>4. ASSUME NEW n \in 0..Len(recs)
      PROVE  g[n] = IF n = 0 THEN <<>>
                    ELSE IF Match(f, recs[n]) THEN Append(g[n - 1], recs[n]) ELSE g[n - 1]
  <2>1. n # 0 => n \in 1..Len(recs) /\ n - 1 \in 0..Len(recs)
      BY <1>1
  <2>2. n # 0 => g[n - 1] \in S
      BY <1>3, <2>1 DEF Growth
  <2> QED
      BY <1>3, <2>1, <2>2 DEF Growth
<1>5. IsK(g)
  <2>1. g = [n \in 0..Len(recs) |-> g[n]]
      BY <1>3 DEF Growth
  <2> QED
      BY <1>4, <2>1
<1>6. IsK(c)
    BY <1>5
<1>7. Matching(f, recs) = c[Len(recs)]
    BY DEF Matching
<1> HIDE DEF c
<1>8. c[0] = <<>>
    BY <1>1, <1>6
<1>9. ASSUME NEW n \in 1..Len(recs)
      PROVE  c[n] = IF Match(f, recs[n]) THEN Append(c[n - 1], recs[n]) ELSE c[n - 1]
  <2>1. n \in 0..Len(recs) /\ n # 0
      BY <1>1
  <2> QED
      BY <1>6, <2>1
<1>10. \A n \in 0..Len(recs) : c[n] \in S
  <2> DEFINE Q == {n \in Nat : n <= Len(recs) => c[n] \in S}
  <2>1. 0 \in Q
      BY <1>1, <1>8
  <2>2. ASSUME NEW n \in Q PROVE n + 1 \in Q
    <3>1. n \in Nat
        OBVIOUS
    <3>2. SUFFICES ASSUME n + 1 <= Len(recs) PROVE c[n + 1] \in S
        OBVIOUS
    <3>3. c[n] \in S /\ n + 1 \in 1..Len(recs) /\ (n + 1) - 1 = n
        BY <1>1, <3>1, <3>2
    <3> QED
        BY <1>1, <1>9, <3>3, AddsTyped
  <2>3. Q = Nat
    <3> HIDE DEF Q
    <3>1. Q \in SUBSET Nat
        BY DEF Q
    <3> QED
        BY <2>1, <2>2, <3>1, NatInduct
  <2> QED
      BY <1>1, <2>3
<1>11. c \in [0..Len(recs) -> S]
    BY <1>6, <1>10
<1> QED
    BY <1>7, <1>8, <1>9, <1>11 DEF Kept

LEMMA GatheredIs ==
    ASSUME NEW list \in Seq(Recs), NEW f, NEW recs \in Seq(Recs)
    PROVE  \E k : Gathered(list, f, recs, k) /\ Collect(list, f, recs) = k[Len(recs)]
<1> DEFINE S == Seq(Recs)
           grow == [n \in 1..Len(recs) |-> [l \in S |-> IF Match(f, recs[n]) THEN ListAdd(l, recs[n]) ELSE l]]
           IsK(k) == k = [n \in 0..Len(recs) |->
                        IF n = 0 THEN list
                        ELSE IF Match(f, recs[n]) THEN ListAdd(k[n - 1], recs[n]) ELSE k[n - 1]]
           c == CHOOSE k : IsK(k)
<1>1. Len(recs) \in Nat /\ list \in S /\ \A n \in 1..Len(recs) : recs[n] \in Recs
    OBVIOUS
<1>2. grow \in [1..Len(recs) -> [S -> S]]
    BY <1>1, AddsTyped
<1>3. PICK g : Growth(Len(recs), S, list, grow, g)
  <2> HIDE DEF S, grow
  <2> QED
      BY <1>1, <1>2, Grows
<1>4. ASSUME NEW n \in 0..Len(recs)
      PROVE  g[n] = IF n = 0 THEN list
                    ELSE IF Match(f, recs[n]) THEN ListAdd(g[n - 1], recs[n]) ELSE g[n - 1]
  <2>1. n # 0 => n \in 1..Len(recs) /\ n - 1 \in 0..Len(recs)
      BY <1>1
  <2>2. n # 0 => g[n - 1] \in S
      BY <1>3, <2>1 DEF Growth
  <2> QED
      BY <1>3, <2>1, <2>2 DEF Growth
<1>5. IsK(g)
  <2>1. g = [n \in 0..Len(recs) |-> g[n]]
      BY <1>3 DEF Growth
  <2> QED
      BY <1>4, <2>1
<1>6. IsK(c)
    BY <1>5
<1>7. Collect(list, f, recs) = c[Len(recs)]
    BY DEF Collect
<1> HIDE DEF c
<1>8. c[0] = list
    BY <1>1, <1>6
<1>9. ASSUME NEW n \in 1..Len(recs)
      PROVE  c[n] = IF Match(f, recs[n]) THEN ListAdd(c[n - 1], recs[n]) ELSE c[n - 1]
  <2>1. n \in 0..Len(recs) /\ n # 0
      BY <1>1
  <2> QED
      BY <1>6, <2>1
<1>10. \A n \in 0..Len(recs) : c[n] \in S
  <2> DEFINE Q == {n \in Nat : n <= Len(recs) => c[n] \in S}
  <2>1. 0 \in Q
      BY <1>1, <1>8
  <2>2. ASSUME NEW n \in Q PROVE n + 1 \in Q
    <3>1. n \in Nat
        OBVIOUS
    <3>2. SUFFICES ASSUME n + 1 <= Len(recs) PROVE c[n + 1] \in S
        OBVIOUS
    <3>3. c[n] \in S /\ n + 1 \in 1..Len(recs) /\ (n + 1) - 1 = n
        BY <1>1, <3>1, <3>2
    <3> QED
        BY <1>1, <1>9, <3>3, AddsTyped
  <2>3. Q = Nat
    <3> HIDE DEF Q
    <3>1. Q \in SUBSET Nat
        BY DEF Q
    <3> QED
        BY <2>1, <2>2, <3>1, NatInduct
  <2> QED
      BY <1>1, <2>3
<1>11. c \in [0..Len(recs) -> S]
    BY <1>6, <1>10
<1> QED
    BY <1>7, <1>8, <1>9, <1>11 DEF Gathered

\* How often a record is in a list.
NotFound(s, r) == \A k \in DOMAIN s : s[k] # r
FoundOnce(s, r) == \E k \in DOMAIN s : s[k] = r /\ \A l \in DOMAIN s : s[l] = r => l = k

LEMMA OnceMeans ==
    ASSUME NEW s, NEW r, FoundOnce(s, r)
    PROVE  Cardinality({k \in DOMAIN s : s[k] = r}) = 1
<1>1. PICK k \in DOMAIN s : s[k] = r /\ \A l \in DOMAIN s : s[l] = r => l = k
    BY DEF FoundOnce
<1>2. {l \in DOMAIN s : s[l] = r} = {k}
    BY <1>1
<1> QED
    BY <1>2, FS_Singleton

LEMMA Joined ==
    ASSUME NEW a \in Seq(Recs), NEW b \in Seq(Recs), NEW r
    PROVE  /\ a \o b \in Seq(Recs)
           /\ NotFound(a, r) /\ NotFound(b, r) => NotFound(a \o b, r)
           /\ FoundOnce(a, r) /\ NotFound(b, r) => FoundOnce(a \o b, r)
           /\ NotFound(a, r) /\ FoundOnce(b, r) => FoundOnce(a \o b, r)
<1> DEFINE n == Len(a)
           w == Len(b)
           c == a \o b
<1>1. /\ n \in Nat /\ w \in Nat /\ c \in Seq(Recs) /\ DOMAIN a = 1..n /\ DOMAIN b = 1..w
      /\ DOMAIN c = 1..(n + w)
      /\ \A i \in 1..n : c[i] = a[i]
      /\ \A i \in (n + 1)..(n + w) : c[i] = b[i - n]
    OBVIOUS
<1> HIDE DEF n, w, c
<1>2. \A k \in DOMAIN c : \/ k \in 1..n /\ c[k] = a[k]
                          \/ k > n /\ k - n \in 1..w /\ c[k] = b[k - n]
    BY <1>1
<1>3. NotFound(a, r) /\ NotFound(b, r) => NotFound(c, r)
    BY <1>1, <1>2 DEF NotFound
<1>4. ASSUME FoundOnce(a, r), NotFound(b, r) PROVE FoundOnce(c, r)
  <2>1. PICK k \in 1..n : a[k] = r /\ \A l \in 1..n : a[l] = r => l = k
      BY <1>1, <1>4 DEF FoundOnce
  <2>2. k \in DOMAIN c /\ c[k] = r
      BY <1>1, <2>1
  <2>3. \A l \in DOMAIN c : c[l] = r => l = k
      BY <1>1, <1>2, <1>4, <2>1 DEF NotFound
  <2> QED
      BY <2>2, <2>3 DEF FoundOnce
<1>5. ASSUME NotFound(a, r), FoundOnce(b, r) PROVE FoundOnce(c, r)
  <2>1. PICK k \in 1..w : b[k] = r /\ \A l \in 1..w : b[l] = r => l = k
      BY <1>1, <1>5 DEF FoundOnce
  <2>2. n + k \in DOMAIN c /\ (n + k) - n = k /\ n + k \in (n + 1)..(n + w)
      BY <1>1, <2>1
  <2>3. c[n + k] = r
      BY <1>1, <2>1, <2>2
  <2>4. ASSUME NEW l \in DOMAIN c, c[l] = r PROVE l = n + k
    <3>1. l > n /\ l - n \in 1..w /\ b[l - n] = r
        BY <1>1, <1>2, <1>5, <2>4 DEF NotFound
    <3>2. l - n = k
        BY <2>1, <3>1
    <3>3. l \in Nat /\ n \in Nat
        BY <1>1, <2>4
    <3> QED
        BY <3>2, <3>3
  <2> QED
      BY <2>2, <2>3, <2>4 DEF FoundOnce
<1> QED
    BY <1>1, <1>3, <1>4, <1>5 DEF c

\* What Matching keeps: what matches, as often as it was there.
LEMMA MatchingKeeps ==
    ASSUME NEW f, NEW recs \in Seq(Recs)
    PROVE  /\ Matching(f, recs) \in Seq(Recs)
           /\ \A r : NotFound(recs, r) => NotFound(Matching(f, recs), r)
           /\ \A r : FoundOnce(recs, r) /\ Match(f, r) => FoundOnce(Matching(f, recs), r)
<1>1. PICK k : Kept(f, recs, k) /\ Matching(f, recs) = k[Len(recs)]
    BY KeptIs
<1> DEFINE N == Len(recs)
<1>2. /\ N \in Nat /\ DOMAIN recs = 1..N /\ k \in [0..N -> Seq(Recs)] /\ k[0] = <<>>
      /\ \A n \in 1..N : /\ recs[n] \in Recs
                         /\ k[n] = IF Match(f, recs[n]) THEN Append(k[n - 1], recs[n]) ELSE k[n - 1]
    BY <1>1 DEF Kept
<1> HIDE DEF N
<1> DEFINE OnceTo(n, r) == \E i \in 1..n : recs[i] = r /\ \A j \in 1..n : recs[j] = r => j = i
           NoneTo(n, r) == \A i \in 1..n : recs[i] # r
           UpTo(n) == \A r : /\ NoneTo(n, r) => NotFound(k[n], r)
                             /\ OnceTo(n, r) /\ Match(f, r) => FoundOnce(k[n], r)
           Q == {n \in Nat : n <= N => UpTo(n)}
<1>3. 0 \in Q
    BY <1>2 DEF NotFound, FoundOnce
<1>4. ASSUME NEW n \in Q PROVE n + 1 \in Q
  <2>1. n \in Nat
      OBVIOUS
  <2>a. n <= N => UpTo(n)
    <3> HIDE DEF UpTo
    <3> QED
        OBVIOUS
  <2>b. SUFFICES ASSUME n + 1 <= N PROVE UpTo(n + 1)
    <3> HIDE DEF UpTo
    <3> QED
        BY <2>1
  <2> SUFFICES ASSUME NEW r
               PROVE  /\ NoneTo(n + 1, r) => NotFound(k[n + 1], r)
                      /\ OnceTo(n + 1, r) /\ Match(f, r) => FoundOnce(k[n + 1], r)
      OBVIOUS
  <2>2. /\ NoneTo(n, r) => NotFound(k[n], r)
        /\ OnceTo(n, r) /\ Match(f, r) => FoundOnce(k[n], r)
    <3>1. UpTo(n)
      <4> HIDE DEF UpTo
      <4> QED
          BY <1>2, <2>1, <2>a, <2>b
    <3> HIDE DEF NoneTo, OnceTo
    <3> QED
        BY <3>1
  <2>3. /\ n + 1 \in 1..N /\ n \in 0..N /\ (n + 1) - 1 = n
        /\ recs[n + 1] \in Recs /\ k[n] \in Seq(Recs)
        /\ k[n + 1] = IF Match(f, recs[n + 1]) THEN Append(k[n], recs[n + 1]) ELSE k[n]
      BY <1>2, <2>1, <2>b, SMTT(60)
  <2>4. /\ Append(k[n], recs[n + 1]) = k[n] \o <<recs[n + 1]>>
        /\ <<recs[n + 1]>> \in Seq(Recs)
        /\ recs[n + 1] # r => NotFound(<<recs[n + 1]>>, r)
        /\ recs[n + 1] = r => FoundOnce(<<recs[n + 1]>>, r)
      BY <2>3 DEF NotFound, FoundOnce
  <2>5. ASSUME NoneTo(n + 1, r) PROVE NotFound(k[n + 1], r)
    <3>1. NoneTo(n, r) /\ recs[n + 1] # r
        BY <2>1, <2>5
    <3> HIDE DEF NoneTo, OnceTo
    <3> QED
        BY <2>2, <2>3, <2>4, <3>1, Joined
  <2>6. ASSUME OnceTo(n + 1, r), Match(f, r) PROVE FoundOnce(k[n + 1], r)
    <3>1. PICK i \in 1..(n + 1) : recs[i] = r /\ \A j \in 1..(n + 1) : recs[j] = r => j = i
        BY <2>6
    <3>2. CASE i = n + 1
      <4>1. NoneTo(n, r)
          BY <2>1, <3>1, <3>2
      <4> HIDE DEF NoneTo, OnceTo
      <4> QED
          BY <2>2, <2>3, <2>4, <2>6, <3>1, <3>2, <4>1, Joined
    <3>3. CASE i <= n
      <4>1. OnceTo(n, r) /\ recs[n + 1] # r
          BY <2>1, <3>1, <3>3
      <4> HIDE DEF NoneTo, OnceTo
      <4> QED
          BY <2>2, <2>3, <2>4, <2>6, <4>1, Joined
    <3> QED
        BY <2>1, <3>1, <3>2, <3>3
  <2> HIDE DEF NoneTo, OnceTo
  <2> QED
      BY <2>5, <2>6
<1>5. N \in Q
  <2> HIDE DEF Q
  <2>1. Q \in SUBSET Nat
      BY DEF Q
  <2> QED
      BY <1>2, <1>3, <1>4, <2>1, NatInduct
<1>6. UpTo(N)
  <2> HIDE DEF UpTo
  <2> QED
      BY <1>2, <1>5
<1>7. \A r : /\ NoneTo(N, r) <=> NotFound(recs, r)
             /\ OnceTo(N, r) <=> FoundOnce(recs, r)
    BY <1>2 DEF NotFound, FoundOnce
<1>8. Matching(f, recs) = k[N] /\ k[N] \in Seq(Recs)
    BY <1>1, <1>2 DEF N
<1> HIDE DEF NoneTo, OnceTo
<1> QED
    BY <1>6, <1>7, <1>8

\* The list and the records it stands for are sorted to the same, whatever is
\* added to both.
SortsAlike(list, recs) == \A u \in Seq(Recs) : SortConns(list \o u) = SortConns(recs \o u)

LEMMA SameAdds ==
    ASSUME NEW list \in Seq(Recs), NEW recs \in Seq(Recs), NEW rec \in Recs, SortsAlike(list, recs)
    PROVE  SortsAlike(ListAdd(list, rec), Append(recs, rec))
<1> DEFINE l == Append(list, rec)
<1>1. ASSUME NEW u \in Seq(Recs) PROVE SortConns(l \o u) = SortConns(Append(recs, rec) \o u)
  <2> DEFINE v == <<rec>> \o u
  <2>1. /\ v \in Seq(Recs) /\ <<rec>> \in Seq(Recs)
        /\ l = list \o <<rec>> /\ Append(recs, rec) = recs \o <<rec>>
      OBVIOUS
  <2>2. l \o u = list \o v /\ Append(recs, rec) \o u = recs \o v
      BY <2>1, ConcatAssociative, SMTT(60)
  <2> HIDE DEF v, l
  <2> QED
      BY <2>1, <2>2 DEF SortsAlike
<1>2. l \in Seq(Recs)
    OBVIOUS
<1> HIDE DEF l
<1>3. ListAdd(list, rec) \in {l, SortConns(l)}
    BY DEF ListAdd, l
<1>4. ASSUME NEW u \in Seq(Recs) PROVE SortConns(SortConns(l) \o u) = SortConns(l \o u)
    BY <1>2, SortTwice
<1> QED
    BY <1>1, <1>3, <1>4 DEF SortsAlike

LEMMA AppendAfter ==
    ASSUME NEW a \in Seq(Recs), NEW b \in Seq(Recs), NEW rec \in Recs
    PROVE  a \o b \in Seq(Recs) /\ a \o Append(b, rec) = Append(a \o b, rec)
<1> DEFINE one == <<rec>>
<1>1. one \in Seq(Recs)
    OBVIOUS
<1>2. a \o b \in Seq(Recs)
    OBVIOUS
<1>3. Append(b, rec) = b \o one /\ Append(a \o b, rec) = (a \o b) \o one
    BY <1>2, AppendIsConcat
<1> HIDE DEF one
<1>4. (a \o b) \o one = a \o (b \o one)
    BY <1>1, ConcatAssociative
<1> QED
    BY <1>2, <1>3, <1>4

LEMMA CollectKeeps ==
    ASSUME NEW list \in Seq(Recs), NEW old \in Seq(Recs), SortsAlike(list, old),
           NEW f, NEW recs \in Seq(Recs)
    PROVE  /\ Collect(list, f, recs) \in Seq(Recs)
           /\ SortsAlike(Collect(list, f, recs), old \o Matching(f, recs))
<1>1. PICK k : Kept(f, recs, k) /\ Matching(f, recs) = k[Len(recs)]
    BY KeptIs
<1>2. PICK g : Gathered(list, f, recs, g) /\ Collect(list, f, recs) = g[Len(recs)]
    BY GatheredIs
<1> DEFINE N == Len(recs)
<1>3. /\ N \in Nat /\ k \in [0..N -> Seq(Recs)] /\ k[0] = <<>>
      /\ g \in [0..N -> Seq(Recs)] /\ g[0] = list
      /\ \A n \in 1..N : /\ recs[n] \in Recs
                         /\ k[n] = IF Match(f, recs[n]) THEN Append(k[n - 1], recs[n]) ELSE k[n - 1]
                         /\ g[n] = IF Match(f, recs[n]) THEN ListAdd(g[n - 1], recs[n]) ELSE g[n - 1]
  <2>1. N \in Nat /\ \A n \in 1..N : recs[n] \in Recs
      OBVIOUS
  <2> HIDE DEF N
  <2> QED
      BY <1>1, <1>2, <2>1 DEF Kept, Gathered, N
<1> HIDE DEF N
<1> DEFINE Q == {n \in Nat : n <= N => SortsAlike(g[n], old \o k[n])}
<1>4. 0 \in Q
  <2>1. old \o <<>> = old
      OBVIOUS
  <2> QED
      BY <1>3, <2>1
<1>5. ASSUME NEW n \in Q PROVE n + 1 \in Q
  <2>1. n \in Nat
      OBVIOUS
  <2>a. SUFFICES ASSUME n + 1 <= N PROVE SortsAlike(g[n + 1], old \o k[n + 1])
      OBVIOUS
  <2>b. n + 1 \in 1..N /\ n \in 0..N /\ (n + 1) - 1 = n /\ n <= N
    <3>1. N \in Nat
        BY <1>3
    <3> HIDE DEF Q
    <3> QED
        BY <2>1, <2>a, <3>1
  <2>2. /\ n + 1 \in 1..N /\ n \in 0..N /\ (n + 1) - 1 = n
        /\ recs[n + 1] \in Recs /\ k[n] \in Seq(Recs) /\ g[n] \in Seq(Recs)
        /\ k[n + 1] = IF Match(f, recs[n + 1]) THEN Append(k[n], recs[n + 1]) ELSE k[n]
        /\ g[n + 1] = IF Match(f, recs[n + 1]) THEN ListAdd(g[n], recs[n + 1]) ELSE g[n]
      BY <1>3, <2>b
  <2>3. SortsAlike(g[n], old \o k[n])
      BY <2>b
  <2>4. old \o k[n] \in Seq(Recs) /\ old \o Append(k[n], recs[n + 1]) = Append(old \o k[n], recs[n + 1])
      BY <2>2, AppendAfter
  <2> QED
      BY <2>2, <2>3, <2>4, SameAdds
<1>6. N \in Q
  <2> HIDE DEF Q
  <2>1. Q \in SUBSET Nat
      BY DEF Q
  <2> QED
      BY <1>3, <1>4, <1>5, <2>1, NatInduct
<1>7. g[N] \in Seq(Recs) /\ SortsAlike(g[N], old \o k[N])
    BY <1>3, <1>6
<1> QED
    BY <1>1, <1>2, <1>7 DEF N

\* The connections whose record is in the ring at most, and on disk at most.
Ended(i) == pc[i] \in {"persist", "failed", "closing", "done"}
OnFile(i) == pc[i] \in {"closing", "done"}

\* The fields of a request, idle or not.
QueryRecord == [pc : {"idle", "files", "read", "done"}, f : [errOnly : BOOLEAN],
                active : SUBSET Recs, closed : Seq(Recs), list : Seq(Recs),
                left : Nat, rotated : BOOLEAN]

LogTypes ==
    /\ ring \in [buf : Seq(Recs), next : Int]
    /\ persisted \in BOOLEAN
    /\ files \in Seq(Seq(Recs)) /\ Len(files) \in 1..Backups + 1
    /\ logged \in Seq(Recs)
    /\ query \in QueryRecord
    /\ \A i \in OpenConns : conns[i].opened \in Int
    /\ \A r \in before : r \in Recs

\* A connection has one record at most, in the ring and on disk.
OneRecord ==
    /\ \A k \in DOMAIN ring.buf : Ended(ring.buf[k].id)
    /\ \A k, l \in DOMAIN ring.buf : ring.buf[k].id = ring.buf[l].id => k = l
    /\ \A j \in DOMAIN files : \A k \in DOMAIN files[j] : OnFile(files[j][k].id)
    /\ \A i, j \in DOMAIN files : \A k \in DOMAIN files[i] : \A l \in DOMAIN files[j] :
          files[i][k].id = files[j][l].id => i = j /\ k = l
    /\ \A i \in Ids : pc[i] \in {"persist", "failed"} =>
          \E k \in DOMAIN logged : logged[k].id = i

OnDisk(r) == \E j \in DOMAIN files : \E k \in DOMAIN files[j] : files[j][k] = r

\* The query has read the files after left, and nothing of the others.
QueryExact ==
    /\ query.pc = "files" =>
        /\ persisted /\ query.closed = <<>>
        /\ ~query.rotated => \A r \in before : OnDisk(r)
    /\ query.pc = "read" =>
        /\ query.left <= Len(files)
        /\ ~query.rotated =>
            /\ \A r \in before : OnDisk(r)
            /\ \A k \in DOMAIN query.closed : OnFile(query.closed[k].id)
            /\ \A j \in DOMAIN files : \A k \in DOMAIN files[j] :
                  /\ j <= query.left => NotFound(query.closed, files[j][k])
                  /\ j > query.left /\ files[j][k] \in before /\ Match(query.f, files[j][k])
                        => FoundOnce(query.closed, files[j][k])
    /\ query.pc = "done" /\ ~query.rotated =>
          \A r \in before : Match(query.f, r) => FoundOnce(query.closed, r)

LogInv == LogTypes /\ OneRecord /\ QueryExact /\ SortsAlike(query.list, query.closed)

LEMMA NothingSame == SortsAlike(<<>>, <<>>)
BY DEF SortsAlike

LEMMA LogStarts == Init => LogInv
<1> SUFFICES ASSUME Init PROVE LogInv
    OBVIOUS
<1>1. /\ ring = [buf |-> <<>>, next |-> 0] /\ persisted \in BOOLEAN /\ files = << <<>> >>
      /\ query = Idle /\ logged = <<>> /\ before = {} /\ conns = <<>>
      /\ pc = [i \in Ids |-> "none"]
    BY DEF Init, LogInit
<1>2. LogTypes
  <2>1. ring \in [buf : Seq(Recs), next : Int]
      BY <1>1
  <2>2. files \in Seq(Seq(Recs)) /\ Len(files) = 1 /\ 1 \in 1..Backups + 1
      BY <1>1, StatsAssumption
  <2>3. query \in QueryRecord
      BY <1>1 DEF Idle, QueryRecord
  <2> QED
      BY <1>1, <2>1, <2>2, <2>3 DEF LogTypes, OpenConns
<1>3. OneRecord
  <2>1. DOMAIN ring.buf = {} /\ DOMAIN files = {1} /\ files[1] = <<>> /\ DOMAIN files[1] = {}
      BY <1>1
  <2>2. \A i \in Ids : pc[i] = "none"
      BY <1>1
  <2> QED
      BY <2>1, <2>2 DEF OneRecord
<1>4. QueryExact
    BY <1>1 DEF QueryExact, Idle
<1>5. SortsAlike(query.list, query.closed)
    BY <1>1, NothingSame DEF Idle
<1> QED
    BY <1>2, <1>3, <1>4, <1>5 DEF LogInv

\* Steps that touch neither the log nor the query, and a connection that has
\* ended stays so.
LEMMA LogStays ==
    ASSUME StreamInv, LogInv, UNCHANGED <<logvars, logged, before>>,
           \A i \in DOMAIN conns' : conns'[i].opened \in Int,
           \A i \in Ids : /\ Ended(i) => Ended(i)'
                          /\ OnFile(i) => OnFile(i)'
                          /\ pc'[i] \in {"persist", "failed"} => pc[i] \in {"persist", "failed"}
    PROVE  LogInv'
<1>1. UNCHANGED <<ring, persisted, files, query, logged, before>>
    BY DEF logvars
<1>2. LogTypes'
    BY <1>1 DEF LogInv, LogTypes, OpenConns
<1>3. /\ \A k \in DOMAIN ring.buf : ring.buf[k].id \in Ids
      /\ \A j \in DOMAIN files : \A k \in DOMAIN files[j] : files[j][k].id \in Ids
      /\ \A k \in DOMAIN query.closed : query.closed[k].id \in Ids
  <2>1. ring.buf \in Seq(Recs) /\ files \in Seq(Seq(Recs)) /\ query.closed \in Seq(Recs)
      BY DEF LogInv, LogTypes, QueryRecord
  <2>2. \A r \in Recs : r.id \in Ids
      BY DEF Recs
  <2>3. \A s \in Seq(Recs) : \A k \in DOMAIN s : s[k].id \in Ids
      BY <2>2
  <2>4. \A j \in DOMAIN files : files[j] \in Seq(Recs)
      BY <2>1
  <2> QED
      BY <2>1, <2>3, <2>4
<1>4. OneRecord'
    BY <1>1, <1>3 DEF LogInv, OneRecord, Ended, OnFile
<1>5. QueryExact'
    BY <1>1, <1>3 DEF LogInv, QueryExact, OnDisk, OnFile
<1>6. SortsAlike(query.list, query.closed)'
    BY <1>1 DEF LogInv
<1> QED
    BY <1>2, <1>4, <1>5, <1>6 DEF LogInv

\* A record that enters the ring.
LEMMA RingTakes ==
    ASSUME NEW r \in [buf : Seq(Recs), next : Int], NEW rec \in Recs,
           \A k \in DOMAIN r.buf : r.buf[k].id # rec.id
    PROVE  LET s == RingAdd(r, rec)
           IN  /\ s \in [buf : Seq(Recs), next : Int]
               /\ \A k \in DOMAIN s.buf : s.buf[k] = rec \/ (k \in DOMAIN r.buf /\ s.buf[k] = r.buf[k])
               /\ \A k, l \in DOMAIN s.buf : s.buf[k] = rec /\ s.buf[l] = rec => k = l
<1> DEFINE s == RingAdd(r, rec)
<1>1. MaxConnLog \in Nat \ {0} /\ r.buf \in Seq(Recs) /\ r.next \in Int
    BY StatsAssumption
<1>2. CASE Len(r.buf) < MaxConnLog
  <2>1. s.buf = Append(r.buf, rec) /\ s = [buf |-> Append(r.buf, rec), next |-> r.next]
      BY <1>2 DEF RingAdd
  <2>2. /\ Append(r.buf, rec) \in Seq(Recs) /\ Len(r.buf) \in Nat
        /\ DOMAIN r.buf = 1..Len(r.buf) /\ DOMAIN Append(r.buf, rec) = 1..(Len(r.buf) + 1)
        /\ \A k \in 1..Len(r.buf) : Append(r.buf, rec)[k] = r.buf[k]
        /\ Append(r.buf, rec)[Len(r.buf) + 1] = rec
      BY <1>1
  <2> HIDE DEF s
  <2>3. \A k \in DOMAIN s.buf : \/ k = Len(r.buf) + 1 /\ s.buf[k] = rec
                                \/ k \in DOMAIN r.buf /\ s.buf[k] = r.buf[k]
      BY <2>1, <2>2
  <2>4. s \in [buf : Seq(Recs), next : Int]
      BY <1>1, <2>1, <2>2
  <2> QED
      BY <2>3, <2>4 DEF s
<1>3. CASE ~(Len(r.buf) < MaxConnLog)
  <2>1. /\ s = [buf |-> [r.buf EXCEPT ![r.next + 1] = rec], next |-> (r.next + 1) % MaxConnLog]
        /\ s.buf = [r.buf EXCEPT ![r.next + 1] = rec]
      BY <1>3 DEF RingAdd
  <2>2. s.buf \in Seq(Recs) /\ DOMAIN s.buf = DOMAIN r.buf
    <3>1. r.buf \in [1..Len(r.buf) -> Recs] /\ Len(r.buf) \in Nat
        BY <1>1
    <3>2. s.buf \in [1..Len(r.buf) -> Recs]
        BY <2>1, <3>1
    <3> QED
        BY <3>1, <3>2
  <2>3. \A k \in DOMAIN s.buf : \/ k = r.next + 1 /\ s.buf[k] = rec
                                \/ k \in DOMAIN r.buf /\ s.buf[k] = r.buf[k]
      BY <1>1, <2>1, <2>2
  <2>4. (r.next + 1) % MaxConnLog \in Int
      BY <1>1
  <2>5. s \in [buf : Seq(Recs), next : Int]
      BY <2>1, <2>2, <2>4
  <2> HIDE DEF s
  <2> QED
      BY <2>3, <2>5 DEF s
<1> QED
    BY <1>2, <1>3

LEMMA Logs ==
    ASSUME StreamInv, LogInv, NEW rec \in Recs, ~Ended(rec.id),
           ring' = RingAdd(ring, rec), logged' = Append(logged, rec),
           NEW goes \in {"persist", "failed"}, pc' = [pc EXCEPT ![rec.id] = goes],
           UNCHANGED <<persisted, files, query, before>>,
           \A i \in DOMAIN conns' : conns'[i].opened \in Int
    PROVE  LogInv'
<1>1. /\ ring \in [buf : Seq(Recs), next : Int] /\ logged \in Seq(Recs) /\ rec.id \in Ids
      /\ files \in Seq(Seq(Recs)) /\ query.closed \in Seq(Recs)
    BY DEF LogInv, LogTypes, Recs, QueryRecord
<1>2. \A s \in Seq(Recs) : \A k \in DOMAIN s : s[k].id \in Ids
  <2>1. \A r \in Recs : r.id \in Ids
      BY DEF Recs
  <2> QED
      BY <2>1
<1>3. \A j \in DOMAIN files : files[j] \in Seq(Recs)
    BY <1>1
<1>4. \A i \in Ids : /\ Ended(i)' <=> Ended(i) \/ i = rec.id
                     /\ OnFile(i) => OnFile(i)'
                     /\ i # rec.id => pc'[i] = pc[i]
    BY <1>1 DEF StreamInv, StatsTypes, Ended, OnFile
<1>5. \A k \in DOMAIN ring.buf : Ended(ring.buf[k].id) /\ ring.buf[k].id # rec.id
    BY DEF LogInv, OneRecord
<1>6. /\ ring' \in [buf : Seq(Recs), next : Int]
      /\ \A k \in DOMAIN ring'.buf : ring'.buf[k] = rec \/ (k \in DOMAIN ring.buf /\ ring'.buf[k] = ring.buf[k])
      /\ \A k, l \in DOMAIN ring'.buf : ring'.buf[k] = rec /\ ring'.buf[l] = rec => k = l
    BY <1>1, <1>5, RingTakes
<1>7. /\ logged' \in Seq(Recs) /\ DOMAIN logged \subseteq DOMAIN logged'
      /\ \A k \in DOMAIN logged : logged'[k] = logged[k]
      /\ Len(logged) + 1 \in DOMAIN logged' /\ logged'[Len(logged) + 1] = rec
    BY <1>1
<1>8. LogTypes'
    BY <1>6, <1>7 DEF LogInv, LogTypes, OpenConns
<1>9. OneRecord'
  <2>1. ASSUME NEW k \in DOMAIN ring'.buf PROVE Ended(ring.buf[k].id)'
    <3>1. CASE ring'.buf[k] = rec
        BY <1>1, <1>4, <3>1
    <3>2. CASE k \in DOMAIN ring.buf /\ ring'.buf[k] = ring.buf[k]
      <4>1. ring.buf[k].id \in Ids /\ Ended(ring.buf[k].id)
          BY <1>1, <1>2, <1>5, <3>2
      <4> QED
          BY <1>4, <3>2, <4>1 DEF Ended
    <3> QED
        BY <1>6, <3>1, <3>2
  <2>2. \A k, l \in DOMAIN ring'.buf : ring'.buf[k].id = ring'.buf[l].id => k = l
      BY <1>5, <1>6 DEF LogInv, OneRecord
  <2>3. ASSUME NEW j \in DOMAIN files', NEW k \in DOMAIN files[j]' PROVE OnFile(files[j][k].id)'
      BY <1>2, <1>3, <1>4 DEF LogInv, OneRecord, OnFile
  <2>5. \A i, j \in DOMAIN files' : \A k \in DOMAIN files'[i] : \A l \in DOMAIN files'[j] :
           files'[i][k].id = files'[j][l].id => i = j /\ k = l
      BY DEF LogInv, OneRecord
  <2>4. \A i \in Ids : pc'[i] \in {"persist", "failed"} => \E k \in DOMAIN logged' : logged'[k].id = i
    <3> SUFFICES ASSUME NEW i \in Ids, pc'[i] \in {"persist", "failed"}
                 PROVE  \E k \in DOMAIN logged' : logged'[k].id = i
        OBVIOUS
    <3>1. CASE i = rec.id
        BY <1>7, <3>1
    <3>2. CASE i # rec.id
      <4>1. pc[i] \in {"persist", "failed"}
          BY <1>4, <3>2
      <4>2. PICK k \in DOMAIN logged : logged[k].id = i
          BY <4>1 DEF LogInv, OneRecord
      <4> QED
          BY <1>7, <4>2
    <3> QED
        BY <3>1, <3>2
  <2> QED
      BY <2>1, <2>2, <2>3, <2>4, <2>5 DEF OneRecord
<1>10. QueryExact'
  <2>1. \A k \in DOMAIN query.closed : OnFile(query.closed[k].id) => OnFile(query.closed[k].id)'
      BY <1>1, <1>2, <1>4
  <2> QED
      BY <2>1 DEF LogInv, QueryExact, OnDisk
<1>11. SortsAlike(query.list, query.closed)'
    BY DEF LogInv
<1> QED
    BY <1>8, <1>9, <1>10, <1>11 DEF LogInv

\* The files after a record was written: rotated, or with a longer current one.
Took(fs, rec, gs) ==
    /\ gs \in Seq(Seq(Recs)) /\ Len(gs) \in Len(fs)..Backups + 1
    /\ Full(fs) => /\ gs[1] = <<rec>>
                   /\ \A j \in DOMAIN gs : j # 1 => j - 1 \in DOMAIN fs /\ gs[j] = fs[j - 1]
    /\ ~Full(fs) => /\ DOMAIN gs = DOMAIN fs /\ gs[1] = Append(fs[1], rec)
                    /\ \A j \in DOMAIN gs : j # 1 => gs[j] = fs[j]

LEMMA FilesTake ==
    ASSUME NEW fs \in Seq(Seq(Recs)), Len(fs) \in 1..Backups + 1, NEW rec \in Recs
    PROVE  Took(fs, rec, RotateWrite(fs, rec))
<1> DEFINE gs == RotateWrite(fs, rec)
           n == Len(fs)
           m == 1 + (IF n <= Backups THEN n ELSE Backups)
<1>1. /\ Backups \in Nat /\ n \in Nat /\ n >= 1 /\ DOMAIN fs = 1..n /\ m \in n..Backups + 1 /\ m \in Nat
      /\ \A j \in 1..n : fs[j] \in Seq(Recs)
    BY StatsAssumption
<1>2. <<rec>> \in Seq(Recs) /\ Append(fs[1], rec) \in Seq(Recs)
    BY <1>1
<1>3. CASE Full(fs)
  <2>1. gs = [j \in 1..m |-> IF j = 1 THEN <<rec>> ELSE fs[j - 1]]
      BY <1>3 DEF RotateWrite
  <2>2. \A j \in 1..m : j # 1 => j - 1 \in 1..n
    <3>1. m <= n + 1
        BY <1>1
    <3> HIDE DEF n, m
    <3> QED
        BY <1>1, <3>1
  <2> HIDE DEF n, m, gs
  <2>3. \A j \in 1..m : IF j = 1 THEN gs[j] = <<rec>> ELSE gs[j] = fs[j - 1] /\ j - 1 \in DOMAIN fs
      BY <1>1, <2>1, <2>2
  <2>4. gs \in [1..m -> Seq(Recs)]
      BY <1>1, <1>2, <2>1, <2>2
  <2>5. gs \in Seq(Seq(Recs)) /\ Len(gs) = m /\ DOMAIN gs = 1..m /\ 1 \in 1..m
      BY <1>1, <2>4
  <2> QED
      BY <1>1, <1>3, <2>3, <2>5 DEF gs, n, Took
<1>4. CASE ~Full(fs)
  <2>1. gs = [fs EXCEPT ![1] = Append(fs[1], rec)]
      BY <1>4 DEF RotateWrite
  <2>2. gs \in [1..n -> Seq(Recs)]
      BY <1>1, <1>2, <2>1
  <2>3. DOMAIN gs = DOMAIN fs /\ gs[1] = Append(fs[1], rec) /\ \A j \in DOMAIN gs : j # 1 => gs[j] = fs[j]
      BY <1>1, <2>1
  <2> HIDE DEF n, gs
  <2>4. gs \in Seq(Seq(Recs)) /\ Len(gs) = n
      BY <1>1, <2>2
  <2> QED
      BY <1>1, <1>4, <2>3, <2>4 DEF gs, n, Took
<1> QED
    BY <1>3, <1>4

\* PersistConn: the record goes to the current file, which is rotated first when
\* it is full.
LEMMA PersistsOnce ==
    ASSUME StreamInv, LogInv, NEW id \in Ids, PersistConn(id)
    PROVE  LogInv'
<1>1. /\ pc[id] \in {"persist", "failed"} /\ Persist(Logged(id))
      /\ pc' = [pc EXCEPT ![id] = IF pc[id] = "persist" THEN "closing" ELSE "done"]
      /\ UNCHANGED <<ring, persisted, logged, before, conns>>
    BY DEF PersistConn, tables
<1>2. \A i \in Ids : /\ Ended(i) => Ended(i)'
                     /\ OnFile(i) => OnFile(i)'
                     /\ pc'[i] \in {"persist", "failed"} => pc[i] \in {"persist", "failed"}
    BY <1>1 DEF StreamInv, StatsTypes, Ended, OnFile
<1>3. CASE ~persisted
  <2>1. UNCHANGED <<files, query>>
      BY <1>1, <1>3 DEF Persist
  <2>2. \A i \in DOMAIN conns' : conns'[i].opened \in Int
      BY <1>1 DEF LogInv, LogTypes, OpenConns
  <2> QED
      BY <1>1, <1>2, <2>1, <2>2, LogStays DEF logvars
<1> DEFINE rec == Logged(id)
<1>4. rec \in Recs /\ rec.id = id
  <2>1. PICK k \in DOMAIN logged : logged[k].id = id
      BY <1>1 DEF LogInv, OneRecord
  <2>2. logged \in Seq(Recs) /\ ToSet(logged) = {logged[i] : i \in DOMAIN logged}
      BY DEF LogInv, LogTypes, ToSet
  <2>3. \E r \in ToSet(logged) : r.id = id
      BY <2>1, <2>2
  <2>4. rec \in ToSet(logged) /\ rec.id = id
      BY <2>3 DEF Logged
  <2>5. \A r \in ToSet(logged) : r \in Recs
      BY <2>2
  <2> QED
      BY <2>4, <2>5
<1> HIDE DEF rec
<1>5. CASE persisted
  <2>1. /\ files' = RotateWrite(files, rec)
        /\ query' = IF Full(files) /\ query.pc # "idle" THEN [query EXCEPT !.rotated = TRUE] ELSE query
      BY <1>1, <1>5 DEF Persist, rec
  <2>2. /\ files \in Seq(Seq(Recs)) /\ Len(files) \in 1..Backups + 1
        /\ query \in QueryRecord
      BY DEF LogInv, LogTypes
  <2>3. /\ DOMAIN files = 1..Len(files) /\ 1 \in DOMAIN files /\ files[1] \in Seq(Recs)
        /\ \A j \in DOMAIN files : files[j] \in Seq(Recs)
      BY <2>2
  <2>4. /\ \A s \in Seq(Recs) : \A k \in DOMAIN s : s[k].id \in Ids
        /\ OnFile(id)' /\ ~OnFile(id)
    <3>1. \A r \in Recs : r.id \in Ids
        BY DEF Recs
    <3> QED
        BY <1>1, <3>1 DEF StreamInv, StatsTypes, OnFile
  <2>5. /\ files' \in Seq(Seq(Recs)) /\ Len(files') \in Len(files)..Backups + 1
        /\ Full(files) => /\ files'[1] = <<rec>>
                          /\ \A j \in DOMAIN files' : j # 1 => j - 1 \in DOMAIN files /\ files'[j] = files[j - 1]
        /\ ~Full(files) => /\ DOMAIN files' = DOMAIN files /\ files'[1] = Append(files[1], rec)
                           /\ \A j \in DOMAIN files' : j # 1 => files'[j] = files[j]
    <3>1. Took(files, rec, files')
        BY <1>4, <2>1, <2>2, FilesTake
    <3> QED
        BY <3>1 DEF Took
  <2>6. /\ query'.pc = query.pc /\ query'.closed = query.closed /\ query'.list = query.list
        /\ query'.left = query.left /\ query'.f = query.f
        /\ query' \in QueryRecord
        /\ ~query'.rotated => ~query.rotated /\ (Full(files) => query.pc = "idle")
      BY <2>1, <2>2 DEF QueryRecord
  <2>7. LogTypes'
    <3>1. Len(files') \in 1..Backups + 1
        BY <2>2, <2>5, StatsAssumption
    <3> QED
        BY <1>1, <2>5, <2>6, <3>1 DEF LogInv, LogTypes, OpenConns
\* Where a record of the files after the grow was before it.
  <2>8. \A j \in DOMAIN files : \A k \in DOMAIN files[j] : files[j][k].id # id /\ OnFile(files[j][k].id)
      BY <2>4 DEF LogInv, OneRecord
  <2> DEFINE Was(j) == IF Full(files) THEN j - 1 ELSE j
  <2>9. ASSUME NEW j \in DOMAIN files', NEW k \in DOMAIN files'[j]
        PROVE  \/ j = 1 /\ files'[j][k] = rec /\ k = IF Full(files) THEN 1 ELSE Len(files[1]) + 1
               \/ Was(j) \in DOMAIN files /\ k \in DOMAIN files[Was(j)] /\ files'[j][k] = files[Was(j)][k]
    <3>1. CASE j # 1
        BY <2>5, <3>1
    <3>2. CASE j = 1 /\ Full(files)
      <4>1. files'[1] = <<rec>>
          BY <2>5, <3>2
      <4> QED
          BY <3>2, <4>1
    <3>3. CASE j = 1 /\ ~Full(files)
      <4>1. files'[1] = Append(files[1], rec)
          BY <2>5, <3>3
      <4>2. /\ DOMAIN Append(files[1], rec) = 1..(Len(files[1]) + 1) /\ DOMAIN files[1] = 1..Len(files[1])
            /\ Len(files[1]) \in Nat
            /\ \A i \in 1..Len(files[1]) : Append(files[1], rec)[i] = files[1][i]
            /\ Append(files[1], rec)[Len(files[1]) + 1] = rec
          BY <1>4, <2>3
      <4> QED
          BY <2>3, <3>3, <4>1, <4>2
    <3> QED
        BY <3>1, <3>2, <3>3
  <2>10. \A j \in DOMAIN files' : \A k \in DOMAIN files'[j] : OnFile(files[j][k].id)'
    <3> SUFFICES ASSUME NEW j \in DOMAIN files', NEW k \in DOMAIN files'[j] PROVE OnFile(files[j][k].id)'
        OBVIOUS
    <3>1. CASE files'[j][k] = rec
        BY <1>4, <2>4, <3>1 DEF OnFile
    <3>2. CASE Was(j) \in DOMAIN files /\ k \in DOMAIN files[Was(j)] /\ files'[j][k] = files[Was(j)][k]
      <4>1. OnFile(files[Was(j)][k].id) /\ files[Was(j)][k].id \in Ids
          BY <2>3, <2>4, <2>8, <3>2
      <4>2. OnFile(files[Was(j)][k].id) => pc'[files[Was(j)][k].id] \in {"closing", "done"}
          BY <1>2, <4>1 DEF OnFile
      <4> QED
          BY <3>2, <4>1, <4>2 DEF OnFile
    <3> QED
        BY <2>9, <3>1, <3>2
  <2>11. \A i, j \in DOMAIN files' : \A k \in DOMAIN files'[i] : \A l \in DOMAIN files'[j] :
            files'[i][k].id = files'[j][l].id => i = j /\ k = l
    <3> SUFFICES ASSUME NEW i \in DOMAIN files', NEW j \in DOMAIN files',
                        NEW k \in DOMAIN files'[i], NEW l \in DOMAIN files'[j],
                        files'[i][k].id = files'[j][l].id
                 PROVE  i = j /\ k = l
        OBVIOUS
    <3>1. i \in Int /\ j \in Int
      <4>1. DOMAIN files' = 1..Len(files') /\ Len(files') \in Nat
          BY <2>5
      <4> QED
          BY <4>1
    <3>2. CASE files'[i][k] = rec
      <4>1. files'[j][l].id = id
          BY <1>4, <3>2
      <4>2. /\ i = 1 /\ k = IF Full(files) THEN 1 ELSE Len(files[1]) + 1
            /\ j = 1 /\ l = IF Full(files) THEN 1 ELSE Len(files[1]) + 1
          BY <1>4, <2>8, <2>9, <3>2, <4>1
      <4> QED
          BY <4>2
    <3>3. CASE files'[j][l] = rec
      <4>1. files'[i][k].id = id
          BY <1>4, <3>3
      <4>2. /\ i = 1 /\ k = IF Full(files) THEN 1 ELSE Len(files[1]) + 1
            /\ j = 1 /\ l = IF Full(files) THEN 1 ELSE Len(files[1]) + 1
          BY <1>4, <2>8, <2>9, <3>3, <4>1
      <4> QED
          BY <4>2
    <3>4. CASE files'[i][k] # rec /\ files'[j][l] # rec
      <4>1. /\ Was(i) \in DOMAIN files /\ k \in DOMAIN files[Was(i)] /\ files'[i][k] = files[Was(i)][k]
            /\ Was(j) \in DOMAIN files /\ l \in DOMAIN files[Was(j)] /\ files'[j][l] = files[Was(j)][l]
          BY <2>9, <3>4
      <4>2. Was(i) = Was(j) /\ k = l
          BY <4>1 DEF LogInv, OneRecord
      <4> QED
          BY <3>1, <4>2
    <3> QED
        BY <3>2, <3>3, <3>4
  <2>12. OneRecord'
    <3>1. \A k \in DOMAIN ring'.buf : Ended(ring.buf[k].id)'
      <4>1. \A k \in DOMAIN ring.buf : Ended(ring.buf[k].id) /\ ring.buf[k].id \in Ids
          BY <2>4 DEF LogInv, OneRecord, LogTypes
      <4> QED
          BY <1>1, <1>2, <4>1 DEF Ended
    <3>2. \A k, l \in DOMAIN ring'.buf : ring'.buf[k].id = ring'.buf[l].id => k = l
        BY <1>1 DEF LogInv, OneRecord
    <3>3. \A i \in Ids : pc'[i] \in {"persist", "failed"} => \E k \in DOMAIN logged' : logged'[k].id = i
        BY <1>1, <1>2 DEF LogInv, OneRecord
    <3> QED
        BY <2>10, <2>11, <3>1, <3>2, <3>3 DEF OneRecord
\* When the file was not full, every record keeps its place.
  <2>13. ASSUME ~Full(files)
         PROVE  /\ DOMAIN files' = DOMAIN files
                /\ \A j \in DOMAIN files : \A k \in DOMAIN files[j] : k \in DOMAIN files'[j] /\ files'[j][k] = files[j][k]
    <3>1. files'[1] = Append(files[1], rec) /\ DOMAIN files' = DOMAIN files
        BY <2>5, <2>13
    <3>2. \A k \in DOMAIN files[1] : k \in DOMAIN Append(files[1], rec) /\ Append(files[1], rec)[k] = files[1][k]
        BY <1>4, <2>3
    <3>3. \A j \in DOMAIN files : j # 1 => files'[j] = files[j]
        BY <2>5, <2>13
    <3> QED
        BY <3>1, <3>2, <3>3
  <2>14. \A r \in before : OnDisk(r) /\ ~Full(files) => OnDisk(r)'
    <3> SUFFICES ASSUME NEW r \in before, OnDisk(r), ~Full(files) PROVE OnDisk(r)'
        OBVIOUS
    <3>1. PICK j \in DOMAIN files : \E k \in DOMAIN files[j] : files[j][k] = r
        BY DEF OnDisk
    <3>2. PICK k \in DOMAIN files[j] : files[j][k] = r
        BY <3>1
    <3>3. j \in DOMAIN files' /\ k \in DOMAIN files'[j] /\ files'[j][k] = r
        BY <2>13, <3>2
    <3> QED
        BY <3>3 DEF OnDisk
  <2>15. (query.pc = "files" =>
            /\ persisted /\ query.closed = <<>>
            /\ ~query.rotated => \A r \in before : OnDisk(r))'
    <3> SUFFICES ASSUME query'.pc = "files"
                 PROVE  /\ persisted' /\ query'.closed = <<>>
                        /\ ~query'.rotated => \A r \in before' : OnDisk(r)'
        OBVIOUS
    <3>1. /\ persisted /\ query.closed = <<>>
          /\ ~query.rotated => \A r \in before : OnDisk(r)
        BY <2>6 DEF LogInv, QueryExact
    <3>2. ~query'.rotated => ~query.rotated /\ ~Full(files)
        BY <2>6
    <3> QED
        BY <1>1, <2>6, <2>14, <3>1, <3>2
  <2>16. (query.pc = "done" /\ ~query.rotated => \A r \in before : Match(query.f, r) => FoundOnce(query.closed, r))'
      BY <1>1, <2>6 DEF LogInv, QueryExact
  <2>17. ASSUME query'.pc = "read" PROVE query'.left <= Len(files')
    <3>1. query.left <= Len(files)
        BY <2>6, <2>17 DEF LogInv, QueryExact
    <3>2. Len(files') >= Len(files) /\ Len(files') \in Int /\ Len(files) \in Int /\ query.left \in Int
        BY <2>2, <2>5 DEF QueryRecord
    <3> QED
        BY <2>6, <3>1, <3>2
  <2>18. ASSUME query'.pc = "read", ~query'.rotated
         PROVE  /\ \A r \in before' : OnDisk(r)'
                /\ \A k \in DOMAIN query'.closed : OnFile(query.closed[k].id)'
                /\ \A j \in DOMAIN files' : \A k \in DOMAIN files'[j] :
                      /\ j <= query'.left => NotFound(query'.closed, files'[j][k])
                      /\ j > query'.left /\ files'[j][k] \in before' /\ Match(query'.f, files'[j][k])
                            => FoundOnce(query'.closed, files'[j][k])
    <3>1. /\ ~Full(files)
          /\ \A r \in before : OnDisk(r)
          /\ \A k \in DOMAIN query.closed : OnFile(query.closed[k].id)
          /\ \A j \in DOMAIN files : \A k \in DOMAIN files[j] :
                /\ j <= query.left => NotFound(query.closed, files[j][k])
                /\ j > query.left /\ files[j][k] \in before /\ Match(query.f, files[j][k])
                      => FoundOnce(query.closed, files[j][k])
        BY <2>6, <2>18 DEF LogInv, QueryExact
    <3>2. \A r \in before' : OnDisk(r)'
        BY <1>1, <2>14, <3>1
    <3>3. \A k \in DOMAIN query'.closed : OnFile(query.closed[k].id)'
      <4>1. \A k \in DOMAIN query.closed : query.closed[k].id \in Ids
          BY <2>2, <2>4 DEF QueryRecord
      <4> QED
          BY <1>2, <2>6, <3>1, <4>1 DEF OnFile
    <3>4. NotFound(query.closed, rec) /\ rec \notin before
      <4>1. NotFound(query.closed, rec)
          BY <1>4, <2>4, <3>1 DEF NotFound
      <4>2. ~OnDisk(rec)
          BY <1>4, <2>8 DEF OnDisk
      <4> QED
          BY <3>1, <4>1, <4>2
    <3>5. ASSUME NEW j \in DOMAIN files', NEW k \in DOMAIN files'[j]
          PROVE  /\ j <= query'.left => NotFound(query'.closed, files'[j][k])
                 /\ j > query'.left /\ files'[j][k] \in before' /\ Match(query'.f, files'[j][k])
                       => FoundOnce(query'.closed, files'[j][k])
      <4>1. files'[j][k] = rec \/ (j \in DOMAIN files /\ k \in DOMAIN files[j] /\ files'[j][k] = files[j][k])
          BY <2>9, <3>1
      <4> QED
          BY <1>1, <2>6, <3>1, <3>4, <4>1
    <3> QED
        BY <3>2, <3>3, <3>5
  <2>19. QueryExact'
      BY <2>15, <2>16, <2>17, <2>18 DEF QueryExact
  <2>20. SortsAlike(query.list, query.closed)'
      BY <2>6 DEF LogInv
  <2> QED
      BY <2>7, <2>12, <2>19, <2>20 DEF LogInv
<1> QED
    BY <1>3, <1>5 DEF LogInv, LogTypes

\* Going round the ring from any slot visits every slot once.
LEMMA RoundSlots ==
    ASSUME NEW n \in Nat, n > 0, NEW x \in Int
    PROVE  /\ \A i \in 1..n : ((x + i - 1) % n) + 1 \in 1..n
           /\ \A i, j \in 1..n : (x + i - 1) % n = (x + j - 1) % n => i = j
           /\ \A k \in 1..n : \E i \in 1..n : ((x + i - 1) % n) + 1 = k
<1>1. ASSUME NEW y \in Int PROVE y % n \in 0..n - 1 /\ y = n * (y \div n) + (y % n) /\ y \div n \in Int
    OBVIOUS
<1>2. \A i \in 1..n : ((x + i - 1) % n) + 1 \in 1..n
  <2> SUFFICES ASSUME NEW i \in 1..n PROVE ((x + i - 1) % n) + 1 \in 1..n
      OBVIOUS
  <2>1. x + i - 1 \in Int
      OBVIOUS
  <2>2. (x + i - 1) % n \in 0..n - 1
      BY <1>1, <2>1
  <2> QED
      BY <2>2
<1>3. ASSUME NEW i \in 1..n, NEW j \in 1..n, (x + i - 1) % n = (x + j - 1) % n PROVE i = j
  <2> DEFINE a == (x + i - 1) \div n
             b == (x + j - 1) \div n
             c == (x + i - 1) % n
  <2>1. /\ x + i - 1 = n * a + c /\ x + j - 1 = n * b + c /\ a \in Int /\ b \in Int /\ c \in Int
    <3>1. x + i - 1 \in Int /\ x + j - 1 \in Int
        OBVIOUS
    <3> QED
        BY <1>1, <1>3, <3>1
  <2> HIDE DEF a, b, c
  <2>2. i - j = n * (a - b)
      BY <2>1
  <2>3. i - j < n /\ j - i < n
      OBVIOUS
  <2>4. a - b \in Int
      BY <2>1
  <2>5. a - b < 1 /\ a - b > -1
    <3>1. ASSUME a - b >= 1 PROVE FALSE
      <4>1. n * (a - b) >= n
          BY <2>4, <3>1
      <4> QED
          BY <2>2, <2>3, <4>1
    <3>2. ASSUME a - b <= -1 PROVE FALSE
      <4>1. n * (a - b) <= -n
          BY <2>4, <3>2
      <4> QED
          BY <2>2, <2>3, <4>1
    <3> QED
        BY <2>4, <3>1, <3>2
  <2>6. a - b = 0
      BY <2>4, <2>5
  <2>7. n * (a - b) = 0
      BY <2>6
  <2> QED
      BY <2>2, <2>7
<1>4. ASSUME NEW k \in 1..n PROVE \E i \in 1..n : ((x + i - 1) % n) + 1 = k
  <2> SUFFICES ASSUME \A i \in 1..n : ((x + i - 1) % n) + 1 # k PROVE FALSE
      OBVIOUS
  <2> DEFINE f == [i \in 1..n |-> ((x + i - 1) % n) + 1]
             T == (1..n) \ {k}
  <2>1. f \in [1..n -> T]
      BY <1>2
  <2>2. IsFiniteSet(1..n) /\ Cardinality(1..n) = n
      BY FS_Interval
  <2>3. IsFiniteSet(T) /\ Cardinality(T) = n - 1
      BY <2>2, FS_RemoveElement
  <2>4. \A i, j \in 1..n : f[i] = f[j] => i = j
    <3> SUFFICES ASSUME NEW i \in 1..n, NEW j \in 1..n, f[i] = f[j] PROVE i = j
        OBVIOUS
    <3>1. x + i - 1 \in Int /\ x + j - 1 \in Int
        OBVIOUS
    <3>2. (x + i - 1) % n \in Int /\ (x + j - 1) % n \in Int
        BY <1>1, <3>1
    <3>3. ((x + i - 1) % n) + 1 = ((x + j - 1) % n) + 1
        OBVIOUS
    <3>4. (x + i - 1) % n = (x + j - 1) % n
        BY <3>2, <3>3
    <3> QED
        BY <1>3, <3>4
  <2>5. Cardinality(T) < Cardinality(1..n)
      BY <2>2, <2>3
  <2> HIDE DEF f, T
  <2> QED
      BY <2>1, <2>2, <2>3, <2>4, <2>5, FS_PigeonHole
<1> QED
    BY <1>2, <1>3, <1>4

LEMMA RingOnce ==
    ASSUME LogTypes, OneRecord
    PROVE  /\ RingEach(ring) \in Seq(Recs)
           /\ \A r \in ToSet(ring.buf) : FoundOnce(RingEach(ring), r)
<1> DEFINE n == Len(ring.buf)
           e == RingEach(ring)
           at(i) == ((ring.next + i - 1) % n) + 1
<1>1. ring.buf \in Seq(Recs) /\ ring.next \in Int
    BY DEF LogTypes
<1>2. n \in Nat /\ DOMAIN ring.buf = 1..n /\ \A i \in 1..n : ring.buf[i] \in Recs
    BY <1>1
<1>3. e = [i \in 1..n |-> ring.buf[at(i)]]
    BY DEF RingEach
<1>4. CASE n = 0
  <2>1. e = <<>> /\ ToSet(ring.buf) = {}
      BY <1>2, <1>3, <1>4 DEF ToSet
  <2> QED
      BY <2>1
<1>5. CASE n # 0
  <2>1. /\ \A i \in 1..n : at(i) \in 1..n
        /\ \A i, j \in 1..n : (ring.next + i - 1) % n = (ring.next + j - 1) % n => i = j
        /\ \A k \in 1..n : \E i \in 1..n : at(i) = k
    <3>1. n > 0
        BY <1>2, <1>5
    <3> HIDE DEF n
    <3> QED
        BY <1>1, <1>2, <3>1, RoundSlots
  <2>2. \A i, j \in 1..n : at(i) = at(j) => i = j
    <3> SUFFICES ASSUME NEW i \in 1..n, NEW j \in 1..n, at(i) = at(j) PROVE i = j
        OBVIOUS
    <3>1. (ring.next + i - 1) % n \in Int /\ (ring.next + j - 1) % n \in Int
        BY <1>1, <1>2, <1>5, SMTT(60)
    <3>2. (ring.next + i - 1) % n = (ring.next + j - 1) % n
        BY <3>1
    <3> QED
        BY <2>1, <3>2
  <2> HIDE DEF at, e, n
  <2>3. e \in [1..n -> Recs]
      BY <1>2, <1>3, <2>1
  <2>4. e \in Seq(Recs) /\ DOMAIN e = 1..n
      BY <1>2, <2>3
  <2>5. ASSUME NEW r \in ToSet(ring.buf) PROVE FoundOnce(e, r)
    <3>1. PICK k \in 1..n : ring.buf[k] = r
        BY <1>2 DEF ToSet
    <3>2. PICK i \in 1..n : at(i) = k
        BY <2>1
    <3>3. e[i] = r
        BY <1>3, <3>1, <3>2
    <3>4. ASSUME NEW j \in 1..n, e[j] = r PROVE j = i
      <4>1. ring.buf[at(j)] = ring.buf[k] /\ at(j) \in 1..n
          BY <1>3, <2>1, <3>1, <3>4
      <4>2. at(j) = k
          BY <1>2, <4>1 DEF OneRecord
      <4> QED
          BY <2>2, <3>2, <4>2
    <3> QED
        BY <2>4, <3>3, <3>4 DEF FoundOnce
  <2> QED
      BY <2>4, <2>5 DEF e
<1> QED
    BY <1>4, <1>5

LEMMA NoneMatching == \A f : Matching(f, <<>>) = <<>>
<1> SUFFICES ASSUME NEW f PROVE Matching(f, <<>>) = <<>>
    OBVIOUS
<1>1. <<>> \in Seq(Recs) /\ Len(<<>>) = 0
    OBVIOUS
<1>2. PICK k : Kept(f, <<>>, k) /\ Matching(f, <<>>) = k[Len(<<>>)]
    BY <1>1, KeptIs
<1> QED
    BY <1>1, <1>2 DEF Kept

LEMMA QueryStarts ==
    ASSUME StreamInv, LogInv, NEW e \in BOOLEAN,
           QueryStart([errOnly |-> e], {RecordOf(i, FALSE) : i \in OpenConns}),
           before' = Stored, UNCHANGED <<conns, pc, logged>>
    PROVE  LogInv'
<1> DEFINE f == [errOnly |-> e]
           open == {RecordOf(i, FALSE) : i \in OpenConns}
           recs == IF persisted THEN <<>> ELSE RingEach(ring)
<1>1. LogTypes /\ OneRecord
    BY DEF LogInv
<1>2. /\ query' = [pc |-> IF persisted THEN "files" ELSE "done", f |-> f,
                   active |-> {r \in open : Match(f, r)},
                   closed |-> Matching(f, recs), list |-> Collect(<<>>, f, recs),
                   left |-> 0, rotated |-> FALSE]
      /\ UNCHANGED <<ring, persisted, files>>
    BY DEF QueryStart
<1>3. recs \in Seq(Recs)
    BY <1>1, RingOnce
<1>4. open \in SUBSET Recs
  <2> SUFFICES ASSUME NEW i \in OpenConns PROVE RecordOf(i, FALSE) \in Recs
      OBVIOUS
  <2>1. i \in Ids /\ conns[i].opened \in Int
      BY DEF StreamInv, StatsTypes, LogInv, LogTypes
  <2> QED
      BY <2>1 DEF RecordOf, Recs
<1> HIDE DEF recs, open
<1>5. /\ Matching(f, recs) \in Seq(Recs) /\ Collect(<<>>, f, recs) \in Seq(Recs)
      /\ SortsAlike(Collect(<<>>, f, recs), Matching(f, recs))
      /\ \A r : FoundOnce(recs, r) /\ Match(f, r) => FoundOnce(Matching(f, recs), r)
  <2>1. <<>> \in Seq(Recs)
      OBVIOUS
  <2>2. Matching(f, recs) \in Seq(Recs) /\ \A r : FoundOnce(recs, r) /\ Match(f, r) => FoundOnce(Matching(f, recs), r)
      BY <1>3, MatchingKeeps
  <2>3. Collect(<<>>, f, recs) \in Seq(Recs) /\ SortsAlike(Collect(<<>>, f, recs), <<>> \o Matching(f, recs))
      BY <1>3, <2>1, NothingSame, CollectKeeps
  <2>4. <<>> \o Matching(f, recs) = Matching(f, recs)
      BY <2>2
  <2> QED
      BY <2>2, <2>3, <2>4
<1>6. Stored \in SUBSET Recs
  <2>1. ToSet(ring.buf) \in SUBSET Recs
      BY <1>1 DEF LogTypes, ToSet
  <2>2. \A k \in DOMAIN files : files[k] \in Seq(Recs)
      BY <1>1 DEF LogTypes
  <2>3. \A k \in DOMAIN files : ToSet(files[k]) \in SUBSET Recs
      BY <2>2 DEF ToSet
  <2> QED
      BY <2>1, <2>3 DEF Stored
<1>7. LogTypes'
  <2>1. query' \in QueryRecord
    <3>1. {r \in open : Match(f, r)} \in SUBSET Recs /\ f \in [errOnly : BOOLEAN]
        BY <1>4
    <3> HIDE DEF f
    <3> QED
        BY <1>2, <1>5, <3>1 DEF QueryRecord
  <2> QED
      BY <1>1, <1>2, <1>6, <2>1 DEF LogTypes, OpenConns
<1>8. OneRecord'
    BY <1>1, <1>2 DEF OneRecord, Ended, OnFile
<1> HIDE DEF f
<1>9. query'.closed = Matching(f, recs) /\ query'.list = Collect(<<>>, f, recs) /\ query'.f = f
    BY <1>2
<1>10. QueryExact'
  <2>1. CASE persisted
    <3>1. query'.pc = "files" /\ query'.closed = <<>>
        BY <1>2, <1>9, <2>1, NoneMatching DEF recs
    <3>2. \A r \in before' : OnDisk(r)'
      <4> SUFFICES ASSUME NEW r \in before' PROVE OnDisk(r)'
          OBVIOUS
      <4>1. PICK j \in DOMAIN files : r \in ToSet(files[j])
          BY <2>1 DEF Stored
      <4>2. PICK k \in DOMAIN files[j] : files[j][k] = r
          BY <4>1 DEF ToSet
      <4> QED
          BY <1>2, <4>2 DEF OnDisk
    <3> QED
        BY <1>2, <2>1, <3>1, <3>2 DEF QueryExact
  <2>2. CASE ~persisted
    <3>1. query'.pc = "done"
        BY <1>2, <2>2
    <3>2. \A r \in before' : FoundOnce(recs, r)
        BY <1>1, <2>2, RingOnce DEF Stored, recs
    <3>3. \A r \in before' : Match(query'.f, r) => FoundOnce(query'.closed, r)
        BY <1>5, <1>9, <3>2
    <3> QED
        BY <3>1, <3>3 DEF QueryExact
  <2> QED
      BY <2>1, <2>2
<1>11. SortsAlike(query.list, query.closed)'
    BY <1>5, <1>9
<1> QED
    BY <1>7, <1>8, <1>10, <1>11 DEF LogInv

LEMMA QueryReads ==
    ASSUME StreamInv, LogInv, QueryFiles \/ QueryRead \/ QueryAnswer,
           UNCHANGED <<before, conns, pc, logged>>
    PROVE  LogInv'
<1>1. /\ query \in QueryRecord /\ files \in Seq(Seq(Recs)) /\ Len(files) \in Nat
      /\ DOMAIN files = 1..Len(files) /\ \A j \in DOMAIN files : files[j] \in Seq(Recs)
    BY DEF LogInv, LogTypes, QueryRecord
<1>2. UNCHANGED <<ring, persisted, files>>
    BY DEF QueryFiles, QueryRead, QueryAnswer
<1>3. OneRecord'
    BY <1>2 DEF LogInv, OneRecord, Ended, OnFile
<1>4. ASSUME query' \in QueryRecord PROVE LogTypes'
    BY <1>2, <1>4 DEF LogInv, LogTypes, OpenConns, QueryRecord
<1>5. CASE QueryFiles
  <2>1. query.pc = "files" /\ query' = [query EXCEPT !.pc = "read", !.left = Len(files)]
      BY <1>5 DEF QueryFiles
  <2>2. /\ query' \in QueryRecord /\ query'.pc = "read" /\ query'.left = Len(files)
        /\ query'.closed = query.closed /\ query'.list = query.list /\ query'.f = query.f
        /\ query'.rotated = query.rotated
      BY <1>1, <2>1 DEF QueryRecord
  <2>3. /\ query.closed = <<>>
        /\ ~query.rotated => \A r \in before : OnDisk(r)
      BY <2>1 DEF LogInv, QueryExact
  <2>4. \A r \in before : OnDisk(r) => OnDisk(r)'
      BY <1>2 DEF OnDisk
  <2>5. \A r : NotFound(query'.closed, r)
      BY <2>2, <2>3 DEF NotFound
  <2>6. DOMAIN query'.closed = {}
      BY <2>2, <2>3
  <2>7. \A j \in DOMAIN files' : j <= query'.left
      BY <1>1, <1>2, <2>2
  <2>8. \A j \in DOMAIN files' : ~(j > query'.left)
      BY <1>1, <1>2, <2>2
  <2>9. query'.left <= Len(files')
      BY <1>1, <1>2, <2>2
  <2>10. QueryExact'
      BY <1>2, <2>2, <2>3, <2>4, <2>5, <2>6, <2>7, <2>8, <2>9 DEF QueryExact
  <2>11. SortsAlike(query.list, query.closed)'
      BY <2>2 DEF LogInv
  <2> QED
      BY <1>3, <1>4, <2>2, <2>10, <2>11 DEF LogInv
<1>6. CASE QueryAnswer
  <2>1. query' = Idle
      BY <1>6 DEF QueryAnswer
  <2>2. query' \in QueryRecord /\ query'.pc = "idle" /\ query'.list = <<>> /\ query'.closed = <<>>
      BY <2>1 DEF Idle, QueryRecord
  <2>3. QueryExact'
      BY <2>2 DEF QueryExact
  <2>4. SortsAlike(query.list, query.closed)'
      BY <2>2, NothingSame
  <2> QED
      BY <1>3, <1>4, <2>2, <2>3, <2>4 DEF LogInv
<1>7. CASE QueryRead /\ query.left = 0
  <2>1. query.pc = "read" /\ query' = [query EXCEPT !.pc = "done"]
      BY <1>7 DEF QueryRead
  <2>2. /\ query' \in QueryRecord /\ query'.pc = "done"
        /\ query'.closed = query.closed /\ query'.list = query.list /\ query'.f = query.f
        /\ query'.rotated = query.rotated
      BY <1>1, <2>1 DEF QueryRecord
  <2>3. ASSUME ~query'.rotated, NEW r \in before, Match(query.f, r) PROVE FoundOnce(query.closed, r)
    <3>1. /\ \A s \in before : OnDisk(s)
          /\ \A j \in DOMAIN files : \A k \in DOMAIN files[j] :
                j > 0 /\ files[j][k] \in before /\ Match(query.f, files[j][k])
                    => FoundOnce(query.closed, files[j][k])
        BY <1>7, <2>1, <2>2, <2>3 DEF LogInv, QueryExact
    <3>2. PICK j \in DOMAIN files : \E k \in DOMAIN files[j] : files[j][k] = r
        BY <2>3, <3>1 DEF OnDisk
    <3>3. j > 0
        BY <1>1
    <3> QED
        BY <2>3, <3>1, <3>2, <3>3
  <2>4. QueryExact'
      BY <2>2, <2>3 DEF QueryExact
  <2>5. SortsAlike(query.list, query.closed)'
      BY <2>2 DEF LogInv
  <2> QED
      BY <1>3, <1>4, <2>2, <2>4, <2>5 DEF LogInv
<1>8. CASE QueryRead /\ query.left # 0
  <2> DEFINE n == query.left
             recs == files[n]
             m == Matching(query.f, recs)
  <2>1. /\ query.pc = "read"
        /\ query' = [query EXCEPT !.left = n - 1, !.closed = query.closed \o m,
                                  !.list = Collect(query.list, query.f, recs)]
      BY <1>8 DEF QueryRead
  <2>2. n \in Nat /\ n > 0 /\ n <= Len(files) /\ n \in DOMAIN files
    <3>1. n <= Len(files)
        BY <2>1 DEF LogInv, QueryExact
    <3>2. n \in Nat
        BY <1>1 DEF QueryRecord
    <3> QED
        BY <1>1, <1>8, <3>1, <3>2
  <2>3. recs \in Seq(Recs) /\ query.closed \in Seq(Recs) /\ query.list \in Seq(Recs)
      BY <1>1, <2>2 DEF QueryRecord
  <2> HIDE DEF recs
  <2>4. /\ m \in Seq(Recs)
        /\ \A r : NotFound(recs, r) => NotFound(m, r)
        /\ \A r : FoundOnce(recs, r) /\ Match(query.f, r) => FoundOnce(m, r)
      BY <2>3, MatchingKeeps
  <2>5. /\ Collect(query.list, query.f, recs) \in Seq(Recs)
        /\ SortsAlike(Collect(query.list, query.f, recs), query.closed \o m)
      BY <2>3, CollectKeeps DEF LogInv
  <2> HIDE DEF m
  <2>6. query.closed \o m \in Seq(Recs) /\ n - 1 \in Nat
      BY <2>2, <2>3, <2>4
  <2>7. /\ query' \in QueryRecord /\ query'.pc = "read" /\ query'.left = n - 1
        /\ query'.closed = query.closed \o m /\ query'.list = Collect(query.list, query.f, recs)
        /\ query'.f = query.f /\ query'.rotated = query.rotated
      BY <1>1, <2>1, <2>5, <2>6 DEF QueryRecord
  <2>8. n - 1 <= Len(files')
      BY <1>1, <1>2, <2>2
  <2>9. ASSUME ~query.rotated
        PROVE  /\ \A r \in before' : OnDisk(r)'
               /\ \A k \in DOMAIN (query.closed \o m) : OnFile((query.closed \o m)[k].id)
               /\ \A j \in DOMAIN files : \A k \in DOMAIN files[j] :
                     /\ j <= n - 1 => NotFound(query.closed \o m, files[j][k])
                     /\ j > n - 1 /\ files[j][k] \in before /\ Match(query.f, files[j][k])
                           => FoundOnce(query.closed \o m, files[j][k])
    <3>1. /\ \A r \in before : OnDisk(r)
          /\ \A k \in DOMAIN query.closed : OnFile(query.closed[k].id)
          /\ \A j \in DOMAIN files : \A k \in DOMAIN files[j] :
                /\ j <= n => NotFound(query.closed, files[j][k])
                /\ j > n /\ files[j][k] \in before /\ Match(query.f, files[j][k])
                      => FoundOnce(query.closed, files[j][k])
        BY <2>1, <2>9 DEF LogInv, QueryExact
    <3>2. \A r \in before' : OnDisk(r)'
        BY <1>2, <3>1 DEF OnDisk
    <3>3. \A k \in DOMAIN recs : OnFile(recs[k].id) /\ FoundOnce(recs, recs[k])
        BY <2>2 DEF LogInv, OneRecord, FoundOnce, recs
    <3>4. \A k \in DOMAIN m : OnFile(m[k].id)
      <4> SUFFICES ASSUME NEW k \in DOMAIN m PROVE OnFile(m[k].id)
          OBVIOUS
      <4>1. ~NotFound(m, m[k])
          BY DEF NotFound
      <4>2. ~NotFound(recs, m[k])
          BY <2>4, <4>1
      <4> QED
          BY <3>3, <4>2 DEF NotFound
    <3>5. \A k \in DOMAIN (query.closed \o m) : OnFile((query.closed \o m)[k].id)
      <4>1. \A r : NotFound(query.closed, r) /\ NotFound(m, r) => NotFound(query.closed \o m, r)
          BY <2>3, <2>4, Joined
      <4> SUFFICES ASSUME NEW k \in DOMAIN (query.closed \o m) PROVE OnFile((query.closed \o m)[k].id)
          OBVIOUS
      <4>2. ~NotFound(query.closed, (query.closed \o m)[k]) \/ ~NotFound(m, (query.closed \o m)[k])
          BY <4>1 DEF NotFound
      <4> QED
          BY <3>1, <3>4, <4>2 DEF NotFound
    <3>6. ASSUME NEW j \in DOMAIN files, NEW k \in DOMAIN files[j]
          PROVE  /\ j <= n - 1 => NotFound(query.closed \o m, files[j][k])
                 /\ j > n - 1 /\ files[j][k] \in before /\ Match(query.f, files[j][k])
                       => FoundOnce(query.closed \o m, files[j][k])
      <4> DEFINE r == files[j][k]
      <4>1. /\ NotFound(query.closed, r) /\ NotFound(m, r) => NotFound(query.closed \o m, r)
            /\ FoundOnce(query.closed, r) /\ NotFound(m, r) => FoundOnce(query.closed \o m, r)
            /\ NotFound(query.closed, r) /\ FoundOnce(m, r) => FoundOnce(query.closed \o m, r)
          BY <2>3, <2>4, Joined
      <4>2. j # n => NotFound(recs, r)
          BY <2>2 DEF LogInv, OneRecord, NotFound, recs
      <4>3. j = n => FoundOnce(recs, r)
          BY <3>3 DEF recs
      <4>4. j \in Int /\ n \in Int
          BY <1>1, <2>2
      <4>5. /\ j <= n => NotFound(query.closed, r)
            /\ j > n /\ r \in before /\ Match(query.f, r) => FoundOnce(query.closed, r)
          BY <3>1
      <4> HIDE DEF r
      <4>6. CASE j < n
          BY <2>4, <4>1, <4>2, <4>4, <4>5, <4>6 DEF r
      <4>7. CASE j = n
          BY <2>4, <4>1, <4>3, <4>4, <4>5, <4>7 DEF r
      <4>8. CASE j > n
          BY <2>4, <4>1, <4>2, <4>4, <4>5, <4>8 DEF r
      <4> QED
          BY <4>4, <4>6, <4>7, <4>8
    <3> QED
        BY <3>2, <3>5, <3>6
  <2>10. QueryExact'
      BY <1>2, <2>7, <2>8, <2>9 DEF QueryExact, OnFile
  <2>11. SortsAlike(query.list, query.closed)'
      BY <2>5, <2>7
  <2> QED
      BY <1>3, <1>4, <2>7, <2>10, <2>11 DEF LogInv
<1> QED
    BY <1>5, <1>6, <1>7, <1>8

LEMMA LogNext == StreamInv /\ LogInv /\ [Next]_vars => LogInv'
<1> SUFFICES ASSUME StreamInv, LogInv, [Next]_vars PROVE LogInv'
    OBVIOUS
<1>1. /\ pc \in [Ids -> {"none", "opening", "open", "persist", "closing", "failed", "done"}]
      /\ OpenConns \in SUBSET Ids
      /\ \A i \in Ids : nextConnID < i => pc[i] = "none"
      /\ \A i \in Ids : i \in OpenConns <=> pc[i] \in {"opening", "open"}
      /\ nextConnID \in Nat
    BY DEF StreamInv, StatsTypes
<1>2. \A i \in OpenConns : conns[i].opened \in Int
    BY DEF LogInv, LogTypes
\* Steps that leave the log alone.
<1>3. ASSUME UNCHANGED <<logvars, logged, before, conns, pc>> PROVE LogInv'
  <2>1. \A i \in DOMAIN conns' : conns'[i].opened \in Int
      BY <1>2, <1>3 DEF OpenConns
  <2>2. \A i \in Ids : /\ Ended(i) => Ended(i)'
                       /\ OnFile(i) => OnFile(i)'
                       /\ pc'[i] \in {"persist", "failed"} => pc[i] \in {"persist", "failed"}
      BY <1>3 DEF Ended, OnFile
  <2> QED
      BY <1>3, <2>1, <2>2, LogStays
<1>4. CASE UNCHANGED vars
    BY <1>3, <1>4 DEF vars, tables
<1>5. CASE StreamStep
    BY <1>3, <1>5 DEF StreamStep, Subscribe, HttpSnapshot, LocalSnapshot, Read, Unsubscribe,
        BroadcastEvent, Tick, BroadcastSnapshot, CloseCounters, tables
<1>6. CASE Query
  <2>1. CASE /\ \E e \in BOOLEAN :
                   QueryStart([errOnly |-> e], {RecordOf(i, FALSE) : i \in OpenConns})
             /\ before' = Stored
      BY <1>6, <2>1, QueryStarts DEF Query, tables
  <2>2. CASE (QueryFiles \/ QueryRead \/ QueryAnswer) /\ UNCHANGED before
      BY <1>6, <2>2, QueryReads DEF Query, tables
  <2> QED
      BY <1>6, <2>1, <2>2 DEF Query
<1>7. ASSUME NEW d \in Dests, ConnOpenRoute(d) PROVE LogInv'
  <2> DEFINE id == nextConnID + 1
  <2>1. /\ id \in Ids /\ pc[id] = "none" /\ pc' = [pc EXCEPT ![id] = "opening"]
        /\ conns' = [i \in {id} \cup DOMAIN conns |-> IF i = id THEN [dest |-> d, opened |-> id] ELSE conns[i]]
        /\ UNCHANGED <<logvars, logged, before>>
      BY <1>1, <1>7 DEF ConnOpenRoute
  <2>2. id \in Int
      BY <1>1
  <2> HIDE DEF id
  <2>3. \A i \in DOMAIN conns' : conns'[i].opened \in Int
      BY <1>2, <2>1, <2>2 DEF OpenConns
  <2>4. \A i \in Ids : /\ Ended(i) => Ended(i)'
                       /\ OnFile(i) => OnFile(i)'
                       /\ pc'[i] \in {"persist", "failed"} => pc[i] \in {"persist", "failed"}
      BY <1>1, <2>1 DEF Ended, OnFile
  <2> QED
      BY <2>1, <2>3, <2>4, LogStays
<1>8. ASSUME NEW k \in Ids, ConnFailed(k) PROVE LogInv'
  <2> DEFINE id == nextConnID + 1
             rec == [id |-> id, opened |-> k, err |-> TRUE]
  <2>1. /\ id \in Ids /\ pc[id] = "none" /\ pc' = [pc EXCEPT ![id] = "failed"]
        /\ ring' = RingAdd(ring, rec) /\ logged' = Append(logged, rec)
        /\ UNCHANGED <<persisted, files, query, before, conns>>
      BY <1>1, <1>8 DEF ConnFailed
  <2>2. rec \in Recs /\ rec.id = id /\ k \in Int
      BY <2>1 DEF Recs, Ids
  <2> HIDE DEF id, rec
  <2>3. ~Ended(rec.id)
      BY <2>1, <2>2 DEF Ended
  <2>4. \A i \in DOMAIN conns' : conns'[i].opened \in Int
      BY <1>2, <2>1 DEF OpenConns
  <2> QED
      BY <2>1, <2>2, <2>3, <2>4, Logs
<1>9. ASSUME NEW id \in Ids, NEW e \in BOOLEAN, ConnCloseErr(id, e) PROVE LogInv'
  <2> DEFINE rec == RecordOf(id, e)
  <2>1. /\ pc[id] = "open" /\ pc' = [pc EXCEPT ![id] = "persist"]
        /\ ring' = RingAdd(ring, rec) /\ logged' = Append(logged, rec)
        /\ conns' = Restrict(conns, DOMAIN conns \ {id})
        /\ UNCHANGED <<persisted, files, query, before>>
      BY <1>9 DEF ConnCloseErr
  <2>2. rec \in Recs /\ rec.id = id
      BY <1>1, <1>2, <2>1 DEF RecordOf, Recs
  <2>3. \A i \in DOMAIN conns' : conns'[i].opened \in Int
      BY <1>2, <2>1 DEF OpenConns, Restrict
  <2> HIDE DEF rec
  <2>4. ~Ended(rec.id)
      BY <2>1, <2>2 DEF Ended
  <2> QED
      BY <2>1, <2>2, <2>3, <2>4, Logs
<1>10. ASSUME NEW id \in Ids, OpenEvent(id) \/ CloseEvent(id) \/ ConnCloseAgain(id) PROVE LogInv'
  <2>1. /\ \/ pc[id] = "opening" /\ pc' = [pc EXCEPT ![id] = "open"]
           \/ pc[id] \in {"closing", "done"} /\ pc' = [pc EXCEPT ![id] = "done"]
        /\ UNCHANGED <<logvars, logged, before, conns>>
      BY <1>10 DEF OpenEvent, CloseEvent, ConnCloseAgain, SendEvent, tables
  <2>2. \A i \in DOMAIN conns' : conns'[i].opened \in Int
      BY <1>2, <2>1 DEF OpenConns
  <2>3. \A i \in Ids : /\ Ended(i) => Ended(i)'
                       /\ OnFile(i) => OnFile(i)'
                       /\ pc'[i] \in {"persist", "failed"} => pc[i] \in {"persist", "failed"}
      BY <1>1, <2>1 DEF Ended, OnFile
  <2> QED
      BY <2>1, <2>2, <2>3, LogStays
<1> QED
    BY <1>4, <1>5, <1>6, <1>7, <1>8, <1>9, <1>10, PersistsOnce DEF Next, ConnStep

LEMMA LogTells == LogInv => AnswerExact
<1> SUFFICES ASSUME LogInv, query.pc = "done"
             PROVE  /\ Result = SortConns(query.closed)
                    /\ ~query.rotated =>
                         \A r \in before : Match(query.f, r) =>
                             Cardinality({k \in DOMAIN query.closed : query.closed[k] = r}) = 1
    BY DEF AnswerExact
<1>1. query.list \in Seq(Recs) /\ query.closed \in Seq(Recs) /\ <<>> \in Seq(Recs)
    BY DEF LogInv, LogTypes, QueryRecord
<1>2. query.list \o <<>> = query.list /\ query.closed \o <<>> = query.closed
    BY <1>1
<1>3. Result = SortConns(query.closed)
  <2>1. SortConns(query.list \o <<>>) = SortConns(query.closed \o <<>>)
      BY <1>1 DEF LogInv, SortsAlike
  <2> QED
      BY <1>2, <2>1 DEF Result
<1>4. ~query.rotated => \A r \in before : Match(query.f, r) => FoundOnce(query.closed, r)
    BY DEF LogInv, QueryExact
<1> QED
    BY <1>3, <1>4, OnceMeans

\* connlog.go, eachMatching, connList and sortConns, and connlog_disk.go: an
\* answer during which no file was rotated has every matching record that was
\* in the history when the request began, once, and the list that was sorted
\* and cut as it grew is the one that sorting everything would give, for every
\* limit and every length at which it is cut, and any number of connections,
\* records to a file and files.
THEOREM AnswersAreExact == Spec => []AnswerExact
<1>1. Init => StreamInv /\ LogInv
    BY StreamInit, LogStarts
<1>2. StreamInv /\ LogInv /\ [Next]_vars => (StreamInv /\ LogInv)'
    BY StreamNext, LogNext
<1>3. StreamInv /\ LogInv => AnswerExact
    BY LogTells
<1> QED
    BY <1>1, <1>2, <1>3, PTL DEF Spec

(***************************************************************************)
(* The firewall methods.  HostClean is not inductive: that Restore leaves  *)
(* nothing needs what is installed to be this method's own, and that needs *)
(* the cleanup before each Setup to be run to its end whatever an earlier  *)
(* process left, and each jump and route to be added once, for a command   *)
(* removes one.  So the invariant is about the commands that are still to  *)
(* run: what they put there is the method's own, what else is there they   *)
(* remove, and what they add they have removed before.  For pf it says how *)
(* far the script has come and which token is where.                       *)
(*                                                                         *)
(* DefaultMark: the cleanup knows mark 1 and table 100.  ~SilentFaults: a  *)
(* command whose error the code ignores does what it is for.               *)
(***************************************************************************)
\* What a start passes to Setup.
Given == {Arguments(c) : c \in Configs}

\* The subnets of a family are those of the list whose addresses are of it.
OfFam(f, s) == \A a \in s.net : Fam[a] = f
Selected(subnets, f, k) ==
    /\ k \in [0..Len(subnets) -> Seq(SubnetRule)] /\ k[0] = <<>>
    /\ \A n \in 1..Len(subnets) : k[n] = IF OfFam(f, subnets[n]) THEN Append(k[n - 1], subnets[n]) ELSE k[n - 1]

LEMMA SelectedIs ==
    ASSUME NEW subnets \in Seq(SubnetRule), NEW f
    PROVE  \E k : Selected(subnets, f, k) /\ SplitByFamily(subnets, f) = k[Len(subnets)]
<1> DEFINE S == Seq(SubnetRule)
           grow == [n \in 1..Len(subnets) |-> [l \in S |-> IF OfFam(f, subnets[n]) THEN Append(l, subnets[n]) ELSE l]]
           IsK(k) == k = [n \in 0..Len(subnets) |->
                        IF n = 0 THEN <<>>
                        ELSE IF \A a \in subnets[n].net : Fam[a] = f THEN Append(k[n - 1], subnets[n]) ELSE k[n - 1]]
           c == CHOOSE k : IsK(k)
<1>1. Len(subnets) \in Nat /\ <<>> \in S /\ \A n \in 1..Len(subnets) : subnets[n] \in SubnetRule
    OBVIOUS
<1>a. ASSUME NEW l \in S, NEW r \in SubnetRule PROVE Append(l, r) \in S
    OBVIOUS
<1>2. grow \in [1..Len(subnets) -> [S -> S]]
  <2> HIDE DEF S
  <2> QED
      BY <1>1, <1>a
<1>3. PICK g : Growth(Len(subnets), S, <<>>, grow, g)
  <2> HIDE DEF S, grow
  <2> QED
      BY <1>1, <1>2, Grows
<1>4. ASSUME NEW n \in 0..Len(subnets)
      PROVE  g[n] = IF n = 0 THEN <<>>
                    ELSE IF \A a \in subnets[n].net : Fam[a] = f THEN Append(g[n - 1], subnets[n]) ELSE g[n - 1]
  <2>1. n # 0 => n \in 1..Len(subnets) /\ n - 1 \in 0..Len(subnets)
      BY <1>1
  <2>2. n # 0 => g[n - 1] \in S
      BY <1>3, <2>1 DEF Growth
  <2> QED
      BY <1>3, <2>1, <2>2 DEF Growth, OfFam
<1>5. IsK(g)
  <2>1. g = [n \in 0..Len(subnets) |-> g[n]]
      BY <1>3 DEF Growth
  <2> QED
      BY <1>4, <2>1
<1>6. IsK(c)
    BY <1>5
<1>7. SplitByFamily(subnets, f) = c[Len(subnets)]
    BY DEF SplitByFamily
<1> HIDE DEF c
<1>8. c[0] = <<>>
    BY <1>1, <1>6
<1>9. ASSUME NEW n \in 1..Len(subnets)
      PROVE  c[n] = IF OfFam(f, subnets[n]) THEN Append(c[n - 1], subnets[n]) ELSE c[n - 1]
  <2>1. n \in 0..Len(subnets) /\ n # 0
      BY <1>1
  <2> QED
      BY <1>6, <2>1 DEF OfFam
<1>10. \A n \in 0..Len(subnets) : c[n] \in S
  <2> DEFINE Q == {n \in Nat : n <= Len(subnets) => c[n] \in S}
  <2>1. 0 \in Q
      BY <1>1, <1>8
  <2>2. ASSUME NEW n \in Q PROVE n + 1 \in Q
    <3>1. n \in Nat
        OBVIOUS
    <3>2. SUFFICES ASSUME n + 1 <= Len(subnets) PROVE c[n + 1] \in S
        OBVIOUS
    <3>3. c[n] \in S /\ n + 1 \in 1..Len(subnets) /\ (n + 1) - 1 = n
        BY <1>1, <3>1, <3>2
    <3> QED
        BY <1>1, <1>9, <1>a, <3>3
  <2>3. Q = Nat
    <3> HIDE DEF Q
    <3>1. Q \in SUBSET Nat
        BY DEF Q
    <3> QED
        BY <2>1, <2>2, <3>1, NatInduct
  <2> QED
      BY <1>1, <2>3
<1>11. c \in [0..Len(subnets) -> S]
    BY <1>6, <1>10
<1> QED
    BY <1>7, <1>8, <1>9, <1>11 DEF Selected

LEMMA SplitIs ==
    ASSUME NEW subnets \in Seq(SubnetRule), NEW f
    PROVE  /\ SplitByFamily(subnets, f) \in Seq(SubnetRule)
           /\ \A r : (\E i \in 1..Len(SplitByFamily(subnets, f)) : SplitByFamily(subnets, f)[i] = r)
                    <=> (\E i \in 1..Len(subnets) : subnets[i] = r /\ OfFam(f, r))
<1>1. PICK k : Selected(subnets, f, k) /\ SplitByFamily(subnets, f) = k[Len(subnets)]
    BY SelectedIs
<1> DEFINE Has(n) == \A r : (\E i \in 1..Len(k[n]) : k[n][i] = r)
                          <=> (\E i \in 1..n : subnets[i] = r /\ OfFam(f, r))
           Q == {n \in Nat : n <= Len(subnets) => Has(n)}
<1>2. 0 \in Q
  <2>1. Len(k[0]) = 0
      BY <1>1 DEF Selected
  <2> QED
      BY <2>1
<1>3. ASSUME NEW n \in Q PROVE n + 1 \in Q
  <2> DEFINE m == n + 1
  <2>0. n \in Nat /\ (n <= Len(subnets) => Has(n))
    <3> HIDE DEF Has
    <3> QED
        OBVIOUS
  <2>1. SUFFICES ASSUME m <= Len(subnets) PROVE Has(m)
    <3> HIDE DEF Has
    <3> QED
        BY <2>0
  <2>2. m \in 1..Len(subnets) /\ m - 1 = n /\ n \in 0..Len(subnets) /\ Has(n)
    <3> HIDE DEF Has
    <3> QED
        BY <2>0, <2>1
  <2>3. k[n] \in Seq(SubnetRule) /\ k[m] = IF OfFam(f, subnets[m]) THEN Append(k[n], subnets[m]) ELSE k[n]
      BY <1>1, <2>2 DEF Selected
  <2>4. \A i : i \in 1..m <=> i \in 1..n \/ i = m
      BY <2>0
  <2>5. CASE ~OfFam(f, subnets[m])
      BY <2>2, <2>3, <2>4, <2>5
  <2>6. CASE OfFam(f, subnets[m])
    <3> DEFINE l == k[n]
               x == subnets[m]
    <3>1. k[m] = Append(l, x) /\ l \in Seq(SubnetRule)
        BY <2>3, <2>6
    <3> HIDE DEF l, x
    <3>2. /\ Len(k[m]) = Len(l) + 1 /\ Len(l) \in Nat /\ k[m][Len(l) + 1] = x
          /\ \A i \in 1..Len(l) : k[m][i] = l[i]
        BY <3>1
    <3>3. \A i : i \in 1..Len(k[m]) <=> i \in 1..Len(l) \/ i = Len(l) + 1
        BY <3>2
    <3>4. \A r : (\E i \in 1..Len(k[m]) : k[m][i] = r) <=> (\E i \in 1..Len(l) : l[i] = r) \/ r = x
        BY <3>2, <3>3
    <3>5. \A r : (\E i \in 1..m : subnets[i] = r /\ OfFam(f, r))
                <=> (\E i \in 1..n : subnets[i] = r /\ OfFam(f, r)) \/ r = x
        BY <2>4, <2>6 DEF x
    <3> QED
        BY <2>2, <3>4, <3>5 DEF l
  <2> QED
      BY <2>5, <2>6
<1>4. Q = Nat
  <2> HIDE DEF Has
  <2>1. Q \in SUBSET Nat
      OBVIOUS
  <2> HIDE DEF Q
  <2> QED
      BY <1>2, <1>3, <2>1, NatInduct
<1>5. Has(Len(subnets))
  <2>1. Len(subnets) \in Nat /\ Len(subnets) <= Len(subnets)
      OBVIOUS
  <2>2. Len(subnets) \in Q
      BY <1>4, <2>1
  <2> HIDE DEF Has
  <2> QED
      BY <2>1, <2>2
<1>6. k[Len(subnets)] \in Seq(SubnetRule)
    BY <1>1 DEF Selected
<1> QED
    BY <1>1, <1>5, <1>6

LEMMA GivenFine ==
    /\ Given \subseteq Config
    /\ \A c \in Given : c.blockIPv6 => \A i \in 1..Len(c.subnets) : OfFam(4, c.subnets[i])
    /\ \A c \in Given : ~c.blockIPv6 => LinkLocal \subseteq c.excludes
<1> SUFFICES ASSUME NEW c \in Configs, NEW a, a = Arguments(c)
             PROVE  /\ a \in Config
                    /\ a.blockIPv6 => \A i \in 1..Len(a.subnets) : OfFam(4, a.subnets[i])
                    /\ ~a.blockIPv6 => LinkLocal \subseteq a.excludes
    BY DEF Given
<1>1. c \in Config /\ c.subnets \in Seq(SubnetRule)
    BY ConfigsAssumption DEF Config
<1>2. /\ SplitByFamily(c.subnets, 4) \in Seq(SubnetRule)
      /\ \A i \in 1..Len(SplitByFamily(c.subnets, 4)) : OfFam(4, SplitByFamily(c.subnets, 4)[i])
    BY <1>1, SplitIs
<1>3. a.subnets = EffectiveSubnets(c) /\ a.excludes = Excludes(c) /\ a.blockIPv6 = c.blockIPv6
    BY <1>1 DEF Arguments, Config
<1>4. EffectiveSubnets(c) \in Seq(SubnetRule) /\ Excludes(c) \in SUBSET Addr
    BY <1>1, <1>2, CaptureAssumption DEF EffectiveSubnets, Excludes, Config
<1>5. a \in Config
    BY <1>1, <1>4 DEF Arguments, Config
<1> QED
    BY <1>2, <1>3, <1>5 DEF EffectiveSubnets, Excludes

\* The host as a record of the objects it has; what a table, a chain or an
\* anchor holds plays no part.
Policies == {"rule4", "route4", "rule6", "route6"}
HostShape ==
    /\ host = [table |-> host.table, chain |-> host.chain, jumps |-> host.jumps,
               policy |-> host.policy, anchor |-> host.anchor, hooks |-> host.hooks,
               main |-> host.main, tokens |-> host.tokens, file |-> host.file]
    /\ host.chain = [c \in Chains |-> host.chain[c]]
    /\ host.jumps \in [Chains -> {0, 1}] /\ host.policy \subseteq Policies

\* An object is there; a jump or a route is, which must not be added twice.
Objects == Chains \union Policies \union {"table"}
There(o) == \/ o = "table" /\ host.table # Gone
            \/ o \in Chains /\ (host.chain[o] # Gone \/ host.jumps[o] # 0)
            \/ o \in Policies /\ o \in host.policy
Once(o) == IF o \in Chains THEN host.jumps[o] # 0 ELSE o \in host.policy

\* What a command does to objects.
Adds(x) == x.op \in {"jump", "policyAdd"}
Makes(x, o) == \/ x.op = "tableLoad" /\ o = "table"
               \/ x.op \in {"newChain", "jump", "append", "policyAdd"} /\ o = x.obj
Removes(x, o) == \/ x.op = "tableDel" /\ o = "table"
                 \/ x.op \in {"dropChain", "policyDel"} /\ o = x.obj

\* What Restore removes.
Owned(m) == CASE m = "nft" -> {"table"}
              [] m = "iptables" -> {"nat4", "nat6", "block6"}
              [] m = "tproxy-nft" -> Policies \union {"table", "block6"}
              [] OTHER -> Policies \union {"out4", "pre4", "out6", "pre6", "block6"}

\* The commands of the Linux methods.
Undos == {<<>>, <<DelPolicy("rule4")>>, <<DelPolicy("rule6")>>}
LinuxCmd(x) ==
    /\ x.op \in {"tableDel", "tableLoad", "newChain", "jump", "append", "dropChain", "policyAdd", "policyDel"}
    /\ x.op \in {"newChain", "jump", "append", "dropChain"} => x.obj \in Chains
    /\ x.op \in {"policyAdd", "policyDel"} => x.obj \in Policies
    /\ x.checked \in BOOLEAN /\ x.undo \in Undos
    /\ x.op = "policyAdd" => x.checked
    /\ x.op \in {"tableDel", "dropChain", "policyDel"} => ~x.checked

\* A list of Linux commands.
CmdList(s) == s \in Seq({s[i] : i \in DOMAIN s}) /\ \A i \in 1..Len(s) : LinuxCmd(s[i])
\* It puts something only in objects of O, and each jump and route once.
MakesOnly(s, O) == \A i \in 1..Len(s) : \A o \in Objects : Makes(s[i], o) => o \in O
EachOnce(s) == \A i, j \in 1..Len(s) :
                  Adds(s[i]) /\ s[j].op = s[i].op /\ s[j].obj = s[i].obj => j = i

\* A jump or a route is added after what was left of it was removed.
AddedAfter ==
    \A i \in 1..Len(script) : Adds(script[i]) =>
        ~Once(script[i].obj) \/ \E j \in 1..(i - 1) : Removes(script[j], script[i].obj)

ToGo(o) == \E i \in 1..Len(script) : Removes(script[i], o)

LinuxInv ==
    /\ host.anchor = Gone /\ host.tokens = {} /\ host.file = 0 /\ unsaved = {}
    /\ CmdList(script) /\ EachOnce(script) /\ AddedAfter
    /\ phase \in {"starting", "leaving"} => MakesOnly(script, Owned(method))
    /\ phase \notin {"starting", "leaving", "stopping"} => script = <<>>
    /\ phase = "stopping" => MakesOnly(script, {})
    /\ phase = "off" => \A o \in Objects : ~There(o)
    /\ phase = "stopping" => \A o \in Objects : There(o) => ToGo(o)
    /\ phase = "starting" /\ err = "none" =>
         \A o \in Objects : There(o) => o \in Owned(method) \/ ToGo(o)
    /\ phase \in {"up", "leaving", "kept"} => \A o \in Objects : There(o) => o \in Owned(method)

\* The start of pf, and the last n commands of a list.
PfStart(c) == CleanStalePf \o PfSetup(c)
LeftOf(n, s) == script = [i \in 1..n |-> s[Len(s) - n + i]]
PfIs(s, c) ==
    /\ s \in Seq({s[i] : i \in 1..9}) /\ Len(s) = 9
    /\ s[1] = Cmd("flushHooked", "") /\ s[2] = Cmd("releaseStale", "")
    /\ s[3] = [Cmd("enable", "") EXCEPT !.checked = TRUE] /\ s[4] = Cmd("saveToken", "")
    /\ s[5] = Cmd("fixSkip", "") /\ s[6] = Cmd("listHooks", "") /\ s[7] = Cmd("hookRdr", "")
    /\ s[8] = Cmd("hookFilter", "") /\ s[9] = Load("loadAnchor", BuildPfRules(c))
\* The enable tokens while n commands of a start are left.
PfTokens(n) ==
    /\ n >= 8 => host.tokens \subseteq unsaved \union {host.file} /\ token = 0
    /\ n = 7 => host.tokens \subseteq unsaved /\ host.file = 0 /\ token = 0
    /\ n = 6 => host.tokens \subseteq unsaved \union {token} /\ host.file = 0 /\ token = starts
    /\ n <= 5 => host.tokens \subseteq unsaved \union {token} /\ host.file = token

PfInv ==
    /\ host.table = Gone /\ host.chain = Clean.chain /\ host.jumps = Clean.jumps /\ host.policy = {}
    /\ phase \notin {"starting", "leaving", "stopping"} => script = <<>>
    /\ phase = "off" => host.anchor = Gone /\ host.file = 0 /\ host.tokens \subseteq unsaved
    /\ phase \in {"failed", "up", "leaving", "kept", "crashed"} => host.tokens \subseteq unsaved \union {host.file}
    /\ phase \in {"up", "leaving", "kept", "stopping"} =>
         host.tokens \subseteq unsaved \union {token} /\ host.file \in {0, token}
    /\ phase = "starting" => \E n \in 0..9 : LeftOf(n, PfStart(cfg)) /\ PfTokens(n)
    /\ phase = "leaving" => \E n \in 0..1 : LeftOf(n, <<Load("loadAnchor", BuildPfRules(cfg))>>)
    /\ phase = "stopping" => \E n \in 0..2 :
         /\ LeftOf(n, PfRestore)
         /\ n <= 1 => host.anchor = Gone
         /\ n = 0 => host.tokens \subseteq unsaved /\ host.file = 0

FirewallInv ==
    /\ method \in Methods /\ HostShape /\ err \in {"none", "fault"}
    /\ phase \in {"off", "starting", "up", "failed", "leaving", "kept", "stopping", "crashed"}
    /\ phase \in {"starting", "up"} => cfg \in Given
    /\ IF method = "pf" THEN PfInv ELSE LinuxInv

\* A list of Linux commands that puts something only in objects of O, adds
\* jumps and routes of A, each once, and removes at least R.
Part(s, O, A, R) ==
    /\ CmdList(s) /\ MakesOnly(s, O) /\ EachOnce(s)
    /\ \A i \in 1..Len(s) : Adds(s[i]) => s[i].obj \in A
    /\ \A o \in R : \E i \in 1..Len(s) : Removes(s[i], o)

LEMMA Itself ==
    ASSUME NEW s, \E S : s \in Seq(S)
    PROVE  s \in Seq({s[i] : i \in DOMAIN s})
<1> DEFINE T == {s[i] : i \in DOMAIN s}
<1>1. PICK S : s \in Seq(S)
    OBVIOUS
<1>2. Len(s) \in Nat /\ s = [i \in 1..Len(s) |-> s[i]] /\ DOMAIN s = 1..Len(s)
    BY <1>1
<1>3. \A i \in 1..Len(s) : s[i] \in T
    BY <1>2
<1> HIDE DEF T
<1>4. s \in [1..Len(s) -> T]
    BY <1>2, <1>3
<1>5. s \in Seq(T)
    BY <1>2, <1>4
<1> QED
    BY <1>5 DEF T

\* One list after the other, as one list.
LEMMA Lists ==
    ASSUME NEW s, NEW t, \E S : s \in Seq(S), \E T : t \in Seq(T)
    PROVE  /\ \E U : s \o t \in Seq(U)
           /\ Len(s) \in Nat /\ Len(t) \in Nat /\ Len(s \o t) = Len(s) + Len(t)
           /\ \A i \in 1..Len(s) : i \in 1..Len(s \o t) /\ (s \o t)[i] = s[i]
           /\ \A i \in 1..Len(t) : Len(s) + i \in 1..Len(s \o t) /\ (s \o t)[Len(s) + i] = t[i]
           /\ \A i \in 1..Len(s \o t) : i \in 1..Len(s) \/ i - Len(s) \in 1..Len(t)
<1>1. PICK S : s \in Seq(S)
    OBVIOUS
<1>2. PICK T : t \in Seq(T)
    OBVIOUS
<1> DEFINE U == S \union T
<1>3. s \in Seq(U) /\ t \in Seq(U)
    BY <1>1, <1>2
<1> HIDE DEF U
<1>4. /\ s \o t \in Seq(U) /\ Len(s) \in Nat /\ Len(t) \in Nat /\ Len(s \o t) = Len(s) + Len(t)
      /\ \A i \in 1..(Len(s) + Len(t)) : (s \o t)[i] = IF i <= Len(s) THEN s[i] ELSE t[i - Len(s)]
    BY <1>3
<1>5. \A i \in 1..Len(t) : Len(s) + i \in 1..Len(s \o t) /\ (s \o t)[Len(s) + i] = t[i]
  <2> TAKE i \in 1..Len(t)
  <2>1. Len(s) + i \in 1..(Len(s) + Len(t)) /\ ~(Len(s) + i <= Len(s)) /\ (Len(s) + i) - Len(s) = i
      BY <1>4
  <2> QED
      BY <1>4, <2>1
<1>6. \A i \in 1..Len(s) : i \in 1..Len(s \o t) /\ (s \o t)[i] = s[i]
    BY <1>4
<1>7. \A i \in 1..Len(s \o t) : i \in 1..Len(s) \/ i - Len(s) \in 1..Len(t)
    BY <1>4
<1> QED
    BY <1>4, <1>5, <1>6, <1>7

\* Parts that add different jumps and routes.
LEMMA PartsJoin ==
    ASSUME NEW s, NEW t, NEW O, NEW P, NEW A, NEW B, NEW R, NEW Q,
           Part(s, O, A, R), Part(t, P, B, Q), \A o \in A : o \notin B
    PROVE  Part(s \o t, O \union P, A \union B, R \union Q)
<1> DEFINE u == s \o t
<1>0. (\E S : s \in Seq(S)) /\ (\E T : t \in Seq(T))
    BY DEF Part, CmdList
<1>1. /\ \E U : u \in Seq(U)
      /\ Len(s) \in Nat /\ Len(t) \in Nat /\ Len(u) = Len(s) + Len(t)
      /\ \A i \in 1..Len(s) : i \in 1..Len(u) /\ u[i] = s[i]
      /\ \A i \in 1..Len(t) : Len(s) + i \in 1..Len(u) /\ u[Len(s) + i] = t[i]
      /\ \A i \in 1..Len(u) : i \in 1..Len(s) \/ i - Len(s) \in 1..Len(t)
    BY <1>0, Lists
<1> HIDE DEF u
<1>2. \A i \in 1..Len(u) : \/ i \in 1..Len(s) /\ u[i] = s[i]
                           \/ i - Len(s) \in 1..Len(t) /\ u[i] = t[i - Len(s)]
  <2> TAKE i \in 1..Len(u)
  <2>1. CASE i \in 1..Len(s)
      BY <1>1, <2>1
  <2>2. CASE i - Len(s) \in 1..Len(t)
    <3>1. Len(s) + (i - Len(s)) = i
        BY <1>1
    <3> QED
        BY <1>1, <2>2, <3>1
  <2> QED
      BY <1>1, <2>1, <2>2
<1>3. CmdList(u)
  <2>1. u \in Seq({u[i] : i \in DOMAIN u})
      BY <1>1, Itself
  <2>2. \A i \in 1..Len(u) : LinuxCmd(u[i])
      BY <1>2 DEF Part, CmdList
  <2> QED
      BY <2>1, <2>2 DEF CmdList
<1>4. MakesOnly(u, O \union P) /\ \A i \in 1..Len(u) : Adds(u[i]) => u[i].obj \in A \union B
    BY <1>2 DEF Part, MakesOnly
<1>5. ASSUME NEW i \in 1..Len(u), NEW j \in 1..Len(u), Adds(u[i]), u[j].op = u[i].op, u[j].obj = u[i].obj
      PROVE  j = i
  <2>0. Adds(u[j])
      BY <1>5 DEF Adds
  <2>1. CASE i \in 1..Len(s) /\ u[i] = s[i] /\ j \in 1..Len(s) /\ u[j] = s[j]
      BY <1>5, <2>1 DEF Part, EachOnce
  <2>2. CASE i - Len(s) \in 1..Len(t) /\ u[i] = t[i - Len(s)] /\ j - Len(s) \in 1..Len(t) /\ u[j] = t[j - Len(s)]
    <3>1. i - Len(s) = j - Len(s)
        BY <1>5, <2>2 DEF Part, EachOnce
    <3> QED
        BY <1>1, <3>1
  <2>3. CASE i \in 1..Len(s) /\ u[i] = s[i] /\ j - Len(s) \in 1..Len(t) /\ u[j] = t[j - Len(s)]
      BY <1>5, <2>0, <2>3 DEF Part
  <2>4. CASE j \in 1..Len(s) /\ u[j] = s[j] /\ i - Len(s) \in 1..Len(t) /\ u[i] = t[i - Len(s)]
      BY <1>5, <2>0, <2>4 DEF Part
  <2> QED
      BY <1>2, <2>1, <2>2, <2>3, <2>4
<1>6. \A o \in R \union Q : \E i \in 1..Len(u) : Removes(u[i], o)
    BY <1>1 DEF Part
<1> QED
    BY <1>3, <1>4, <1>5, <1>6 DEF Part, EachOnce, u

\* What counts is what a part may do at most and removes at least.
LEMMA PartWider ==
    ASSUME NEW s, NEW O, NEW A, NEW R, Part(s, O, A, R), NEW P, NEW B, NEW Q,
           \A o \in Objects : o \in O => o \in P, \A o \in A : o \in B, \A o \in Q : o \in R
    PROVE  Part(s, P, B, Q)
BY DEF Part, MakesOnly

LEMMA PartsAre ==
    ASSUME NEW s, NEW t, NEW O, NEW P, NEW A, NEW B, NEW R, NEW Q,
           Part(s, O, A, R), Part(t, P, B, Q), \A o \in A : o \notin B,
           NEW V, NEW C, NEW W,
           \A o \in O \union P : o \in V, \A o \in A \union B : o \in C, \A o \in W : o \in R \union Q
    PROVE  Part(s \o t, V, C, W)
<1>1. Part(s \o t, O \union P, A \union B, R \union Q)
    BY PartsJoin
<1> QED
    BY <1>1, PartWider

LEMMA NoPart == Part(<<>>, {}, {}, {})
<1>1. <<>> \in Seq({}) /\ Len(<<>>) = 0
    OBVIOUS
<1> QED
    BY <1>1, Itself DEF Part, CmdList, MakesOnly, EachOnce

LEMMA PartIf ==
    ASSUME NEW b, NEW s, NEW O, NEW A, b => Part(s, O, A, {})
    PROVE  Part(If(b, s), O, A, {})
<1>1. CASE b
    BY <1>1 DEF If
<1>2. CASE ~b
  <2>1. Part(<<>>, O, A, {})
      BY NoPart, PartWider
  <2> QED
      BY <1>2, <2>1 DEF If
<1> QED
    BY <1>1, <1>2

LEMMA PartOne ==
    ASSUME NEW x, LinuxCmd(x), NEW O, NEW A, \A o \in Objects : Makes(x, o) => o \in O,
           Adds(x) => x.obj \in A, NEW R, \A o \in R : Removes(x, o)
    PROVE  Part(<<x>>, O, A, R)
<1>1. <<x>> \in Seq({x}) /\ Len(<<x>>) = 1 /\ <<x>>[1] = x
    OBVIOUS
<1>2. <<x>> \in Seq({<<x>>[i] : i \in DOMAIN <<x>>})
    BY <1>1, Itself
<1> QED
    BY <1>1, <1>2 DEF Part, CmdList, MakesOnly, EachOnce

\* Commands without a jump or a route are a part as they come.
LEMMA PartPlain ==
    ASSUME NEW s, \E S : s \in Seq(S), NEW O, NEW R,
           \A i \in 1..Len(s) : LinuxCmd(s[i]) /\ ~Adds(s[i]) /\ \A o \in Objects : Makes(s[i], o) => o \in O,
           \A o \in R : \E i \in 1..Len(s) : Removes(s[i], o)
    PROVE  Part(s, O, {}, R)
BY Itself DEF Part, CmdList, MakesOnly, EachOnce

LEMMA Drops ==
    ASSUME NEW cs \in Seq(Chains), NEW R, \A o \in R : \E i \in 1..Len(cs) : o = cs[i]
    PROVE  Part(DropChains(cs), {}, {}, R)
<1> DEFINE s == DropChains(cs)
<1>1. /\ s = [i \in 1..Len(cs) |-> Cmd("dropChain", cs[i])]
      /\ Len(cs) \in Nat /\ \A i \in 1..Len(cs) : cs[i] \in Chains
    BY DEF DropChains, Image
<1> DEFINE S == {Cmd("dropChain", cs[i]) : i \in 1..Len(cs)}
<1>2. s \in Seq(S)
  <2>1. \A i \in 1..Len(cs) : Cmd("dropChain", cs[i]) \in S
      OBVIOUS
  <2> HIDE DEF S
  <2>2. s \in [1..Len(cs) -> S]
      BY <1>1, <2>1
  <2> QED
      BY <1>1, <2>2
<1> HIDE DEF S
<1>3. Len(s) = Len(cs)
    BY <1>1, <1>2
<1> HIDE DEF s
<1>4. \A i \in 1..Len(s) : /\ LinuxCmd(s[i]) /\ ~Adds(s[i]) /\ Removes(s[i], cs[i])
                           /\ \A o \in Objects : ~Makes(s[i], o)
    BY <1>1, <1>3 DEF Cmd, LinuxCmd, Undos, Adds, Removes, Makes
<1>5. Part(s, {}, {}, R)
    BY <1>2, <1>3, <1>4, PartPlain
<1> QED
    BY <1>5 DEF s

LEMMA DelPolicies == Part(Image(DelPolicy, <<"rule4", "route4", "rule6", "route6">>), {}, {}, Policies)
<1> DEFINE os == <<"rule4", "route4", "rule6", "route6">>
           s == Image(DelPolicy, os)
<1>1. Len(os) = 4 /\ DOMAIN os = 1..4 /\ os[1] = "rule4" /\ os[2] = "route4" /\ os[3] = "rule6" /\ os[4] = "route6"
    OBVIOUS
<1> HIDE DEF os
<1>2. s = [i \in 1..4 |-> Cmd("policyDel", os[i])]
    BY <1>1 DEF Image, DelPolicy
<1> HIDE DEF s
<1>3. s \in Seq({s[i] : i \in 1..4}) /\ Len(s) = 4
  <2> DEFINE S == {s[i] : i \in 1..4}
  <2>1. \A i \in 1..4 : s[i] \in S
      OBVIOUS
  <2> HIDE DEF S
  <2>2. s \in [1..4 -> S]
      BY <1>2, <2>1
  <2>3. s \in Seq(S) /\ Len(s) = 4
      BY <2>2, <1>2
  <2> QED
      BY <2>3 DEF S
<1>4. \A i \in 1..4 : os[i] \in Policies
    BY <1>1 DEF Policies
<1>5. \A i \in 1..4 : /\ LinuxCmd(s[i]) /\ ~Adds(s[i]) /\ Removes(s[i], os[i])
                      /\ \A o \in Objects : ~Makes(s[i], o)
    BY <1>2, <1>4 DEF Cmd, LinuxCmd, Undos, Adds, Removes, Makes
<1>6. \A o \in Policies : \E i \in 1..4 : o = os[i]
    BY <1>1 DEF Policies
<1>7. Part(s, {}, {}, Policies)
    BY <1>3, <1>5, <1>6, PartPlain
<1> QED
    BY <1>7 DEF s, os

LEMMA Pair == \A x, y : <<x>> \o <<y>> = <<x, y>>
<1>1. ASSUME NEW x, NEW y, NEW a, NEW b, NEW S, a \in Seq(S), b \in Seq(S), Len(a) = 1, Len(b) = 1,
             a[1] = x, b[1] = y
      PROVE  a \o b \in Seq(S) /\ Len(a \o b) = 2 /\ (a \o b)[1] = x /\ (a \o b)[2] = y
  <2>1. \E U : a \in Seq(U)
      BY <1>1
  <2>2. \E U : b \in Seq(U)
      BY <1>1
  <2>3. /\ Len(a \o b) = Len(a) + Len(b)
        /\ \A i \in 1..Len(a) : (a \o b)[i] = a[i]
        /\ \A i \in 1..Len(b) : (a \o b)[Len(a) + i] = b[i]
      BY <2>1, <2>2, Lists
  <2>4. 1 \in 1..1 /\ 1 + 1 = 2
      OBVIOUS
  <2> QED
      BY <1>1, <2>3, <2>4
<1>2. ASSUME NEW x, NEW y, NEW u, NEW v, NEW S, u \in Seq(S), v \in Seq(S), Len(u) = 2, Len(v) = 2,
             u[1] = x, u[2] = y, v[1] = x, v[2] = y
      PROVE  u = v
  <2>1. u = [i \in 1..2 |-> u[i]] /\ v = [i \in 1..2 |-> v[i]]
      BY <1>2
  <2>2. \A i \in 1..2 : u[i] = v[i]
      BY <1>2
  <2> QED
      BY <2>1, <2>2
<1> TAKE x, y
<1>3. /\ <<x>> \in Seq({x, y}) /\ Len(<<x>>) = 1 /\ <<x>>[1] = x
      /\ <<y>> \in Seq({x, y}) /\ Len(<<y>>) = 1 /\ <<y>>[1] = y
      /\ <<x, y>> \in Seq({x, y}) /\ Len(<<x, y>>) = 2 /\ <<x, y>>[1] = x /\ <<x, y>>[2] = y
    OBVIOUS
<1>4. /\ <<x>> \o <<y>> \in Seq({x, y}) /\ Len(<<x>> \o <<y>>) = 2
      /\ (<<x>> \o <<y>>)[1] = x /\ (<<x>> \o <<y>>)[2] = y
    BY <1>1, <1>3
<1> QED
    BY <1>2, <1>3, <1>4

\* The rules appended to a chain, each with its error ignored or checked.
LEMMA AppendsPart ==
    ASSUME NEW ch \in Chains, NEW rules, \E R : rules \in Seq(R)
    PROVE  Part(Appends(ch, rules), {ch}, {}, {}) /\ Part(Must(Appends(ch, rules)), {ch}, {}, {})
<1> DEFINE s == Appends(ch, rules)
           t == Must(s)
<1>1. Len(rules) \in Nat /\ DOMAIN rules = 1..Len(rules)
    OBVIOUS
<1>2. s = [i \in 1..Len(rules) |-> Append1(ch, rules[i])]
    BY <1>1 DEF Appends, Image
<1> HIDE DEF s
<1>3. t = [i \in 1..Len(rules) |-> [Append1(ch, rules[i]) EXCEPT !.checked = TRUE]]
    BY <1>2 DEF Must, Image
<1> HIDE DEF t
<1>4. ASSUME NEW u, u = [i \in 1..Len(rules) |-> u[i]],
             \A i \in 1..Len(rules) : /\ u[i].op = "append" /\ u[i].obj = ch /\ u[i].undo = <<>>
                                      /\ u[i].checked \in BOOLEAN
      PROVE  Part(u, {ch}, {}, {})
  <2> DEFINE S == {u[i] : i \in 1..Len(rules)}
  <2>1. \A i \in 1..Len(rules) : u[i] \in S
      OBVIOUS
  <2> HIDE DEF S
  <2>2. u \in [1..Len(rules) -> S]
      BY <1>4, <2>1
  <2>3. u \in Seq(S) /\ Len(u) = Len(rules)
      BY <1>1, <2>2
  <2>4. \A i \in 1..Len(u) : LinuxCmd(u[i]) /\ ~Adds(u[i]) /\ \A o \in Objects : Makes(u[i], o) => o \in {ch}
      BY <1>4, <2>3 DEF LinuxCmd, Undos, Adds, Makes
  <2> QED
      BY <2>3, <2>4, PartPlain
<1>5. Part(s, {ch}, {}, {})
  <2>1. \A i \in 1..Len(rules) : /\ s[i].op = "append" /\ s[i].obj = ch /\ s[i].undo = <<>>
                                 /\ s[i].checked \in BOOLEAN
      BY <1>2 DEF Append1, Cmd
  <2>2. s = [i \in 1..Len(rules) |-> s[i]]
      BY <1>2
  <2> QED
      BY <1>4, <2>1, <2>2
<1>6. Part(t, {ch}, {}, {})
  <2>1. \A i \in 1..Len(rules) : /\ t[i].op = "append" /\ t[i].obj = ch /\ t[i].undo = <<>>
                                 /\ t[i].checked \in BOOLEAN
      BY <1>3 DEF Append1, Cmd
  <2>2. t = [i \in 1..Len(rules) |-> t[i]]
      BY <1>3
  <2> QED
      BY <1>4, <2>1, <2>2
<1> QED
    BY <1>5, <1>6 DEF s, t

\* The subnets of a family, as rules.
LEMMA SubnetsListed ==
    ASSUME NEW c, c \in Config, NEW f \in {4, 6}, NEW act
    PROVE  \E R : Subnets(c, f, act) \in Seq(R)
<1> DEFINE nets == SplitByFamily(c.subnets, f)
           s == Subnets(c, f, act)
           rule(r) == On(r.net, {"tcp"}, PortExpr(r), Anyone, act)
           R == {rule(nets[i]) : i \in 1..Len(nets)}
<1>1. nets \in Seq(SubnetRule)
    BY SplitIs DEF Config
<1>2. Len(nets) \in Nat /\ DOMAIN nets = 1..Len(nets)
    BY <1>1
<1> HIDE DEF nets
<1>3. s = [i \in 1..Len(nets) |-> rule(nets[i])]
    BY <1>2 DEF Subnets, Image, nets
<1> HIDE DEF s, rule
<1>4. \A i \in 1..Len(nets) : rule(nets[i]) \in R
    OBVIOUS
<1> HIDE DEF R
<1>5. s \in [1..Len(nets) -> R]
    BY <1>3, <1>4
<1>6. s \in Seq(R)
    BY <1>2, <1>5
<1> QED
    BY <1>6 DEF s

LEMMA ChainPart ==
    ASSUME NEW ch \in Chains, NEW head \in {<<>>, LocalHead}, NEW c, c \in Config, NEW f \in {4, 6},
           NEW net, NEW dns
    PROVE  Part(ChainScript(ch, head, c, f, net, dns), {ch}, {ch}, {})
<1> DEFINE a == <<Cmd("newChain", ch), Cmd("jump", ch)>>
           b == Appends(ch, head \o <<Excluded(c, f)>>)
           m == Must(Appends(ch, Subnets(c, f, net)))
           d == If(HasDNS(c, f), Appends(ch, <<DNSServers(c, f, dns)>>))
<1>1. Part(a, {ch}, {ch}, {})
  <2> DEFINE x == Cmd("newChain", ch)
             y == Cmd("jump", ch)
  <2>1. Part(<<x>>, {ch}, {}, {})
    <3>1. LinuxCmd(x) /\ ~Adds(x) /\ \A o \in Objects : Makes(x, o) => o \in {ch}
        BY DEF Cmd, LinuxCmd, Undos, Adds, Makes
    <3> QED
        BY <3>1, PartOne
  <2>2. Part(<<y>>, {ch}, {ch}, {})
    <3>1. LinuxCmd(y) /\ y.obj = ch /\ \A o \in Objects : Makes(y, o) => o \in {ch}
        BY DEF Cmd, LinuxCmd, Undos, Makes
    <3> QED
        BY <3>1, PartOne
  <2>3. Part(<<x>> \o <<y>>, {ch}, {ch}, {})
      BY <2>1, <2>2, PartsAre
  <2> HIDE DEF x, y
  <2>4. Part(<<x, y>>, {ch}, {ch}, {})
      BY <2>3, Pair
  <2> QED
      BY <2>4 DEF x, y
<1>2. Part(b, {ch}, {}, {})
  <2>1. \E R : head \o <<Excluded(c, f)>> \in Seq(R)
    <3> DEFINE R == {LocalReturn, BypassReturn, Excluded(c, f)}
    <3>1. LocalReturn \in R /\ BypassReturn \in R /\ Excluded(c, f) \in R
        OBVIOUS
    <3> HIDE DEF R
    <3>2. <<>> \in Seq(R) /\ <<LocalReturn, BypassReturn>> \in Seq(R) /\ <<Excluded(c, f)>> \in Seq(R)
        BY <3>1
    <3>3. head \in Seq(R)
        BY <3>2 DEF LocalHead
    <3> QED
        BY <3>2, <3>3
  <2> QED
      BY <2>1, AppendsPart
<1>3. Part(m, {ch}, {}, {})
    BY SubnetsListed, AppendsPart
<1>4. Part(d, {ch}, {}, {})
  <2>1. <<DNSServers(c, f, dns)>> \in Seq({DNSServers(c, f, dns)})
      OBVIOUS
  <2>2. Part(Appends(ch, <<DNSServers(c, f, dns)>>), {ch}, {}, {})
      BY <2>1, AppendsPart
  <2> QED
      BY <2>2, PartIf
<1> HIDE DEF a, b, m, d
<1>5. Part(a \o b, {ch}, {ch}, {})
    BY <1>1, <1>2, PartsAre
<1>6. Part((a \o b) \o m, {ch}, {ch}, {})
    BY <1>5, <1>3, PartsAre
<1>7. Part(((a \o b) \o m) \o d, {ch}, {ch}, {})
    BY <1>6, <1>4, PartsAre
<1> QED
    BY <1>7 DEF ChainScript, a, b, m, d

LEMMA BlockPart == \A c : Part(BlockScript(c), {"block6"}, {"block6"}, {})
<1> TAKE c
<1> DEFINE x == Cmd("newChain", "block6")
           a == Appends("block6", BlockIPv6)
           y == Cmd("jump", "block6")
<1>0. "block6" \in Chains
    BY DEF Chains
<1>1. Part(<<x>>, {"block6"}, {}, {})
  <2>1. LinuxCmd(x) /\ ~Adds(x) /\ \A o \in Objects : Makes(x, o) => o \in {"block6"}
      BY <1>0 DEF Cmd, LinuxCmd, Undos, Adds, Makes
  <2> QED
      BY <2>1, PartOne
<1>2. Part(a, {"block6"}, {}, {})
  <2>1. \E R : BlockIPv6 \in Seq(R)
    <3> DEFINE p == Return(LinkLocal, Anyone)
               q == On(OfFamily(Addr, 6), Protos, Ports, Anyone, "reject")
    <3> HIDE DEF p, q
    <3>1. <<p, q>> \in Seq({p, q})
        OBVIOUS
    <3> QED
        BY <3>1 DEF p, q, BlockIPv6
  <2> QED
      BY <1>0, <2>1, AppendsPart
<1>3. Part(<<y>>, {"block6"}, {"block6"}, {})
  <2>1. LinuxCmd(y) /\ y.obj = "block6" /\ \A o \in Objects : Makes(y, o) => o \in {"block6"}
      BY <1>0 DEF Cmd, LinuxCmd, Undos, Makes
  <2> QED
      BY <2>1, PartOne
<1> HIDE DEF x, a, y
<1>4. Part(<<x>> \o a, {"block6"}, {}, {})
    BY <1>1, <1>2, PartsAre
<1>5. Part((<<x>> \o a) \o <<y>>, {"block6"}, {"block6"}, {})
    BY <1>3, <1>4, PartsAre
<1>6. Part(If(c.blockIPv6, (<<x>> \o a) \o <<y>>), {"block6"}, {"block6"}, {})
    BY <1>5, PartIf
<1> QED
    BY <1>6 DEF BlockScript, x, a, y

\* Two routes, the second of which undoes the first when it cannot be added.
LEMMA TwoPolicies ==
    ASSUME NEW o \in Policies, NEW r \in Policies, o # r, <<DelPolicy(o)>> \in Undos
    PROVE  Part(<<AddPolicy(o, <<>>), AddPolicy(r, <<DelPolicy(o)>>)>>, {o, r}, {o, r}, {})
<1> DEFINE x == AddPolicy(o, <<>>)
           y == AddPolicy(r, <<DelPolicy(o)>>)
<1>1. Part(<<x>>, {o}, {o}, {})
  <2>1. LinuxCmd(x) /\ x.obj = o /\ \A k \in Objects : Makes(x, k) => k \in {o}
      BY DEF AddPolicy, Cmd, LinuxCmd, Undos, Makes
  <2> QED
      BY <2>1, PartOne
<1>2. Part(<<y>>, {r}, {r}, {})
  <2>1. LinuxCmd(y) /\ y.obj = r /\ \A k \in Objects : Makes(y, k) => k \in {r}
      BY DEF AddPolicy, Cmd, LinuxCmd, Makes
  <2> QED
      BY <2>1, PartOne
<1> HIDE DEF x, y
<1>3. Part(<<x>> \o <<y>>, {o, r}, {o, r}, {})
    BY <1>1, <1>2, PartsAre
<1>4. Part(<<x, y>>, {o, r}, {o, r}, {})
    BY <1>3, Pair
<1> QED
    BY <1>4 DEF x, y

LEMMA PolicyPart == \A c : Part(PolicyScript(c), Policies, Policies, {})
<1> TAKE c
<1> DEFINE a == <<AddPolicy("rule4", <<>>), AddPolicy("route4", <<DelPolicy("rule4")>>)>>
           b == <<AddPolicy("rule6", <<>>), AddPolicy("route6", <<DelPolicy("rule6")>>)>>
           d == If(SplitByFamily(c.subnets, 6) # <<>>, b)
<1>1. Part(a, {"rule4", "route4"}, {"rule4", "route4"}, {})
    BY TwoPolicies DEF Policies, Undos
<1>2. Part(b, {"rule6", "route6"}, {"rule6", "route6"}, {})
    BY TwoPolicies DEF Policies, Undos
<1>3. Part(d, {"rule6", "route6"}, {"rule6", "route6"}, {})
    BY <1>2, PartIf
<1> HIDE DEF a, d
<1>4. Part(a \o d, Policies, Policies, {})
    BY <1>1, <1>3, PartsAre DEF Policies
<1> QED
    BY <1>4 DEF PolicyScript, a, d

\* Deleting the table and loading it.
LEMMA NftPart ==
    ASSUME NEW rules
    PROVE  Part(<<Cmd("tableDel", ""), Load("tableLoad", rules)>>, {"table"}, {}, {})
<1> DEFINE x == Cmd("tableDel", "")
           y == Load("tableLoad", rules)
<1>1. Part(<<x>>, {"table"}, {}, {})
  <2>1. LinuxCmd(x) /\ ~Adds(x) /\ \A o \in Objects : ~Makes(x, o)
      BY DEF Cmd, LinuxCmd, Undos, Adds, Makes
  <2> QED
      BY <2>1, PartOne
<1>2. Part(<<y>>, {"table"}, {}, {})
  <2>1. LinuxCmd(y) /\ ~Adds(y) /\ \A o \in Objects : Makes(y, o) => o \in {"table"}
      BY DEF Load, Cmd, LinuxCmd, Undos, Adds, Makes
  <2> QED
      BY <2>1, PartOne
<1> HIDE DEF x, y
<1>3. Part(<<x>> \o <<y>>, {"table"}, {}, {})
    BY <1>1, <1>2, PartsAre
<1>4. Part(<<x, y>>, {"table"}, {}, {})
    BY <1>3, Pair
<1> QED
    BY <1>4 DEF x, y

LEMMA TableDelPart == Part(<<Cmd("tableDel", "")>>, {}, {}, {"table"})
<1> DEFINE x == Cmd("tableDel", "")
<1>1. LinuxCmd(x) /\ ~Adds(x) /\ Removes(x, "table") /\ \A o \in Objects : ~Makes(x, o)
    BY DEF Cmd, LinuxCmd, Undos, Adds, Makes, Removes
<1> HIDE DEF x
<1>2. Part(<<x>>, {}, {}, {"table"})
    BY <1>1, PartOne
<1> QED
    BY <1>2 DEF x

\* The chains of a family, one or two of them.
LEMMA ChainsPart ==
    ASSUME NEW ch \in Chains, NEW dh \in Chains, ch # dh, NEW c, c \in Config, NEW f \in {4, 6},
           NEW h \in {<<>>, LocalHead}, NEW k \in {<<>>, LocalHead}, NEW n, NEW d, NEW nn, NEW dd
    PROVE  Part(ChainScript(ch, h, c, f, n, d) \o ChainScript(dh, k, c, f, nn, dd), {ch, dh}, {ch, dh}, {})
<1>1. Part(ChainScript(ch, h, c, f, n, d), {ch}, {ch}, {}) /\ Part(ChainScript(dh, k, c, f, nn, dd), {dh}, {dh}, {})
    BY ChainPart
<1> QED
    BY <1>1, PartsAre

LEMMA IptPart ==
    ASSUME NEW c, c \in Config
    PROVE  Part(IptSetup(c), {"nat4", "nat6", "block6"}, {"nat4", "nat6", "block6"}, {})
<1> DEFINE a == ChainScript("nat4", LocalHead, c, 4, "proxy", "dns")
           b == ChainScript("nat6", LocalHead, c, 6, "proxy", "dns")
           d == If(UsesIPv6(c), b)
           e == BlockScript(c)
<1>1. Part(a, {"nat4"}, {"nat4"}, {}) /\ Part(b, {"nat6"}, {"nat6"}, {})
    BY ChainPart DEF Chains
<1>2. Part(d, {"nat6"}, {"nat6"}, {})
    BY <1>1, PartIf
<1>3. Part(e, {"block6"}, {"block6"}, {})
    BY BlockPart
<1> HIDE DEF a, b, d, e
<1>4. Part(a \o d, {"nat4", "nat6"}, {"nat4", "nat6"}, {})
    BY <1>1, <1>2, PartsAre
<1>5. Part((a \o d) \o e, {"nat4", "nat6", "block6"}, {"nat4", "nat6", "block6"}, {})
    BY <1>3, <1>4, PartsAre
<1> QED
    BY <1>5 DEF IptSetup, a, b, d, e

TproxyChains == {"pre4", "out4", "pre6", "out6", "block6"}

LEMMA TproxyIptPart ==
    ASSUME NEW c, c \in Config
    PROVE  Part(TproxyIpt(c), TproxyChains, TproxyChains, {})
<1> DEFINE a == TproxyIpt4(c)
           d == TproxyIpt6(c)
           e == BlockScript(c)
<1>1. Part(a, {"pre4", "out4"}, {"pre4", "out4"}, {})
    BY ChainsPart DEF Chains, TproxyIpt4
<1>2. Part(d, {"pre6", "out6"}, {"pre6", "out6"}, {})
  <2> DEFINE b == ChainScript("pre6", <<>>, c, 6, "proxy", "dns")
                  \o ChainScript("out6", LocalHead, c, 6, "mark", "mark")
  <2>1. Part(b, {"pre6", "out6"}, {"pre6", "out6"}, {})
      BY ChainsPart DEF Chains
  <2> HIDE DEF b
  <2>2. Part(If(UsesIPv6(c), b), {"pre6", "out6"}, {"pre6", "out6"}, {})
      BY <2>1, PartIf
  <2> QED
      BY <2>2 DEF TproxyIpt6, b
<1>3. Part(e, {"block6"}, {"block6"}, {})
    BY BlockPart
<1> HIDE DEF a, d, e
<1>4. Part(a \o d, {"pre4", "out4", "pre6", "out6"}, {"pre4", "out4", "pre6", "out6"}, {})
    BY <1>1, <1>2, PartsAre
<1>5. Part((a \o d) \o e, TproxyChains, TproxyChains, {})
    BY <1>3, <1>4, PartsAre DEF TproxyChains
<1> QED
    BY <1>5 DEF TproxyIpt, a, d, e

\* Setup puts its own objects there, each jump and route once.
LEMMA SetupPart ==
    ASSUME NEW m \in Methods, m # "pf", NEW c, c \in Config
    PROVE  Part(Setup(m, c), Owned(m), Owned(m), {})
<1>1. CASE m = "nft"
  <2>1. Part(NftSetup(c), {"table"}, {}, {})
      BY NftPart DEF NftSetup
  <2>2. Part(NftSetup(c), {"table"}, {"table"}, {})
      BY <2>1, PartWider
  <2> QED
      BY <1>1, <2>2 DEF Setup, Owned
<1>2. CASE m = "iptables"
    BY <1>2, IptPart DEF Setup, Owned
<1>3. CASE m = "tproxy-nft"
  <2>1. Part(TproxyNft(c), {"table"}, {}, {})
      BY NftPart DEF TproxyNft
  <2>2. Part(PolicyScript(c), Policies, Policies, {})
      BY PolicyPart
  <2>3. Part(PolicyScript(c) \o TproxyNft(c), Policies \union {"table", "block6"},
             Policies \union {"table", "block6"}, {})
      BY <2>1, <2>2, PartsAre
  <2> QED
      BY <1>3, <2>3 DEF Setup, TproxySetup, Owned
<1>4. CASE m = "tproxy-ipt"
  <2>1. Part(TproxyIpt(c), TproxyChains, TproxyChains, {})
      BY TproxyIptPart
  <2>2. Part(PolicyScript(c), Policies, Policies, {})
      BY PolicyPart
  <2>3. \A o \in Policies : o \notin TproxyChains
      BY DEF Policies, TproxyChains
  <2>4. Part(PolicyScript(c) \o TproxyIpt(c), Policies \union TproxyChains, Policies \union TproxyChains, {})
      BY <2>1, <2>2, <2>3, PartsAre
  <2>5. Policies \union TproxyChains = Policies \union {"out4", "pre4", "out6", "pre6", "block6"}
      BY DEF TproxyChains
  <2> QED
      BY <1>4, <2>4, <2>5 DEF Setup, TproxySetup, Owned
<1> QED
    BY <1>1, <1>2, <1>3, <1>4, FirewallAssumption

\* Restore removes all of them.
LEMMA RestorePart ==
    ASSUME NEW m \in Methods, m # "pf"
    PROVE  Part(Restore(m), {}, {}, Owned(m))
<1> DEFINE p == Image(DelPolicy, <<"rule4", "route4", "rule6", "route6">>)
           b == DropChains(<<"block6">>)
           t == DropChains(<<"out4", "pre4", "out6", "pre6">>)
<1>0. Part(b, {}, {}, {"block6"})
  <2> DEFINE cs == <<"block6">>
  <2>1. cs \in Seq(Chains) /\ Len(cs) = 1 /\ cs[1] = "block6"
      BY DEF Chains
  <2> HIDE DEF cs
  <2>2. Part(DropChains(cs), {}, {}, {"block6"})
      BY <2>1, Drops
  <2> QED
      BY <2>2 DEF cs
<1>1. Part(t, {}, {}, {"out4", "pre4", "out6", "pre6"})
  <2> DEFINE cs == <<"out4", "pre4", "out6", "pre6">>
  <2>1. /\ cs \in Seq(Chains) /\ Len(cs) = 4
        /\ cs[1] = "out4" /\ cs[2] = "pre4" /\ cs[3] = "out6" /\ cs[4] = "pre6"
      BY DEF Chains
  <2> HIDE DEF cs
  <2>2. \A o \in {"out4", "pre4", "out6", "pre6"} : \E i \in 1..Len(cs) : o = cs[i]
      BY <2>1
  <2>3. Part(DropChains(cs), {}, {}, {"out4", "pre4", "out6", "pre6"})
      BY <2>1, <2>2, Drops
  <2> QED
      BY <2>3 DEF cs
<1>2. Part(p, {}, {}, Policies)
    BY DelPolicies
<1>3. Part(NftRestore, {}, {}, {"table"})
    BY TableDelPart DEF NftRestore
<1> HIDE DEF p, b, t
<1>4. CASE m = "nft"
    BY <1>3, <1>4 DEF Restore, Owned
<1>5. CASE m = "iptables"
  <2> DEFINE cs == <<"nat4", "nat6", "block6">>
  <2>1. /\ cs \in Seq(Chains) /\ Len(cs) = 3
        /\ cs[1] = "nat4" /\ cs[2] = "nat6" /\ cs[3] = "block6"
      BY DEF Chains
  <2> HIDE DEF cs
  <2>2. \A o \in {"nat4", "nat6", "block6"} : \E i \in 1..Len(cs) : o = cs[i]
      BY <2>1
  <2>3. Part(DropChains(cs), {}, {}, {"nat4", "nat6", "block6"})
      BY <2>1, <2>2, Drops
  <2> QED
      BY <1>5, <2>3 DEF Restore, IptRestore, Owned, cs
<1>6. CASE m = "tproxy-nft"
  <2>1. Part(p \o NftRestore, {}, {}, Policies \union {"table"})
      BY <1>2, <1>3, PartsAre
  <2>2. Part((p \o NftRestore) \o b, {}, {}, Policies \union {"table", "block6"})
      BY <1>0, <2>1, PartsAre
  <2> QED
      BY <1>6, <2>2 DEF Restore, TproxyRestore, Owned, p, b
<1>7. CASE m = "tproxy-ipt"
  <2>1. Part(p \o t, {}, {}, Policies \union {"out4", "pre4", "out6", "pre6"})
      BY <1>1, <1>2, PartsAre
  <2>2. Part((p \o t) \o b, {}, {}, Policies \union {"out4", "pre4", "out6", "pre6", "block6"})
      BY <1>0, <2>1, PartsAre
  <2> QED
      BY <1>7, <2>2 DEF Restore, TproxyRestore, Owned, p, b, t
<1> QED
    BY <1>4, <1>5, <1>6, <1>7, FirewallAssumption

\* CleanStaleAnchors removes everything, whatever the method was.
LEMMA CleanPart ==
    ASSUME DefaultMark
    PROVE  Part(CleanStaleLinux, {}, {}, Objects)
<1> DEFINE a == <<Cmd("tableDel", "")>>
           cs == <<"nat4", "nat6", "block6", "out4", "pre4", "out6", "pre6">>
           d == DropChains(cs)
           p == Image(DelPolicy, <<"rule4", "route4", "rule6", "route6">>)
<1>1. Part(a, {}, {}, {"table"})
    BY TableDelPart
<1>2. Part(p, {}, {}, Policies)
    BY DelPolicies
<1>3. /\ cs \in Seq(Chains) /\ Len(cs) = 7
      /\ cs[1] = "nat4" /\ cs[2] = "nat6" /\ cs[3] = "block6" /\ cs[4] = "out4" /\ cs[5] = "pre4"
      /\ cs[6] = "out6" /\ cs[7] = "pre6"
    BY DEF Chains
<1> HIDE DEF cs, a, p
<1>4. \A o \in Chains : \E i \in 1..Len(cs) : o = cs[i]
    BY <1>3 DEF Chains
<1>5. Part(d, {}, {}, Chains)
    BY <1>3, <1>4, Drops
<1> HIDE DEF d
<1>6. Part(a \o d, {}, {}, {"table"} \union Chains)
    BY <1>1, <1>5, PartsAre
<1>7. Part((a \o d) \o p, {}, {}, Objects)
    BY <1>2, <1>6, PartsAre DEF Objects
<1>8. CleanStaleLinux = (a \o d) \o p
    BY DEF CleanStaleLinux, If, a, d, p, cs
<1> QED
    BY <1>7, <1>8

\* What a command of the Linux methods does to the host.
LEMMA LinuxEffect ==
    ASSUME HostShape, NEW x, LinuxCmd(x), Adds(x) => ~Once(x.obj), host' = Effect(host, x)
    PROVE  /\ HostShape'
           /\ host'.anchor = host.anchor /\ host'.tokens = host.tokens /\ host'.file = host.file
           /\ \A o \in Objects : There(o)' => There(o) \/ Makes(x, o)
           /\ \A o \in Objects : Removes(x, o) => ~There(o)'
           /\ \A o \in Chains \union Policies : Once(o)' => Once(o) \/ (Adds(x) /\ x.obj = o)
<1> DEFINE Others == /\ host'.anchor = host.anchor /\ host'.hooks = host.hooks
                     /\ host'.main = host.main /\ host'.tokens = host.tokens /\ host'.file = host.file
           Shaped == host' = [table |-> host'.table, chain |-> host'.chain, jumps |-> host'.jumps,
                              policy |-> host'.policy, anchor |-> host'.anchor, hooks |-> host'.hooks,
                              main |-> host'.main, tokens |-> host'.tokens, file |-> host'.file]
<1>1. CASE x.op = "tableDel"
  <2>1. host' = [host EXCEPT !.table = Gone]
      BY <1>1 DEF Effect
  <2>2. /\ Others /\ Shaped /\ host'.table = Gone /\ host'.chain = host.chain /\ host'.jumps = host.jumps
        /\ host'.policy = host.policy
      BY <2>1 DEF HostShape
  <2>3. HostShape'
      BY <2>2 DEF HostShape
  <2> QED
      BY <1>1, <2>2, <2>3 DEF There, Once, Makes, Removes, Adds, Chains, Policies
<1>2. CASE x.op = "tableLoad"
  <2> DEFINE v == IF host.table = Gone THEN x.arg ELSE [k \in DOMAIN host.table |-> host.table[k] \o x.arg[k]]
  <2>1. host' = [host EXCEPT !.table = v]
      BY <1>2 DEF Effect
  <2> HIDE DEF v
  <2>2. /\ Others /\ Shaped /\ host'.chain = host.chain /\ host'.jumps = host.jumps
        /\ host'.policy = host.policy
      BY <2>1 DEF HostShape
  <2>3. HostShape'
      BY <2>2 DEF HostShape
  <2> QED
      BY <1>2, <2>2, <2>3 DEF There, Once, Makes, Removes, Adds, Chains, Policies
<1>3. CASE x.op \in {"newChain", "append"}
  <2>0. x.obj \in Chains
      BY <1>3 DEF LinuxCmd
  <2>1. PICK v : /\ host' = [host EXCEPT !.chain[x.obj] = v]
                 /\ x.op = "append" => v = host.chain[x.obj] \/ host.chain[x.obj] # Gone
    <3>1. CASE x.op = "newChain"
        BY <3>1 DEF Effect
    <3>2. CASE x.op = "append"
        BY <3>2 DEF Effect
    <3> QED
        BY <1>3, <3>1, <3>2
  <2>2. /\ Others /\ Shaped /\ host'.table = host.table /\ host'.jumps = host.jumps
        /\ host'.policy = host.policy /\ host'.chain = [host.chain EXCEPT ![x.obj] = v]
      BY <2>1 DEF HostShape
  <2>3. HostShape'
      BY <2>2 DEF HostShape
  <2>4. host'.chain[x.obj] = v /\ \A o \in Chains : o # x.obj => host'.chain[o] = host.chain[o]
      BY <2>0, <2>2 DEF HostShape
  <2>5. \A o \in Objects : There(o)' => There(o) \/ Makes(x, o)
      BY <1>3, <2>0, <2>1, <2>2, <2>4 DEF There, Makes, Chains, Policies
  <2> QED
      BY <1>3, <2>2, <2>3, <2>5 DEF Once, Removes, Adds
<1>4. CASE x.op = "jump"
  <2>0. x.obj \in Chains /\ host.jumps[x.obj] = 0
      BY <1>4 DEF LinuxCmd, Once, Adds
  <2>1. PICK v \in {0, 1} : host' = [host EXCEPT !.jumps[x.obj] = v]
      BY <1>4, <2>0 DEF Effect
  <2>2. /\ Others /\ Shaped /\ host'.table = host.table /\ host'.chain = host.chain
        /\ host'.policy = host.policy /\ host'.jumps = [host.jumps EXCEPT ![x.obj] = v]
      BY <2>1 DEF HostShape
  <2>3. HostShape'
      BY <2>0, <2>2 DEF HostShape
  <2>4. \A o \in Chains : o # x.obj => host'.jumps[o] = host.jumps[o]
      BY <2>0, <2>2 DEF HostShape
  <2>5. \A o \in Objects : There(o)' => There(o) \/ Makes(x, o)
      BY <1>4, <2>0, <2>2, <2>4 DEF There, Makes, Chains, Policies
  <2>6. \A o \in Chains \union Policies : Once(o)' => Once(o) \/ (Adds(x) /\ x.obj = o)
      BY <1>4, <2>0, <2>2, <2>4 DEF Once, Adds
  <2> QED
      BY <1>4, <2>2, <2>3, <2>5, <2>6 DEF Removes
<1>5. CASE x.op = "dropChain"
  <2>0. x.obj \in Chains /\ host.jumps[x.obj] \in {0, 1}
      BY <1>5 DEF LinuxCmd, HostShape
  <2>1. host' = [host EXCEPT !.jumps[x.obj] = 0, !.chain[x.obj] = Gone]
    <3> DEFINE left == IF host.jumps[x.obj] = 0 THEN 0 ELSE host.jumps[x.obj] - 1
    <3>1. left = 0
        BY <2>0
    <3>2. host' = [host EXCEPT !.jumps[x.obj] = left,
                               !.chain[x.obj] = IF left = 0 \/ @ = Gone THEN Gone ELSE <<>>]
        BY <1>5 DEF Effect
    <3> HIDE DEF left
    <3> QED
        BY <3>1, <3>2
  <2>2. /\ Others /\ Shaped /\ host'.table = host.table /\ host'.policy = host.policy
        /\ host'.chain = [host.chain EXCEPT ![x.obj] = Gone]
        /\ host'.jumps = [host.jumps EXCEPT ![x.obj] = 0]
      BY <2>1 DEF HostShape
  <2>3. HostShape'
      BY <2>0, <2>2 DEF HostShape
  <2>4. /\ host'.chain[x.obj] = Gone /\ host'.jumps[x.obj] = 0
        /\ \A o \in Chains : o # x.obj => host'.jumps[o] = host.jumps[o] /\ host'.chain[o] = host.chain[o]
      BY <2>0, <2>2 DEF HostShape
  <2>5. \A o \in Objects : There(o)' => There(o) /\ o # x.obj
      BY <2>0, <2>2, <2>4 DEF There, Chains, Policies
  <2>6. \A o \in Chains \union Policies : Once(o)' => Once(o)
      BY <2>0, <2>2, <2>4 DEF Once
  <2> QED
      BY <1>5, <2>2, <2>3, <2>5, <2>6 DEF Removes
<1>6. CASE x.op \in {"policyAdd", "policyDel"}
  <2>0. x.obj \in Policies
      BY <1>6 DEF LinuxCmd
  <2>1. PICK v : /\ host' = [host EXCEPT !.policy = v]
                 /\ x.op = "policyAdd" => v = host.policy \union {x.obj}
                 /\ x.op = "policyDel" => v = host.policy \ {x.obj}
    <3>1. CASE x.op = "policyAdd"
        BY <3>1 DEF Effect
    <3>2. CASE x.op = "policyDel"
        BY <3>2 DEF Effect
    <3> QED
        BY <1>6, <3>1, <3>2
  <2>2. /\ Others /\ Shaped /\ host'.table = host.table /\ host'.chain = host.chain /\ host'.jumps = host.jumps
        /\ host'.policy = v
      BY <2>1 DEF HostShape
  <2>3. HostShape'
      BY <1>6, <2>0, <2>1, <2>2 DEF HostShape
  <2>4. x.obj \notin Chains /\ x.obj # "table"
      BY <2>0 DEF Policies, Chains
  <2>5. \A o \in Objects : (There(o)' => There(o) \/ Makes(x, o)) /\ (Removes(x, o) => ~There(o)')
      BY <1>6, <2>0, <2>1, <2>2, <2>4 DEF There, Makes, Removes
  <2>6. \A o \in Chains \union Policies : Once(o)' => Once(o) \/ (Adds(x) /\ x.obj = o)
      BY <1>6, <2>0, <2>1, <2>2, <2>4 DEF Once, Adds
  <2> QED
      BY <2>2, <2>3, <2>5, <2>6
<1> QED
    BY <1>1, <1>2, <1>3, <1>4, <1>5, <1>6 DEF LinuxCmd

LEMMA HeadTail ==
    ASSUME NEW s, \E S : s \in Seq(S), s # <<>>
    PROVE  /\ Len(s) \in Nat /\ Len(s) > 0 /\ Head(s) = s[1] /\ \E S : Tail(s) \in Seq(S)
           /\ Len(Tail(s)) = Len(s) - 1
           /\ \A i \in 1..Len(Tail(s)) : Tail(s)[i] = s[i + 1] /\ i + 1 \in 1..Len(s)
<1>1. PICK S : s \in Seq(S)
    OBVIOUS
<1>2. Len(s) \in Nat /\ Len(s) > 0 /\ Head(s) = s[1] /\ Tail(s) \in Seq(S) /\ Len(Tail(s)) = Len(s) - 1
    BY <1>1
<1>3. \A i \in 1..Len(Tail(s)) : Tail(s)[i] = s[i + 1]
    BY <1>1, <1>2
<1> QED
    BY <1>2, <1>3

\* A setup after the removal of all it adds.
LEMMA SetupAfter ==
    ASSUME NEW s, NEW t, NEW O, NEW A, NEW R, Part(s, {}, {}, R), Part(t, O, A, {}), \A o \in A : o \in R
    PROVE  /\ CmdList(s \o t) /\ EachOnce(s \o t) /\ MakesOnly(s \o t, O)
           /\ \A i \in 1..Len(s \o t) : Adds((s \o t)[i]) =>
                  \E j \in 1..(i - 1) : Removes((s \o t)[j], (s \o t)[i].obj)
           /\ \A o \in R : \E i \in 1..Len(s \o t) : Removes((s \o t)[i], o)
<1>1. Part(s \o t, O, A, R)
    BY PartsAre
<1>0. (\E S : s \in Seq(S)) /\ (\E T : t \in Seq(T))
    BY DEF Part, CmdList
<1>2. /\ Len(s) \in Nat /\ \A i \in 1..Len(s) : i \in 1..Len(s \o t) /\ (s \o t)[i] = s[i]
      /\ \A i \in 1..Len(s \o t) : i \in 1..Len(s) \/ i - Len(s) \in 1..Len(t)
    BY <1>0, Lists
<1>3. ASSUME NEW i \in 1..Len(s \o t), Adds((s \o t)[i])
      PROVE  \E j \in 1..(i - 1) : Removes((s \o t)[j], (s \o t)[i].obj)
  <2>1. (s \o t)[i].obj \in R
      BY <1>1, <1>3 DEF Part
  <2>2. PICK j \in 1..Len(s) : Removes(s[j], (s \o t)[i].obj)
      BY <2>1 DEF Part
  <2>3. i \notin 1..Len(s)
      BY <1>2, <1>3 DEF Part
  <2>4. j \in 1..(i - 1)
      BY <1>2, <2>3
  <2> QED
      BY <1>2, <2>2, <2>4
<1> QED
    BY <1>1, <1>3 DEF Part

\* A command of a Linux method succeeds.
LEMMA LinuxRuns ==
    ASSUME FirewallInv, method # "pf", RunCommand
    PROVE  FirewallInv'
<1> DEFINE x == Head(script)
<1>0. LinuxInv /\ HostShape /\ script # <<>> /\ host' = Effect(host, x) /\ script' = Tail(script)
    BY DEF FirewallInv, RunCommand
<1>1. /\ Len(script) \in Nat /\ Len(script) > 0 /\ x = script[1] /\ (\E S : script' \in Seq(S))
      /\ Len(script') = Len(script) - 1
      /\ \A i \in 1..Len(script') : script'[i] = script[i + 1] /\ i + 1 \in 1..Len(script)
  <2>1. \E S : script \in Seq(S)
      BY <1>0 DEF LinuxInv, CmdList
  <2> QED
      BY <1>0, <2>1, HeadTail
<1> HIDE DEF x
<1>2. 1 \in 1..Len(script) /\ LinuxCmd(x) /\ (Adds(x) => ~Once(x.obj))
  <2>1. 1 \in 1..Len(script) /\ 1..(1 - 1) = {}
      BY <1>1
  <2> QED
      BY <1>0, <1>1, <2>1 DEF LinuxInv, CmdList, AddedAfter
<1>3. /\ HostShape'
      /\ host'.anchor = host.anchor /\ host'.tokens = host.tokens /\ host'.file = host.file
      /\ \A o \in Objects : There(o)' => There(o) \/ Makes(x, o)
      /\ \A o \in Objects : Removes(x, o) => ~There(o)'
      /\ \A o \in Chains \union Policies : Once(o)' => Once(o) \/ (Adds(x) /\ x.obj = o)
    BY <1>0, <1>2, LinuxEffect
<1>4. UNCHANGED <<phase, method, cfg, err, unsaved>>
    BY DEF RunCommand
<1>5. CmdList(script)'
  <2>1. script' \in Seq({script'[i] : i \in DOMAIN script'})
      BY <1>1, Itself
  <2>2. \A i \in 1..Len(script') : LinuxCmd(script'[i])
      BY <1>0, <1>1 DEF LinuxInv, CmdList
  <2> QED
      BY <2>1, <2>2 DEF CmdList
<1>6. EachOnce(script)'
  <2> SUFFICES ASSUME NEW i \in 1..Len(script'), NEW j \in 1..Len(script'), Adds(script'[i]),
                      script'[j].op = script'[i].op, script'[j].obj = script'[i].obj
               PROVE  j = i
      BY DEF EachOnce
  <2>1. j + 1 = i + 1
      BY <1>0, <1>1 DEF LinuxInv, EachOnce
  <2> QED
      BY <1>1, <2>1
<1>7. AddedAfter'
  <2> SUFFICES ASSUME NEW i \in 1..Len(script'), Adds(script'[i]), NEW o, o = script'[i].obj, Once(o)'
               PROVE  \E j \in 1..(i - 1) : Removes(script'[j], o)
      BY DEF AddedAfter, Once
  <2> DEFINE y == script[i + 1]
  <2>1. y = script'[i] /\ i + 1 \in 1..Len(script) /\ LinuxCmd(y) /\ Adds(y) /\ y.obj = o
      BY <1>0, <1>1 DEF LinuxInv, CmdList
  <2> HIDE DEF y
  <2>2. o \in Chains \union Policies /\ o \in Objects
      BY <2>1 DEF LinuxCmd, Adds, Objects
  <2>3. ~(Adds(x) /\ x.obj = o)
    <3> SUFFICES ASSUME Adds(x), x.obj = o PROVE FALSE
        OBVIOUS
    <3>1. x.op = y.op
        BY <1>2, <2>1 DEF LinuxCmd, Adds, Chains, Policies
    <3>2. 1 = i + 1
        BY <1>0, <1>1, <1>2, <2>1, <3>1 DEF LinuxInv, EachOnce, y
    <3> QED
        BY <3>2
  <2>4. Once(o)
      BY <1>3, <2>2, <2>3
  <2>5. PICK j \in 1..((i + 1) - 1) : Removes(script[j], o)
      BY <1>0, <2>1, <2>4 DEF LinuxInv, AddedAfter, y
  <2>6. j # 1
    <3>1. Once(o)' => There(o)'
        BY <2>2 DEF Once, There
    <3> QED
        BY <1>1, <1>3, <2>2, <2>5, <3>1
  <2>7. j - 1 \in 1..(i - 1) /\ j - 1 \in 1..Len(script') /\ (j - 1) + 1 = j
      BY <1>1, <2>5, <2>6
  <2>8. script'[j - 1] = script[j]
      BY <1>1, <2>7
  <2> QED
      BY <2>5, <2>7, <2>8
<1>8. \A O : MakesOnly(script, O) => MakesOnly(script', O) /\ \A o \in Objects : Makes(x, o) => o \in O
    BY <1>1, <1>2 DEF MakesOnly
<1>9. ASSUME NEW o \in Objects, ToGo(o), There(o)' PROVE ToGo(o)'
  <2>1. PICK j \in 1..Len(script) : Removes(script[j], o)
      BY <1>9 DEF ToGo
  <2>2. j # 1
      BY <1>1, <1>3, <1>9, <2>1
  <2>3. j - 1 \in 1..Len(script') /\ (j - 1) + 1 = j
      BY <1>1, <2>2
  <2>4. script'[j - 1] = script[j]
      BY <1>1, <2>3
  <2> QED
      BY <2>1, <2>3, <2>4 DEF ToGo
<1>10. phase \in {"starting", "leaving", "stopping"}
    BY <1>0 DEF LinuxInv
<1>11. CASE phase = "starting"
  <2>1. MakesOnly(script', Owned(method)) /\ \A o \in Objects : Makes(x, o) => o \in Owned(method)
      BY <1>0, <1>8, <1>11 DEF LinuxInv
  <2>2. err = "none" => \A o \in Objects : There(o)' => o \in Owned(method) \/ ToGo(o)'
      BY <1>0, <1>3, <1>9, <1>11, <2>1 DEF LinuxInv
  <2>3. LinuxInv'
      BY <1>0, <1>3, <1>4, <1>5, <1>6, <1>7, <1>11, <2>1, <2>2 DEF LinuxInv
  <2> QED
      BY <1>3, <1>4, <2>3 DEF FirewallInv
<1>12. CASE phase = "leaving"
  <2>1. MakesOnly(script', Owned(method)) /\ \A o \in Objects : Makes(x, o) => o \in Owned(method)
      BY <1>0, <1>8, <1>12 DEF LinuxInv
  <2>2. \A o \in Objects : There(o)' => o \in Owned(method)
      BY <1>0, <1>3, <1>12, <2>1 DEF LinuxInv
  <2>3. LinuxInv'
      BY <1>0, <1>3, <1>4, <1>5, <1>6, <1>7, <1>12, <2>1, <2>2 DEF LinuxInv
  <2> QED
      BY <1>3, <1>4, <2>3 DEF FirewallInv
<1>13. CASE phase = "stopping"
  <2>1. MakesOnly(script', {}) /\ \A o \in Objects : ~Makes(x, o)
      BY <1>0, <1>8, <1>13 DEF LinuxInv
  <2>2. \A o \in Objects : There(o)' => ToGo(o)'
      BY <1>0, <1>3, <1>9, <1>13, <2>1 DEF LinuxInv
  <2>3. LinuxInv'
      BY <1>0, <1>3, <1>4, <1>5, <1>6, <1>7, <1>13, <2>1, <2>2 DEF LinuxInv
  <2> QED
      BY <1>3, <1>4, <2>3 DEF FirewallInv
<1> QED
    BY <1>10, <1>11, <1>12, <1>13

\* What undoes a command is a list that removes at most.
LEMMA UndoList ==
    ASSUME NEW s \in Undos
    PROVE  CmdList(s) /\ EachOnce(s) /\ MakesOnly(s, {}) /\ \A i \in 1..Len(s) : ~Adds(s[i])
<1>1. Part(<<>>, {}, {}, {})
    BY NoPart
<1>2. ASSUME NEW o \in Policies PROVE Part(<<DelPolicy(o)>>, {}, {}, {})
  <2> DEFINE x == DelPolicy(o)
  <2>1. LinuxCmd(x) /\ ~Adds(x) /\ \A k \in Objects : ~Makes(x, k)
      BY DEF DelPolicy, Cmd, LinuxCmd, Undos, Adds, Makes
  <2> HIDE DEF x
  <2>2. Part(<<x>>, {}, {}, {})
      BY <2>1, PartOne
  <2> QED
      BY <2>2 DEF x
<1>3. Part(s, {}, {}, {})
    BY <1>1, <1>2 DEF Undos, Policies
<1> QED
    BY <1>3 DEF Part

\* A command fails whose error counts: nothing is in its way, so it is a fault.
LEMMA LinuxFails ==
    ASSUME FirewallInv, method # "pf", ~SilentFaults, CommandFails
    PROVE  FirewallInv'
<1> DEFINE x == Head(script)
<1>0. LinuxInv /\ HostShape /\ script # <<>>
    BY DEF FirewallInv, CommandFails
<1>1. Len(script) \in Nat /\ Len(script) > 0 /\ x = script[1]
  <2>1. \E S : script \in Seq(S)
      BY <1>0 DEF LinuxInv, CmdList
  <2> QED
      BY <1>0, <2>1, HeadTail
<1> HIDE DEF x
<1>2. 1 \in 1..Len(script) /\ LinuxCmd(x) /\ (Adds(x) => ~Once(x.obj))
  <2>1. 1 \in 1..Len(script) /\ 1..(1 - 1) = {}
      BY <1>1
  <2> QED
      BY <1>0, <1>1, <2>1 DEF LinuxInv, CmdList, AddedAfter
<1>3. ~Exists(x)
    BY <1>2 DEF Exists, Adds, Once, LinuxCmd, Chains, Policies
<1>4. /\ x.checked /\ script' = x.undo /\ err' = "fault" /\ host' = host
      /\ UNCHANGED <<phase, method, cfg, unsaved>>
    BY <1>3 DEF CommandFails, x
<1>5. CmdList(script') /\ EachOnce(script') /\ MakesOnly(script', {}) /\ \A i \in 1..Len(script') : ~Adds(script'[i])
  <2>1. script' \in Undos
      BY <1>2, <1>4 DEF LinuxCmd
  <2> QED
      BY <2>1, UndoList
<1>6. AddedAfter'
    BY <1>5 DEF AddedAfter
<1>7. phase \in {"starting", "leaving"}
  <2>1. phase \in {"starting", "leaving", "stopping"}
      BY <1>0 DEF LinuxInv
  <2>2. x.op \notin {"tableDel", "dropChain", "policyDel"}
      BY <1>2, <1>4 DEF LinuxCmd
  <2>3. \E o \in Objects : Makes(x, o)
    <3>1. CASE x.op = "tableLoad"
        BY <3>1 DEF Makes, Objects
    <3>2. CASE x.op \in {"newChain", "jump", "append"}
        BY <1>2, <3>2 DEF Makes, Objects, LinuxCmd
    <3>3. CASE x.op = "policyAdd"
        BY <1>2, <3>3 DEF Makes, Objects, LinuxCmd
    <3> QED
        BY <1>2, <2>2, <3>1, <3>2, <3>3 DEF LinuxCmd
  <2>4. phase # "stopping"
      BY <1>0, <1>1, <1>2, <2>3 DEF LinuxInv, MakesOnly
  <2> QED
      BY <2>1, <2>4
<1>8. MakesOnly(script', Owned(method))
    BY <1>5 DEF MakesOnly
<1>9. phase = "leaving" => \A o \in Objects : There(o)' => o \in Owned(method)
    BY <1>0, <1>4 DEF LinuxInv, There
<1>10. LinuxInv'
    BY <1>0, <1>4, <1>5, <1>6, <1>7, <1>8, <1>9 DEF LinuxInv
<1>11. HostShape'
    BY <1>0, <1>4 DEF HostShape
<1> QED
    BY <1>4, <1>10, <1>11 DEF FirewallInv

\* The script of a Linux method has ended.
LEMMA LinuxFinishes ==
    ASSUME FirewallInv, method # "pf", Finish
    PROVE  FirewallInv'
<1>0. LinuxInv /\ HostShape /\ script = <<>> /\ Len(script) = 0 /\ UNCHANGED <<host, script, method, cfg, err, unsaved>>
    BY DEF FirewallInv, Finish
<1>1. /\ \/ phase = "starting" /\ err = "none" /\ phase' = "up"
         \/ phase = "starting" /\ err # "none" /\ phase' = "failed"
         \/ phase = "leaving" /\ phase' = "kept"
         \/ phase = "stopping" /\ phase' = "off"
    BY DEF FirewallInv, Finish
<1>2. \A o : ~ToGo(o)
    BY <1>0 DEF ToGo
<1>3. HostShape' /\ AddedAfter' /\ CmdList(script)' /\ EachOnce(script)'
    BY <1>0 DEF HostShape, LinuxInv, CmdList, EachOnce, AddedAfter, Once
<1>4. \A o : There(o)' <=> There(o)
    BY <1>0 DEF There
<1>5. LinuxInv'
  <2>1. phase' = "off" => \A o \in Objects : ~There(o)'
      BY <1>0, <1>1, <1>2, <1>4 DEF LinuxInv
  <2>2. phase' \in {"up", "leaving", "kept"} => \A o \in Objects : There(o)' => o \in Owned(method)
      BY <1>0, <1>1, <1>2, <1>4 DEF LinuxInv
  <2> QED
      BY <1>0, <1>1, <1>3, <2>1, <2>2 DEF LinuxInv
<1>6. phase' \in {"starting", "up"} => cfg' \in Given
    BY <1>0, <1>1 DEF FirewallInv
<1> QED
    BY <1>0, <1>1, <1>3, <1>5, <1>6 DEF FirewallInv

\* A start of a Linux method.
LEMMA LinuxStarts ==
    ASSUME FirewallInv, method # "pf", DefaultMark, NEW m \in Methods, NEW c \in Configs, Start(m, c)
    PROVE  FirewallInv'
<1> DEFINE a == Arguments(c)
           s == CleanStaleLinux
           t == Setup(m, a)
<1>0. a \in Given /\ a \in Config
    BY GivenFine DEF Given
<1>1. /\ LinuxInv /\ HostShape /\ m # "pf" /\ host' = host /\ unsaved' = unsaved /\ err' = "none"
      /\ phase' = "starting" /\ method' = m /\ cfg' = a
    BY DEF FirewallInv, Start
<1>2. script' = s \o t
    BY <1>1 DEF Start, CleanStale
<1>3. Part(s, {}, {}, Objects) /\ Part(t, Owned(m), Owned(m), {})
    BY <1>0, <1>1, CleanPart, SetupPart
<1>4. \A o \in Owned(m) : o \in Objects
    BY <1>1, FirewallAssumption DEF Owned, Objects, Chains, Policies
<1> HIDE DEF a, s, t
<1>5. /\ CmdList(script') /\ EachOnce(script') /\ MakesOnly(script', Owned(m))
      /\ \A i \in 1..Len(script') : Adds(script'[i]) => \E j \in 1..(i - 1) : Removes(script'[j], script'[i].obj)
      /\ \A o \in Objects : \E i \in 1..Len(script') : Removes(script'[i], o)
    BY <1>2, <1>3, <1>4, SetupAfter
<1>6. AddedAfter' /\ \A o \in Objects : ToGo(o)'
    BY <1>5 DEF AddedAfter, ToGo
<1>7. LinuxInv'
    BY <1>1, <1>5, <1>6 DEF LinuxInv
<1>8. HostShape'
    BY <1>1 DEF HostShape
<1> QED
    BY <1>0, <1>1, <1>7, <1>8 DEF FirewallInv

\* The exit before a reconnect, with or without the DNS rules taken back.
LEMMA LinuxLeaves ==
    ASSUME FirewallInv, method # "pf", NEW n \in BOOLEAN, ReconnectExit(n)
    PROVE  FirewallInv'
<1>0. /\ LinuxInv /\ HostShape /\ phase = "up" /\ phase' = "leaving" /\ err' = "none"
      /\ UNCHANGED <<host, method, unsaved>> /\ method \in Methods /\ cfg \in Config
    BY GivenFine DEF FirewallInv, ReconnectExit
<1>1. script = <<>>
    BY <1>0 DEF LinuxInv
<1>2. /\ CmdList(script') /\ EachOnce(script') /\ MakesOnly(script', Owned(method))
      /\ \A i \in 1..Len(script') : Adds(script'[i]) => \E j \in 1..(i - 1) : Removes(script'[j], script'[i].obj)
  <2>1. CASE ~n
    <3>1. script' = <<>> /\ Len(<<>>) = 0
        BY <2>1 DEF ReconnectExit
    <3> QED
        BY <3>1, NoPart DEF Part, MakesOnly
  <2>2. CASE n
    <3>1. cfg' \in Config
      <4>1. cfg' = [cfg EXCEPT !.dns = {}]
          BY <1>0, <2>2 DEF ReconnectExit
      <4> QED
          BY <1>0, <4>1 DEF Config
    <3>2. Part(Setup(method, cfg'), Owned(method), Owned(method), {})
        BY <1>0, <3>1, SetupPart
    <3>3. CASE method = "nft"
      <4>1. script' = NftSetup(cfg')
          BY <2>2, <3>3 DEF ReconnectExit, DisableDNS
      <4>2. Part(script', {"table"}, {}, {})
          BY <4>1, NftPart DEF NftSetup
      <4> QED
          BY <3>3, <4>2 DEF Part, Owned
    <3>4. CASE method # "nft"
      <4>1. script' = Restore(method) \o Setup(method, cfg')
          BY <2>2, <3>4 DEF ReconnectExit, DisableDNS
      <4>2. Part(Restore(method), {}, {}, Owned(method))
          BY <1>0, RestorePart
      <4> QED
          BY <3>2, <4>1, <4>2, SetupAfter
    <3> QED
        BY <3>3, <3>4
  <2> QED
      BY <2>1, <2>2
<1>3. AddedAfter'
    BY <1>2 DEF AddedAfter
<1>4. \A o \in Objects : There(o)' => o \in Owned(method)
    BY <1>0 DEF LinuxInv, There
<1>5. LinuxInv'
    BY <1>0, <1>2, <1>3, <1>4 DEF LinuxInv
<1>6. HostShape'
    BY <1>0 DEF HostShape
<1> QED
    BY <1>0, <1>5, <1>6 DEF FirewallInv

LEMMA LinuxStops ==
    ASSUME FirewallInv, method # "pf", FStop
    PROVE  FirewallInv'
<1>0. /\ LinuxInv /\ HostShape /\ phase \in {"up", "kept"} /\ phase' = "stopping" /\ err' = "none"
      /\ UNCHANGED <<host, method, unsaved>> /\ method \in Methods /\ script' = Restore(method)
    BY DEF FirewallInv, FStop
<1>1. Part(script', {}, {}, Owned(method))
    BY <1>0, RestorePart
<1>2. AddedAfter'
    BY <1>1 DEF Part, AddedAfter
<1>3. \A o \in Objects : There(o)' => ToGo(o)'
  <2>1. \A o \in Owned(method) : ToGo(o)'
      BY <1>1 DEF Part, ToGo
  <2> QED
      BY <1>0, <2>1 DEF LinuxInv, There
<1>4. LinuxInv'
    BY <1>0, <1>1, <1>2, <1>3 DEF LinuxInv, Part
<1>5. HostShape'
    BY <1>0 DEF HostShape
<1> QED
    BY <1>0, <1>4, <1>5 DEF FirewallInv

LEMMA LinuxCrashes ==
    ASSUME FirewallInv, method # "pf", FCrash
    PROVE  FirewallInv'
<1>0. /\ LinuxInv /\ HostShape /\ phase' = "crashed" /\ script' = <<>>
      /\ unsaved' = unsaved \union (host.tokens \ {host.file})
      /\ UNCHANGED <<host, method, cfg, err>>
    BY DEF FirewallInv, FCrash
<1>1. unsaved' = {}
    BY <1>0 DEF LinuxInv
<1>2. CmdList(script') /\ EachOnce(script') /\ MakesOnly(script', {}) /\ Len(script') = 0
    BY <1>0, NoPart DEF Part
<1>3. AddedAfter'
    BY <1>2 DEF AddedAfter
<1>4. LinuxInv'
    BY <1>0, <1>1, <1>2, <1>3 DEF LinuxInv
<1>5. HostShape'
    BY <1>0 DEF HostShape
<1> QED
    BY <1>0, <1>4, <1>5 DEF FirewallInv

\* The head and the rest of what is left of a list.
LEMMA LeftTail ==
    ASSUME NEW s, NEW S, s \in Seq(S), NEW n \in 1..Len(s), LeftOf(n, s)
    PROVE  /\ script # <<>> /\ Head(script) = s[(Len(s) - n) + 1]
           /\ Tail(script) = [i \in 1..(n - 1) |-> s[(Len(s) - (n - 1)) + i]]
<1> DEFINE T == {s[i] : i \in 1..Len(s)}
           k == Len(s) - n
<1>1. Len(s) \in Nat /\ n \in Nat /\ n > 0 /\ k \in Nat /\ k + n = Len(s)
    OBVIOUS
<1>2. script = [i \in 1..n |-> s[k + i]]
    BY DEF LeftOf
<1> HIDE DEF k
<1>3. \A i \in 1..n : s[k + i] \in S
    BY <1>1
<1>4. script \in [1..n -> S]
    BY <1>2, <1>3
<1>5. script \in Seq(S) /\ Len(script) = n
    BY <1>1, <1>4
<1>6. script # <<>> /\ Head(script) = s[k + 1]
    BY <1>1, <1>2, <1>5
<1>7. Tail(script) \in Seq(S) /\ Len(Tail(script)) = n - 1
    BY <1>1, <1>5, <1>6
<1>8. Tail(script) = [i \in 1..(n - 1) |-> Tail(script)[i]]
  <2>1. \A t \in Seq(S) : t = [i \in 1..Len(t) |-> t[i]]
      OBVIOUS
  <2> QED
      BY <1>7, <2>1
<1>9. \A i \in 1..(n - 1) : Tail(script)[i] = s[(Len(s) - (n - 1)) + i]
  <2> TAKE i \in 1..(n - 1)
  <2>1. Tail(script)[i] = script[i + 1]
      BY <1>1, <1>5, <1>6
  <2>2. script[i + 1] = s[k + (i + 1)]
      BY <1>1, <1>2
  <2>3. k + (i + 1) = (Len(s) - (n - 1)) + i
      BY <1>1
  <2> QED
      BY <2>1, <2>2, <2>3
<1> QED
    BY <1>6, <1>8, <1>9 DEF k

LEMMA NoneLeft ==
    ASSUME NEW s
    PROVE  LeftOf(0, s) <=> script = <<>>
<1>1. 1..0 = {}
    OBVIOUS
<1> QED
    BY <1>1 DEF LeftOf

\* The commands of pf one by one.
LEMMA PfLists == \A c : PfIs(PfStart(c), c)
<1> TAKE c
<1>1. ASSUME NEW x1, NEW x2, NEW y1, NEW y2, NEW y3, NEW y4, NEW y5, NEW y6, NEW y7, NEW s,
             s = <<x1, x2>> \o <<y1, y2, y3, y4, y5, y6, y7>>
      PROVE  /\ Len(s) = 9 /\ s \in Seq({s[i] : i \in 1..9}) /\ s[1] = x1 /\ s[2] = x2 /\ s[3] = y1
             /\ s[4] = y2 /\ s[5] = y3 /\ s[6] = y4 /\ s[7] = y5 /\ s[8] = y6 /\ s[9] = y7
  <2> DEFINE a == <<x1, x2>>
             b == <<y1, y2, y3, y4, y5, y6, y7>>
  <2>1. a \in Seq({x1, x2}) /\ Len(a) = 2 /\ a[1] = x1 /\ a[2] = x2
      OBVIOUS
  <2>2. /\ b \in Seq({y1, y2, y3, y4, y5, y6, y7}) /\ Len(b) = 7 /\ b[1] = y1 /\ b[2] = y2
        /\ b[3] = y3 /\ b[4] = y4 /\ b[5] = y5 /\ b[6] = y6 /\ b[7] = y7
      OBVIOUS
  <2>0. s = a \o b
      BY <1>1
  <2> HIDE DEF a, b
  <2>3. (\E S : a \in Seq(S)) /\ (\E S : b \in Seq(S))
      BY <2>1, <2>2
  <2>4. /\ \E U : s \in Seq(U)
        /\ Len(s) = Len(a) + Len(b)
        /\ \A i \in 1..Len(a) : s[i] = a[i]
        /\ \A i \in 1..Len(b) : s[Len(a) + i] = b[i]
    <3>1. /\ \E U : a \o b \in Seq(U)
          /\ Len(a \o b) = Len(a) + Len(b)
          /\ \A i \in 1..Len(a) : (a \o b)[i] = a[i]
          /\ \A i \in 1..Len(b) : (a \o b)[Len(a) + i] = b[i]
        BY <2>3, Lists
    <3> QED
        BY <2>0, <3>1
  <2>5. Len(s) = 9
      BY <2>1, <2>2, <2>4
  <2>6. s \in Seq({s[i] : i \in DOMAIN s}) /\ DOMAIN s = 1..9
    <3>1. PICK U : s \in Seq(U)
        BY <2>4
    <3>2. DOMAIN s = 1..Len(s)
        BY <3>1
    <3> QED
        BY <2>5, <3>1, <3>2, Itself
  <2>7. s[1] = x1 /\ s[2] = x2
      BY <2>1, <2>4
  <2>8. /\ s[2 + 1] = y1 /\ s[2 + 2] = y2 /\ s[2 + 3] = y3 /\ s[2 + 4] = y4
        /\ s[2 + 5] = y5 /\ s[2 + 6] = y6 /\ s[2 + 7] = y7
      BY <2>1, <2>2, <2>4
  <2>9. /\ 2 + 1 = 3 /\ 2 + 2 = 4 /\ 2 + 3 = 5 /\ 2 + 4 = 6 /\ 2 + 5 = 7
        /\ 2 + 6 = 8 /\ 2 + 7 = 9
      OBVIOUS
  <2> QED
      BY <2>5, <2>6, <2>7, <2>8, <2>9
<1> DEFINE x1 == Cmd("flushHooked", "")
           x2 == Cmd("releaseStale", "")
           y1 == [Cmd("enable", "") EXCEPT !.checked = TRUE]
           y2 == Cmd("saveToken", "")
           y3 == Cmd("fixSkip", "")
           y4 == Cmd("listHooks", "")
           y5 == Cmd("hookRdr", "")
           y6 == Cmd("hookFilter", "")
           y7 == Load("loadAnchor", BuildPfRules(c))
<1>2. PfStart(c) = <<x1, x2>> \o <<y1, y2, y3, y4, y5, y6, y7>>
    BY DEF PfStart, CleanStalePf, PfSetup
<1> HIDE DEF x1, x2, y1, y2, y3, y4, y5, y6, y7
<1>3. /\ Len(PfStart(c)) = 9 /\ PfStart(c) \in Seq({PfStart(c)[i] : i \in 1..9})
      /\ PfStart(c)[1] = x1 /\ PfStart(c)[2] = x2 /\ PfStart(c)[3] = y1 /\ PfStart(c)[4] = y2
      /\ PfStart(c)[5] = y3 /\ PfStart(c)[6] = y4 /\ PfStart(c)[7] = y5 /\ PfStart(c)[8] = y6
      /\ PfStart(c)[9] = y7
    BY <1>1, <1>2
<1> QED
    BY <1>3 DEF PfIs, x1, x2, y1, y2, y3, y4, y5, y6, y7

\* Their operations; two of them may end the start.
LEMMA PfOps ==
    ASSUME NEW s, NEW c, PfIs(s, c)
    PROVE  /\ s[1].op = "flushHooked" /\ s[2].op = "releaseStale" /\ s[3].op = "enable"
           /\ s[4].op = "saveToken" /\ s[5].op = "fixSkip" /\ s[6].op = "listHooks"
           /\ s[7].op = "hookRdr" /\ s[8].op = "hookFilter" /\ s[9].op = "loadAnchor"
           /\ \A i \in 1..9 : s[i].undo = <<>> /\ (s[i].checked => i \in {3, 9})
<1>0. /\ s[1] = Cmd("flushHooked", "") /\ s[2] = Cmd("releaseStale", "") /\ s[4] = Cmd("saveToken", "")
      /\ s[5] = Cmd("fixSkip", "") /\ s[6] = Cmd("listHooks", "") /\ s[7] = Cmd("hookRdr", "")
      /\ s[8] = Cmd("hookFilter", "")
    BY DEF PfIs
<1>1. \A op : Cmd(op, "").op = op /\ Cmd(op, "").undo = <<>> /\ ~Cmd(op, "").checked
    BY DEF Cmd
<1>2. s[3].op = "enable" /\ s[3].undo = <<>>
    BY DEF PfIs, Cmd
<1>3. s[9].op = "loadAnchor" /\ s[9].undo = <<>>
    BY DEF PfIs, Cmd, Load
<1>4. s[1].op = "flushHooked" /\ s[1].undo = <<>> /\ ~s[1].checked
    BY <1>0, <1>1
<1>5. s[2].op = "releaseStale" /\ s[2].undo = <<>> /\ ~s[2].checked
    BY <1>0, <1>1
<1>6. s[4].op = "saveToken" /\ s[4].undo = <<>> /\ ~s[4].checked
    BY <1>0, <1>1
<1>7. s[5].op = "fixSkip" /\ s[5].undo = <<>> /\ ~s[5].checked
    BY <1>0, <1>1
<1>8. s[6].op = "listHooks" /\ s[6].undo = <<>> /\ ~s[6].checked
    BY <1>0, <1>1
<1>9. s[7].op = "hookRdr" /\ s[7].undo = <<>> /\ ~s[7].checked
    BY <1>0, <1>1
<1>10. s[8].op = "hookFilter" /\ s[8].undo = <<>> /\ ~s[8].checked
    BY <1>0, <1>1
<1>11. \A i \in 1..9 : i \in {1, 2, 3, 4, 5, 6, 7, 8, 9}
    OBVIOUS
<1>12. \A i \in 1..9 : s[i].undo = <<>> /\ (s[i].checked => i \in {3, 9})
    BY <1>2, <1>3, <1>4, <1>5, <1>6, <1>7, <1>8, <1>9, <1>10, <1>11
<1> QED
    BY <1>2, <1>3, <1>4, <1>5, <1>6, <1>7, <1>8, <1>9, <1>10, <1>12

\* What the commands of pf do to the host.
LEMMA PfEffect ==
    ASSUME HostShape, NEW x, host' = Effect(host, x),
           x.op \in {"flushHooked", "releaseStale", "enable", "saveToken", "fixSkip", "listHooks",
                    "hookRdr", "hookFilter", "loadAnchor", "flushAnchor", "releaseOwn"}
    PROVE  /\ HostShape' /\ host'.table = host.table /\ host'.chain = host.chain
           /\ host'.jumps = host.jumps /\ host'.policy = host.policy
           /\ x.op \in {"flushHooked", "fixSkip", "listHooks", "hookRdr", "hookFilter", "loadAnchor",
                       "flushAnchor"} => host'.tokens = host.tokens /\ host'.file = host.file
           /\ x.op \notin {"fixSkip", "hookRdr", "hookFilter"} =>
                host'.hooks = host.hooks /\ host'.main = host.main
           /\ x.op = "fixSkip" => /\ host'.main # "skip"
                                  /\ host'.hooks \in {host.hooks, {}}
           /\ x.op = "hookRdr" =>
                /\ host'.main = host.main
                /\ host'.hooks = IF "rdr" \in listed THEN host.hooks ELSE host.hooks \union {"rdr"}
           /\ x.op = "hookFilter" =>
                /\ host'.main = host.main
                /\ host'.hooks = IF listed # {} THEN host.hooks ELSE host.hooks \union {"filter"}
           /\ x.op = "loadAnchor" => host'.anchor = x.arg
           /\ x.op = "releaseStale" => host'.tokens = host.tokens \ {host.file} /\ host'.file = 0
           /\ x.op = "enable" => host'.tokens = host.tokens \union {starts} /\ host'.file = host.file
           /\ x.op = "saveToken" => host'.tokens = host.tokens /\ host'.file = starts
           /\ x.op = "flushAnchor" => host'.anchor = Gone
           /\ x.op = "releaseOwn" =>
                /\ host'.tokens = host.tokens \ {token} /\ host'.anchor = host.anchor
                /\ host'.file = IF token = 0 THEN host.file ELSE 0
<1> DEFINE Same == /\ host'.table = host.table /\ host'.chain = host.chain
                   /\ host'.jumps = host.jumps /\ host'.policy = host.policy
<1>1. CASE x.op \in {"flushHooked", "loadAnchor", "flushAnchor"}
  <2>1. PICK v : /\ host' = [host EXCEPT !.anchor = v] /\ (x.op = "flushAnchor" => v = Gone)
                 /\ (x.op = "loadAnchor" => v = x.arg)
    <3>1. CASE x.op = "flushHooked"
        BY <3>1 DEF Effect
    <3>2. CASE x.op = "loadAnchor"
        BY <3>2 DEF Effect
    <3>3. CASE x.op = "flushAnchor"
        BY <3>3 DEF Effect
    <3> QED
        BY <1>1, <3>1, <3>2, <3>3
  <2>2. /\ Same /\ host'.tokens = host.tokens /\ host'.file = host.file /\ host'.anchor = v
        /\ host'.hooks = host.hooks /\ host'.main = host.main
      BY <2>1 DEF HostShape
  <2>3. HostShape'
      BY <2>1, <2>2 DEF HostShape
  <2> QED
      BY <1>1, <2>1, <2>2, <2>3
<1>2. CASE x.op \in {"fixSkip", "listHooks", "hookRdr", "hookFilter"}
  <2>1. PICK h, m :
           /\ host' = [host EXCEPT !.hooks = h, !.main = m]
           /\ x.op = "fixSkip" => m # "skip" /\ h \in {host.hooks, {}}
           /\ x.op # "fixSkip" => m = host.main
           /\ x.op = "listHooks" => h = host.hooks
           /\ x.op = "hookRdr" => h = IF "rdr" \in listed THEN host.hooks ELSE host.hooks \union {"rdr"}
           /\ x.op = "hookFilter" => h = IF listed # {} THEN host.hooks ELSE host.hooks \union {"filter"}
    <3>0. host = [host EXCEPT !.hooks = host.hooks, !.main = host.main]
        BY DEF HostShape
    <3>1. CASE x.op = "fixSkip"
      <4>1. CASE host.main = "skip"
        <5>1. host' = [host EXCEPT !.main = "replaced", !.hooks = {}]
            BY <3>1, <4>1 DEF Effect
        <5>2. host' = [host EXCEPT !.hooks = {}, !.main = "replaced"]
            BY <5>1 DEF HostShape
        <5> QED
            BY <3>1, <5>2
      <4>2. CASE host.main # "skip"
        <5>1. host' = host
            BY <3>1, <4>2 DEF Effect
        <5> QED
            BY <3>0, <3>1, <4>2, <5>1
      <4> QED
          BY <4>1, <4>2
    <3>2. CASE x.op = "listHooks"
      <4>1. host' = host
          BY <3>2 DEF Effect
      <4> QED
          BY <3>0, <3>2, <4>1
    <3>3. CASE x.op \in {"hookRdr", "hookFilter"}
      <4>1. PICK h : /\ host' = [host EXCEPT !.hooks = h]
                     /\ x.op = "hookRdr" =>
                          h = IF "rdr" \in listed THEN host.hooks ELSE host.hooks \union {"rdr"}
                     /\ x.op = "hookFilter" =>
                          h = IF listed # {} THEN host.hooks ELSE host.hooks \union {"filter"}
        <5>1. CASE x.op = "hookRdr"
            BY <5>1 DEF Effect
        <5>2. CASE x.op = "hookFilter"
            BY <5>2 DEF Effect
        <5> QED
            BY <3>3, <5>1, <5>2
      <4>2. host' = [host EXCEPT !.hooks = h, !.main = host.main]
          BY <4>1 DEF HostShape
      <4> QED
          BY <3>3, <4>1, <4>2
    <3> QED
        BY <1>2, <3>1, <3>2, <3>3
  <2>2. /\ Same /\ host'.tokens = host.tokens /\ host'.file = host.file
        /\ host'.hooks = h /\ host'.main = m
      BY <2>1 DEF HostShape
  <2>3. HostShape'
      BY <2>1, <2>2 DEF HostShape
  <2> QED
      BY <1>2, <2>1, <2>2, <2>3
<1>3. CASE x.op \in {"releaseStale", "enable", "saveToken", "releaseOwn"}
  <2>1. PICK t, f : /\ host' = [host EXCEPT !.tokens = t, !.file = f]
                    /\ x.op = "releaseStale" => t = host.tokens \ {host.file} /\ f = 0
                    /\ x.op = "enable" => t = host.tokens \union {starts} /\ f = host.file
                    /\ x.op = "saveToken" => t = host.tokens /\ f = starts
                    /\ x.op = "releaseOwn" => t = host.tokens \ {token} /\ f = IF token = 0 THEN host.file ELSE 0
    <3>1. CASE x.op = "releaseStale"
        BY <3>1 DEF Effect
    <3>2. CASE x.op = "enable"
      <4>1. host' = [host EXCEPT !.tokens = host.tokens \union {starts}]
          BY <3>2 DEF Effect
      <4>2. host' = [host EXCEPT !.tokens = host.tokens \union {starts}, !.file = host.file]
          BY <4>1 DEF HostShape
      <4> QED
          BY <3>2, <4>2
    <3>3. CASE x.op = "saveToken"
      <4>1. host' = [host EXCEPT !.file = starts]
          BY <3>3 DEF Effect
      <4>2. host' = [host EXCEPT !.tokens = host.tokens, !.file = starts]
          BY <4>1 DEF HostShape
      <4> QED
          BY <3>3, <4>2
    <3>4. CASE x.op = "releaseOwn"
        BY <3>4 DEF Effect
    <3> QED
        BY <1>3, <3>1, <3>2, <3>3, <3>4
  <2>2. /\ Same /\ host'.tokens = t /\ host'.file = f /\ host'.anchor = host.anchor
        /\ host'.hooks = host.hooks /\ host'.main = host.main
      BY <2>1 DEF HostShape
  <2>3. HostShape'
      BY <2>1, <2>2 DEF HostShape
  <2>4. /\ x.op = "releaseStale" => host'.tokens = host.tokens \ {host.file} /\ host'.file = 0
        /\ x.op = "enable" => host'.tokens = host.tokens \union {starts} /\ host'.file = host.file
        /\ x.op = "saveToken" => host'.tokens = host.tokens /\ host'.file = starts
      BY <2>1, <2>2
  <2>5. x.op = "releaseOwn" =>
          /\ host'.tokens = host.tokens \ {token} /\ host'.anchor = host.anchor
          /\ host'.file = IF token = 0 THEN host.file ELSE 0
      BY <2>1, <2>2
  <2>6. Same
      BY <2>2
  <2> HIDE DEF Same
  <2>7. x.op \notin {"flushHooked", "fixSkip", "listHooks", "hookRdr", "hookFilter", "loadAnchor",
                    "flushAnchor"}
      BY <1>3
  <2>8. /\ host'.table = host.table /\ host'.chain = host.chain
        /\ host'.jumps = host.jumps /\ host'.policy = host.policy
        /\ host'.hooks = host.hooks /\ host'.main = host.main
      BY <2>2, <2>6 DEF Same
  <2> QED
      BY <2>3, <2>4, <2>5, <2>7, <2>8
<1> QED
    BY <1>1, <1>2, <1>3

\* A command of pf succeeds while a start, an exit or a stop is at work.
LEMMA PfStartRuns ==
    ASSUME FirewallInv, method = "pf", phase = "starting", RunCommand
    PROVE  FirewallInv'
<1> DEFINE x == Head(script)
<1>a. PICK s : s = PfStart(cfg)
    OBVIOUS
<1>0. /\ PfInv /\ HostShape /\ script # <<>> /\ host' = Effect(host, x) /\ script' = Tail(script)
      /\ token' = (IF x.op = "enable" THEN starts ELSE token)
      /\ UNCHANGED <<phase, method, cfg, err, starts, unsaved>>
    BY DEF FirewallInv, RunCommand
<1>1. PICK n \in 0..9 : LeftOf(n, s) /\ PfTokens(n)
    BY <1>0, <1>a DEF PfInv
<1> HIDE DEF x
<1>2. n # 0
    BY <1>0, <1>1, NoneLeft
<1>3. PfIs(s, cfg) /\ Len(s) = 9
  <2>1. PfIs(s, cfg)
      BY <1>a, PfLists
  <2> QED
      BY <2>1 DEF PfIs
<1>4. /\ s[1].op = "flushHooked" /\ s[2].op = "releaseStale" /\ s[3].op = "enable"
      /\ s[4].op = "saveToken" /\ s[5].op = "fixSkip" /\ s[6].op = "listHooks"
      /\ s[7].op = "hookRdr" /\ s[8].op = "hookFilter" /\ s[9].op = "loadAnchor"
    BY <1>3, PfOps
<1>5. x = s[(9 - n) + 1] /\ script' = [i \in 1..(n - 1) |-> s[(9 - (n - 1)) + i]]
  <2> PICK S : s \in Seq(S)
      BY <1>3 DEF PfIs
  <2>1. n \in 1..Len(s) /\ LeftOf(n, s)
      BY <1>1, <1>2, <1>3
  <2>2. Head(script) = s[(Len(s) - n) + 1] /\ Tail(script) = [i \in 1..(n - 1) |-> s[(Len(s) - (n - 1)) + i]]
      BY <2>1, LeftTail
  <2> QED
      BY <1>0, <1>3, <2>2 DEF x
<1>6. n - 1 \in 0..9 /\ LeftOf(n - 1, s)'
  <2>1. n - 1 \in 0..9
      BY <1>2
  <2> QED
      BY <1>3, <1>5, <2>1 DEF LeftOf
<1>7. x.op \in {"flushHooked", "releaseStale", "enable", "saveToken", "fixSkip", "listHooks", "hookRdr",
                "hookFilter", "loadAnchor"}
  <2>1. (9 - n) + 1 \in {1, 2, 3, 4, 5, 6, 7, 8, 9}
      BY <1>2
  <2> QED
      BY <1>4, <1>5, <2>1
<1>8. /\ HostShape' /\ host'.table = host.table /\ host'.chain = host.chain
      /\ host'.jumps = host.jumps /\ host'.policy = host.policy
      /\ x.op \in {"flushHooked", "fixSkip", "listHooks", "hookRdr", "hookFilter", "loadAnchor"} =>
           host'.tokens = host.tokens /\ host'.file = host.file
      /\ x.op = "releaseStale" => host'.tokens = host.tokens \ {host.file} /\ host'.file = 0
      /\ x.op = "enable" => host'.tokens = host.tokens \union {starts} /\ host'.file = host.file
      /\ x.op = "saveToken" => host'.tokens = host.tokens /\ host'.file = starts
    BY <1>0, <1>7, PfEffect
<1>9. PfTokens(n - 1)'
  <2>1. CASE n = 9
      BY <1>0, <1>1, <1>4, <1>5, <1>8, <2>1 DEF PfTokens
  <2>2. CASE n = 8
      BY <1>0, <1>1, <1>4, <1>5, <1>8, <2>2 DEF PfTokens
  <2>3. CASE n = 7
      BY <1>0, <1>1, <1>4, <1>5, <1>8, <2>3 DEF PfTokens
  <2>4. CASE n = 6
      BY <1>0, <1>1, <1>4, <1>5, <1>8, <2>4 DEF PfTokens
  <2>5. CASE n \in 1..5
    <3>1. /\ x.op \in {"fixSkip", "listHooks", "hookRdr", "hookFilter", "loadAnchor"}
          /\ n <= 5 /\ n - 1 <= 5 /\ ~(n - 1 >= 8) /\ n - 1 # 7 /\ n - 1 # 6
        BY <1>4, <1>5, <2>5
    <3> QED
        BY <1>0, <1>1, <1>8, <3>1 DEF PfTokens
  <2>6. n \in {6, 7, 8, 9} \/ n \in 1..5
      BY <1>2
  <2> QED
      BY <2>1, <2>2, <2>3, <2>4, <2>5, <2>6
<1>10. PfInv'
  <2>1. \E k \in 0..9 : (LeftOf(k, PfStart(cfg)) /\ PfTokens(k))'
    <3>1. LeftOf(n - 1, PfStart(cfg))'
        BY <1>0, <1>a, <1>6 DEF LeftOf, PfStart, CleanStalePf, PfSetup
    <3> QED
        BY <1>6, <1>9, <3>1
  <2> QED
      BY <1>0, <1>8, <2>1 DEF PfInv
<1> QED
    BY <1>0, <1>8, <1>10 DEF FirewallInv

LEMMA PfLeaveRuns ==
    ASSUME FirewallInv, method = "pf", phase = "leaving", RunCommand
    PROVE  FirewallInv'
<1> DEFINE x == Head(script)
<1>a. PICK y : y = Load("loadAnchor", BuildPfRules(cfg))
    OBVIOUS
<1>b. <<y>> \in Seq({y}) /\ Len(<<y>>) = 1 /\ <<y>>[1] = y /\ y.op = "loadAnchor"
  <2>1. y.op = "loadAnchor"
      BY <1>a DEF Load, Cmd
  <2> QED
      BY <2>1
<1>0. /\ PfInv /\ HostShape /\ script # <<>> /\ host' = Effect(host, x) /\ script' = Tail(script)
      /\ UNCHANGED <<phase, method, cfg, err, starts, unsaved>>
    BY DEF FirewallInv, RunCommand
<1>c. token' = IF x.op = "enable" THEN starts ELSE token
    BY DEF RunCommand
<1>1. PICK n \in 0..1 : LeftOf(n, <<y>>)
    BY <1>0, <1>a DEF PfInv
<1> HIDE DEF x
<1>2. n = 1
  <2>1. n # 0
      BY <1>0, <1>1, NoneLeft
  <2> QED
      BY <2>1
<1>3. x = y /\ script' = [i \in 1..0 |-> <<y>>[1 + i]]
  <2>a. PICK s, S : s = <<y>> /\ S = {y}
      OBVIOUS
  <2>1. s \in Seq(S) /\ Len(s) = 1 /\ s[1] = y /\ n \in 1..Len(s) /\ LeftOf(n, s)
      BY <1>b, <1>1, <1>2, <2>a
  <2>2. Head(script) = s[(Len(s) - n) + 1] /\ Tail(script) = [i \in 1..(n - 1) |-> s[(Len(s) - (n - 1)) + i]]
      BY <2>1, LeftTail
  <2>3. (1 - n) + 1 = 1 /\ n - 1 = 0 /\ 1 - (n - 1) = 1
      BY <1>2
  <2> QED
      BY <1>0, <1>b, <2>1, <2>2, <2>3, <2>a DEF x
<1>4. script' = <<>>
  <2>1. 1..0 = {}
      OBVIOUS
  <2> QED
      BY <1>3, <2>1
<1>5. /\ HostShape' /\ host'.table = host.table /\ host'.chain = host.chain
      /\ host'.jumps = host.jumps /\ host'.policy = host.policy
      /\ host'.tokens = host.tokens /\ host'.file = host.file
    BY <1>0, <1>b, <1>3, PfEffect
<1>6. token' = token
    BY <1>b, <1>c, <1>3
<1>7. \E k \in 0..1 : LeftOf(k, <<Load("loadAnchor", BuildPfRules(cfg))>>)'
  <2>1. LeftOf(0, <<Load("loadAnchor", BuildPfRules(cfg))>>)'
    <3>1. 1..0 = {}
        OBVIOUS
    <3> QED
        BY <1>4, <3>1 DEF LeftOf
  <2> QED
      BY <2>1
<1>8. PfInv'
    BY <1>0, <1>5, <1>6, <1>7 DEF PfInv
<1> QED
    BY <1>0, <1>5, <1>8 DEF FirewallInv

LEMMA PfStopRuns ==
    ASSUME FirewallInv, method = "pf", phase = "stopping", RunCommand
    PROVE  FirewallInv'
<1> DEFINE x == Head(script)
<1>a. PICK s : s = PfRestore
    OBVIOUS
<1>b. /\ Len(s) = 2 /\ (\E S : s \in Seq(S)) /\ s[1].op = "flushAnchor" /\ s[2].op = "releaseOwn"
  <2>1. \A y, z : /\ Len(<<y, z>>) = 2 /\ <<y, z>> \in Seq({y, z}) /\ <<y, z>>[1] = y /\ <<y, z>>[2] = z
      OBVIOUS
  <2>2. \A op : Cmd(op, "").op = op
      BY DEF Cmd
  <2> QED
      BY <1>a, <2>1, <2>2 DEF PfRestore
<1>0. /\ PfInv /\ HostShape /\ script # <<>> /\ host' = Effect(host, x) /\ script' = Tail(script)
      /\ UNCHANGED <<phase, method, cfg, err, starts, unsaved>>
    BY DEF FirewallInv, RunCommand
<1>c. token' = IF x.op = "enable" THEN starts ELSE token
    BY DEF RunCommand
<1>1. PICK n \in 0..2 : LeftOf(n, s) /\ (n <= 1 => host.anchor = Gone)
    BY <1>0, <1>a DEF PfInv
<1> HIDE DEF x
<1>2. n \in 1..2
  <2>1. n # 0
      BY <1>0, <1>1, NoneLeft
  <2> QED
      BY <2>1
<1>3. x = s[(2 - n) + 1] /\ script' = [i \in 1..(n - 1) |-> s[(2 - (n - 1)) + i]]
  <2> PICK S : s \in Seq(S)
      BY <1>b
  <2>1. n \in 1..Len(s) /\ LeftOf(n, s)
      BY <1>b, <1>1, <1>2
  <2>2. Head(script) = s[(Len(s) - n) + 1] /\ Tail(script) = [i \in 1..(n - 1) |-> s[(Len(s) - (n - 1)) + i]]
      BY <2>1, LeftTail
  <2> QED
      BY <1>0, <1>b, <2>2 DEF x
<1>4. LeftOf(n - 1, s)' /\ n - 1 \in 0..2
    BY <1>b, <1>2, <1>3 DEF LeftOf
<1>5. x.op = (IF n = 2 THEN "flushAnchor" ELSE "releaseOwn")
    BY <1>b, <1>2, <1>3
<1>6. /\ HostShape' /\ host'.table = host.table /\ host'.chain = host.chain
      /\ host'.jumps = host.jumps /\ host'.policy = host.policy
      /\ x.op = "flushAnchor" => host'.anchor = Gone /\ host'.tokens = host.tokens /\ host'.file = host.file
      /\ x.op = "releaseOwn" =>
           /\ host'.tokens = host.tokens \ {token} /\ host'.anchor = host.anchor
           /\ host'.file = IF token = 0 THEN host.file ELSE 0
    BY <1>0, <1>5, PfEffect
<1>7. token' = token
    BY <1>c, <1>5
<1>8. host.tokens \subseteq unsaved \union {token} /\ host.file \in {0, token}
    BY <1>0 DEF PfInv
<1>9. /\ host'.tokens \subseteq unsaved \union {token} /\ host'.file \in {0, token}
      /\ n - 1 <= 1 => host'.anchor = Gone
      /\ n - 1 = 0 => host'.tokens \subseteq unsaved /\ host'.file = 0
  <2>1. CASE n = 2
      BY <1>5, <1>6, <1>8, <2>1
  <2>2. CASE n = 1
      BY <1>1, <1>5, <1>6, <1>8, <2>2
  <2> QED
      BY <1>2, <2>1, <2>2
<1>10. \E k \in 0..2 :
         /\ LeftOf(k, PfRestore)'
         /\ k <= 1 => host'.anchor = Gone
         /\ k = 0 => host'.tokens \subseteq unsaved' /\ host'.file = 0
  <2>1. LeftOf(n - 1, PfRestore)'
      BY <1>a, <1>4 DEF LeftOf, PfRestore, Cmd
  <2> QED
      BY <1>0, <1>4, <1>9, <2>1
<1>11. PfInv'
    BY <1>0, <1>6, <1>7, <1>9, <1>10 DEF PfInv
<1> QED
    BY <1>0, <1>6, <1>11 DEF FirewallInv

\* A command of pf fails whose error counts: that ends the script.
LEMMA PfFails ==
    ASSUME FirewallInv, method = "pf", ~SilentFaults, CommandFails
    PROVE  FirewallInv'
<1> DEFINE x == Head(script)
<1>0. /\ PfInv /\ HostShape /\ script # <<>> /\ host' = host
      /\ UNCHANGED <<phase, method, cfg, token, starts, unsaved>>
    BY DEF FirewallInv, CommandFails
<1>1. phase \in {"starting", "leaving", "stopping"}
    BY <1>0 DEF PfInv
<1>a. \A op \in {"flushAnchor", "releaseOwn"} :
          Cmd(op, "").op # "policyAdd" /\ Cmd(op, "").undo = <<>> /\ ~Cmd(op, "").checked
    BY DEF Cmd
<1>b. \A op, v : Load(op, v).op = op /\ Load(op, v).checked /\ Load(op, v).undo = <<>>
    BY DEF Cmd, Load
<1>c. \/ ~Exists(x) /\ ~x.checked /\ SilentFaults
      \/ Exists(x)
      \/ ~Exists(x) /\ x.checked /\ script' = x.undo /\ err' = "fault"
    BY DEF CommandFails
<1> HIDE DEF x
<1>2. CASE phase = "starting"
  <2>a. PICK s : s = PfStart(cfg)
      OBVIOUS
  <2>1. PICK n \in 0..9 : LeftOf(n, s) /\ PfTokens(n)
      BY <1>0, <1>2, <2>a DEF PfInv
  <2>2. n # 0
      BY <1>0, <2>1, NoneLeft
  <2>3. /\ (\E S : s \in Seq(S)) /\ Len(s) = 9
        /\ \A i \in 1..9 : s[i].op # "policyAdd" /\ s[i].undo = <<>> /\ (s[i].checked => i \in {3, 9})
    <3>1. PfIs(s, cfg)
        BY <2>a, PfLists
    <3>2. \A i \in 1..9 : i \in {1, 2, 3, 4, 5, 6, 7, 8, 9}
        OBVIOUS
    <3>3. \A i \in 1..9 : s[i].op # "policyAdd"
        BY <3>1, <3>2, PfOps
    <3>4. \A i \in 1..9 : s[i].undo = <<>> /\ (s[i].checked => i \in {3, 9})
        BY <3>1, PfOps
    <3>5. (\E S : s \in Seq(S)) /\ Len(s) = 9
        BY <3>1 DEF PfIs
    <3> QED
        BY <3>3, <3>4, <3>5
  <2>4. x = s[(9 - n) + 1] /\ (9 - n) + 1 \in 1..9
    <3> PICK S : s \in Seq(S)
        BY <2>3
    <3>1. n \in 1..Len(s) /\ LeftOf(n, s)
        BY <2>1, <2>2, <2>3
    <3>2. Head(script) = s[(Len(s) - n) + 1]
        BY <3>1, LeftTail
    <3> QED
        BY <2>1, <2>2, <2>3, <3>2 DEF x
  <2>5. x.checked /\ script' = <<>> /\ err' = "fault"
      BY <1>c, <2>3, <2>4 DEF Exists
  <2>6. n \in {1, 7}
      BY <2>1, <2>3, <2>4, <2>5
  <2>7. host.tokens \subseteq unsaved \union {token} /\ host.file = token
      BY <2>1, <2>6 DEF PfTokens
  <2>8. LeftOf(0, PfStart(cfg))'
    <3>1. 1..0 = {}
        OBVIOUS
    <3> QED
        BY <2>5, <3>1 DEF LeftOf
  <2>9. PfInv'
    <3>1. PfTokens(0)'
        BY <1>0, <2>7 DEF PfTokens
    <3>2. \E k \in 0..9 : (LeftOf(k, PfStart(cfg)) /\ PfTokens(k))'
        BY <2>8, <3>1
    <3> QED
        BY <1>0, <1>2, <3>2 DEF PfInv
  <2>10. HostShape'
      BY <1>0 DEF HostShape
  <2> QED
      BY <1>0, <2>5, <2>9, <2>10 DEF FirewallInv
<1>3. CASE phase = "leaving"
  <2>a. PICK y : y = Load("loadAnchor", BuildPfRules(cfg))
      OBVIOUS
  <2>1. PICK n \in 0..1 : LeftOf(n, <<y>>)
      BY <1>0, <1>3, <2>a DEF PfInv
  <2>2. n = 1
    <3>1. n # 0
        BY <1>0, <2>1, NoneLeft
    <3> QED
        BY <3>1
  <2>3. x = y
    <3>1. <<y>> \in Seq({y}) /\ Len(<<y>>) = 1 /\ <<y>>[1] = y
        OBVIOUS
    <3>2. 1 \in 1..Len(<<y>>) /\ LeftOf(1, <<y>>)
        BY <2>1, <2>2, <3>1
    <3>3. Head(script) = <<y>>[(Len(<<y>>) - 1) + 1]
        BY <3>1, <3>2, LeftTail
    <3>4. (1 - 1) + 1 = 1
        OBVIOUS
    <3> QED
        BY <3>1, <3>3, <3>4 DEF x
  <2>4. script' = <<>> /\ err' = "fault"
      BY <1>b, <1>c, <2>a, <2>3 DEF Exists
  <2>5. LeftOf(0, <<Load("loadAnchor", BuildPfRules(cfg))>>)'
    <3>1. 1..0 = {}
        OBVIOUS
    <3> QED
        BY <2>4, <3>1 DEF LeftOf
  <2>6. PfInv'
    <3>1. \E k \in 0..1 : LeftOf(k, <<Load("loadAnchor", BuildPfRules(cfg))>>)'
        BY <2>5
    <3> QED
        BY <1>0, <1>3, <3>1 DEF PfInv
  <2>7. HostShape'
      BY <1>0 DEF HostShape
  <2> QED
      BY <1>0, <2>4, <2>6, <2>7 DEF FirewallInv
<1>4. CASE phase = "stopping"
  <2>a. PICK s : s = PfRestore
      OBVIOUS
  <2>1. PICK n \in 0..2 : LeftOf(n, s)
      BY <1>0, <1>4, <2>a DEF PfInv
  <2>2. n \in 1..2
    <3>1. n # 0
        BY <1>0, <2>1, NoneLeft
    <3> QED
        BY <3>1
  <2>3. (\E S : s \in Seq(S)) /\ Len(s) = 2 /\ \A i \in 1..2 : s[i].op # "policyAdd" /\ ~s[i].checked
    <3>1. \A y, z : Len(<<y, z>>) = 2 /\ <<y, z>> \in Seq({y, z}) /\ <<y, z>>[1] = y /\ <<y, z>>[2] = z
        OBVIOUS
    <3>2. \A i \in 1..2 : i = 1 \/ i = 2
        OBVIOUS
    <3>3. (\E S : s \in Seq(S)) /\ Len(s) = 2 /\ s[1] = Cmd("flushAnchor", "") /\ s[2] = Cmd("releaseOwn", "")
        BY <2>a, <3>1 DEF PfRestore
    <3>4. \A i \in 1..2 : s[i] \in {Cmd("flushAnchor", ""), Cmd("releaseOwn", "")}
        BY <3>2, <3>3
    <3> QED
        BY <1>a, <3>3, <3>4
  <2>4. x = s[(2 - n) + 1] /\ (2 - n) + 1 \in 1..2
    <3> PICK S : s \in Seq(S)
        BY <2>3
    <3>1. n \in 1..Len(s) /\ LeftOf(n, s)
        BY <2>1, <2>2, <2>3
    <3>2. Head(script) = s[(Len(s) - n) + 1]
        BY <3>1, LeftTail
    <3> QED
        BY <2>2, <2>3, <3>2 DEF x
  <2> QED
      BY <1>c, <2>3, <2>4 DEF Exists
<1> QED
    BY <1>1, <1>2, <1>3, <1>4

LEMMA PfLength == \A c : (\E S : PfStart(c) \in Seq(S)) /\ Len(PfStart(c)) = 9
    BY PfLists DEF PfIs

LEMMA PfFinishes ==
    ASSUME FirewallInv, method = "pf", Finish
    PROVE  FirewallInv'
<1>0. PfInv /\ HostShape /\ script = <<>> /\ UNCHANGED <<host, script, method, cfg, token, err, starts, unsaved>>
    BY DEF FirewallInv, Finish
<1>1. \/ phase = "starting" /\ err = "none" /\ phase' = "up"
      \/ phase = "starting" /\ err # "none" /\ phase' = "failed"
      \/ phase = "leaving" /\ phase' = "kept"
      \/ phase = "stopping" /\ phase' = "off"
    BY DEF FirewallInv, Finish
<1>2. ASSUME NEW s, NEW S, s \in Seq(S), NEW n \in 0..Len(s), LeftOf(n, s) PROVE n = 0
  <2>1. n # 0 => n \in 1..Len(s)
      BY <1>2
  <2> QED
      BY <1>0, <1>2, <2>1, LeftTail
<1>3. CASE phase = "starting"
  <2>a. PICK s : s = PfStart(cfg)
      OBVIOUS
  <2>1. PICK n \in 0..9 : LeftOf(n, s) /\ PfTokens(n)
      BY <1>0, <1>3, <2>a DEF PfInv
  <2>2. (\E S : s \in Seq(S)) /\ Len(s) = 9
      BY <2>a, PfLength
  <2>3. n = 0
    <3> PICK S : s \in Seq(S)
        BY <2>2
    <3>1. n \in 0..Len(s) /\ LeftOf(n, s)
        BY <2>1, <2>2
    <3> QED
        BY <1>2, <3>1
  <2>4. host.tokens \subseteq unsaved \union {token} /\ host.file = token
      BY <2>1, <2>3 DEF PfTokens
  <2> QED
      BY <1>0, <1>1, <1>3, <2>4 DEF FirewallInv, PfInv, HostShape
<1>4. CASE phase = "leaving"
    BY <1>0, <1>1, <1>4 DEF FirewallInv, PfInv, HostShape
<1>5. CASE phase = "stopping"
  <2>a. PICK s : s = PfRestore
      OBVIOUS
  <2>1. PICK n \in 0..2 :
           /\ LeftOf(n, s)
           /\ n <= 1 => host.anchor = Gone
           /\ n = 0 => host.tokens \subseteq unsaved /\ host.file = 0
      BY <1>0, <1>5, <2>a DEF PfInv
  <2>2. (\E S : s \in Seq(S)) /\ Len(s) = 2
    <3>1. \A y, z : Len(<<y, z>>) = 2 /\ <<y, z>> \in Seq({y, z})
        OBVIOUS
    <3> QED
        BY <2>a, <3>1 DEF PfRestore
  <2>3. n = 0
    <3> PICK S : s \in Seq(S)
        BY <2>2
    <3>1. n \in 0..Len(s) /\ LeftOf(n, s)
        BY <2>1, <2>2
    <3> QED
        BY <1>2, <3>1
  <2>4. host.tokens \subseteq unsaved /\ host.file = 0 /\ host.anchor = Gone
      BY <2>1, <2>3
  <2> QED
      BY <1>0, <1>1, <1>5, <2>4 DEF FirewallInv, PfInv, HostShape
<1> QED
    BY <1>1, <1>3, <1>4, <1>5

LEMMA PfStarts ==
    ASSUME FirewallInv, method = "pf", NEW m \in Methods, NEW c \in Configs, Start(m, c)
    PROVE  FirewallInv'
<1>0. /\ PfInv /\ HostShape /\ m = "pf" /\ host' = host /\ unsaved' = unsaved /\ err' = "none" /\ token' = 0
      /\ phase' = "starting" /\ method' = m /\ cfg' = Arguments(c)
      /\ phase \in {"off", "failed", "kept", "crashed"}
    BY DEF FirewallInv, Start
<1>1. cfg' \in Given
    BY <1>0 DEF Given
<1>2. script' = PfStart(cfg')
    BY <1>0 DEF Start, PfStart, CleanStale, Setup
<1>3. LeftOf(9, PfStart(cfg))'
  <2>a. PICK s : s = PfStart(cfg')
      OBVIOUS
  <2>1. PICK S : s \in Seq(S) /\ Len(s) = 9
      BY <2>a, PfLength
  <2>2. s = [i \in 1..9 |-> s[i]]
      BY <2>1
  <2>3. \A i \in 1..9 : (9 - 9) + i = i
      OBVIOUS
  <2>4. s = [i \in 1..9 |-> s[(Len(s) - 9) + i]]
      BY <2>1, <2>2, <2>3
  <2> QED
      BY <1>2, <2>a, <2>4 DEF LeftOf
<1>4. PfTokens(9)'
  <2>1. host'.tokens \subseteq unsaved' \union {host'.file} /\ token' = 0
      BY <1>0 DEF PfInv
  <2> QED
      BY <2>1 DEF PfTokens
<1>5. PfInv'
  <2>1. \E k \in 0..9 : (LeftOf(k, PfStart(cfg)) /\ PfTokens(k))'
      BY <1>3, <1>4
  <2> QED
      BY <1>0, <2>1 DEF PfInv
<1>6. HostShape'
    BY <1>0 DEF HostShape
<1> QED
    BY <1>0, <1>1, <1>5, <1>6 DEF FirewallInv

LEMMA PfLeaves ==
    ASSUME FirewallInv, method = "pf", NEW n \in BOOLEAN, ReconnectExit(n)
    PROVE  FirewallInv'
<1>0. /\ PfInv /\ HostShape /\ phase = "up" /\ phase' = "leaving" /\ err' = "none"
      /\ UNCHANGED <<host, method, token, starts, unsaved>>
    BY DEF FirewallInv, ReconnectExit
<1>1. \E k \in 0..1 : LeftOf(k, <<Load("loadAnchor", BuildPfRules(cfg))>>)'
  <2>a. PICK y : y = Load("loadAnchor", BuildPfRules(cfg'))
      OBVIOUS
  <2>1. CASE ~n
    <3>1. script' = <<>> /\ 1..0 = {}
        BY <2>1 DEF ReconnectExit
    <3>2. LeftOf(0, <<Load("loadAnchor", BuildPfRules(cfg))>>)'
        BY <3>1 DEF LeftOf
    <3> QED
        BY <3>2
  <2>2. CASE n
    <3>1. script' = <<y>>
        BY <1>0, <2>2, <2>a DEF ReconnectExit, DisableDNS
    <3>2. Len(<<y>>) = 1 /\ <<y>> = [i \in 1..1 |-> <<y>>[(1 - 1) + i]]
      <4>1. Len(<<y>>) = 1 /\ <<y>> = [i \in 1..1 |-> <<y>>[i]]
          OBVIOUS
      <4>2. \A i \in 1..1 : (1 - 1) + i = i
          OBVIOUS
      <4> QED
          BY <4>1, <4>2
    <3>3. LeftOf(1, <<Load("loadAnchor", BuildPfRules(cfg))>>)'
        BY <2>a, <3>1, <3>2 DEF LeftOf
    <3> QED
        BY <3>3
  <2> QED
      BY <2>1, <2>2
<1>2. PfInv'
    BY <1>0, <1>1 DEF PfInv
<1>3. HostShape'
    BY <1>0 DEF HostShape
<1> QED
    BY <1>0, <1>2, <1>3 DEF FirewallInv

LEMMA PfStops ==
    ASSUME FirewallInv, method = "pf", FStop
    PROVE  FirewallInv'
<1>0. /\ PfInv /\ HostShape /\ phase \in {"up", "kept"} /\ phase' = "stopping" /\ err' = "none"
      /\ UNCHANGED <<host, method, token, starts, unsaved>> /\ script' = PfRestore
    BY DEF FirewallInv, FStop, Restore
<1>1. LeftOf(2, PfRestore)'
  <2>a. PICK s : s = PfRestore
      OBVIOUS
  <2>1. PICK S : s \in Seq(S) /\ Len(s) = 2
    <3>1. \A y, z : Len(<<y, z>>) = 2 /\ <<y, z>> \in Seq({y, z})
        OBVIOUS
    <3> QED
        BY <2>a, <3>1 DEF PfRestore
  <2>2. s = [i \in 1..2 |-> s[i]]
      BY <2>1
  <2>3. \A i \in 1..2 : (2 - 2) + i = i
      OBVIOUS
  <2>4. s = [i \in 1..2 |-> s[(Len(s) - 2) + i]]
      BY <2>1, <2>2, <2>3
  <2> QED
      BY <1>0, <2>a, <2>4 DEF LeftOf, PfRestore
<1>2. PfInv'
  <2>1. \E k \in 0..2 :
           /\ LeftOf(k, PfRestore)'
           /\ k <= 1 => host'.anchor = Gone
           /\ k = 0 => host'.tokens \subseteq unsaved' /\ host'.file = 0
    <3>1. 2 \in 0..2 /\ ~(2 <= 1) /\ 2 # 0
        OBVIOUS
    <3> QED
        BY <1>1, <3>1
  <2> QED
      BY <1>0, <2>1 DEF PfInv
<1>3. HostShape'
    BY <1>0 DEF HostShape
<1> QED
    BY <1>0, <1>2, <1>3 DEF FirewallInv

LEMMA PfCrashes ==
    ASSUME FirewallInv, method = "pf", FCrash
    PROVE  FirewallInv'
<1>0. /\ PfInv /\ HostShape /\ phase' = "crashed" /\ script' = <<>>
      /\ unsaved' = unsaved \union (host.tokens \ {host.file})
      /\ UNCHANGED <<host, method, cfg, err>>
    BY DEF FirewallInv, FCrash
<1>1. host'.tokens \subseteq unsaved' \union {host'.file}
    BY <1>0
<1>2. PfInv'
    BY <1>0, <1>1 DEF PfInv
<1>3. HostShape'
    BY <1>0 DEF HostShape
<1> QED
    BY <1>0, <1>2, <1>3 DEF FirewallInv

LEMMA FirewallInit == FInit => FirewallInv
<1> SUFFICES ASSUME FInit PROVE FirewallInv
    OBVIOUS
<1>1. /\ host \in {Clean, [Clean EXCEPT !.main = "skip"]} /\ phase = "off" /\ script = <<>> /\ err = "none" /\ method \in Methods /\ unsaved = {}
    BY DEF FInit
<1>2. /\ host.table = Gone /\ host.chain = [c \in Chains |-> Gone] /\ host.jumps = [c \in Chains |-> 0]
      /\ host.policy = {} /\ host.anchor = Gone /\ host.tokens = {} /\ host.file = 0
    BY <1>1 DEF Clean
<1>3. HostShape
  <2>1. host = [table |-> host.table, chain |-> host.chain, jumps |-> host.jumps,
                policy |-> host.policy, anchor |-> host.anchor, hooks |-> host.hooks,
                main |-> host.main, tokens |-> host.tokens, file |-> host.file]
      BY <1>1 DEF Clean
  <2>2. host.chain = [c \in Chains |-> host.chain[c]] /\ host.jumps \in [Chains -> {0, 1}]
      BY <1>2
  <2> QED
      BY <1>2, <2>1, <2>2 DEF HostShape
<1>4. CmdList(script) /\ EachOnce(script) /\ Len(script) = 0
    BY <1>1, NoPart DEF Part
<1>5. \A o \in Objects : ~There(o)
    BY <1>2 DEF There
<1>6. LinuxInv
    BY <1>1, <1>2, <1>4, <1>5 DEF LinuxInv, AddedAfter
<1>7. PfInv
    BY <1>1, <1>2 DEF PfInv, Clean
<1> QED
    BY <1>1, <1>3, <1>6, <1>7 DEF FirewallInv

LEMMA FirewallStep ==
    ASSUME DefaultMark, ~SilentFaults, FirewallInv, [FNext]_fvars
    PROVE  FirewallInv'
<1>1. CASE UNCHANGED fvars
  <2>1. UNCHANGED <<host, phase, script, method, cfg, token, err, starts, unsaved>>
      BY <1>1 DEF fvars
  <2>2. HostShape' = HostShape
      BY <2>1 DEF HostShape
  <2>3. PfInv' = PfInv
      BY <2>1 DEF PfInv, PfTokens, LeftOf
  <2>4. LinuxInv' = LinuxInv
    <3>1. AddedAfter' = AddedAfter
        BY <2>1 DEF AddedAfter, Once
    <3>2. \A o : There(o)' = There(o) /\ ToGo(o)' = ToGo(o)
        BY <2>1 DEF There, ToGo
    <3> QED
        BY <2>1, <3>1, <3>2 DEF LinuxInv
  <2> QED
      BY <2>1, <2>2, <2>3, <2>4 DEF FirewallInv
<1>2. ASSUME NEW m \in Methods, NEW c \in Configs, Start(m, c) PROVE FirewallInv'
    BY <1>2, LinuxStarts, PfStarts
<1>3. CASE RunCommand
  <2>1. CASE method # "pf"
      BY <1>3, <2>1, LinuxRuns
  <2>2. CASE method = "pf"
    <3>1. phase \in {"starting", "leaving", "stopping"}
        BY <1>3, <2>2 DEF FirewallInv, PfInv, RunCommand
    <3> QED
        BY <1>3, <2>2, <3>1, PfStartRuns, PfLeaveRuns, PfStopRuns
  <2> QED
      BY <2>1, <2>2
<1>4. CASE CommandFails
    BY <1>4, LinuxFails, PfFails
<1>5. CASE Finish
    BY <1>5, LinuxFinishes, PfFinishes
<1>6. CASE FStop
    BY <1>6, LinuxStops, PfStops
<1>7. CASE FCrash
    BY <1>7, LinuxCrashes, PfCrashes
<1>8. ASSUME NEW n \in BOOLEAN, ReconnectExit(n) PROVE FirewallInv'
    BY <1>8, LinuxLeaves, PfLeaves
<1> QED
    BY <1>1, <1>2, <1>3, <1>4, <1>5, <1>6, <1>7, <1>8 DEF FNext

LEMMA FirewallAlways == DefaultMark /\ ~SilentFaults => (FSpec => []FirewallInv)
<1> SUFFICES ASSUME DefaultMark, ~SilentFaults PROVE FSpec => []FirewallInv
    OBVIOUS
<1>1. FInit => FirewallInv
    BY FirewallInit
<1>2. FirewallInv /\ [FNext]_fvars => FirewallInv'
    BY FirewallStep
<1> QED
    BY <1>1, <1>2, PTL DEF FSpec

\* Restore, however many starts, failed setups and killed processes came
\* before it, leaves nothing that was not there at first but pf's hooks and the
\* tokens of processes killed before they had saved them (Restore of the
\* methods and CleanStaleAnchors).  pf's main ruleset is not looked at.
THEOREM HostIsClean == DefaultMark /\ ~SilentFaults => (FSpec => []HostClean)
<1> SUFFICES ASSUME DefaultMark, ~SilentFaults PROVE FSpec => []HostClean
    OBVIOUS
<1>1. FirewallInv => HostClean
  <2> SUFFICES ASSUME FirewallInv, phase = "off"
               PROVE  [host EXCEPT !.tokens = @ \ unsaved, !.hooks = {}, !.main = "own"] = Clean
      BY DEF HostClean
  <2>0. HostShape
      BY DEF FirewallInv
  <2>1. /\ host.table = Gone /\ host.chain = [c \in Chains |-> Gone] /\ host.jumps = [c \in Chains |-> 0]
        /\ host.policy = {} /\ host.anchor = Gone /\ host.tokens \ unsaved = {} /\ host.file = 0
    <3>1. CASE method = "pf"
        BY <3>1 DEF FirewallInv, PfInv, Clean
    <3>2. CASE method # "pf"
      <4>1. LinuxInv
          BY <3>2 DEF FirewallInv
      <4>2. /\ host.anchor = Gone /\ host.tokens \ unsaved = {} /\ host.file = 0
            /\ \A o \in Objects : ~There(o)
          BY <4>1 DEF LinuxInv
      <4>3. host.table = Gone
          BY <4>2 DEF There, Objects
      <4>4. \A c \in Chains : host.chain[c] = Gone /\ host.jumps[c] = 0
          BY <4>2 DEF There, Objects
      <4>5. host.policy = {}
          BY <2>0, <4>2 DEF There, Objects, HostShape
      <4>6. host.chain = [c \in Chains |-> Gone] /\ host.jumps = [c \in Chains |-> 0]
        <5>1. host.chain = [c \in Chains |-> host.chain[c]] /\ host.jumps = [c \in Chains |-> host.jumps[c]]
            BY <2>0 DEF HostShape
        <5> QED
            BY <4>4, <5>1
      <4> QED
          BY <4>2, <4>3, <4>5, <4>6
    <3> QED
        BY <3>1, <3>2
  <2>a. PICK t, h, m : t = {} /\ h = {} /\ m = "own"
      OBVIOUS
  <2>3. PICK g : g = [host EXCEPT !.tokens = t, !.hooks = h, !.main = m]
      OBVIOUS
  <2>2. [host EXCEPT !.tokens = @ \ unsaved, !.hooks = {}, !.main = "own"] = g
      BY <2>1, <2>3, <2>a
  <2>4. /\ g.table = host.table /\ g.chain = host.chain /\ g.jumps = host.jumps /\ g.policy = host.policy
        /\ g.anchor = host.anchor /\ g.hooks = h /\ g.main = m /\ g.tokens = t /\ g.file = host.file
      BY <2>0, <2>3 DEF HostShape
  <2>5. g = [table |-> g.table, chain |-> g.chain, jumps |-> g.jumps, policy |-> g.policy, anchor |-> g.anchor,
             hooks |-> g.hooks, main |-> g.main, tokens |-> g.tokens, file |-> g.file]
      BY <2>0, <2>3, <2>4 DEF HostShape
  <2> QED
    <3>1. g = Clean
      <4>1. /\ g.table = Gone /\ g.chain = [c \in Chains |-> Gone] /\ g.jumps = [c \in Chains |-> 0]
            /\ g.policy = {} /\ g.anchor = Gone /\ g.hooks = {} /\ g.main = "own" /\ g.tokens = {}
            /\ g.file = 0
          BY <2>1, <2>4, <2>a
      <4> QED
          BY <2>5, <4>1 DEF Clean
    <3> QED
        BY <2>2, <3>1
<1> QED
    BY <1>1, FirewallAlways, PTL

\* What earlier runs left behind never makes a Setup fail (CleanStaleAnchors).
THEOREM LeftoversAreHarmless == DefaultMark /\ ~SilentFaults => (FSpec => []LeftoversHarmless)
<1> SUFFICES ASSUME DefaultMark, ~SilentFaults PROVE FSpec => []LeftoversHarmless
    OBVIOUS
<1>1. FirewallInv => LeftoversHarmless
    BY DEF FirewallInv, LeftoversHarmless
<1> QED
    BY <1>1, FirewallAlways, PTL

(***************************************************************************)
(* Where the packets go.  The first half is about rules: which one of a    *)
(* list decides, what joining two lists does, and so what each list the    *)
(* methods build does with a packet, for Linux (Treat) and for pf          *)
(* (Filtered), against what Setup promises.                                *)
(***************************************************************************)
Caught(rules, p) == \E i \in DOMAIN rules : Matches(rules[i], p)
QuickHit(rules, p) == \E i \in DOMAIN rules : Matches(rules[i], p) /\ rules[i].quick

LEMMA LeastIs ==
    ASSUME NEW S \in SUBSET Nat, S # {}
    PROVE  Least(S) \in S /\ \A j \in S : Least(S) <= j
<1> DEFINE P == {n \in Nat : (\E m \in S : m <= n) => \E i \in S : \A j \in S : i <= j}
<1>1. 0 \in P
    OBVIOUS
<1>2. ASSUME NEW n \in P PROVE n + 1 \in P
  <2> SUFFICES ASSUME NEW m \in S, m <= n + 1, \A k \in S : ~(k <= n) PROVE \A j \in S : m <= j
      OBVIOUS
  <2> QED
      OBVIOUS
<1>3. P = Nat
  <2>1. P \in SUBSET Nat
      OBVIOUS
  <2> HIDE DEF P
  <2> QED
      BY <1>1, <1>2, <2>1, NatInduct
<1>4. \E i \in S : \A j \in S : i <= j
  <2>1. PICK m \in S : TRUE
      OBVIOUS
  <2>2. m \in P /\ m <= m
      BY <1>3
  <2> QED
      BY <2>1, <2>2
<1> QED
    BY <1>4 DEF Least

LEMMA GreatestIs ==
    ASSUME NEW N \in Nat, NEW S \in SUBSET (1..N), S # {}
    PROVE  Greatest(S) \in S /\ \A j \in S : j <= Greatest(S)
<1> DEFINE T == {N - i : i \in S}
<1>0. \A i \in S : i \in Nat /\ i <= N
    OBVIOUS
<1>1. T \in SUBSET Nat /\ T # {}
  <2>1. \A i \in S : N - i \in Nat
      BY <1>0
  <2> QED
      BY <2>1
<1>2. PICK t \in T : \A j \in T : t <= j
  <2> HIDE DEF T
  <2> QED
      BY <1>1, LeastIs
<1>3. PICK i \in S : t = N - i
    OBVIOUS
<1>4. \A j \in S : j <= i
  <2> TAKE j \in S
  <2>1. N - i <= N - j
      BY <1>2, <1>3
  <2> QED
      BY <1>0, <2>1
<1> QED
    BY <1>4 DEF Greatest

\* The rule that decides.
LEMMA FirstIs ==
    ASSUME NEW rules \in Seq(Rule), NEW p
    PROVE  /\ ~Caught(rules, p) => FirstMatch(rules, p) = "return"
           /\ \A i \in 1..Len(rules) :
                 Matches(rules[i], p) /\ (\A j \in 1..(i - 1) : ~Matches(rules[j], p))
                    => FirstMatch(rules, p) = rules[i].act
           /\ Caught(rules, p) => \E i \in 1..Len(rules) :
                 Matches(rules[i], p) /\ (\A j \in 1..(i - 1) : ~Matches(rules[j], p))
<1> DEFINE H == Hits(rules, p)
<1>1. DOMAIN rules = 1..Len(rules) /\ Len(rules) \in Nat
    OBVIOUS
<1>2. H \in SUBSET Nat /\ H \subseteq 1..Len(rules) /\ (H # {} <=> Caught(rules, p))
      /\ \A i \in 1..Len(rules) : i \in H <=> Matches(rules[i], p)
    BY <1>1 DEF Hits, Caught
<1>3. FirstMatch(rules, p) = IF H = {} THEN "return" ELSE rules[Least(H)].act
    BY DEF FirstMatch
<1> HIDE DEF H
<1>4. H # {} => Least(H) \in H /\ \A j \in H : Least(H) <= j
    BY <1>2, LeastIs
<1>5. ASSUME NEW i \in 1..Len(rules), Matches(rules[i], p), \A j \in 1..(i - 1) : ~Matches(rules[j], p)
      PROVE  FirstMatch(rules, p) = rules[i].act
  <2>1. i \in H /\ \A j \in H : i <= j
    <3> SUFFICES ASSUME NEW j \in H, j < i PROVE FALSE
        BY <1>1, <1>2, <1>5
    <3>1. j \in 1..(i - 1)
        BY <1>1, <1>2
    <3> QED
        BY <1>2, <1>5, <3>1
  <2>2. Least(H) = i
    <3>1. Least(H) \in Nat /\ i \in Nat /\ Least(H) <= i /\ i <= Least(H)
        BY <1>2, <1>4, <2>1
    <3> QED
        BY <3>1
  <2> QED
      BY <1>3, <2>1, <2>2
<1>6. ASSUME Caught(rules, p)
      PROVE \E i \in 1..Len(rules) : Matches(rules[i], p) /\ (\A j \in 1..(i - 1) : ~Matches(rules[j], p))
  <2>1. Least(H) \in 1..Len(rules) /\ Matches(rules[Least(H)], p)
      BY <1>2, <1>4, <1>6
  <2>2. \A j \in 1..(Least(H) - 1) : ~Matches(rules[j], p)
    <3> SUFFICES ASSUME NEW j \in 1..(Least(H) - 1), Matches(rules[j], p) PROVE FALSE
        OBVIOUS
    <3>1. j \in 1..Len(rules) /\ j < Least(H)
        BY <1>1, <2>1
    <3>2. j \in H
        BY <1>2, <3>1
    <3> QED
        BY <1>1, <1>2, <1>4, <2>1, <3>1, <3>2
  <2> QED
      BY <2>1, <2>2
<1> QED
    BY <1>2, <1>3, <1>5, <1>6

LEMMA FirstJoin ==
    ASSUME NEW a \in Seq(Rule), NEW b \in Seq(Rule), NEW p
    PROVE  /\ a \o b \in Seq(Rule)
           /\ Caught(a \o b, p) <=> Caught(a, p) \/ Caught(b, p)
           /\ QuickHit(a \o b, p) <=> QuickHit(a, p) \/ QuickHit(b, p)
           /\ FirstMatch(a \o b, p) = IF Caught(a, p) THEN FirstMatch(a, p) ELSE FirstMatch(b, p)
<1> DEFINE u == a \o b
<1>0. (\E S : a \in Seq(S)) /\ (\E T : b \in Seq(T)) /\ u \in Seq(Rule)
      /\ DOMAIN a = 1..Len(a) /\ DOMAIN b = 1..Len(b)
    OBVIOUS
<1>1. /\ Len(a) \in Nat /\ Len(b) \in Nat /\ Len(u) = Len(a) + Len(b)
      /\ \A i \in 1..Len(a) : i \in 1..Len(u) /\ u[i] = a[i]
      /\ \A i \in 1..Len(b) : Len(a) + i \in 1..Len(u) /\ u[Len(a) + i] = b[i]
      /\ \A i \in 1..Len(u) : i \in 1..Len(a) \/ i - Len(a) \in 1..Len(b)
    BY <1>0, Lists
<1>2. DOMAIN u = 1..Len(u)
    BY <1>0
<1> HIDE DEF u
<1>3. \A i \in 1..Len(u) : \/ i \in 1..Len(a) /\ u[i] = a[i]
                           \/ i - Len(a) \in 1..Len(b) /\ u[i] = b[i - Len(a)]
  <2> TAKE i \in 1..Len(u)
  <2>1. CASE i \in 1..Len(a)
      BY <1>1, <2>1
  <2>2. CASE i - Len(a) \in 1..Len(b)
    <3>1. Len(a) + (i - Len(a)) = i
        BY <1>1
    <3> QED
        BY <1>1, <2>2, <3>1
  <2> QED
      BY <1>1, <2>1, <2>2
<1>4. Caught(u, p) <=> Caught(a, p) \/ Caught(b, p)
  <2>1. Caught(a, p) \/ Caught(b, p) => Caught(u, p)
      BY <1>0, <1>1, <1>2 DEF Caught
  <2>2. Caught(u, p) => Caught(a, p) \/ Caught(b, p)
      BY <1>0, <1>3, <1>2 DEF Caught
  <2> QED
      BY <2>1, <2>2
<1>5. QuickHit(u, p) <=> QuickHit(a, p) \/ QuickHit(b, p)
  <2>1. QuickHit(a, p) \/ QuickHit(b, p) => QuickHit(u, p)
      BY <1>0, <1>1, <1>2 DEF QuickHit
  <2>2. QuickHit(u, p) => QuickHit(a, p) \/ QuickHit(b, p)
      BY <1>0, <1>3, <1>2 DEF QuickHit
  <2> QED
      BY <2>1, <2>2
<1>6. CASE Caught(a, p)
  <2>1. PICK i \in 1..Len(a) : Matches(a[i], p) /\ (\A j \in 1..(i - 1) : ~Matches(a[j], p))
      BY <1>6, FirstIs
  <2>2. FirstMatch(a, p) = a[i].act
      BY <2>1, FirstIs
  <2>3. \A j \in 1..(i - 1) : j \in 1..Len(a) /\ ~Matches(u[j], p)
      BY <1>1, <2>1
  <2>4. FirstMatch(u, p) = u[i].act
      BY <1>0, <1>1, <2>1, <2>3, FirstIs DEF u
  <2> QED
      BY <1>0, <1>1, <1>4, <1>5, <1>6, <2>1, <2>2, <2>4 DEF u
<1>7. CASE ~Caught(a, p) /\ Caught(b, p)
  <2>1. PICK i \in 1..Len(b) : Matches(b[i], p) /\ (\A j \in 1..(i - 1) : ~Matches(b[j], p))
      BY <1>7, FirstIs
  <2>2. FirstMatch(b, p) = b[i].act
      BY <2>1, FirstIs
  <2> DEFINE k == Len(a) + i
  <2>3. k \in 1..Len(u) /\ u[k] = b[i]
      BY <1>1
  <2>4. ASSUME NEW j \in 1..(k - 1), Matches(u[j], p) PROVE FALSE
    <3>1. j \in 1..Len(u)
        BY <1>1, <2>3
    <3>2. CASE j \in 1..Len(a) /\ u[j] = a[j]
        BY <1>0, <1>7, <2>4, <3>2 DEF Caught
    <3>3. CASE j - Len(a) \in 1..Len(b) /\ u[j] = b[j - Len(a)]
      <4>1. j - Len(a) \in 1..(i - 1)
          BY <1>1, <3>3
      <4> QED
          BY <2>1, <2>4, <3>3, <4>1
    <3> QED
        BY <1>3, <3>1, <3>2, <3>3
  <2> HIDE DEF k
  <2>5. FirstMatch(u, p) = u[k].act
      BY <1>0, <2>1, <2>3, <2>4, FirstIs
  <2> QED
      BY <1>0, <1>4, <1>5, <1>7, <2>2, <2>3, <2>5 DEF u
<1>8. CASE ~Caught(a, p) /\ ~Caught(b, p)
  <2>1. FirstMatch(b, p) = "return" /\ FirstMatch(u, p) = "return"
      BY <1>0, <1>4, <1>8, FirstIs
  <2> QED
      BY <1>0, <1>4, <1>5, <1>8, <2>1 DEF u
<1> QED
    BY <1>6, <1>7, <1>8

LEMMA OneRule ==
    ASSUME NEW r \in Rule, NEW p
    PROVE  /\ <<r>> \in Seq(Rule)
           /\ Caught(<<r>>, p) <=> Matches(r, p)
           /\ QuickHit(<<r>>, p) <=> Matches(r, p) /\ r.quick
           /\ FirstMatch(<<r>>, p) = IF Matches(r, p) THEN r.act ELSE "return"
<1> DEFINE s == <<r>>
<1>1. s \in Seq(Rule) /\ Len(s) = 1 /\ s[1] = r /\ DOMAIN s = {1}
    OBVIOUS
<1> HIDE DEF s
<1>2. (Caught(s, p) <=> Matches(r, p)) /\ (QuickHit(s, p) <=> Matches(r, p) /\ r.quick)
    BY <1>1 DEF Caught, QuickHit
<1>3. 1 \in 1..Len(s) /\ \A j \in 1..(1 - 1) : ~Matches(s[j], p)
    BY <1>1
<1>4. FirstMatch(s, p) = IF Matches(r, p) THEN r.act ELSE "return"
    BY <1>1, <1>2, <1>3, FirstIs
<1> QED
    BY <1>1, <1>2, <1>4 DEF s

LEMMA NoRules ==
    ASSUME NEW p
    PROVE  /\ <<>> \in Seq(Rule) /\ ~Caught(<<>>, p) /\ ~QuickHit(<<>>, p) /\ FirstMatch(<<>>, p) = "return"
<1>1. <<>> \in Seq(Rule) /\ DOMAIN <<>> = {}
    OBVIOUS
<1>2. ~Caught(<<>>, p) /\ ~QuickHit(<<>>, p)
    BY <1>1 DEF Caught, QuickHit
<1> QED
    BY <1>1, <1>2, FirstIs

\* The single rules, for a packet of the host.
Served(c, p) == p.proto = "tcp" /\ InSubnets(c, p)
Asked(c, p) == p.proto = "udp" /\ p.dport = 53 /\ p.dst \in c.dns

LEMMA OnIs ==
    ASSUME NEW net \in SUBSET Addr, NEW proto \in SUBSET Protos, NEW ports \in SUBSET Ports,
           NEW who \in SUBSET BOOLEAN, NEW act \in Acts
    PROVE  /\ On(net, proto, ports, who, act) \in Rule
           /\ On(net, proto, ports, who, act).act = act
           /\ ~On(net, proto, ports, who, act).quick
           /\ \A p : Matches(On(net, proto, ports, who, act), p)
                        <=> p.dst \in net /\ p.proto \in proto /\ p.dport \in ports /\ p.own \in who
<1> DEFINE r == On(net, proto, ports, who, act)
<1>1. r = [net |-> net, proto |-> proto, ports |-> ports, who |-> who, act |-> act, quick |-> FALSE]
    BY DEF On
<1> HIDE DEF r
<1>2. r \in Rule
    BY <1>1 DEF Rule
<1>3. r.act = act /\ ~r.quick /\ r.net = net /\ r.proto = proto /\ r.ports = ports /\ r.who = who
    BY <1>1
<1>4. \A p : Matches(r, p) <=> p.dst \in net /\ p.proto \in proto /\ p.dport \in ports /\ p.own \in who
    BY <1>3 DEF Matches
<1> QED
    BY <1>2, <1>3, <1>4 DEF r

\* The sets that rules are made of.
LEMMA RuleSets ==
    /\ {"tcp"} \in SUBSET Protos /\ {"udp"} \in SUBSET Protos /\ Protos \in SUBSET Protos
    /\ {53} \in SUBSET Ports /\ {67} \in SUBSET Ports /\ {547} \in SUBSET Ports /\ Ports \in SUBSET Ports
    /\ {TRUE} \in SUBSET BOOLEAN /\ {FALSE} \in SUBSET BOOLEAN /\ Anyone \in SUBSET BOOLEAN
    /\ Local \in SUBSET Addr /\ LinkLocal \in SUBSET Addr /\ Addr \in SUBSET Addr
    /\ \A f : OfFamily(Addr, f) \in SUBSET Addr
    /\ \A c \in Config : c.excludes \in SUBSET Addr /\ c.dns \in SUBSET Addr
    /\ \A c \in Config, f \in {4, 6} : OfFamily(c.excludes, f) \in SUBSET Addr /\ OfFamily(c.dns, f) \in SUBSET Addr
<1>1. \A c \in Config : c.excludes \in SUBSET Addr /\ c.dns \in SUBSET Addr
    BY DEF Config
<1>2. \A S \in SUBSET Addr : \A f : OfFamily(S, f) \in SUBSET Addr
    BY DEF OfFamily
<1>3. {"tcp"} \in SUBSET Protos /\ {"udp"} \in SUBSET Protos
    BY DEF Protos
<1> QED
    BY <1>1, <1>2, <1>3, CaptureAssumption DEF Anyone

LEMMA PacketIs ==
    \A p \in Packets : p.dst \in Addr /\ p.proto \in Protos /\ p.dport \in Ports /\ p.own \in BOOLEAN
                       /\ p.own \in Anyone /\ Fam[p.dst] \in {4, 6} /\ (p.proto = "tcp" <=> p.proto # "udp")
BY CaptureAssumption DEF Packets, Protos, Anyone

LEMMA RulesFine ==
    ASSUME NEW c \in Config, NEW f \in {4, 6}, NEW act \in Acts
    PROVE  /\ LocalReturn \in Rule /\ BypassReturn \in Rule /\ Excluded(c, f) \in Rule
           /\ DNSServers(c, f, act) \in Rule
           /\ LocalReturn.act = "return" /\ BypassReturn.act = "return" /\ Excluded(c, f).act = "return"
           /\ DNSServers(c, f, act).act = act
           /\ \A p \in Packets :
                 /\ Matches(LocalReturn, p) <=> p.dst \in Local
                 /\ Matches(BypassReturn, p) <=> p.own
                 /\ Matches(Excluded(c, f), p) <=> Fam[p.dst] = f /\ p.dst \in c.excludes
                 /\ Matches(DNSServers(c, f, act), p) <=> Fam[p.dst] = f /\ Asked(c, p)
<1>0. "return" \in Acts
    BY DEF Acts
<1>1. LocalReturn.act = "return" /\ ~LocalReturn.quick
      /\ \A p : Matches(LocalReturn, p)
                  <=> p.dst \in Local /\ p.proto \in Protos /\ p.dport \in Ports /\ p.own \in Anyone
    BY DEF LocalReturn, Return, On, Matches
<1>2. BypassReturn.act = "return" /\ ~BypassReturn.quick
      /\ \A p : Matches(BypassReturn, p)
                  <=> p.dst \in Addr /\ p.proto \in Protos /\ p.dport \in Ports /\ p.own \in {TRUE}
    BY DEF BypassReturn, Return, On, Matches
<1>3. Excluded(c, f).act = "return" /\ ~Excluded(c, f).quick
      /\ \A p : Matches(Excluded(c, f), p)
                  <=> p.dst \in OfFamily(c.excludes, f) /\ p.proto \in Protos /\ p.dport \in Ports /\ p.own \in Anyone
    BY DEF Excluded, Return, On, Matches
<1>4. DNSServers(c, f, act).act = act /\ ~DNSServers(c, f, act).quick
      /\ \A p : Matches(DNSServers(c, f, act), p)
                  <=> p.dst \in OfFamily(c.dns, f) /\ p.proto \in {"udp"} /\ p.dport \in {53} /\ p.own \in Anyone
    BY DEF DNSServers, On, Matches
<1>5. ASSUME NEW p \in Packets
      PROVE  /\ Matches(LocalReturn, p) <=> p.dst \in Local
             /\ Matches(BypassReturn, p) <=> p.own
             /\ Matches(Excluded(c, f), p) <=> Fam[p.dst] = f /\ p.dst \in c.excludes
             /\ Matches(DNSServers(c, f, act), p) <=> Fam[p.dst] = f /\ Asked(c, p)
    BY <1>1, <1>2, <1>3, <1>4, PacketIs DEF OfFamily, Asked
<1>6. LocalReturn \in Rule /\ BypassReturn \in Rule
    BY <1>0, RuleSets, OnIs, ZenonT(60) DEF LocalReturn, BypassReturn, Return
<1>7. Excluded(c, f) \in Rule
  <2>1. OfFamily(c.excludes, f) \in SUBSET Addr
      BY RuleSets
  <2> QED
      BY <1>0, <2>1, RuleSets, OnIs, ZenonT(60) DEF Excluded, Return
<1>8. DNSServers(c, f, act) \in Rule
  <2>1. OfFamily(c.dns, f) \in SUBSET Addr
      BY RuleSets
  <2>2. PICK P \in SUBSET Protos, D \in SUBSET Ports : P = {"udp"} /\ D = {53}
      BY RuleSets, ZenonT(60)
  <2>3. DNSServers(c, f, act) = On(OfFamily(c.dns, f), P, D, Anyone, act)
      BY <2>2 DEF DNSServers
  <2>4. Anyone \in SUBSET BOOLEAN
      BY RuleSets
  <2>5. On(OfFamily(c.dns, f), P, D, Anyone, act) \in Rule
      BY <2>1, <2>4, OnIs
  <2> QED
      BY <2>3, <2>5
<1> QED
    BY <1>1, <1>2, <1>3, <1>4, <1>5, <1>6, <1>7, <1>8

\* The rules of the subnets of a family, one like the other but for the ports.
PortsOf(wide, s) == IF wide THEN PfPortExpr(s) ELSE PortExpr(s)
Alike(rules, c, f, act, who, wide) ==
    /\ rules \in Seq(Rule) /\ Len(rules) = Len(SplitByFamily(c.subnets, f))
    /\ \A i \in 1..Len(rules) :
          rules[i] = On(SplitByFamily(c.subnets, f)[i].net, {"tcp"}, PortsOf(wide, SplitByFamily(c.subnets, f)[i]),
                        who, act)

LEMMA ImageIs ==
    ASSUME NEW c \in Config, NEW f \in {4, 6}, NEW act \in Acts, NEW who \in SUBSET BOOLEAN
    PROVE  /\ Alike(Subnets(c, f, act), c, f, act, Anyone, FALSE)
           /\ Alike(PfSubnets(c, f, act, who), c, f, act, who, TRUE)
<1> DEFINE nets == SplitByFamily(c.subnets, f)
           narrow(r) == On(r.net, {"tcp"}, PortExpr(r), Anyone, act)
           broad(r) == On(r.net, {"tcp"}, PfPortExpr(r), who, act)
           a == Subnets(c, f, act)
           b == PfSubnets(c, f, act, who)
<1>1. nets \in Seq(SubnetRule)
    BY SplitIs DEF Config
<1>2. Len(nets) \in Nat /\ DOMAIN nets = 1..Len(nets) /\ \A i \in 1..Len(nets) : nets[i] \in SubnetRule
    BY <1>1
<1>3. ASSUME NEW r \in SubnetRule PROVE narrow(r) \in Rule /\ broad(r) \in Rule
  <2>1. r.net \in SUBSET Addr /\ PortExpr(r) \in SUBSET Ports /\ PfPortExpr(r) \in SUBSET Ports
      BY DEF SubnetRule, CIDR, PortExpr, PfPortExpr, InRange
  <2> QED
      BY <2>1, RuleSets, OnIs, ZenonT(60)
<1> HIDE DEF nets
<1>4. a = [i \in 1..Len(nets) |-> narrow(nets[i])]
    BY <1>2 DEF Subnets, Image, nets
<1>5. b = [i \in 1..Len(nets) |-> broad(nets[i])]
    BY <1>2 DEF PfSubnets, Image, nets
<1> HIDE DEF a, b, narrow, broad
<1>6. a \in [1..Len(nets) -> Rule] /\ b \in [1..Len(nets) -> Rule]
    BY <1>2, <1>3, <1>4, <1>5
<1>7. a \in Seq(Rule) /\ b \in Seq(Rule) /\ Len(a) = Len(nets) /\ Len(b) = Len(nets)
    BY <1>2, <1>6
<1>8. Alike(a, c, f, act, Anyone, FALSE)
    BY <1>2, <1>4, <1>7 DEF Alike, nets, narrow, PortsOf
<1>9. Alike(b, c, f, act, who, TRUE)
    BY <1>2, <1>5, <1>7 DEF Alike, nets, broad, PortsOf
<1> QED
    BY <1>8, <1>9 DEF a, b

\* InSubnets with the port expressions of pf, which leave no port out.
PfServed(c, p) == p.proto = "tcp" /\ \E i \in DOMAIN c.subnets :
                    p.dst \in c.subnets[i].net /\ p.dport \in PfPortExpr(c.subnets[i])

LEMMA SubnetsMatch ==
    ASSUME NEW c \in Config, NEW f \in {4, 6}, NEW act \in Acts, NEW who \in SUBSET BOOLEAN, NEW wide \in BOOLEAN,
           NEW rules, Alike(rules, c, f, act, who, wide), NEW p \in Packets
    PROVE  /\ Caught(rules, p) <=> /\ Fam[p.dst] = f /\ p.own \in who
                                   /\ IF wide THEN PfServed(c, p) ELSE Served(c, p)
           /\ ~QuickHit(rules, p)
           /\ FirstMatch(rules, p) = IF Caught(rules, p) THEN act ELSE "return"
<1> DEFINE nets == SplitByFamily(c.subnets, f)
           Hit(s) == p.dst \in s.net /\ p.dport \in PortsOf(wide, s)
<1>1. c.subnets \in Seq(SubnetRule) /\ DOMAIN c.subnets = 1..Len(c.subnets)
    BY DEF Config
<1>2. /\ nets \in Seq(SubnetRule)
      /\ \A r : (\E i \in 1..Len(nets) : nets[i] = r) <=> (\E i \in 1..Len(c.subnets) : c.subnets[i] = r /\ OfFam(f, r))
    BY <1>1, SplitIs
<1> HIDE DEF nets
<1>3. /\ rules \in Seq(Rule) /\ DOMAIN rules = 1..Len(rules) /\ Len(rules) = Len(nets)
      /\ \A i \in 1..Len(rules) :
            rules[i] = On(nets[i].net, {"tcp"}, PortsOf(wide, nets[i]), who, act)
    BY DEF Alike, nets
<1>4. \A i \in 1..Len(rules) : /\ Matches(rules[i], p) <=> p.proto = "tcp" /\ p.own \in who /\ Hit(nets[i])
                               /\ rules[i].act = act /\ ~rules[i].quick
    BY <1>3 DEF On, Matches
<1>5. Caught(rules, p) <=> p.proto = "tcp" /\ p.own \in who /\ \E i \in 1..Len(nets) : Hit(nets[i])
    BY <1>3, <1>4 DEF Caught
<1>6. (\E i \in 1..Len(nets) : Hit(nets[i])) <=> Fam[p.dst] = f /\ \E i \in 1..Len(c.subnets) : Hit(c.subnets[i])
  <2>1. ASSUME NEW i \in 1..Len(nets), Hit(nets[i])
        PROVE  Fam[p.dst] = f /\ \E j \in 1..Len(c.subnets) : Hit(c.subnets[j])
    <3>1. PICK j \in 1..Len(c.subnets) : c.subnets[j] = nets[i] /\ OfFam(f, nets[i])
        BY <1>2
    <3> QED
        BY <2>1, <3>1 DEF OfFam
  <2>2. ASSUME Fam[p.dst] = f, NEW j \in 1..Len(c.subnets), Hit(c.subnets[j])
        PROVE  \E i \in 1..Len(nets) : Hit(nets[i])
    <3>1. c.subnets[j] \in SubnetRule
        BY <1>1
    <3>2. PICK g : \A a \in c.subnets[j].net : Fam[a] = g
        BY <3>1 DEF SubnetRule, CIDR
    <3>3. OfFam(f, c.subnets[j])
        BY <2>2, <3>2 DEF OfFam
    <3>4. PICK i \in 1..Len(nets) : nets[i] = c.subnets[j]
        BY <1>2, <3>3
    <3> QED
        BY <2>2, <3>4
  <2> QED
      BY <2>1, <2>2
<1>7. Caught(rules, p) <=> /\ Fam[p.dst] = f /\ p.own \in who
                           /\ IF wide THEN PfServed(c, p) ELSE Served(c, p)
    BY <1>1, <1>5, <1>6 DEF PfServed, Served, InSubnets, PortsOf
<1>8. ~QuickHit(rules, p)
    BY <1>3, <1>4 DEF QuickHit
<1>9. FirstMatch(rules, p) = IF Caught(rules, p) THEN act ELSE "return"
    BY <1>3, <1>4, FirstIs
<1> QED
    BY <1>7, <1>8, <1>9

\* The rule that decides for pf.
LEMMA LastIs ==
    ASSUME NEW rules \in Seq(Rule), NEW p
    PROVE  /\ ~Caught(rules, p) => PfMatch(rules, p) = "pass"
           /\ \A i \in 1..Len(rules) :
                 /\ Matches(rules[i], p) /\ rules[i].quick
                 /\ \A j \in 1..(i - 1) : ~(Matches(rules[j], p) /\ rules[j].quick)
                 => PfMatch(rules, p) = rules[i].act
           /\ \A i \in 1..Len(rules) :
                 /\ Matches(rules[i], p) /\ ~QuickHit(rules, p)
                 /\ \A j \in (i + 1)..Len(rules) : ~Matches(rules[j], p)
                 => PfMatch(rules, p) = rules[i].act
           /\ QuickHit(rules, p) => \E i \in 1..Len(rules) :
                 /\ Matches(rules[i], p) /\ rules[i].quick
                 /\ \A j \in 1..(i - 1) : ~(Matches(rules[j], p) /\ rules[j].quick)
           /\ Caught(rules, p) => \E i \in 1..Len(rules) :
                 Matches(rules[i], p) /\ \A j \in (i + 1)..Len(rules) : ~Matches(rules[j], p)
<1> DEFINE H == Hits(rules, p)
           Q == {i \in H : rules[i].quick}
<1>1. DOMAIN rules = 1..Len(rules) /\ Len(rules) \in Nat
    OBVIOUS
<1>2. H \in SUBSET Nat /\ H \in SUBSET (1..Len(rules)) /\ (H # {} <=> Caught(rules, p))
      /\ \A i \in 1..Len(rules) : i \in H <=> Matches(rules[i], p)
    BY <1>1 DEF Hits, Caught
<1>3. Q \in SUBSET Nat /\ Q \in SUBSET (1..Len(rules)) /\ (Q # {} <=> QuickHit(rules, p))
      /\ \A i \in 1..Len(rules) : i \in Q <=> Matches(rules[i], p) /\ rules[i].quick
    BY <1>1, <1>2 DEF QuickHit
<1>4. PfMatch(rules, p) = CASE H = {} -> "pass" [] Q # {} -> rules[Least(Q)].act [] OTHER -> rules[Greatest(H)].act
    BY DEF PfMatch
<1>5. Q # {} => H # {}
    OBVIOUS
<1> HIDE DEF H, Q
<1>6. Q # {} => Least(Q) \in Q /\ \A j \in Q : Least(Q) <= j
    BY <1>3, LeastIs
<1>7. H # {} => Greatest(H) \in H /\ \A j \in H : j <= Greatest(H)
    BY <1>1, <1>2, GreatestIs
<1>8. ~Caught(rules, p) => PfMatch(rules, p) = "pass"
    BY <1>2, <1>4, <1>5
<1>9. ASSUME NEW i \in 1..Len(rules), Matches(rules[i], p) /\ rules[i].quick,
             \A j \in 1..(i - 1) : ~(Matches(rules[j], p) /\ rules[j].quick)
      PROVE  PfMatch(rules, p) = rules[i].act
  <2>1. i \in Q /\ \A j \in Q : i <= j
    <3>0. i \in Q
        BY <1>3, <1>9
    <3> SUFFICES ASSUME NEW j \in Q, j < i PROVE FALSE
        BY <1>1, <1>3, <3>0
    <3>1. j \in 1..(i - 1)
        BY <1>1, <1>3
    <3> QED
        BY <1>3, <1>9, <3>1
  <2>2. Least(Q) = i
    <3>1. Least(Q) \in Nat /\ i \in Nat /\ Least(Q) <= i /\ i <= Least(Q)
        BY <1>3, <1>6, <2>1
    <3> QED
        BY <3>1
  <2> QED
      BY <1>4, <1>5, <2>1, <2>2
<1>10. ASSUME NEW i \in 1..Len(rules), Matches(rules[i], p), ~QuickHit(rules, p),
              \A j \in (i + 1)..Len(rules) : ~Matches(rules[j], p)
       PROVE  PfMatch(rules, p) = rules[i].act
  <2>1. i \in H /\ \A j \in H : j <= i
    <3>0. i \in H
        BY <1>2, <1>10
    <3> SUFFICES ASSUME NEW j \in H, i < j PROVE FALSE
        BY <1>1, <1>2, <3>0
    <3>1. j \in (i + 1)..Len(rules)
        BY <1>1, <1>2
    <3> QED
        BY <1>2, <1>10, <3>1
  <2>2. Greatest(H) = i
    <3>1. Greatest(H) \in Nat /\ i \in Nat /\ Greatest(H) <= i /\ i <= Greatest(H)
        BY <1>2, <1>7, <2>1
    <3> QED
        BY <3>1
  <2>3. Q = {} /\ H # {}
      BY <1>3, <1>10, <2>1
  <2> QED
      BY <1>4, <2>2, <2>3
<1>11. ASSUME QuickHit(rules, p)
       PROVE \E i \in 1..Len(rules) :
                 /\ Matches(rules[i], p) /\ rules[i].quick
                 /\ \A j \in 1..(i - 1) : ~(Matches(rules[j], p) /\ rules[j].quick)
  <2>1. Least(Q) \in 1..Len(rules) /\ Matches(rules[Least(Q)], p) /\ rules[Least(Q)].quick
      BY <1>3, <1>6, <1>11
  <2>2. \A j \in 1..(Least(Q) - 1) : ~(Matches(rules[j], p) /\ rules[j].quick)
    <3> SUFFICES ASSUME NEW j \in 1..(Least(Q) - 1), Matches(rules[j], p), rules[j].quick PROVE FALSE
        OBVIOUS
    <3>1. j \in 1..Len(rules) /\ j < Least(Q)
        BY <1>1, <2>1
    <3>2. j \in Q
        BY <1>3, <3>1
    <3> QED
        BY <1>1, <1>3, <1>6, <1>11, <2>1, <3>1, <3>2
  <2> QED
      BY <2>1, <2>2
<1>12. ASSUME Caught(rules, p)
       PROVE \E i \in 1..Len(rules) : Matches(rules[i], p) /\ \A j \in (i + 1)..Len(rules) : ~Matches(rules[j], p)
  <2>1. Greatest(H) \in 1..Len(rules) /\ Matches(rules[Greatest(H)], p)
      BY <1>2, <1>7, <1>12
  <2>2. \A j \in (Greatest(H) + 1)..Len(rules) : ~Matches(rules[j], p)
    <3> SUFFICES ASSUME NEW j \in (Greatest(H) + 1)..Len(rules), Matches(rules[j], p) PROVE FALSE
        OBVIOUS
    <3>1. j \in 1..Len(rules) /\ Greatest(H) < j
        BY <1>1, <2>1
    <3>2. j \in H
        BY <1>2, <3>1
    <3> QED
        BY <1>1, <1>2, <1>7, <1>12, <2>1, <3>1, <3>2
  <2> QED
      BY <2>1, <2>2
<1> QED
    BY <1>8, <1>9, <1>10, <1>11, <1>12

LEMMA LastJoin ==
    ASSUME NEW a \in Seq(Rule), NEW b \in Seq(Rule), NEW p
    PROVE  PfMatch(a \o b, p) = IF QuickHit(a, p) \/ ~Caught(b, p) THEN PfMatch(a, p) ELSE PfMatch(b, p)
<1> DEFINE u == a \o b
<1>0. (\E S : a \in Seq(S)) /\ (\E T : b \in Seq(T)) /\ u \in Seq(Rule)
      /\ DOMAIN a = 1..Len(a) /\ DOMAIN b = 1..Len(b)
    OBVIOUS
<1>1. /\ Len(a) \in Nat /\ Len(b) \in Nat /\ Len(u) = Len(a) + Len(b)
      /\ \A i \in 1..Len(a) : i \in 1..Len(u) /\ u[i] = a[i]
      /\ \A i \in 1..Len(b) : Len(a) + i \in 1..Len(u) /\ u[Len(a) + i] = b[i]
      /\ \A i \in 1..Len(u) : i \in 1..Len(a) \/ i - Len(a) \in 1..Len(b)
    BY <1>0, Lists
<1>2. (Caught(u, p) <=> Caught(a, p) \/ Caught(b, p)) /\ (QuickHit(u, p) <=> QuickHit(a, p) \/ QuickHit(b, p))
    BY FirstJoin
<1> HIDE DEF u
<1>3. \A i \in 1..Len(u) : \/ i \in 1..Len(a) /\ u[i] = a[i]
                           \/ i - Len(a) \in 1..Len(b) /\ u[i] = b[i - Len(a)]
  <2> TAKE i \in 1..Len(u)
  <2>1. CASE i \in 1..Len(a)
      BY <1>1, <2>1
  <2>2. CASE i - Len(a) \in 1..Len(b)
    <3>1. Len(a) + (i - Len(a)) = i
        BY <1>1
    <3> QED
        BY <1>1, <2>2, <3>1
  <2> QED
      BY <1>1, <2>1, <2>2
<1>4. CASE QuickHit(a, p)
  <2>1. PICK i \in 1..Len(a) :
           /\ Matches(a[i], p) /\ a[i].quick
           /\ \A j \in 1..(i - 1) : ~(Matches(a[j], p) /\ a[j].quick)
      BY <1>4, LastIs
  <2>2. PfMatch(a, p) = a[i].act
      BY <2>1, LastIs
  <2>3. \A j \in 1..(i - 1) : j \in 1..Len(a) /\ ~(Matches(u[j], p) /\ u[j].quick)
      BY <1>1, <2>1, SMTT(60)
  <2>4. PfMatch(u, p) = u[i].act
    <3>1. i \in 1..Len(u) /\ Matches(u[i], p) /\ u[i].quick
        BY <1>1, <2>1
    <3>2. \A j \in 1..(i - 1) : ~(Matches(u[j], p) /\ u[j].quick)
        BY <2>3
    <3> QED
        BY <1>0, <3>1, <3>2, LastIs
  <2> QED
      BY <1>1, <1>4, <2>2, <2>4 DEF u
<1>5. CASE ~QuickHit(a, p) /\ QuickHit(b, p)
  <2>1. PICK i \in 1..Len(b) :
           /\ Matches(b[i], p) /\ b[i].quick
           /\ \A j \in 1..(i - 1) : ~(Matches(b[j], p) /\ b[j].quick)
      BY <1>5, LastIs
  <2>2. PfMatch(b, p) = b[i].act
      BY <2>1, LastIs
  <2> DEFINE k == Len(a) + i
  <2>3. k \in 1..Len(u) /\ u[k] = b[i]
      BY <1>1
  <2>4. ASSUME NEW j \in 1..(k - 1), Matches(u[j], p) /\ u[j].quick PROVE FALSE
    <3>1. j \in 1..Len(u)
        BY <1>1, <2>3
    <3>2. CASE j \in 1..Len(a) /\ u[j] = a[j]
        BY <1>0, <1>5, <2>4, <3>2 DEF QuickHit
    <3>3. CASE j - Len(a) \in 1..Len(b) /\ u[j] = b[j - Len(a)]
      <4>1. j - Len(a) \in 1..(i - 1)
          BY <1>1, <3>3
      <4> QED
          BY <2>1, <2>4, <3>3, <4>1
    <3> QED
        BY <1>3, <3>1, <3>2, <3>3
  <2> HIDE DEF k
  <2>5. PfMatch(u, p) = u[k].act
      BY <1>0, <2>1, <2>3, <2>4, LastIs, SMTT(60)
  <2>6. Caught(b, p)
      BY <1>5 DEF Caught, QuickHit
  <2> QED
      BY <1>5, <2>2, <2>3, <2>5, <2>6 DEF u
<1>6. CASE ~QuickHit(a, p) /\ ~QuickHit(b, p) /\ Caught(b, p)
  <2>1. PICK i \in 1..Len(b) : Matches(b[i], p) /\ \A j \in (i + 1)..Len(b) : ~Matches(b[j], p)
      BY <1>6, LastIs
  <2>2. PfMatch(b, p) = b[i].act
      BY <1>6, <2>1, LastIs
  <2> DEFINE k == Len(a) + i
  <2>3. k \in 1..Len(u) /\ u[k] = b[i]
      BY <1>1
  <2>4. ASSUME NEW j \in (k + 1)..Len(u), Matches(u[j], p) PROVE FALSE
    <3>1. j \in 1..Len(u) /\ j \notin 1..Len(a) /\ j - Len(a) \in (i + 1)..Len(b)
        BY <1>1, <2>3
    <3> QED
        BY <1>3, <2>1, <2>4, <3>1
  <2> HIDE DEF k
  <2>5. PfMatch(u, p) = u[k].act
      BY <1>0, <1>2, <1>6, <2>1, <2>3, <2>4, LastIs
  <2> QED
      BY <1>6, <2>2, <2>3, <2>5 DEF u
<1>7. CASE ~QuickHit(a, p) /\ ~Caught(b, p) /\ Caught(a, p)
  <2>0. ~QuickHit(b, p)
      BY <1>7 DEF Caught, QuickHit
  <2>1. PICK i \in 1..Len(a) : Matches(a[i], p) /\ \A j \in (i + 1)..Len(a) : ~Matches(a[j], p)
      BY <1>7, LastIs
  <2>2. PfMatch(a, p) = a[i].act
      BY <1>7, <2>1, LastIs
  <2>3. i \in 1..Len(u) /\ u[i] = a[i]
      BY <1>1
  <2>4. ASSUME NEW j \in (i + 1)..Len(u), Matches(u[j], p) PROVE FALSE
    <3>1. j \in 1..Len(u) /\ (j \in 1..Len(a) => j \in (i + 1)..Len(a))
        BY <1>1, <2>3
    <3>2. CASE j \in 1..Len(a) /\ u[j] = a[j]
        BY <2>1, <2>4, <3>1, <3>2
    <3>3. CASE j - Len(a) \in 1..Len(b) /\ u[j] = b[j - Len(a)]
        BY <1>0, <1>7, <2>4, <3>3 DEF Caught
    <3> QED
        BY <1>3, <3>1, <3>2, <3>3
  <2>5. PfMatch(u, p) = u[i].act
      BY <1>0, <1>2, <1>7, <2>0, <2>1, <2>3, <2>4, LastIs
  <2> QED
      BY <1>7, <2>2, <2>3, <2>5 DEF u
<1>8. CASE ~Caught(a, p) /\ ~Caught(b, p)
  <2>1. PfMatch(a, p) = "pass" /\ PfMatch(u, p) = "pass"
      BY <1>0, <1>2, <1>8, LastIs
  <2> QED
      BY <1>8, <2>1 DEF u
<1> QED
    BY <1>4, <1>5, <1>6, <1>7, <1>8

LEMMA LastOne ==
    ASSUME NEW r \in Rule, NEW p
    PROVE  PfMatch(<<r>>, p) = IF Matches(r, p) THEN r.act ELSE "pass"
<1> DEFINE s == <<r>>
<1>1. s \in Seq(Rule) /\ Len(s) = 1 /\ s[1] = r
    OBVIOUS
<1>2. (Caught(s, p) <=> Matches(r, p)) /\ (QuickHit(s, p) <=> Matches(r, p) /\ r.quick)
    BY OneRule
<1> HIDE DEF s
<1>3. 1 \in 1..Len(s) /\ (\A j \in 1..(1 - 1) : ~(Matches(s[j], p) /\ s[j].quick))
      /\ \A j \in (1 + 1)..Len(s) : ~Matches(s[j], p)
    BY <1>1
<1>4. Matches(r, p) /\ r.quick => PfMatch(s, p) = s[1].act
    BY <1>1, <1>3, LastIs
<1>5. Matches(r, p) /\ ~r.quick => PfMatch(s, p) = s[1].act
    BY <1>1, <1>2, <1>3, LastIs
<1>6. ~Matches(r, p) => PfMatch(s, p) = "pass"
    BY <1>1, <1>2, LastIs
<1> QED
    BY <1>1, <1>4, <1>5, <1>6 DEF s

LEMMA LastNone ==
    ASSUME NEW p PROVE PfMatch(<<>>, p) = "pass"
BY NoRules, LastIs

\* What the common part of the Linux methods does with a packet.
Treat(c, p, net, dns) ==
    IF p.dst \in c.excludes THEN "return"
    ELSE IF Served(c, p) THEN net ELSE IF Asked(c, p) THEN dns ELSE "return"

LEMMA SubnetsIs ==
    ASSUME NEW c \in Config, NEW f \in {4, 6}, NEW act \in Acts, NEW p \in Packets
    PROVE  /\ Subnets(c, f, act) \in Seq(Rule)
           /\ Caught(Subnets(c, f, act), p) <=> Fam[p.dst] = f /\ Served(c, p)
           /\ FirstMatch(Subnets(c, f, act), p) = IF Caught(Subnets(c, f, act), p) THEN act ELSE "return"
<1> DEFINE s == Subnets(c, f, act)
<1>0. Anyone \in SUBSET BOOLEAN /\ FALSE \in BOOLEAN
    BY RuleSets
<1>1. Alike(s, c, f, act, Anyone, FALSE)
    BY <1>0, ImageIs
<1>2. s \in Seq(Rule)
    BY <1>1 DEF Alike
<1> HIDE DEF s
<1>3. (Caught(s, p) <=> /\ Fam[p.dst] = f /\ p.own \in Anyone /\ IF FALSE THEN PfServed(c, p) ELSE Served(c, p))
    BY <1>0, <1>1, SubnetsMatch
<1>4. FirstMatch(s, p) = IF Caught(s, p) THEN act ELSE "return"
    BY <1>0, <1>1, SubnetsMatch, ZenonT(60)
<1>5. p.own \in Anyone
    BY PacketIs
<1> QED
    BY <1>2, <1>3, <1>4, <1>5 DEF s

LEMMA BodyIs ==
    ASSUME NEW c \in Config, NEW net \in Acts, NEW dns \in Acts, NEW p \in Packets
    PROVE  /\ Body(c, net, dns) \in Seq(Rule)
           /\ FirstMatch(Body(c, net, dns), p) = Treat(c, p, net, dns)
<1> DEFINE e4 == <<Excluded(c, 4)>>
           e6 == <<Excluded(c, 6)>>
           s4 == Subnets(c, 4, net)
           s6 == Subnets(c, 6, net)
           d4 == <<DNSServers(c, 4, dns)>>
           d6 == <<DNSServers(c, 6, dns)>>
<1>1. Body(c, net, dns) = ((e4 \o e6) \o (s4 \o s6)) \o (d4 \o d6)
    BY DEF Body, Both
<1>2. Fam[p.dst] = 4 \/ Fam[p.dst] = 6
    BY PacketIs
<1>3. e4 \in Seq(Rule) /\ (Caught(e4, p) <=> Fam[p.dst] = 4 /\ p.dst \in c.excludes) /\ FirstMatch(e4, p) = "return"
  <2>1. 4 \in {4, 6}
      OBVIOUS
  <2> QED
      BY <2>1, RulesFine, OneRule DEF Acts
<1>4. e6 \in Seq(Rule) /\ (Caught(e6, p) <=> Fam[p.dst] = 6 /\ p.dst \in c.excludes) /\ FirstMatch(e6, p) = "return"
  <2>1. 6 \in {4, 6}
      OBVIOUS
  <2> QED
      BY <2>1, RulesFine, OneRule DEF Acts
<1>5. s4 \in Seq(Rule) /\ (Caught(s4, p) <=> Fam[p.dst] = 4 /\ Served(c, p))
      /\ FirstMatch(s4, p) = IF Caught(s4, p) THEN net ELSE "return"
    BY SubnetsIs
<1>6. s6 \in Seq(Rule) /\ (Caught(s6, p) <=> Fam[p.dst] = 6 /\ Served(c, p))
      /\ FirstMatch(s6, p) = IF Caught(s6, p) THEN net ELSE "return"
    BY SubnetsIs
<1>7. d4 \in Seq(Rule) /\ (Caught(d4, p) <=> Fam[p.dst] = 4 /\ Asked(c, p))
      /\ FirstMatch(d4, p) = IF Caught(d4, p) THEN dns ELSE "return"
  <2>1. 4 \in {4, 6}
      OBVIOUS
  <2> QED
      BY <2>1, RulesFine, OneRule
<1>8. d6 \in Seq(Rule) /\ (Caught(d6, p) <=> Fam[p.dst] = 6 /\ Asked(c, p))
      /\ FirstMatch(d6, p) = IF Caught(d6, p) THEN dns ELSE "return"
  <2>1. 6 \in {4, 6}
      OBVIOUS
  <2> QED
      BY <2>1, RulesFine, OneRule
<1> HIDE DEF e4, e6, s4, s6, d4, d6
<1> DEFINE e == e4 \o e6
           s == s4 \o s6
           d == d4 \o d6
           es == e \o s
<1>9. e \in Seq(Rule) /\ (Caught(e, p) <=> p.dst \in c.excludes) /\ FirstMatch(e, p) = "return"
    BY <1>2, <1>3, <1>4, FirstJoin
<1>10. s \in Seq(Rule) /\ (Caught(s, p) <=> Served(c, p)) /\ FirstMatch(s, p) = IF Served(c, p) THEN net ELSE "return"
    BY <1>2, <1>5, <1>6, FirstJoin
<1>11. d \in Seq(Rule) /\ (Caught(d, p) <=> Asked(c, p)) /\ FirstMatch(d, p) = IF Asked(c, p) THEN dns ELSE "return"
    BY <1>2, <1>7, <1>8, FirstJoin
<1> HIDE DEF e, s, d
<1>12. es \in Seq(Rule) /\ (Caught(es, p) <=> p.dst \in c.excludes \/ Served(c, p))
       /\ FirstMatch(es, p) = IF p.dst \in c.excludes THEN "return" ELSE IF Served(c, p) THEN net ELSE "return"
    BY <1>9, <1>10, FirstJoin
<1> HIDE DEF es
<1>13. es \o d \in Seq(Rule) /\ FirstMatch(es \o d, p) = Treat(c, p, net, dns)
    BY <1>11, <1>12, FirstJoin DEF Treat
<1> QED
    BY <1>1, <1>13 DEF es, e, s, d

LEMMA HeadIs ==
    ASSUME NEW c \in Config, NEW p \in Packets
    PROVE  /\ LocalHead \in Seq(Rule) /\ LocalHead = <<LocalReturn, BypassReturn>>
           /\ Caught(LocalHead, p) <=> p.dst \in Local \/ p.own
           /\ FirstMatch(LocalHead, p) = "return"
<1>0. 4 \in {4, 6} /\ "return" \in Acts
    BY DEF Acts
<1>1. LocalReturn \in Rule /\ BypassReturn \in Rule /\ LocalReturn.act = "return" /\ BypassReturn.act = "return"
      /\ (Matches(LocalReturn, p) <=> p.dst \in Local) /\ (Matches(BypassReturn, p) <=> p.own)
    BY <1>0, RulesFine
<1>2. LocalHead = <<LocalReturn>> \o <<BypassReturn>>
    BY Pair DEF LocalHead
<1>3. <<LocalReturn>> \in Seq(Rule) /\ <<BypassReturn>> \in Seq(Rule)
      /\ (Caught(<<LocalReturn>>, p) <=> p.dst \in Local) /\ (Caught(<<BypassReturn>>, p) <=> p.own)
      /\ FirstMatch(<<LocalReturn>>, p) = "return" /\ FirstMatch(<<BypassReturn>>, p) = "return"
    BY <1>1, OneRule
<1>4. LocalHead = <<LocalReturn, BypassReturn>>
    BY DEF LocalHead
<1>5. LocalHead \in Seq(Rule) /\ (Caught(LocalHead, p) <=> p.dst \in Local \/ p.own)
    BY <1>2, <1>3, FirstJoin
<1>6. FirstMatch(LocalHead, p) = "return"
    BY <1>2, <1>3, FirstJoin, ZenonT(60)
<1> QED
    BY <1>4, <1>5, <1>6

\* The chains of a table.
LEMMA TableIs ==
    ASSUME NEW c \in Config, NEW net \in Acts, NEW dns \in Acts, NEW p \in Packets
    PROVE  /\ <<LocalReturn, BypassReturn>> \o Body(c, net, dns) \in Seq(Rule)
           /\ FirstMatch(<<LocalReturn, BypassReturn>> \o Body(c, net, dns), p)
                = IF p.dst \in Local \/ p.own THEN "return" ELSE Treat(c, p, net, dns)
<1>1. LocalHead \o Body(c, net, dns) \in Seq(Rule)
      /\ FirstMatch(LocalHead \o Body(c, net, dns), p)
                = IF p.dst \in Local \/ p.own THEN "return" ELSE Treat(c, p, net, dns)
    BY BodyIs, HeadIs, FirstJoin
<1> QED
    BY <1>1 DEF LocalHead

\* A chain of iptables, as ChainScript fills it.
ChainRules(head, c, f, net, dns) ==
    ((head \o <<Excluded(c, f)>>) \o Subnets(c, f, net)) \o If(HasDNS(c, f), <<DNSServers(c, f, dns)>>)

LEMMA ChainIs ==
    ASSUME NEW head \in {<<>>, LocalHead}, NEW c \in Config, NEW f \in {4, 6}, NEW net \in Acts, NEW dns \in Acts,
           NEW p \in Packets, Fam[p.dst] = f
    PROVE  /\ ChainRules(head, c, f, net, dns) \in Seq(Rule)
           /\ FirstMatch(ChainRules(head, c, f, net, dns), p)
                = IF head # <<>> /\ (p.dst \in Local \/ p.own) THEN "return" ELSE Treat(c, p, net, dns)
<1> DEFINE e == <<Excluded(c, f)>>
           s == Subnets(c, f, net)
           d == If(HasDNS(c, f), <<DNSServers(c, f, dns)>>)
           he == head \o e
           hes == he \o s
<1>1. head \in Seq(Rule) /\ (Caught(head, p) <=> head # <<>> /\ (p.dst \in Local \/ p.own))
      /\ FirstMatch(head, p) = "return"
  <2>1. LocalHead # <<>>
      BY DEF LocalHead
  <2>2. CASE head = <<>>
      BY <2>2, NoRules
  <2>3. CASE head = LocalHead
      BY <2>1, <2>3, HeadIs
  <2> QED
      BY <2>2, <2>3
<1>2. e \in Seq(Rule) /\ (Caught(e, p) <=> p.dst \in c.excludes) /\ FirstMatch(e, p) = "return"
    BY RulesFine, OneRule DEF Acts
<1>3. s \in Seq(Rule) /\ (Caught(s, p) <=> Served(c, p)) /\ FirstMatch(s, p) = IF Served(c, p) THEN net ELSE "return"
    BY SubnetsIs
<1>4. d \in Seq(Rule) /\ (Caught(d, p) <=> Asked(c, p)) /\ FirstMatch(d, p) = IF Asked(c, p) THEN dns ELSE "return"
  <2>1. CASE HasDNS(c, f)
      BY <2>1, RulesFine, OneRule DEF If
  <2>2. CASE ~HasDNS(c, f)
    <3>1. ~Asked(c, p)
      <4>1. p.dst \notin OfFamily(c.dns, f)
          BY <2>2 DEF HasDNS
      <4> QED
          BY <4>1, PacketIs DEF OfFamily, Asked
    <3> QED
        BY <2>2, <3>1, NoRules DEF If
  <2> QED
      BY <2>1, <2>2
<1> HIDE DEF e, s, d
<1>5. he \in Seq(Rule)
      /\ (Caught(he, p) <=> p.dst \in c.excludes \/ (head # <<>> /\ (p.dst \in Local \/ p.own)))
      /\ FirstMatch(he, p) = "return"
    BY <1>1, <1>2, FirstJoin
<1> HIDE DEF he
<1>6. hes \in Seq(Rule)
      /\ (Caught(hes, p) <=> p.dst \in c.excludes \/ (head # <<>> /\ (p.dst \in Local \/ p.own)) \/ Served(c, p))
      /\ FirstMatch(hes, p) = IF p.dst \in c.excludes \/ (head # <<>> /\ (p.dst \in Local \/ p.own)) THEN "return"
                              ELSE IF Served(c, p) THEN net ELSE "return"
    BY <1>3, <1>5, FirstJoin
<1> HIDE DEF hes
<1>7. hes \o d \in Seq(Rule)
      /\ FirstMatch(hes \o d, p) = IF head # <<>> /\ (p.dst \in Local \/ p.own) THEN "return" ELSE Treat(c, p, net, dns)
    BY <1>4, <1>6, FirstJoin DEF Treat
<1> QED
    BY <1>7 DEF ChainRules, hes, he, e, s, d

LEMMA BlockIs ==
    ASSUME NEW c \in Config, NEW p \in Packets
    PROVE  /\ BlockIPv6 \in Seq(Rule) /\ If(c.blockIPv6, BlockIPv6) \in Seq(Rule)
           /\ FirstMatch(If(c.blockIPv6, BlockIPv6), p) = IF Blocked(c, p) THEN "reject" ELSE "return"
<1> DEFINE x == Return(LinkLocal, Anyone)
           y == On(OfFamily(Addr, 6), Protos, Ports, Anyone, "reject")
<1>1. "return" \in Acts /\ "reject" \in Acts /\ OfFamily(Addr, 6) \in SUBSET Addr
    BY RuleSets DEF Acts
<1>2. x \in Rule /\ y \in Rule
    BY <1>1, RuleSets, OnIs, ZenonT(60) DEF Return
<1>3. x.act = "return" /\ (Matches(x, p) <=> p.dst \in LinkLocal)
    BY PacketIs DEF Return, On, Matches
<1>4. y.act = "reject" /\ (Matches(y, p) <=> Fam[p.dst] = 6)
    BY PacketIs DEF On, Matches, OfFamily
<1>5. BlockIPv6 = <<x>> \o <<y>>
    BY Pair DEF BlockIPv6
<1> HIDE DEF x, y
<1>6. <<x>> \in Seq(Rule) /\ <<y>> \in Seq(Rule)
      /\ (Caught(<<x>>, p) <=> p.dst \in LinkLocal) /\ FirstMatch(<<x>>, p) = "return"
      /\ FirstMatch(<<y>>, p) = IF Fam[p.dst] = 6 THEN "reject" ELSE "return"
    BY <1>2, <1>3, <1>4, OneRule
<1>7. BlockIPv6 \in Seq(Rule)
      /\ FirstMatch(BlockIPv6, p) = IF p.dst \notin LinkLocal /\ Fam[p.dst] = 6 THEN "reject" ELSE "return"
    BY <1>5, <1>6, FirstJoin, ZenonT(60)
<1>8. CASE c.blockIPv6
    BY <1>7, <1>8 DEF If, Blocked
<1>9. CASE ~c.blockIPv6
    BY <1>7, <1>9, NoRules DEF If, Blocked
<1> QED
    BY <1>8, <1>9

\* The quick rules about UDP.
LEMMA PassIs ==
    ASSUME NEW f \in {4, 6}, NEW ports \in SUBSET Ports, NEW who \in SUBSET BOOLEAN, NEW p \in Packets
    PROVE  /\ <<PassUDP(f, ports, who)>> \in Seq(Rule)
           /\ Caught(<<PassUDP(f, ports, who)>>, p)
                <=> p.proto = "udp" /\ Fam[p.dst] = f /\ p.dport \in ports /\ p.own \in who
           /\ QuickHit(<<PassUDP(f, ports, who)>>, p) <=> Caught(<<PassUDP(f, ports, who)>>, p)
           /\ PfMatch(<<PassUDP(f, ports, who)>>, p) = "pass"
<1> DEFINE r == PassUDP(f, ports, who)
<1>1. r = [net |-> OfFamily(Addr, f), proto |-> {"udp"}, ports |-> ports, who |-> who, act |-> "pass", quick |-> TRUE]
    BY DEF PassUDP, Quick
<1> HIDE DEF r
<1>2. r.act = "pass" /\ r.quick
      /\ (Matches(r, p) <=> p.proto = "udp" /\ Fam[p.dst] = f /\ p.dport \in ports /\ p.own \in who)
    BY <1>1, PacketIs DEF Matches, OfFamily
<1>3. r \in Rule
  <2>1. OfFamily(Addr, f) \in SUBSET Addr /\ {"udp"} \in SUBSET Protos /\ "pass" \in Acts
      BY RuleSets DEF Acts
  <2> QED
      BY <1>1, <2>1 DEF Rule
<1> QED
    BY <1>2, <1>3, OneRule, LastOne DEF r

LEMMA BlockAllIs ==
    ASSUME NEW f \in {4, 6}, NEW p \in Packets
    PROVE  /\ <<BlockAllUDP(f)>> \in Seq(Rule)
           /\ Caught(<<BlockAllUDP(f)>>, p) <=> p.proto = "udp" /\ Fam[p.dst] = f
           /\ QuickHit(<<BlockAllUDP(f)>>, p) <=> Caught(<<BlockAllUDP(f)>>, p)
           /\ PfMatch(<<BlockAllUDP(f)>>, p) = IF Caught(<<BlockAllUDP(f)>>, p) THEN "block" ELSE "pass"
<1> DEFINE r == BlockAllUDP(f)
<1>1. r = [net |-> OfFamily(Addr, f), proto |-> {"udp"}, ports |-> Ports, who |-> Anyone, act |-> "block", quick |-> TRUE]
    BY DEF BlockAllUDP, Quick
<1> HIDE DEF r
<1>2. r.act = "block" /\ r.quick /\ (Matches(r, p) <=> p.proto = "udp" /\ Fam[p.dst] = f)
    BY <1>1, PacketIs DEF Matches, OfFamily
<1>3. r \in Rule
  <2>1. OfFamily(Addr, f) \in SUBSET Addr /\ {"udp"} \in SUBSET Protos /\ "block" \in Acts
        /\ Ports \in SUBSET Ports /\ Anyone \in SUBSET BOOLEAN
      BY RuleSets DEF Acts
  <2> QED
      BY <1>1, <2>1 DEF Rule
<1> QED
    BY <1>2, <1>3, OneRule, LastOne DEF r

\* What pf's rules about UDP let through.
Passing(c, p) ==
    \/ p.dport = (IF Fam[p.dst] = 4 THEN 67 ELSE 547)
    \/ p.dport = 53 /\ OfFamily(c.dns, Fam[p.dst]) = {}
    \/ p.own /\ c.allowRootUDP

LEMMA BlockUDPIs ==
    ASSUME NEW c \in Config, NEW p \in Packets
    PROVE  /\ PfBlockUDP(c) \in Seq(Rule)
           /\ Caught(PfBlockUDP(c), p) <=> p.proto = "udp"
           /\ QuickHit(PfBlockUDP(c), p) <=> p.proto = "udp"
           /\ PfMatch(PfBlockUDP(c), p) = IF p.proto = "udp" /\ ~Passing(c, p) THEN "block" ELSE "pass"
<1> DEFINE a4 == <<PassUDP(4, {67}, Anyone)>>
           a6 == <<PassUDP(6, {547}, Anyone)>>
           d4 == If(OfFamily(c.dns, 4) = {}, <<PassUDP(4, {53}, Anyone)>>)
           d6 == If(OfFamily(c.dns, 6) = {}, <<PassUDP(6, {53}, Anyone)>>)
           r4 == <<PassUDP(4, Ports, {TRUE})>>
           r6 == <<PassUDP(6, Ports, {TRUE})>>
           r == If(c.allowRootUDP, r4 \o r6)
           b4 == <<BlockAllUDP(4)>>
           b6 == <<BlockAllUDP(6)>>
           u == p.proto = "udp"
           four == Fam[p.dst] = 4
           no4 == p.dport = 53 /\ OfFamily(c.dns, 4) = {}
           no6 == p.dport = 53 /\ OfFamily(c.dns, 6) = {}
           root == p.own /\ c.allowRootUDP
<1>0. (four <=> Fam[p.dst] # 6) /\ p.own \in Anyone /\ p.dport \in Ports /\ 4 \in {4, 6} /\ 6 \in {4, 6}
    BY PacketIs
<1>1. PfBlockUDP(c) = (((((a4 \o a6) \o d4) \o r) \o b4) \o d6) \o b6
  <2>1. <<PassUDP(4, {67}, Anyone), PassUDP(6, {547}, Anyone)>> = a4 \o a6
      BY Pair
  <2> QED
      BY <2>1, ZenonT(60) DEF PfBlockUDP, Both
<1>a. PICK P67 \in SUBSET Ports, P547 \in SUBSET Ports, P53 \in SUBSET Ports, T \in SUBSET BOOLEAN :
            P67 = {67} /\ P547 = {547} /\ P53 = {53} /\ T = {TRUE}
    BY RuleSets, ZenonT(60)
<1>b. Anyone \in SUBSET BOOLEAN /\ Ports \in SUBSET Ports
    BY RuleSets
<1>2. a4 \in Seq(Rule) /\ (Caught(a4, p) <=> u /\ four /\ p.dport = 67) /\ (QuickHit(a4, p) <=> Caught(a4, p))
      /\ PfMatch(a4, p) = "pass"
  <2>1. a4 = <<PassUDP(4, P67, Anyone)>>
      BY <1>a
  <2> QED
      BY <1>0, <1>a, <1>b, <2>1, PassIs
<1>3. a6 \in Seq(Rule) /\ (Caught(a6, p) <=> u /\ ~four /\ p.dport = 547) /\ (QuickHit(a6, p) <=> Caught(a6, p))
      /\ PfMatch(a6, p) = "pass"
  <2>1. a6 = <<PassUDP(6, P547, Anyone)>>
      BY <1>a
  <2> QED
      BY <1>0, <1>a, <1>b, <2>1, PassIs
<1>4. d4 \in Seq(Rule) /\ (Caught(d4, p) <=> u /\ four /\ no4)
      /\ (QuickHit(d4, p) <=> Caught(d4, p)) /\ PfMatch(d4, p) = "pass"
  <2>1. d4 = If(OfFamily(c.dns, 4) = {}, <<PassUDP(4, P53, Anyone)>>)
      BY <1>a
  <2>2. CASE OfFamily(c.dns, 4) = {}
    <3> DEFINE s == <<PassUDP(4, P53, Anyone)>>
    <3>1. d4 = s
        BY <2>1, <2>2 DEF If
    <3>2. s \in Seq(Rule) /\ (Caught(s, p) <=> u /\ Fam[p.dst] = 4 /\ p.dport \in P53 /\ p.own \in Anyone)
          /\ (QuickHit(s, p) <=> Caught(s, p)) /\ PfMatch(s, p) = "pass"
        BY <1>0, <1>a, <1>b, PassIs
    <3> HIDE DEF s, d4
    <3> QED
        BY <1>0, <1>a, <2>2, <3>1, <3>2
  <2>3. CASE OfFamily(c.dns, 4) # {}
    <3>1. d4 = <<>>
        BY <2>1, <2>3 DEF If
    <3> QED
        BY <2>3, <3>1, NoRules, LastNone
  <2> QED
      BY <2>2, <2>3
<1>5. d6 \in Seq(Rule) /\ (Caught(d6, p) <=> u /\ ~four /\ no6)
      /\ (QuickHit(d6, p) <=> Caught(d6, p)) /\ PfMatch(d6, p) = "pass"
  <2>1. d6 = If(OfFamily(c.dns, 6) = {}, <<PassUDP(6, P53, Anyone)>>)
      BY <1>a
  <2>2. CASE OfFamily(c.dns, 6) = {}
    <3> DEFINE s == <<PassUDP(6, P53, Anyone)>>
    <3>1. d6 = s
        BY <2>1, <2>2 DEF If
    <3>2. s \in Seq(Rule) /\ (Caught(s, p) <=> u /\ Fam[p.dst] = 6 /\ p.dport \in P53 /\ p.own \in Anyone)
          /\ (QuickHit(s, p) <=> Caught(s, p)) /\ PfMatch(s, p) = "pass"
        BY <1>0, <1>a, <1>b, PassIs
    <3> HIDE DEF s, d6
    <3> QED
        BY <1>0, <1>a, <2>2, <3>1, <3>2
  <2>3. CASE OfFamily(c.dns, 6) # {}
    <3>1. d6 = <<>>
        BY <2>1, <2>3 DEF If
    <3> QED
        BY <2>3, <3>1, NoRules, LastNone
  <2> QED
      BY <2>2, <2>3
<1>6. r \in Seq(Rule) /\ (Caught(r, p) <=> u /\ root)
      /\ (QuickHit(r, p) <=> Caught(r, p)) /\ PfMatch(r, p) = "pass"
  <2>1. r4 \in Seq(Rule) /\ (Caught(r4, p) <=> u /\ four /\ p.own) /\ (QuickHit(r4, p) <=> Caught(r4, p))
        /\ PfMatch(r4, p) = "pass"
    <3> DEFINE s == <<PassUDP(4, Ports, T)>>
    <3>1. r4 = s
        BY <1>a
    <3>2. s \in Seq(Rule) /\ (Caught(s, p) <=> u /\ Fam[p.dst] = 4 /\ p.dport \in Ports /\ p.own \in T)
          /\ (QuickHit(s, p) <=> Caught(s, p)) /\ PfMatch(s, p) = "pass"
      <4> HIDE DEF u
      <4>1. T \in SUBSET BOOLEAN /\ Ports \in SUBSET Ports
          BY <1>a, <1>b
      <4> QED
          BY <1>0, <4>1, PassIs DEF u
    <3> HIDE DEF s, r4
    <3> QED
        BY <1>0, <1>a, <3>1, <3>2
  <2>2. r6 \in Seq(Rule) /\ (Caught(r6, p) <=> u /\ ~four /\ p.own) /\ (QuickHit(r6, p) <=> Caught(r6, p))
        /\ PfMatch(r6, p) = "pass"
    <3> DEFINE s == <<PassUDP(6, Ports, T)>>
    <3>1. r6 = s
        BY <1>a
    <3>2. s \in Seq(Rule) /\ (Caught(s, p) <=> u /\ Fam[p.dst] = 6 /\ p.dport \in Ports /\ p.own \in T)
          /\ (QuickHit(s, p) <=> Caught(s, p)) /\ PfMatch(s, p) = "pass"
      <4> HIDE DEF u
      <4>1. T \in SUBSET BOOLEAN /\ Ports \in SUBSET Ports
          BY <1>a, <1>b
      <4> QED
          BY <1>0, <4>1, PassIs DEF u
    <3> HIDE DEF s, r6
    <3> QED
        BY <1>0, <1>a, <3>1, <3>2
  <2> HIDE DEF r4, r6
  <2>3. CASE c.allowRootUDP
      BY <2>1, <2>2, <2>3, FirstJoin, LastJoin DEF If
  <2>4. CASE ~c.allowRootUDP
      BY <2>4, NoRules, LastNone DEF If
  <2> QED
      BY <2>3, <2>4
<1>7. b4 \in Seq(Rule) /\ (Caught(b4, p) <=> u /\ four) /\ (QuickHit(b4, p) <=> Caught(b4, p))
      /\ PfMatch(b4, p) = IF u /\ four THEN "block" ELSE "pass"
    BY <1>0, BlockAllIs
<1>8. b6 \in Seq(Rule) /\ (Caught(b6, p) <=> u /\ ~four) /\ (QuickHit(b6, p) <=> Caught(b6, p))
      /\ PfMatch(b6, p) = IF u /\ ~four THEN "block" ELSE "pass"
    BY <1>0, BlockAllIs
<1> HIDE DEF a4, a6, d4, d6, r, b4, b6, u, four, no4, no6, root
<1> DEFINE x == a4 \o a6
           y == x \o d4
           z == y \o r
           v == z \o b4
           w == v \o d6
           P == p.dport = 67 \/ no4 \/ root
           Q == p.dport = 547 \/ no6 \/ root
<1>9. x \in Seq(Rule) /\ (Caught(x, p) <=> u /\ IF four THEN p.dport = 67 ELSE p.dport = 547)
      /\ (QuickHit(x, p) <=> Caught(x, p)) /\ PfMatch(x, p) = "pass"
    BY <1>2, <1>3, FirstJoin, LastJoin
<1> HIDE DEF x
<1>10. y \in Seq(Rule) /\ (Caught(y, p) <=> Caught(x, p) \/ Caught(d4, p))
       /\ (QuickHit(y, p) <=> Caught(y, p)) /\ PfMatch(y, p) = "pass"
    BY <1>4, <1>9, FirstJoin, LastJoin
<1> HIDE DEF y
<1>11. z \in Seq(Rule) /\ (Caught(z, p) <=> Caught(y, p) \/ Caught(r, p))
       /\ (QuickHit(z, p) <=> Caught(z, p)) /\ PfMatch(z, p) = "pass"
    BY <1>6, <1>10, FirstJoin, LastJoin
<1>12. Caught(z, p) <=> u /\ (IF four THEN P ELSE p.dport = 547 \/ root)
    BY <1>4, <1>6, <1>9, <1>10, <1>11
<1> HIDE DEF z
<1>13. v \in Seq(Rule) /\ (Caught(v, p) <=> Caught(z, p) \/ Caught(b4, p))
       /\ (QuickHit(v, p) <=> Caught(v, p))
       /\ PfMatch(v, p) = IF u /\ four /\ ~Caught(z, p) THEN "block" ELSE "pass"
    BY <1>7, <1>11, FirstJoin, LastJoin
<1> HIDE DEF v
<1>14. w \in Seq(Rule) /\ (Caught(w, p) <=> Caught(v, p) \/ Caught(d6, p))
       /\ (QuickHit(w, p) <=> Caught(w, p))
       /\ PfMatch(w, p) = IF u /\ four /\ ~Caught(z, p) THEN "block" ELSE "pass"
    BY <1>5, <1>7, <1>13, FirstJoin, LastJoin
<1>15. Caught(w, p) <=> u /\ (four \/ Q)
    BY <1>5, <1>7, <1>12, <1>13, <1>14
<1> HIDE DEF w
<1>16. w \o b6 \in Seq(Rule) /\ (Caught(w \o b6, p) <=> u) /\ (QuickHit(w \o b6, p) <=> u)
    BY <1>8, <1>14, <1>15, FirstJoin
<1>17. PfMatch(w \o b6, p) = IF u /\ ~(IF four THEN P ELSE Q) THEN "block" ELSE "pass"
    BY <1>8, <1>12, <1>14, <1>15, LastJoin
<1>18. (IF four THEN P ELSE Q) <=> Passing(c, p)
  <2>1. CASE four
      BY <2>1 DEF Passing, four, no4, root
  <2>2. CASE Fam[p.dst] = 6
      BY <2>2 DEF Passing, four, no6, root
  <2> QED
      BY <1>0, <2>1, <2>2 DEF four
<1> QED
    BY <1>1, <1>16, <1>17, <1>18 DEF u, w, v, z, y, x

LEMMA PfSubnetsIs ==
    ASSUME NEW c \in Config, NEW f \in {4, 6}, NEW act \in Acts, NEW who \in SUBSET BOOLEAN, NEW p \in Packets
    PROVE  /\ PfSubnets(c, f, act, who) \in Seq(Rule)
           /\ Caught(PfSubnets(c, f, act, who), p) <=> Fam[p.dst] = f /\ p.own \in who /\ PfServed(c, p)
           /\ ~QuickHit(PfSubnets(c, f, act, who), p)
           /\ FirstMatch(PfSubnets(c, f, act, who), p) = IF Caught(PfSubnets(c, f, act, who), p) THEN act ELSE "return"
           /\ PfMatch(PfSubnets(c, f, act, who), p) = IF Caught(PfSubnets(c, f, act, who), p) THEN act ELSE "pass"
<1> DEFINE s == PfSubnets(c, f, act, who)
<1>0. PICK wide \in BOOLEAN : wide = TRUE
    OBVIOUS
<1>1. Alike(s, c, f, act, who, wide)
    BY <1>0, ImageIs
<1>2. s \in Seq(Rule) /\ \A i \in 1..Len(s) : s[i].act = act
  <2>1. ASSUME NEW i \in 1..Len(s) PROVE s[i].act = act
    <3>1. PICK net, proto, ports : s[i] = On(net, proto, ports, who, act)
        BY <1>1 DEF Alike
    <3> QED
        BY <3>1 DEF On
  <2> QED
      BY <1>1, <2>1 DEF Alike
<1> HIDE DEF s
<1>3. /\ Caught(s, p) <=> /\ Fam[p.dst] = f /\ p.own \in who
                          /\ IF wide THEN PfServed(c, p) ELSE Served(c, p)
      /\ ~QuickHit(s, p)
      /\ FirstMatch(s, p) = IF Caught(s, p) THEN act ELSE "return"
    BY <1>1, SubnetsMatch
<1>a. Caught(s, p) <=> Fam[p.dst] = f /\ p.own \in who /\ PfServed(c, p)
    BY <1>0, <1>3
<1>4. CASE Caught(s, p)
  <2>1. PICK i \in 1..Len(s) : Matches(s[i], p) /\ \A j \in (i + 1)..Len(s) : ~Matches(s[j], p)
      BY <1>2, <1>4, LastIs
  <2>2. PfMatch(s, p) = s[i].act
      BY <1>2, <1>3, <2>1, LastIs
  <2> QED
      BY <1>a, <1>2, <1>3, <1>4, <2>2 DEF s
<1>5. CASE ~Caught(s, p)
  <2>1. PfMatch(s, p) = "pass"
      BY <1>2, <1>5, LastIs
  <2> QED
      BY <1>a, <1>2, <1>3, <1>5, <2>1 DEF s
<1> QED
    BY <1>4, <1>5

LEMMA PfPairIs ==
    ASSUME NEW c \in Config, NEW act \in Acts, NEW who \in SUBSET BOOLEAN, NEW p \in Packets
    PROVE  LET s == PfSubnets(c, 4, act, who) \o PfSubnets(c, 6, act, who) IN
           /\ s \in Seq(Rule)
           /\ Caught(s, p) <=> p.own \in who /\ PfServed(c, p)
           /\ ~QuickHit(s, p)
           /\ FirstMatch(s, p) = IF p.own \in who /\ PfServed(c, p) THEN act ELSE "return"
           /\ PfMatch(s, p) = IF p.own \in who /\ PfServed(c, p) THEN act ELSE "pass"
<1> DEFINE a == PfSubnets(c, 4, act, who)
           b == PfSubnets(c, 6, act, who)
<1>0. 4 \in {4, 6} /\ 6 \in {4, 6} /\ (Fam[p.dst] = 4 \/ Fam[p.dst] = 6)
    BY PacketIs
<1>1. a \in Seq(Rule) /\ (Caught(a, p) <=> Fam[p.dst] = 4 /\ p.own \in who /\ PfServed(c, p)) /\ ~QuickHit(a, p)
      /\ FirstMatch(a, p) = (IF Caught(a, p) THEN act ELSE "return")
      /\ PfMatch(a, p) = (IF Caught(a, p) THEN act ELSE "pass")
    BY <1>0, PfSubnetsIs
<1>2. b \in Seq(Rule) /\ (Caught(b, p) <=> Fam[p.dst] = 6 /\ p.own \in who /\ PfServed(c, p)) /\ ~QuickHit(b, p)
      /\ FirstMatch(b, p) = (IF Caught(b, p) THEN act ELSE "return")
      /\ PfMatch(b, p) = (IF Caught(b, p) THEN act ELSE "pass")
    BY <1>0, PfSubnetsIs
<1> HIDE DEF a, b
<1> DEFINE s == a \o b
           hit == p.own \in who /\ PfServed(c, p)
<1>3. s \in Seq(Rule) /\ (Caught(s, p) <=> hit) /\ ~QuickHit(s, p)
    BY <1>0, <1>1, <1>2, FirstJoin
<1>4. FirstMatch(s, p) = IF hit THEN act ELSE "return"
    BY <1>0, <1>1, <1>2, FirstJoin
<1>5. PfMatch(s, p) = IF hit THEN act ELSE "pass"
    BY <1>0, <1>1, <1>2, LastJoin
<1> QED
    BY <1>3, <1>4, <1>5 DEF a, b

\* The translations on lo0.
LEMMA RdrIs ==
    ASSUME NEW c \in Config, NEW p \in Packets
    PROVE  /\ BuildPfRules(c).rdr \in Seq(Rule)
           /\ FirstMatch(BuildPfRules(c).rdr, p) = IF PfServed(c, p) THEN "proxy" ELSE IF Asked(c, p) THEN "dns" ELSE "return"
<1> DEFINE s == PfSubnets(c, 4, "proxy", Anyone) \o PfSubnets(c, 6, "proxy", Anyone)
           d4 == <<DNSServers(c, 4, "dns")>>
           d6 == <<DNSServers(c, 6, "dns")>>
           d == d4 \o d6
<1>0. 4 \in {4, 6} /\ 6 \in {4, 6} /\ (Fam[p.dst] = 4 \/ Fam[p.dst] = 6) /\ p.own \in Anyone
      /\ Anyone \in SUBSET BOOLEAN /\ "proxy" \in Acts /\ "dns" \in Acts
    BY PacketIs, RuleSets DEF Acts
<1>1. BuildPfRules(c).rdr = s \o d
    BY DEF BuildPfRules, Both
<1>2. s \in Seq(Rule) /\ (Caught(s, p) <=> PfServed(c, p)) /\ FirstMatch(s, p) = IF PfServed(c, p) THEN "proxy" ELSE "return"
    BY <1>0, PfPairIs
<1>3. d4 \in Seq(Rule) /\ (Caught(d4, p) <=> Fam[p.dst] = 4 /\ Asked(c, p))
      /\ FirstMatch(d4, p) = IF Caught(d4, p) THEN "dns" ELSE "return"
    BY <1>0, RulesFine, OneRule
<1>4. d6 \in Seq(Rule) /\ (Caught(d6, p) <=> Fam[p.dst] = 6 /\ Asked(c, p))
      /\ FirstMatch(d6, p) = IF Caught(d6, p) THEN "dns" ELSE "return"
    BY <1>0, RulesFine, OneRule
<1> HIDE DEF s, d4, d6
<1>5. d \in Seq(Rule) /\ FirstMatch(d, p) = IF Asked(c, p) THEN "dns" ELSE "return"
    BY <1>0, <1>3, <1>4, FirstJoin
<1> HIDE DEF d
<1>6. s \o d \in Seq(Rule)
      /\ FirstMatch(s \o d, p) = IF PfServed(c, p) THEN "proxy" ELSE IF Asked(c, p) THEN "dns" ELSE "return"
    BY <1>2, <1>5, FirstJoin
<1> QED
    BY <1>1, <1>6

LEMMA PfDNSIs ==
    ASSUME NEW c \in Config, NEW p \in Packets
    PROVE  LET s == <<PfDNS(c, 4)>> \o <<PfDNS(c, 6)>> IN
           /\ s \in Seq(Rule)
           /\ Caught(s, p) <=> Asked(c, p)
           /\ QuickHit(s, p) <=> Asked(c, p) /\ c.blockUDP
           /\ PfMatch(s, p) = IF Asked(c, p) THEN "lo0" ELSE "pass"
<1>1. ASSUME NEW f \in {4, 6}
      PROVE  /\ <<PfDNS(c, f)>> \in Seq(Rule)
             /\ Caught(<<PfDNS(c, f)>>, p) <=> Fam[p.dst] = f /\ Asked(c, p)
             /\ QuickHit(<<PfDNS(c, f)>>, p) <=> Caught(<<PfDNS(c, f)>>, p) /\ c.blockUDP
             /\ PfMatch(<<PfDNS(c, f)>>, p) = IF Caught(<<PfDNS(c, f)>>, p) THEN "lo0" ELSE "pass"
  <2> DEFINE r == PfDNS(c, f)
  <2>0. OfFamily(c.dns, f) \in SUBSET Addr /\ "lo0" \in Acts /\ Anyone \in SUBSET BOOLEAN
      BY RuleSets DEF Acts
  <2>1. PICK P \in SUBSET Protos, D \in SUBSET Ports : P = {"udp"} /\ D = {53}
      BY RuleSets, ZenonT(60)
  <2>2. CASE c.blockUDP
    <3>1. r = [net |-> OfFamily(c.dns, f), proto |-> P, ports |-> D, who |-> Anyone, act |-> "lo0", quick |-> TRUE]
        BY <2>1, <2>2 DEF PfDNS, Quick
    <3> HIDE DEF r
    <3>2. r.act = "lo0" /\ r.quick /\ (Matches(r, p) <=> Fam[p.dst] = f /\ Asked(c, p))
        BY <2>1, <3>1, PacketIs DEF Matches, OfFamily, Asked
    <3>3. r \in Rule
        BY <2>0, <3>1 DEF Rule
    <3> QED
        BY <2>2, <3>2, <3>3, OneRule, LastOne DEF r
  <2>3. CASE ~c.blockUDP
    <3>1. r = [net |-> OfFamily(c.dns, f), proto |-> P, ports |-> D, who |-> Anyone, act |-> "lo0", quick |-> FALSE]
        BY <2>1, <2>3 DEF PfDNS, On
    <3> HIDE DEF r
    <3>2. r.act = "lo0" /\ ~r.quick /\ (Matches(r, p) <=> Fam[p.dst] = f /\ Asked(c, p))
        BY <2>1, <3>1, PacketIs DEF Matches, OfFamily, Asked
    <3>3. r \in Rule
        BY <2>0, <3>1 DEF Rule
    <3> QED
        BY <2>3, <3>2, <3>3, OneRule, LastOne DEF r
  <2> QED
      BY <2>2, <2>3
<1> DEFINE a == <<PfDNS(c, 4)>>
           b == <<PfDNS(c, 6)>>
           s == a \o b
<1>2. a \in Seq(Rule) /\ (Caught(a, p) <=> Fam[p.dst] = 4 /\ Asked(c, p)) /\ (QuickHit(a, p) <=> Caught(a, p) /\ c.blockUDP)
      /\ PfMatch(a, p) = IF Caught(a, p) THEN "lo0" ELSE "pass"
  <2>1. 4 \in {4, 6}
      OBVIOUS
  <2> QED
      BY <1>1, <2>1
<1>3. b \in Seq(Rule) /\ (Caught(b, p) <=> Fam[p.dst] = 6 /\ Asked(c, p)) /\ (QuickHit(b, p) <=> Caught(b, p) /\ c.blockUDP)
      /\ PfMatch(b, p) = IF Caught(b, p) THEN "lo0" ELSE "pass"
  <2>1. 6 \in {4, 6}
      OBVIOUS
  <2> QED
      BY <1>1, <2>1
<1>4. Fam[p.dst] = 4 \/ Fam[p.dst] = 6
    BY PacketIs
<1> HIDE DEF a, b
<1>5. s \in Seq(Rule) /\ (Caught(s, p) <=> Asked(c, p)) /\ (QuickHit(s, p) <=> Asked(c, p) /\ c.blockUDP)
    BY <1>2, <1>3, <1>4, FirstJoin
<1>6. PfMatch(s, p) = IF Asked(c, p) THEN "lo0" ELSE "pass"
    BY <1>2, <1>3, <1>4, LastJoin
<1> QED
    BY <1>5, <1>6 DEF a, b

LEMMA PfExcludedIs ==
    ASSUME NEW c \in Config, NEW p \in Packets
    PROVE  LET s == <<PfExcluded(c, 4)>> \o <<PfExcluded(c, 6)>> IN
           /\ s \in Seq(Rule)
           /\ Caught(s, p) <=> p.proto = "tcp" /\ p.dst \in c.excludes
           /\ ~QuickHit(s, p) /\ PfMatch(s, p) = "pass"
<1>1. ASSUME NEW f \in {4, 6}
      PROVE  /\ <<PfExcluded(c, f)>> \in Seq(Rule)
             /\ Caught(<<PfExcluded(c, f)>>, p) <=> p.proto = "tcp" /\ Fam[p.dst] = f /\ p.dst \in c.excludes
             /\ ~QuickHit(<<PfExcluded(c, f)>>, p) /\ PfMatch(<<PfExcluded(c, f)>>, p) = "pass"
  <2> DEFINE r == PfExcluded(c, f)
  <2>0. OfFamily(c.excludes, f) \in SUBSET Addr /\ "pass" \in Acts /\ Anyone \in SUBSET BOOLEAN /\ Ports \in SUBSET Ports
      BY RuleSets DEF Acts
  <2>1. PICK P \in SUBSET Protos : P = {"tcp"}
      BY RuleSets, ZenonT(60)
  <2>2. r = [net |-> OfFamily(c.excludes, f), proto |-> P, ports |-> Ports, who |-> Anyone, act |-> "pass", quick |-> FALSE]
      BY <2>1 DEF PfExcluded, On
  <2> HIDE DEF r
  <2>3. r.act = "pass" /\ ~r.quick /\ (Matches(r, p) <=> p.proto = "tcp" /\ Fam[p.dst] = f /\ p.dst \in c.excludes)
      BY <2>1, <2>2, PacketIs DEF Matches, OfFamily
  <2>4. r \in Rule
      BY <2>0, <2>2 DEF Rule
  <2> QED
      BY <2>3, <2>4, OneRule, LastOne DEF r
<1> DEFINE a == <<PfExcluded(c, 4)>>
           b == <<PfExcluded(c, 6)>>
           s == a \o b
<1>2. a \in Seq(Rule) /\ (Caught(a, p) <=> p.proto = "tcp" /\ Fam[p.dst] = 4 /\ p.dst \in c.excludes) /\ ~QuickHit(a, p)
      /\ PfMatch(a, p) = "pass"
  <2>1. 4 \in {4, 6}
      OBVIOUS
  <2> QED
      BY <1>1, <2>1
<1>3. b \in Seq(Rule) /\ (Caught(b, p) <=> p.proto = "tcp" /\ Fam[p.dst] = 6 /\ p.dst \in c.excludes) /\ ~QuickHit(b, p)
      /\ PfMatch(b, p) = "pass"
  <2>1. 6 \in {4, 6}
      OBVIOUS
  <2> QED
      BY <1>1, <2>1
<1>4. Fam[p.dst] = 4 \/ Fam[p.dst] = 6
    BY PacketIs
<1> HIDE DEF a, b
<1>5. s \in Seq(Rule) /\ (Caught(s, p) <=> p.proto = "tcp" /\ p.dst \in c.excludes) /\ ~QuickHit(s, p)
    BY <1>2, <1>3, <1>4, FirstJoin
<1>6. PfMatch(s, p) = "pass"
    BY <1>2, <1>3, LastJoin
<1> QED
    BY <1>5, <1>6 DEF a, b

LEMMA PfBlockIPv6Is ==
    ASSUME NEW c \in Config, NEW p \in Packets
    PROVE  LET s == If(c.blockIPv6, PfBlockIPv6) IN
           /\ s \in Seq(Rule)
           /\ Caught(s, p) <=> c.blockIPv6 /\ Fam[p.dst] = 6
           /\ QuickHit(s, p) <=> c.blockIPv6 /\ Fam[p.dst] = 6
           /\ PfMatch(s, p) = IF Blocked(c, p) THEN "block" ELSE "pass"
<1> DEFINE x == Quick(LinkLocal, Protos, Ports, Anyone, "pass")
           y == Quick(OfFamily(Addr, 6), Protos, Ports, Anyone, "block")
           s == If(c.blockIPv6, PfBlockIPv6)
<1>0. "pass" \in Acts /\ "block" \in Acts /\ OfFamily(Addr, 6) \in SUBSET Addr /\ LinkLocal \in SUBSET Addr
      /\ Protos \in SUBSET Protos /\ Ports \in SUBSET Ports /\ Anyone \in SUBSET BOOLEAN
      /\ (p.dst \in LinkLocal => Fam[p.dst] = 6)
    BY RuleSets, CaptureAssumption DEF Acts
<1>1. x = [net |-> LinkLocal, proto |-> Protos, ports |-> Ports, who |-> Anyone, act |-> "pass", quick |-> TRUE]
    BY DEF Quick
<1>2. y = [net |-> OfFamily(Addr, 6), proto |-> Protos, ports |-> Ports, who |-> Anyone, act |-> "block", quick |-> TRUE]
    BY DEF Quick
<1>3. PfBlockIPv6 = <<x>> \o <<y>>
    BY Pair DEF PfBlockIPv6
<1> HIDE DEF x, y
<1>4. x \in Rule /\ y \in Rule
    BY <1>0, <1>1, <1>2 DEF Rule
<1>5. x.act = "pass" /\ x.quick /\ (Matches(x, p) <=> p.dst \in LinkLocal)
    BY <1>1, PacketIs DEF Matches
<1>6. y.act = "block" /\ y.quick /\ (Matches(y, p) <=> Fam[p.dst] = 6)
    BY <1>2, PacketIs DEF Matches, OfFamily
<1>7. /\ <<x>> \in Seq(Rule) /\ <<y>> \in Seq(Rule)
      /\ (Caught(<<x>>, p) <=> p.dst \in LinkLocal) /\ (QuickHit(<<x>>, p) <=> p.dst \in LinkLocal)
      /\ (Caught(<<y>>, p) <=> Fam[p.dst] = 6) /\ (QuickHit(<<y>>, p) <=> Fam[p.dst] = 6)
    BY <1>4, <1>5, <1>6, OneRule
<1>8. PfMatch(<<x>>, p) = "pass" /\ PfMatch(<<y>>, p) = IF Fam[p.dst] = 6 THEN "block" ELSE "pass"
    BY <1>4, <1>5, <1>6, LastOne
<1>9. PfBlockIPv6 \in Seq(Rule) /\ (Caught(PfBlockIPv6, p) <=> Fam[p.dst] = 6) /\ (QuickHit(PfBlockIPv6, p) <=> Fam[p.dst] = 6)
    BY <1>0, <1>3, <1>7, FirstJoin
<1>10. PfMatch(PfBlockIPv6, p) = IF p.dst \in LinkLocal \/ Fam[p.dst] # 6 THEN "pass" ELSE "block"
    BY <1>0, <1>3, <1>7, <1>8, LastJoin, ZenonT(60)
<1>11. CASE c.blockIPv6
    BY <1>9, <1>10, <1>11 DEF If, Blocked
<1>12. CASE ~c.blockIPv6
    BY <1>12, NoRules, LastNone DEF If, Blocked
<1> QED
    BY <1>11, <1>12

\* What pf's filter does with a packet.
Filtered(c, p) ==
    IF p.proto = "tcp"
    THEN IF c.blockIPv6 /\ Fam[p.dst] = 6 THEN IF Blocked(c, p) THEN "block" ELSE "pass"
         ELSE IF p.dst \in c.excludes \/ p.own \/ ~PfServed(c, p) THEN "pass" ELSE "lo0"
    ELSE IF c.blockUDP THEN IF Asked(c, p) THEN "lo0" ELSE IF Passing(c, p) THEN "pass" ELSE "block"
         ELSE IF c.blockIPv6 /\ Fam[p.dst] = 6 THEN IF Blocked(c, p) THEN "block" ELSE "pass"
         ELSE IF Asked(c, p) THEN "lo0" ELSE "pass"

LEMMA FilterIs ==
    ASSUME NEW c \in Config, NEW p \in Packets
    PROVE  /\ BuildPfRules(c).filter \in Seq(Rule)
           /\ PfMatch(BuildPfRules(c).filter, p) = Filtered(c, p)
<1> DEFINE f1 == PfSubnets(c, 4, "lo0", {FALSE}) \o PfSubnets(c, 6, "lo0", {FALSE})
           f2 == <<PfDNS(c, 4)>> \o <<PfDNS(c, 6)>>
           f3 == <<PfExcluded(c, 4)>> \o <<PfExcluded(c, 6)>>
           f4 == If(c.blockUDP, PfBlockUDP(c))
           f5 == If(c.blockIPv6, PfBlockIPv6)
           tcp == p.proto = "tcp"
           six == c.blockIPv6 /\ Fam[p.dst] = 6
           out == p.dst \in c.excludes
           served == ~p.own /\ PfServed(c, p)
           asked == Asked(c, p)
           quiet == c.blockUDP
           pass == Passing(c, p)
           blocked == Blocked(c, p)
<1>1. BuildPfRules(c).filter = (((f1 \o f2) \o f3) \o f4) \o f5
    BY DEF BuildPfRules, Both
<1>2. f1 \in Seq(Rule) /\ (Caught(f1, p) <=> served) /\ ~QuickHit(f1, p) /\ PfMatch(f1, p) = IF served THEN "lo0" ELSE "pass"
  <2>1. PICK who \in SUBSET BOOLEAN : who = {FALSE}
      BY RuleSets, ZenonT(60)
  <2>2. "lo0" \in Acts /\ (p.own \in who <=> ~p.own)
      BY <2>1, PacketIs DEF Acts
  <2> DEFINE s == PfSubnets(c, 4, "lo0", who) \o PfSubnets(c, 6, "lo0", who)
             hit == p.own \in who /\ PfServed(c, p)
  <2>3. s \in Seq(Rule) /\ (Caught(s, p) <=> hit) /\ ~QuickHit(s, p) /\ PfMatch(s, p) = IF hit THEN "lo0" ELSE "pass"
      BY <2>2, PfPairIs
  <2>4. f1 = s
      BY <2>1
  <2> HIDE DEF s, f1
  <2> QED
      BY <2>2, <2>3, <2>4
<1>3. f2 \in Seq(Rule) /\ (Caught(f2, p) <=> asked) /\ (QuickHit(f2, p) <=> asked /\ quiet)
      /\ PfMatch(f2, p) = IF asked THEN "lo0" ELSE "pass"
    BY PfDNSIs
<1>4. f3 \in Seq(Rule) /\ (Caught(f3, p) <=> tcp /\ out) /\ ~QuickHit(f3, p) /\ PfMatch(f3, p) = "pass"
    BY PfExcludedIs
<1>5. f4 \in Seq(Rule) /\ (Caught(f4, p) <=> quiet /\ ~tcp) /\ (QuickHit(f4, p) <=> quiet /\ ~tcp)
      /\ PfMatch(f4, p) = IF quiet /\ ~tcp /\ ~pass THEN "block" ELSE "pass"
  <2>1. p.proto = "udp" <=> ~tcp
      BY PacketIs
  <2>2. CASE quiet
      BY <2>1, <2>2, BlockUDPIs DEF If
  <2>3. CASE ~quiet
      BY <2>3, NoRules, LastNone DEF If
  <2> QED
      BY <2>2, <2>3
<1>6. f5 \in Seq(Rule) /\ (Caught(f5, p) <=> six) /\ (QuickHit(f5, p) <=> six)
      /\ PfMatch(f5, p) = IF blocked THEN "block" ELSE "pass"
    BY PfBlockIPv6Is
<1>7. (asked => ~tcp) /\ (served => tcp) /\ (blocked => six)
    BY PacketIs DEF Asked, PfServed, Blocked
<1>8. Filtered(c, p) =
        IF tcp
        THEN IF six THEN IF blocked THEN "block" ELSE "pass"
             ELSE IF out \/ ~served THEN "pass" ELSE "lo0"
        ELSE IF quiet THEN IF asked THEN "lo0" ELSE IF pass THEN "pass" ELSE "block"
             ELSE IF six THEN IF blocked THEN "block" ELSE "pass"
             ELSE IF asked THEN "lo0" ELSE "pass"
    BY DEF Filtered
<1> HIDE DEF f1, f2, f3, f4, f5, tcp, six, out, served, asked, quiet, pass, blocked
<1> DEFINE a == f1 \o f2
           b == a \o f3
           d == b \o f4
<1>9. a \in Seq(Rule) /\ (Caught(a, p) <=> served \/ asked) /\ (QuickHit(a, p) <=> asked /\ quiet)
    BY <1>2, <1>3, FirstJoin
<1>10. PfMatch(a, p) = IF served \/ asked THEN "lo0" ELSE "pass"
    BY <1>2, <1>3, LastJoin
<1> HIDE DEF a
<1>11. b \in Seq(Rule) /\ (Caught(b, p) <=> served \/ asked \/ (tcp /\ out)) /\ (QuickHit(b, p) <=> asked /\ quiet)
    BY <1>4, <1>9, FirstJoin
<1>12. PfMatch(b, p) = IF (served /\ ~out) \/ asked THEN "lo0" ELSE "pass"
    BY <1>4, <1>7, <1>9, <1>10, LastJoin
<1> HIDE DEF b
<1>13. d \in Seq(Rule) /\ (QuickHit(d, p) <=> quiet /\ ~tcp)
    BY <1>5, <1>7, <1>11, FirstJoin
<1>14. PfMatch(d, p) = IF quiet /\ ~tcp THEN IF asked THEN "lo0" ELSE IF pass THEN "pass" ELSE "block"
                       ELSE IF (served /\ ~out) \/ asked THEN "lo0" ELSE "pass"
    BY <1>5, <1>7, <1>11, <1>12, LastJoin
<1> HIDE DEF d
<1>15. d \o f5 \in Seq(Rule)
    BY <1>6, <1>13, FirstJoin
<1>16. PfMatch(d \o f5, p) = IF (quiet /\ ~tcp) \/ ~six THEN PfMatch(d, p) ELSE IF blocked THEN "block" ELSE "pass"
    BY <1>6, <1>13, LastJoin
<1>17. PfMatch(d \o f5, p) = Filtered(c, p)
    BY <1>7, <1>8, <1>14, <1>16
<1> QED
    BY <1>1, <1>15, <1>17 DEF a, b, d

\* DNS servers that the rules reach.
NamesRouted ==
    \A c \in Given :
        /\ c.blockIPv6 => c.dns \intersect LinkLocal = {}
        /\ Methods \intersect {"tproxy-nft", "tproxy-ipt"} # {} /\ ~c.blockIPv6 /\ OfFamily(c.dns, 6) # {}
              => SplitByFamily(c.subnets, 6) # <<>>

\* Of the arguments of a start.
LEMMA GivenServes ==
    ASSUME NEW c \in Given, NEW p \in Packets
    PROVE  /\ c \in Config
           /\ Served(c, p) => ~Blocked(c, p) /\ PfServed(c, p) /\ (c.blockIPv6 => Fam[p.dst] = 4)
           /\ p.dst \in LinkLocal => Fam[p.dst] = 6 /\ (c.blockIPv6 \/ p.dst \in c.excludes)
<1>1. c \in Config /\ c.subnets \in Seq(SubnetRule) /\ DOMAIN c.subnets = 1..Len(c.subnets)
    BY GivenFine DEF Config
<1>2. p.dst \in LinkLocal => Fam[p.dst] = 6 /\ (c.blockIPv6 \/ p.dst \in c.excludes)
    BY GivenFine, CaptureAssumption
<1>3. ASSUME Served(c, p) PROVE PfServed(c, p) /\ (c.blockIPv6 => Fam[p.dst] = 4)
  <2>1. PICK i \in 1..Len(c.subnets) : p.dst \in c.subnets[i].net /\ p.dport \in PortExpr(c.subnets[i])
      BY <1>1, <1>3 DEF Served, InSubnets
  <2>2. p.dport \in PfPortExpr(c.subnets[i])
      BY <2>1 DEF PortExpr, PfPortExpr
  <2>3. c.blockIPv6 => OfFam(4, c.subnets[i])
      BY <1>1, GivenFine
  <2> QED
      BY <1>1, <1>3, <2>1, <2>2, <2>3 DEF PfServed, Served, OfFam
<1> QED
    BY <1>1, <1>2, <1>3 DEF Blocked

LEMMA PfKeepsPromise ==
    ASSUME NamesRouted, NEW c \in Given, NEW p \in Packets
    PROVE  Promised("pf", c, p, PfVerdict(BuildPfRules(c), p))
<1> DEFINE v == PfVerdict(BuildPfRules(c), p)
           rdr == IF PfServed(c, p) THEN "proxy" ELSE IF Asked(c, p) THEN "dns" ELSE "return"
<1>1. c \in Config /\ (Served(c, p) => ~Blocked(c, p) /\ PfServed(c, p) /\ (c.blockIPv6 => Fam[p.dst] = 4))
      /\ (p.dst \in LinkLocal => Fam[p.dst] = 6 /\ (c.blockIPv6 \/ p.dst \in c.excludes))
    BY GivenServes
<1>2. v = CASE Filtered(c, p) = "lo0" -> IF rdr = "return" THEN "lost" ELSE rdr
            [] Filtered(c, p) = "block" -> "reject"
            [] OTHER -> "direct"
    BY <1>1, FilterIs, RdrIs DEF PfVerdict
<1>3. c.blockIPv6 /\ p.dst \in c.dns => p.dst \notin LinkLocal
    BY DEF NamesRouted
<1>4. p.proto = "udp" <=> p.proto # "tcp"
    BY PacketIs
<1>e. Exempt("pf", c, p) <=> p.own \/ p.dst \in c.excludes
    BY DEF Exempt
<1> HIDE DEF v
<1>5. p.proto = "tcp" /\ Exempt("pf", c, p) => v = IF Blocked(c, p) THEN "reject" ELSE "direct"
    BY <1>1, <1>2, <1>e DEF Filtered, Blocked
<1>6. p.proto = "tcp" /\ ~Exempt("pf", c, p) /\ InSubnets(c, p) => v = "proxy"
  <2> SUFFICES ASSUME p.proto = "tcp", ~Exempt("pf", c, p), InSubnets(c, p) PROVE v = "proxy"
      OBVIOUS
  <2>1. Served(c, p)
      BY DEF Served
  <2>2. Filtered(c, p) = "lo0"
      BY <1>1, <1>e, <2>1 DEF Filtered
  <2> QED
      BY <1>1, <1>2, <2>1, <2>2
<1>7. p.proto = "udp" /\ ~Exempt("pf", c, p) /\ p.dport = 53 /\ p.dst \in c.dns
           => v = "dns" \/ (v = "reject" /\ Blocked(c, p))
  <2> SUFFICES ASSUME p.proto = "udp", p.dport = 53, p.dst \in c.dns PROVE v = "dns" \/ (v = "reject" /\ Blocked(c, p))
      OBVIOUS
  <2>1. Asked(c, p) /\ ~PfServed(c, p) /\ p.proto # "tcp"
      BY <1>4 DEF Asked, PfServed
  <2>2. c.blockIPv6 /\ Fam[p.dst] = 6 => Blocked(c, p)
      BY <1>3 DEF Blocked
  <2>3. Filtered(c, p) = "lo0" \/ (Filtered(c, p) = "block" /\ Blocked(c, p))
      BY <2>1, <2>2 DEF Filtered
  <2> QED
      BY <1>2, <2>1, <2>3
<1>8. Blocked(c, p) /\ ~PassedUDP("pf", c, p) => v # "direct"
  <2> SUFFICES ASSUME Blocked(c, p), ~PassedUDP("pf", c, p) PROVE Filtered(c, p) \in {"lo0", "block"}
      BY <1>2
  <2>1. c.blockIPv6 /\ Fam[p.dst] = 6
      BY DEF Blocked
  <2>2. p.proto # "tcp" /\ c.blockUDP => ~Passing(c, p)
      BY <1>4, <2>1 DEF PassedUDP, Passing
  <2> QED
      BY <2>1, <2>2 DEF Filtered
<1>9. p.proto = "tcp" /\ p.dst \in LinkLocal => v = "direct"
    BY <1>1, <1>2 DEF Filtered, Blocked
<1>10. c.blockUDP /\ p.proto = "udp" /\ ~p.own /\ p.dport \notin {53, 67, 547} => v = "reject"
    BY <1>2, <1>4 DEF Filtered, Passing, Asked
<1> QED
    BY <1>5, <1>6, <1>7, <1>8, <1>9, <1>10 DEF Promised, v

(***************************************************************************)
(* The second half is about the host: a script leads each object from what *)
(* it holds to what Setup wants it to hold, whatever an earlier run left.  *)
(* LeadsInv says so of the commands that are still to run, as long as none *)
(* that is checked has failed; with none left the objects hold it.         *)
(***************************************************************************)
\* What an object holds, and how many jumps lead to it or whether the route is there.
At(rules, count) == [rules |-> rules, count |-> count]
Nothing == At(Gone, 0)
StateOf(o) == CASE o = "table" -> At(host.table, 0)
                [] o \in Chains -> At(host.chain[o], host.jumps[o])
                [] o \in Policies -> At(Gone, IF o \in host.policy THEN 1 ELSE 0)

\* What a command makes of an object of at most one jump.
Do(x, o, a) ==
    CASE x.op = "tableDel" /\ o = "table" -> Nothing
      [] x.op = "tableLoad" /\ o = "table" ->
            At(IF a.rules = Gone THEN x.arg ELSE [k \in DOMAIN a.rules |-> a.rules[k] \o x.arg[k]], a.count)
      [] x.op = "newChain" /\ o = x.obj -> At(IF a.rules = Gone THEN <<>> ELSE a.rules, a.count)
      [] x.op = "jump" /\ o = x.obj -> At(a.rules, IF a.rules = Gone THEN a.count ELSE a.count + 1)
      [] x.op = "append" /\ o = x.obj -> At(IF a.rules = Gone THEN Gone ELSE Append(a.rules, x.arg), a.count)
      [] x.op = "policyAdd" /\ o = x.obj -> At(a.rules, 1)
      [] x.op \in {"dropChain", "policyDel"} /\ o = x.obj -> Nothing
      [] OTHER -> a

\* Where the commands of a list take an object that is in state a.
Leads(s, o, a, b) ==
    \E f : /\ f[0] = a /\ f[Len(s)] = b
           /\ \A i \in 1..Len(s) : f[i] = Do(s[i], o, f[i - 1])

LEMMA LeadsIdle ==
    ASSUME NEW s, \E S : s \in Seq(S), NEW o, NEW a, \A i \in 1..Len(s) : Do(s[i], o, a) = a
    PROVE  Leads(s, o, a, a)
<1> DEFINE f == [i \in 0..Len(s) |-> a]
<1>1. Len(s) \in Nat
    OBVIOUS
<1>2. \A i \in 0..Len(s) : f[i] = a
    OBVIOUS
<1> HIDE DEF f
<1>3. 0 \in 0..Len(s) /\ Len(s) \in 0..Len(s) /\ \A i \in 1..Len(s) : i \in 0..Len(s) /\ i - 1 \in 0..Len(s)
    BY <1>1
<1>4. f[0] = a /\ f[Len(s)] = a
    BY <1>2, <1>3
<1>5. \A i \in 1..Len(s) : f[i] = Do(s[i], o, f[i - 1])
  <2> TAKE i \in 1..Len(s)
  <2>1. f[i] = a /\ f[i - 1] = a
      BY <1>2, <1>3
  <2> QED
      BY <2>1
<1> QED
    BY <1>4, <1>5 DEF Leads

LEMMA LeadsOne ==
    ASSUME NEW x, NEW o, NEW a
    PROVE  Leads(<<x>>, o, a, Do(x, o, a))
<1> DEFINE b == Do(x, o, a)
           f == [i \in 0..1 |-> IF i = 0 THEN a ELSE b]
           s == <<x>>
<1>1. Len(s) = 1 /\ s[1] = x
    OBVIOUS
<1>2. f[0] = a /\ f[1] = b /\ b = Do(x, o, a)
    OBVIOUS
<1> HIDE DEF s, f, b
<1>3. \A i \in 1..Len(s) : f[i] = Do(s[i], o, f[i - 1])
  <2> TAKE i \in 1..Len(s)
  <2>1. i = 1 /\ i - 1 = 0
      BY <1>1
  <2> QED
      BY <1>1, <1>2, <2>1
<1>4. Leads(s, o, a, b)
    BY <1>1, <1>2, <1>3 DEF Leads
<1> QED
    BY <1>4 DEF s, b

LEMMA LeadsJoin ==
    ASSUME NEW s, NEW t, \E S : s \in Seq(S), \E T : t \in Seq(T), NEW o, NEW a, NEW b, NEW d,
           Leads(s, o, a, b), Leads(t, o, b, d)
    PROVE  Leads(s \o t, o, a, d)
<1> DEFINE u == s \o t
<1>1. /\ Len(s) \in Nat /\ Len(t) \in Nat /\ Len(u) = Len(s) + Len(t)
      /\ \A i \in 1..Len(s) : i \in 1..Len(u) /\ u[i] = s[i]
      /\ \A i \in 1..Len(t) : Len(s) + i \in 1..Len(u) /\ u[Len(s) + i] = t[i]
      /\ \A i \in 1..Len(u) : i \in 1..Len(s) \/ i - Len(s) \in 1..Len(t)
    BY Lists
<1> HIDE DEF u
<1>2. PICK f : f[0] = a /\ f[Len(s)] = b /\ \A i \in 1..Len(s) : f[i] = Do(s[i], o, f[i - 1])
    BY DEF Leads
<1>3. PICK g : g[0] = b /\ g[Len(t)] = d /\ \A i \in 1..Len(t) : g[i] = Do(t[i], o, g[i - 1])
    BY DEF Leads
<1> DEFINE h == [i \in 0..Len(u) |-> IF i <= Len(s) THEN f[i] ELSE g[i - Len(s)]]
<1>4. \A i \in 0..Len(s) : h[i] = f[i]
    BY <1>1
<1>5. \A i \in 0..Len(t) : h[Len(s) + i] = g[i]
  <2> TAKE i \in 0..Len(t)
  <2>1. CASE i = 0
      BY <1>1, <1>2, <1>3, <2>1
  <2>2. CASE i # 0
    <3>1. Len(s) + i \in 0..Len(u) /\ ~(Len(s) + i <= Len(s)) /\ (Len(s) + i) - Len(s) = i
        BY <1>1, <2>2
    <3> QED
        BY <3>1
  <2> QED
      BY <2>1, <2>2
<1> HIDE DEF h
<1>6. h[0] = a /\ h[Len(u)] = d
  <2>1. 0 \in 0..Len(s) /\ Len(t) \in 0..Len(t)
      BY <1>1
  <2> QED
      BY <1>1, <1>2, <1>3, <1>4, <1>5, <2>1
<1>7. \A i \in 1..Len(u) : h[i] = Do(u[i], o, h[i - 1])
  <2> TAKE i \in 1..Len(u)
  <2>1. CASE i \in 1..Len(s)
    <3>1. i \in 0..Len(s) /\ i - 1 \in 0..Len(s)
        BY <1>1, <2>1
    <3>2. h[i] = f[i] /\ h[i - 1] = f[i - 1] /\ u[i] = s[i]
        BY <1>1, <1>4, <2>1, <3>1
    <3> QED
        BY <1>2, <2>1, <3>2
  <2>2. CASE i - Len(s) \in 1..Len(t)
    <3>1. PICK k \in 1..Len(t) : k = i - Len(s)
        BY <2>2
    <3>2. k \in 0..Len(t) /\ k - 1 \in 0..Len(t) /\ i = Len(s) + k /\ i - 1 = Len(s) + (k - 1)
        BY <1>1, <3>1
    <3>3. h[i] = g[k] /\ h[i - 1] = g[k - 1] /\ u[i] = t[k]
        BY <1>1, <1>5, <3>1, <3>2
    <3> QED
        BY <1>3, <3>1, <3>3
  <2> QED
      BY <1>1, <2>1, <2>2
<1> QED
    BY <1>6, <1>7 DEF Leads, u

LEMMA LeadsTail ==
    ASSUME NEW s, \E S : s \in Seq(S), s # <<>>, NEW o, NEW a, NEW b, Leads(s, o, a, b)
    PROVE  Leads(Tail(s), o, Do(Head(s), o, a), b)
<1> DEFINE t == Tail(s)
           x == Head(s)
<1>1. /\ Len(s) \in Nat /\ Len(s) > 0 /\ x = s[1] /\ Len(t) = Len(s) - 1
      /\ \A i \in 1..Len(t) : t[i] = s[i + 1] /\ i + 1 \in 1..Len(s)
    BY HeadTail
<1> HIDE DEF t, x
<1>2. PICK f : f[0] = a /\ f[Len(s)] = b /\ \A i \in 1..Len(s) : f[i] = Do(s[i], o, f[i - 1])
    BY DEF Leads
<1> DEFINE g == [i \in 0..Len(t) |-> f[i + 1]]
<1>3. \A i \in 0..Len(t) : g[i] = f[i + 1]
    OBVIOUS
<1> HIDE DEF g
<1>4. 1 \in 1..Len(s) /\ 1 - 1 = 0 /\ 0 + 1 = 1 /\ 0 \in 0..Len(t) /\ Len(t) \in 0..Len(t) /\ Len(t) + 1 = Len(s)
    BY <1>1
<1>5. f[1] = Do(s[1], o, f[1 - 1])
    BY <1>2, <1>4
<1>6. g[0] = Do(x, o, a)
    BY <1>1, <1>2, <1>3, <1>4, <1>5
<1>7. g[Len(t)] = b
    BY <1>2, <1>3, <1>4
<1>8. \A i \in 1..Len(t) : g[i] = Do(t[i], o, g[i - 1])
  <2> TAKE i \in 1..Len(t)
  <2>1. i \in 0..Len(t) /\ i - 1 \in 0..Len(t) /\ (i - 1) + 1 = i /\ (i + 1) - 1 = i /\ i + 1 \in 1..Len(s)
      BY <1>1
  <2>2. g[i] = f[i + 1] /\ g[i - 1] = f[i] /\ t[i] = s[i + 1]
      BY <1>1, <1>3, <2>1
  <2>3. f[i + 1] = Do(s[i + 1], o, f[(i + 1) - 1])
      BY <1>2, <2>1
  <2> QED
      BY <2>1, <2>2, <2>3
<1> QED
    BY <1>6, <1>7, <1>8 DEF Leads, t, x

LEMMA LeadsDone ==
    ASSUME NEW o, NEW a, NEW b, Leads(<<>>, o, a, b)
    PROVE  a = b
<1>1. Len(<<>>) = 0
    OBVIOUS
<1> QED
    BY <1>1 DEF Leads

\* A list that only removes, and removes the object.
LEMMA LeadsNowhere ==
    ASSUME NEW s, \E S : s \in Seq(S), NEW o, NEW a, NEW R, R \subseteq 1..Len(s), R # {},
           \A i \in 1..Len(s) : \A d : Do(s[i], o, d) = IF i \in R THEN Nothing ELSE d
    PROVE  Leads(s, o, a, Nothing)
<1> DEFINE f == [i \in 0..Len(s) |-> IF \E j \in R : j <= i THEN Nothing ELSE a]
<1>1. Len(s) \in Nat
    OBVIOUS
<1>2. \A i \in 0..Len(s) : f[i] = IF \E j \in R : j <= i THEN Nothing ELSE a
    OBVIOUS
<1> HIDE DEF f
<1>3. f[0] = a
    BY <1>1, <1>2
<1>4. f[Len(s)] = Nothing
  <2>1. PICK j \in R : TRUE
      OBVIOUS
  <2>2. j \in 1..Len(s)
      OBVIOUS
  <2>3. j <= Len(s) /\ Len(s) \in 0..Len(s)
      BY <1>1, <2>2
  <2> QED
      BY <1>2, <2>3
<1>5. ASSUME NEW i \in 1..Len(s) PROVE f[i] = Do(s[i], o, f[i - 1])
  <2>1. i \in 0..Len(s) /\ i - 1 \in 0..Len(s)
      BY <1>1
  <2>2. CASE i \in R
    <3>1. f[i] = Nothing
        BY <1>2, <2>1, <2>2
    <3> QED
        BY <2>2, <3>1
  <2>3. CASE i \notin R
    <3>1. (\E j \in R : j <= i) <=> (\E j \in R : j <= i - 1)
        BY <1>1, <2>3
    <3>2. f[i] = f[i - 1]
        BY <1>2, <2>1, <3>1
    <3> QED
        BY <2>3, <3>2
  <2> QED
      BY <2>2, <2>3
<1> QED
    BY <1>3, <1>4, <1>5 DEF Leads

\* Appending rules to a chain that is there.
LEMMA LeadsOn ==
    ASSUME NEW ch \in Chains, NEW rules \in Seq(Rule), NEW s, s = [i \in 1..Len(rules) |-> s[i]],
           \A i \in 1..Len(rules) : s[i].op = "append" /\ s[i].obj = ch /\ s[i].arg = rules[i],
           NEW r \in Seq(Rule), NEW n
    PROVE  /\ \E S : s \in Seq(S)
           /\ Leads(s, ch, At(r, n), At(r \o rules, n))
           /\ \A o, a : o # ch => Leads(s, o, a, a)
<1>1. Len(rules) \in Nat /\ Len(r) \in Nat
    OBVIOUS
<1> DEFINE S == {s[i] : i \in 1..Len(rules)}
<1>2. \A i \in 1..Len(rules) : s[i] \in S
    OBVIOUS
<1> HIDE DEF S
<1>3. s \in [1..Len(rules) -> S]
    BY <1>2
<1>4. s \in Seq(S) /\ Len(s) = Len(rules)
    BY <1>1, <1>3
<1>5. ASSUME NEW o, NEW a, o # ch PROVE Leads(s, o, a, a)
  <2>1. ch # "table"
      BY DEF Chains
  <2>2. \A i \in 1..Len(s) : Do(s[i], o, a) = a
      BY <1>4, <1>5, <2>1 DEF Do
  <2> QED
      BY <1>4, <2>2, LeadsIdle
<1> DEFINE so(i) == [j \in 1..(Len(r) + i) |-> IF j <= Len(r) THEN r[j] ELSE rules[j - Len(r)]]
           f == [i \in 0..Len(rules) |-> At(so(i), n)]
<1>6. ASSUME NEW i \in 0..Len(rules)
      PROVE  so(i) \in Seq(Rule) /\ Len(so(i)) = Len(r) + i
  <2>1. Len(r) + i \in Nat
      BY <1>1
  <2>2. \A j \in 1..(Len(r) + i) : (IF j <= Len(r) THEN r[j] ELSE rules[j - Len(r)]) \in Rule
    <3> TAKE j \in 1..(Len(r) + i)
    <3>1. CASE j <= Len(r)
        BY <1>1, <3>1
    <3>2. CASE ~(j <= Len(r))
      <4>1. j - Len(r) \in 1..Len(rules)
          BY <1>1, <3>2
      <4> QED
          BY <3>2, <4>1
    <3> QED
        BY <3>1, <3>2
  <2>3. so(i) \in [1..(Len(r) + i) -> Rule]
      BY <2>2
  <2> HIDE DEF so
  <2> QED
      BY <2>1, <2>3
<1>7. so(0) = r
  <2>1. so(0) = [j \in 1..Len(r) |-> r[j]]
      BY <1>1
  <2>2. r = [j \in 1..Len(r) |-> r[j]]
      OBVIOUS
  <2> QED
      BY <2>1, <2>2
<1>8. so(Len(rules)) = r \o rules
  <2>1. PICK u : u = r \o rules
      OBVIOUS
  <2>2. u \in Seq(Rule) /\ Len(u) = Len(r) + Len(rules)
      BY <2>1
  <2>3. \A j \in 1..(Len(r) + Len(rules)) : u[j] = IF j <= Len(r) THEN r[j] ELSE rules[j - Len(r)]
      BY <2>1
  <2>4. u = [j \in 1..(Len(r) + Len(rules)) |-> u[j]]
      BY <2>2
  <2> QED
      BY <2>1, <2>3, <2>4
<1>9. ASSUME NEW i \in 1..Len(rules) PROVE so(i) = Append(so(i - 1), rules[i])
  <2>1. i - 1 \in 0..Len(rules) /\ i \in 0..Len(rules) /\ Len(r) + i = (Len(r) + (i - 1)) + 1
      BY <1>1
  <2>2. PICK q \in Seq(Rule) : q = so(i - 1) /\ Len(q) = Len(r) + (i - 1)
      BY <1>6, <2>1
  <2>3. Append(q, rules[i]) \in Seq(Rule) /\ Len(Append(q, rules[i])) = Len(r) + i
      BY <1>1, <2>1, <2>2
  <2>4. Append(q, rules[i]) = [j \in 1..(Len(r) + i) |-> Append(q, rules[i])[j]]
      BY <2>3
  <2>5. \A j \in 1..(Len(r) + i) : Append(q, rules[i])[j] = IF j <= Len(r) THEN r[j] ELSE rules[j - Len(r)]
    <3> TAKE j \in 1..(Len(r) + i)
    <3>1. CASE j = Len(r) + i
      <4>1. Append(q, rules[i])[j] = rules[i]
          BY <1>1, <2>2, <3>1
      <4>2. ~(j <= Len(r)) /\ j - Len(r) = i
          BY <1>1, <3>1
      <4> QED
          BY <4>1, <4>2
    <3>2. CASE j # Len(r) + i
      <4>1. j \in 1..(Len(r) + (i - 1))
        <5>1. PICK k \in Nat : k = Len(r)
            BY <1>1
        <5>2. i \in Nat /\ j \in Nat /\ 1 <= j /\ j <= k + i /\ j # k + i
            BY <3>2, <5>1
        <5>3. k + (i - 1) \in Int /\ j <= k + (i - 1)
            BY <5>2
        <5>4. j \in 1..(k + (i - 1))
            BY <5>2, <5>3
        <5> QED
            BY <5>1, <5>4
      <4>2. Append(q, rules[i])[j] = q[j]
          BY <1>1, <2>2, <4>1
      <4>3. q[j] = IF j <= Len(r) THEN r[j] ELSE rules[j - Len(r)]
          BY <2>2, <4>1
      <4> QED
          BY <4>2, <4>3
    <3> QED
        BY <3>1, <3>2
  <2> QED
      BY <2>2, <2>4, <2>5
<1>10. \A i \in 0..Len(rules) : f[i] = At(so(i), n)
    OBVIOUS
<1> HIDE DEF f, so
<1>11. f[0] = At(r, n) /\ f[Len(s)] = At(r \o rules, n)
  <2>1. 0 \in 0..Len(rules) /\ Len(rules) \in 0..Len(rules)
      BY <1>1
  <2> QED
      BY <1>4, <1>7, <1>8, <1>10, <2>1
<1>12. ASSUME NEW i \in 1..Len(s) PROVE f[i] = Do(s[i], ch, f[i - 1])
  <2>1. i \in 1..Len(rules) /\ i \in 0..Len(rules) /\ i - 1 \in 0..Len(rules)
      BY <1>1, <1>4
  <2>2. f[i] = At(Append(so(i - 1), rules[i]), n) /\ f[i - 1] = At(so(i - 1), n)
      BY <1>9, <1>10, <2>1
  <2>3. so(i - 1) # Gone
      BY <1>6, <2>1, GoneAssumption
  <2>4. At(so(i - 1), n).rules = so(i - 1) /\ At(so(i - 1), n).count = n
      BY DEF At
  <2>5. Do(s[i], ch, At(so(i - 1), n)) = At(Append(so(i - 1), rules[i]), n)
      BY <2>1, <2>3, <2>4 DEF Do
  <2> QED
      BY <2>2, <2>5
<1>13. Leads(s, ch, At(r, n), At(r \o rules, n))
    BY <1>11, <1>12 DEF Leads
<1> QED
    BY <1>4, <1>5, <1>13

LEMMA AppendsLead ==
    ASSUME NEW ch \in Chains, NEW rules \in Seq(Rule), NEW r \in Seq(Rule), NEW n
    PROVE  /\ \E S : Appends(ch, rules) \in Seq(S)
           /\ Leads(Appends(ch, rules), ch, At(r, n), At(r \o rules, n))
           /\ \A o, a : o # ch => Leads(Appends(ch, rules), o, a, a)
           /\ \E S : Must(Appends(ch, rules)) \in Seq(S)
           /\ Leads(Must(Appends(ch, rules)), ch, At(r, n), At(r \o rules, n))
           /\ \A o, a : o # ch => Leads(Must(Appends(ch, rules)), o, a, a)
<1> DEFINE s == Appends(ch, rules)
           t == Must(s)
<1>1. Len(rules) \in Nat /\ DOMAIN rules = 1..Len(rules)
    OBVIOUS
<1>2. s = [i \in 1..Len(rules) |-> Append1(ch, rules[i])]
    BY <1>1 DEF Appends, Image
<1> HIDE DEF s
<1>3. t = [i \in 1..Len(rules) |-> [Append1(ch, rules[i]) EXCEPT !.checked = TRUE]]
    BY <1>2 DEF Must, Image
<1> HIDE DEF t
<1>4. s = [i \in 1..Len(rules) |-> s[i]] /\ t = [i \in 1..Len(rules) |-> t[i]]
    BY <1>2, <1>3
<1>5. \A i \in 1..Len(rules) : s[i].op = "append" /\ s[i].obj = ch /\ s[i].arg = rules[i]
    BY <1>2 DEF Append1, Cmd
<1>6. \A i \in 1..Len(rules) : t[i].op = "append" /\ t[i].obj = ch /\ t[i].arg = rules[i]
    BY <1>3 DEF Append1, Cmd
<1>7. (\E S : s \in Seq(S)) /\ Leads(s, ch, At(r, n), At(r \o rules, n)) /\ \A o, a : o # ch => Leads(s, o, a, a)
    BY <1>4, <1>5, LeadsOn
<1>8. (\E S : t \in Seq(S)) /\ Leads(t, ch, At(r, n), At(r \o rules, n)) /\ \A o, a : o # ch => Leads(t, o, a, a)
    BY <1>4, <1>6, LeadsOn
<1> QED
    BY <1>7, <1>8 DEF s, t

LEMMA LeadsIf ==
    ASSUME NEW b \in BOOLEAN, NEW s, NEW o, NEW a, NEW d, b => Leads(s, o, a, d), b => \E S : s \in Seq(S)
    PROVE  Leads(If(b, s), o, a, IF b THEN d ELSE a) /\ \E S : If(b, s) \in Seq(S)
<1>1. CASE b
    BY <1>1 DEF If
<1>2. CASE ~b
  <2>1. <<>> \in Seq({}) /\ Len(<<>>) = 0
      OBVIOUS
  <2>2. Leads(<<>>, o, a, a)
    <3>1. \E S : <<>> \in Seq(S)
        BY <2>1
    <3>2. \A i \in 1..Len(<<>>) : Do(<<>>[i], o, a) = a
        BY <2>1
    <3> QED
        BY <3>1, <3>2, LeadsIdle
  <2> QED
      BY <1>2, <2>1, <2>2 DEF If
<1> QED
    BY <1>1, <1>2

\* Making the chain and the jump to it, in either order with the rules between.
LEMMA ChainMade ==
    ASSUME NEW ch \in Chains, NEW o, NEW a
    PROVE  /\ Leads(<<Cmd("newChain", ch)>>, o, a, IF o = ch THEN At(IF a.rules = Gone THEN <<>> ELSE a.rules, a.count) ELSE a)
           /\ Leads(<<Cmd("jump", ch)>>, o, a,
                    IF o = ch THEN At(a.rules, IF a.rules = Gone THEN a.count ELSE a.count + 1) ELSE a)
<1> DEFINE x == Cmd("newChain", ch)
           y == Cmd("jump", ch)
<1>0. ch # "table"
    BY DEF Chains
<1>1. x.op = "newChain" /\ x.obj = ch /\ y.op = "jump" /\ y.obj = ch
    BY DEF Cmd
<1> HIDE DEF x, y
<1>2. Do(x, o, a) = IF o = ch THEN At(IF a.rules = Gone THEN <<>> ELSE a.rules, a.count) ELSE a
    BY <1>0, <1>1 DEF Do
<1>3. Do(y, o, a) = IF o = ch THEN At(a.rules, IF a.rules = Gone THEN a.count ELSE a.count + 1) ELSE a
    BY <1>0, <1>1 DEF Do
<1>4. Leads(<<x>>, o, a, Do(x, o, a)) /\ Leads(<<y>>, o, a, Do(y, o, a))
    BY LeadsOne
<1> QED
    BY <1>2, <1>3, <1>4 DEF x, y

LEMMA ChainRulesFine ==
    ASSUME NEW head \in {<<>>, LocalHead}, NEW c \in Config, NEW f \in {4, 6}, NEW net \in Acts, NEW dns \in Acts
    PROVE  /\ head \o <<Excluded(c, f)>> \in Seq(Rule) /\ Subnets(c, f, net) \in Seq(Rule)
           /\ <<DNSServers(c, f, dns)>> \in Seq(Rule)
<1>1. LocalReturn \in Rule /\ BypassReturn \in Rule /\ Excluded(c, f) \in Rule /\ DNSServers(c, f, dns) \in Rule
    BY RulesFine
<1>2. head \in Seq(Rule) /\ <<Excluded(c, f)>> \in Seq(Rule) /\ <<DNSServers(c, f, dns)>> \in Seq(Rule)
  <2>1. \A x, y \in Rule : <<x, y>> \in Seq(Rule) /\ <<x>> \in Seq(Rule)
      OBVIOUS
  <2>2. LocalHead \in Seq(Rule) /\ <<Excluded(c, f)>> \in Seq(Rule) /\ <<DNSServers(c, f, dns)>> \in Seq(Rule)
      BY <1>1, <2>1 DEF LocalHead
  <2>3. <<>> \in Seq(Rule)
      OBVIOUS
  <2> QED
      BY <2>2, <2>3
<1>3. Subnets(c, f, net) \in Seq(Rule)
  <2>1. Anyone \in SUBSET BOOLEAN
      BY RuleSets
  <2> QED
      BY <2>1, ImageIs DEF Alike
<1> QED
    BY <1>2, <1>3

LEMMA ChainLeads ==
    ASSUME NEW ch \in Chains, NEW head \in {<<>>, LocalHead}, NEW c \in Config, NEW f \in {4, 6},
           NEW net \in Acts, NEW dns \in Acts, NEW o, NEW a, o = ch => a = Nothing
    PROVE  /\ \E S : ChainScript(ch, head, c, f, net, dns) \in Seq(S)
           /\ Leads(ChainScript(ch, head, c, f, net, dns), o, a,
                    IF o = ch THEN At(ChainRules(head, c, f, net, dns), 1) ELSE a)
<1> DEFINE x == Cmd("newChain", ch)
           y == Cmd("jump", ch)
           he == head \o <<Excluded(c, f)>>
           nets == Subnets(c, f, net)
           one == <<DNSServers(c, f, dns)>>
           named == HasDNS(c, f)
           b == Appends(ch, he)
           m == Must(Appends(ch, nets))
           q == Appends(ch, one)
           d == If(named, q)
           xy == <<x>> \o <<y>>
           xyb == xy \o b
           xybm == xyb \o m
<1>0. he \in Seq(Rule) /\ nets \in Seq(Rule) /\ one \in Seq(Rule) /\ named \in BOOLEAN /\ <<>> \in Seq(Rule)
  <2>1. he \in Seq(Rule) /\ nets \in Seq(Rule) /\ one \in Seq(Rule)
      BY ChainRulesFine
  <2>2. named \in BOOLEAN
      BY DEF HasDNS
  <2> HIDE DEF he, nets, one, named
  <2> QED
      BY <2>1, <2>2
<1>1. ChainScript(ch, head, c, f, net, dns) = xybm \o d
  <2>1. <<x>> \o <<y>> = <<x, y>>
      BY Pair
  <2> QED
      BY <2>1 DEF ChainScript
<1>2. ChainRules(head, c, f, net, dns) = (he \o nets) \o If(named, one)
    BY DEF ChainRules
<1>3. <<x>> \in Seq({x}) /\ <<y>> \in Seq({y})
    OBVIOUS
<1>4. \A z : /\ Leads(<<x>>, o, z, IF o = ch THEN At(IF z.rules = Gone THEN <<>> ELSE z.rules, z.count) ELSE z)
             /\ Leads(<<y>>, o, z, IF o = ch THEN At(z.rules, IF z.rules = Gone THEN z.count ELSE z.count + 1) ELSE z)
    BY ChainMade
<1>5. \A r \in Seq(Rule) :
         /\ (\E S : b \in Seq(S)) /\ (\E S : m \in Seq(S)) /\ (\E S : q \in Seq(S))
         /\ Leads(b, ch, At(r, 1), At(r \o he, 1))
         /\ Leads(m, ch, At(r, 1), At(r \o nets, 1)) /\ Leads(q, ch, At(r, 1), At(r \o one, 1))
         /\ \A k, z : k # ch => Leads(b, k, z, z) /\ Leads(m, k, z, z) /\ Leads(q, k, z, z)
    BY <1>0, AppendsLead
<1> HIDE DEF x, y, he, nets, one, named, b, m, q
<1>6. (\E S : <<x>> \in Seq(S)) /\ (\E S : <<y>> \in Seq(S)) /\ (\E S : b \in Seq(S)) /\ (\E S : m \in Seq(S)) /\ (\E S : q \in Seq(S))
    BY <1>0, <1>3, <1>5
<1>7. (\E S : xy \in Seq(S)) /\ (\E S : xyb \in Seq(S)) /\ (\E S : xybm \in Seq(S)) /\ (\E S : d \in Seq(S)) /\ (\E S : xybm \o d \in Seq(S))
  <2>1. \E S : d \in Seq(S)
    <3>1. <<>> \in Seq({})
        OBVIOUS
    <3> QED
        BY <1>6, <3>1 DEF If
  <2>2. \E S : xy \in Seq(S)
      BY <1>6, Lists
  <2>3. \E S : xyb \in Seq(S)
      BY <1>6, <2>2, Lists
  <2>4. \E S : xybm \in Seq(S)
      BY <1>6, <2>3, Lists
  <2>5. \E S : xybm \o d \in Seq(S)
      BY <2>1, <2>4, Lists
  <2> QED
      BY <2>1, <2>2, <2>3, <2>4, <2>5
<1>8. CASE o # ch
  <2>1. Leads(<<x>>, o, a, a) /\ Leads(<<y>>, o, a, a) /\ Leads(b, o, a, a) /\ Leads(m, o, a, a) /\ Leads(q, o, a, a)
      BY <1>0, <1>4, <1>5, <1>8
  <2>2. Leads(d, o, a, a)
    <3>1. Leads(If(named, q), o, a, IF named THEN a ELSE a)
        BY <1>0, <1>6, <2>1, LeadsIf
    <3> QED
        BY <3>1
  <2> HIDE DEF d
  <2>3. Leads(xy, o, a, a)
      BY <1>6, <2>1, LeadsJoin
  <2> HIDE DEF xy
  <2>4. Leads(xyb, o, a, a)
      BY <1>6, <1>7, <2>1, <2>3, LeadsJoin
  <2> HIDE DEF xyb
  <2>5. Leads(xybm, o, a, a)
      BY <1>6, <1>7, <2>1, <2>4, LeadsJoin
  <2> HIDE DEF xybm
  <2>6. Leads(xybm \o d, o, a, a)
      BY <1>7, <2>2, <2>5, LeadsJoin
  <2> QED
      BY <1>1, <1>7, <1>8, <2>6
<1>9. CASE o = ch
  <2>0. a = Nothing /\ Nothing.rules = Gone /\ Nothing.count = 0 /\ Nothing = At(Gone, 0)
      BY <1>9 DEF Nothing, At
  <2>1. Leads(<<x>>, o, Nothing, At(<<>>, 0))
      BY <1>4, <1>9, <2>0
  <2>2. Leads(<<y>>, o, At(<<>>, 0), At(<<>>, 1))
    <3>1. At(<<>>, 0).rules = <<>> /\ At(<<>>, 0).count = 0 /\ <<>> # Gone
        BY <1>0, GoneAssumption DEF At
    <3>2. At(<<>>, 0).count + 1 = 1
        BY <3>1
    <3>3. PICK z : z = At(<<>>, 0)
        OBVIOUS
    <3>4. Leads(<<y>>, o, z, IF o = ch THEN At(z.rules, IF z.rules = Gone THEN z.count ELSE z.count + 1) ELSE z)
        BY <1>4
    <3>5. z.rules = <<>> /\ z.rules # Gone /\ z.count + 1 = 1
        BY <3>1, <3>2, <3>3
    <3> QED
        BY <1>9, <3>3, <3>4, <3>5
  <2>3. Leads(b, o, At(<<>>, 1), At(he, 1))
    <3>1. <<>> \o he = he
        BY <1>0
    <3>2. Leads(b, ch, At(<<>>, 1), At(<<>> \o he, 1))
        BY <1>0, <1>5
    <3> QED
        BY <1>9, <3>1, <3>2
  <2>4. Leads(m, o, At(he, 1), At(he \o nets, 1))
      BY <1>0, <1>5, <1>9
  <2>5. Leads(d, o, At(he \o nets, 1), At((he \o nets) \o If(named, one), 1))
    <3>1. he \o nets \in Seq(Rule)
        BY <1>0
    <3>2. Leads(q, o, At(he \o nets, 1), At((he \o nets) \o one, 1))
        BY <1>5, <1>9, <3>1
    <3>3. Leads(If(named, q), o, At(he \o nets, 1), IF named THEN At((he \o nets) \o one, 1) ELSE At(he \o nets, 1))
        BY <1>0, <1>6, <3>2, LeadsIf
    <3>4. (he \o nets) \o <<>> = he \o nets
        BY <3>1
    <3> QED
        BY <3>3, <3>4 DEF If
  <2> HIDE DEF d
  <2>6. Leads(xy, o, Nothing, At(<<>>, 1))
      BY <1>6, <2>1, <2>2, LeadsJoin
  <2> HIDE DEF xy
  <2>7. Leads(xyb, o, Nothing, At(he, 1))
      BY <1>6, <1>7, <2>3, <2>6, LeadsJoin
  <2> HIDE DEF xyb
  <2>8. Leads(xybm, o, Nothing, At(he \o nets, 1))
      BY <1>6, <1>7, <2>4, <2>7, LeadsJoin
  <2> HIDE DEF xybm
  <2>9. Leads(xybm \o d, o, Nothing, At((he \o nets) \o If(named, one), 1))
      BY <1>7, <2>5, <2>8, LeadsJoin
  <2> QED
      BY <1>1, <1>2, <1>7, <1>9, <2>0, <2>9
<1> QED
    BY <1>8, <1>9

LEMMA BlockLeads ==
    ASSUME NEW c \in Config, NEW o, NEW a, o = "block6" => a = Nothing
    PROVE  /\ \E S : BlockScript(c) \in Seq(S)
           /\ Leads(BlockScript(c), o, a, IF o = "block6" /\ c.blockIPv6 THEN At(BlockIPv6, 1) ELSE a)
<1> DEFINE x == Cmd("newChain", "block6")
           b == Appends("block6", BlockIPv6)
           y == Cmd("jump", "block6")
           xb == <<x>> \o b
           s == xb \o <<y>>
           end == IF o = "block6" THEN At(BlockIPv6, 1) ELSE a
<1>0. "block6" \in Chains /\ c.blockIPv6 \in BOOLEAN /\ <<>> \in Seq(Rule)
    BY DEF Chains, Config
<1>1. BlockIPv6 \in Seq(Rule)
  <2>1. "return" \in Acts /\ "reject" \in Acts
      BY DEF Acts
  <2>2. /\ OfFamily(Addr, 6) \in SUBSET Addr /\ LinkLocal \in SUBSET Addr /\ Protos \in SUBSET Protos
        /\ Ports \in SUBSET Ports /\ Anyone \in SUBSET BOOLEAN
      BY RuleSets
  <2>3. Return(LinkLocal, Anyone) \in Rule /\ On(OfFamily(Addr, 6), Protos, Ports, Anyone, "reject") \in Rule
      BY <2>1, <2>2, OnIs DEF Return
  <2>4. \A r, q \in Rule : <<r, q>> \in Seq(Rule)
      OBVIOUS
  <2> QED
      BY <2>3, <2>4 DEF BlockIPv6
<1>2. BlockScript(c) = If(c.blockIPv6, s)
    BY DEF BlockScript
<1>3. <<x>> \in Seq({x}) /\ <<y>> \in Seq({y})
    OBVIOUS
<1>4. \A z : /\ Leads(<<x>>, o, z, IF o = "block6" THEN At(IF z.rules = Gone THEN <<>> ELSE z.rules, z.count) ELSE z)
             /\ Leads(<<y>>, o, z, IF o = "block6" THEN At(z.rules, IF z.rules = Gone THEN z.count ELSE z.count + 1) ELSE z)
    BY <1>0, ChainMade
<1>5. /\ \E S : b \in Seq(S)
      /\ Leads(b, "block6", At(<<>>, 0), At(<<>> \o BlockIPv6, 0))
      /\ \A k, z : k # "block6" => Leads(b, k, z, z)
    BY <1>0, <1>1, AppendsLead
<1> HIDE DEF x, b, y
<1>6. (\E S : <<x>> \in Seq(S)) /\ (\E S : <<y>> \in Seq(S)) /\ (\E S : b \in Seq(S)) /\ (\E S : xb \in Seq(S)) /\ (\E S : s \in Seq(S))
  <2>1. (\E S : <<x>> \in Seq(S)) /\ (\E S : <<y>> \in Seq(S)) /\ (\E S : b \in Seq(S))
      BY <1>3, <1>5
  <2>2. \E S : xb \in Seq(S)
      BY <2>1, Lists
  <2> HIDE DEF xb
  <2>3. \E S : s \in Seq(S)
      BY <2>1, <2>2, Lists
  <2> QED
      BY <2>1, <2>2, <2>3
<1>7. Leads(s, o, a, end)
  <2>1. CASE o # "block6"
    <3>1. Leads(<<x>>, o, a, a) /\ Leads(<<y>>, o, a, a) /\ Leads(b, o, a, a)
        BY <1>4, <1>5, <2>1
    <3>2. Leads(xb, o, a, a)
        BY <1>6, <3>1, LeadsJoin
    <3> HIDE DEF xb
    <3>3. Leads(s, o, a, a)
        BY <1>6, <3>1, <3>2, LeadsJoin
    <3> QED
        BY <2>1, <3>3
  <2>2. CASE o = "block6"
    <3>0. a = Nothing /\ Nothing.rules = Gone /\ Nothing.count = 0 /\ Nothing = At(Gone, 0)
        BY <2>2 DEF Nothing, At
    <3>1. Leads(<<x>>, o, Nothing, At(<<>>, 0))
        BY <1>4, <2>2, <3>0
    <3>2. Leads(b, o, At(<<>>, 0), At(BlockIPv6, 0))
      <4>1. <<>> \o BlockIPv6 = BlockIPv6
          BY <1>1
      <4> QED
          BY <1>5, <2>2, <4>1
    <3>3. Leads(<<y>>, o, At(BlockIPv6, 0), At(BlockIPv6, 1))
      <4>1. PICK z : z = At(BlockIPv6, 0)
          OBVIOUS
      <4>2. Leads(<<y>>, o, z, IF o = "block6" THEN At(z.rules, IF z.rules = Gone THEN z.count ELSE z.count + 1) ELSE z)
          BY <1>4
      <4>3. z.rules = BlockIPv6 /\ z.rules # Gone /\ z.count + 1 = 1
          BY <1>1, <4>1, GoneAssumption DEF At
      <4> QED
          BY <2>2, <4>1, <4>2, <4>3
    <3>4. Leads(xb, o, Nothing, At(BlockIPv6, 0))
        BY <1>6, <3>1, <3>2, LeadsJoin
    <3> HIDE DEF xb
    <3>5. Leads(s, o, Nothing, At(BlockIPv6, 1))
        BY <1>6, <3>3, <3>4, LeadsJoin
    <3> QED
        BY <2>2, <3>0, <3>5
  <2> QED
      BY <2>1, <2>2
<1> HIDE DEF s, end
<1>8. Leads(If(c.blockIPv6, s), o, a, IF c.blockIPv6 THEN end ELSE a) /\ \E S : If(c.blockIPv6, s) \in Seq(S)
    BY <1>0, <1>6, <1>7, LeadsIf
<1> QED
    BY <1>2, <1>8 DEF end

LEMMA PolicyAdded ==
    ASSUME NEW u \in Policies, NEW w \in Policies, u # w, NEW x, NEW y, NEW o, NEW a, o \in Policies => a = Nothing
    PROVE  /\ \E S : <<AddPolicy(u, x), AddPolicy(w, y)>> \in Seq(S)
           /\ Leads(<<AddPolicy(u, x), AddPolicy(w, y)>>, o, a, IF o \in {u, w} THEN At(Gone, 1) ELSE a)
<1> DEFINE g == AddPolicy(u, x)
           h == AddPolicy(w, y)
           mid == IF o = u THEN At(Gone, 1) ELSE a
           end == IF o \in {u, w} THEN At(Gone, 1) ELSE a
<1>0. Nothing.rules = Gone
    BY DEF Nothing, At
<1>1. g.op = "policyAdd" /\ g.obj = u /\ h.op = "policyAdd" /\ h.obj = w
    BY DEF AddPolicy, Cmd
<1>2. <<g>> \in Seq({g}) /\ <<h>> \in Seq({h}) /\ <<g, h>> \in Seq({g, h})
    OBVIOUS
<1> HIDE DEF g, h
<1>3. Do(g, o, a) = mid
    BY <1>0, <1>1 DEF Do
<1>4. Do(h, o, mid) = end
  <2>1. CASE o = w
    <3>1. mid = Nothing
        BY <2>1
    <3> QED
        BY <1>0, <1>1, <2>1, <3>1 DEF Do
  <2>2. CASE o # w
      BY <1>1, <2>2 DEF Do
  <2> QED
      BY <2>1, <2>2
<1> HIDE DEF mid, end
<1>5. Leads(<<g>>, o, a, mid) /\ Leads(<<h>>, o, mid, end)
    BY <1>3, <1>4, LeadsOne
<1>6. Leads(<<g>> \o <<h>>, o, a, end)
  <2>1. (\E S : <<g>> \in Seq(S)) /\ (\E S : <<h>> \in Seq(S))
      BY <1>2
  <2> QED
      BY <1>5, <2>1, LeadsJoin
<1>7. Leads(<<g, h>>, o, a, end)
    BY <1>6, Pair
<1>8. \E S : <<g, h>> \in Seq(S)
    BY <1>2
<1> QED
    BY <1>7, <1>8 DEF g, h, end

LEMMA PolicyLeads ==
    ASSUME NEW c \in Config, NEW o, NEW a, o \in Policies => a = Nothing
    PROVE  /\ \E S : PolicyScript(c) \in Seq(S)
           /\ Leads(PolicyScript(c), o, a,
                    IF o \in {"rule4", "route4"} \/ (o \in {"rule6", "route6"} /\ SplitByFamily(c.subnets, 6) # <<>>)
                    THEN At(Gone, 1) ELSE a)
<1> DEFINE s == <<AddPolicy("rule4", <<>>), AddPolicy("route4", <<DelPolicy("rule4")>>)>>
           q == <<AddPolicy("rule6", <<>>), AddPolicy("route6", <<DelPolicy("rule6")>>)>>
           six == SplitByFamily(c.subnets, 6) # <<>>
           t == If(six, q)
           mid == IF o \in {"rule4", "route4"} THEN At(Gone, 1) ELSE a
           end == IF o \in {"rule6", "route6"} THEN At(Gone, 1) ELSE mid
<1>0. {"rule4", "route4", "rule6", "route6"} \subseteq Policies /\ six \in BOOLEAN
    BY DEF Policies
<1>1. (\E S : s \in Seq(S)) /\ Leads(s, o, a, mid)
    BY <1>0, PolicyAdded
<1>2. (\E S : q \in Seq(S)) /\ Leads(q, o, mid, end)
  <2>1. CASE o \in {"rule4", "route4"}
    <3>1. \E S : q \in Seq(S)
        BY <1>0, PolicyAdded
    <3>2. PICK S : q \in Seq(S)
        BY <3>1
    <3>3. Len(q) = 2 /\ q[1].op = "policyAdd" /\ q[2].op = "policyAdd" /\ q[1].obj = "rule6" /\ q[2].obj = "route6"
        BY DEF AddPolicy, Cmd
    <3> HIDE DEF q
    <3>4. \A i \in 1..Len(q) : q[i].op = "policyAdd" /\ q[i].obj # o
        BY <2>1, <3>3
    <3>5. \A i \in 1..Len(q) : Do(q[i], o, mid) = mid
        BY <3>4 DEF Do
    <3>6. Leads(q, o, mid, mid)
      <4> HIDE DEF mid
      <4> QED
          BY <3>1, <3>5, LeadsIdle
    <3>7. end = mid
        BY <2>1
    <3> QED
        BY <3>1, <3>6, <3>7
  <2>2. CASE o \notin {"rule4", "route4"}
    <3>1. mid = a
        BY <2>2
    <3>2. (\E S : q \in Seq(S)) /\ Leads(q, o, a, IF o \in {"rule6", "route6"} THEN At(Gone, 1) ELSE a)
        BY <1>0, PolicyAdded
    <3> QED
        BY <3>1, <3>2
  <2> QED
      BY <2>1, <2>2
<1> HIDE DEF s, q, six
<1>3. Leads(t, o, mid, IF six THEN end ELSE mid) /\ \E S : t \in Seq(S)
  <2> HIDE DEF mid, end
  <2> QED
      BY <1>0, <1>2, LeadsIf
<1>4. (IF six THEN end ELSE mid)
        = IF o \in {"rule4", "route4"} \/ (o \in {"rule6", "route6"} /\ six) THEN At(Gone, 1) ELSE a
    OBVIOUS
<1> DEFINE last == IF six THEN end ELSE mid
<1> HIDE DEF t, mid, end
<1>5. Leads(t, o, mid, last)
    BY <1>3
<1> HIDE DEF last
<1>6. Leads(s \o t, o, a, last)
    BY <1>1, <1>3, <1>5, LeadsJoin
<1>7. \E S : s \o t \in Seq(S)
    BY <1>1, <1>3, Lists
<1> QED
    BY <1>4, <1>6, <1>7 DEF PolicyScript, s, q, t, six, last

LEMMA TableLeads ==
    ASSUME NEW rules, NEW o, NEW a
    PROVE  /\ \E S : <<Cmd("tableDel", ""), Load("tableLoad", rules)>> \in Seq(S)
           /\ o \in Objects => Leads(<<Cmd("tableDel", ""), Load("tableLoad", rules)>>, o, a, IF o = "table" THEN At(rules, 0) ELSE a)
<1> DEFINE g == Cmd("tableDel", "")
           h == Load("tableLoad", rules)
           mid == IF o = "table" THEN Nothing ELSE a
           end == IF o = "table" THEN At(rules, 0) ELSE a
<1>0. Nothing.rules = Gone /\ Nothing.count = 0
    BY DEF Nothing, At
<1>1. g.op = "tableDel" /\ h.op = "tableLoad" /\ h.arg = rules
    BY DEF Load, Cmd
<1>2. <<g>> \in Seq({g}) /\ <<h>> \in Seq({h}) /\ <<g, h>> \in Seq({g, h})
    OBVIOUS
<1> HIDE DEF g, h
<1>3. Do(g, o, a) = mid
    BY <1>1 DEF Do
<1>4. Do(h, o, mid) = end
    BY <1>0, <1>1 DEF Do
<1> HIDE DEF mid, end
<1>5. Leads(<<g>>, o, a, mid) /\ Leads(<<h>>, o, mid, end)
    BY <1>3, <1>4, LeadsOne
<1>6. Leads(<<g>> \o <<h>>, o, a, end)
  <2>1. (\E S : <<g>> \in Seq(S)) /\ (\E S : <<h>> \in Seq(S))
      BY <1>2
  <2> QED
      BY <1>5, <2>1, LeadsJoin
<1>7. Leads(<<g, h>>, o, a, end)
    BY <1>6, Pair
<1>8. \E S : <<g, h>> \in Seq(S)
    BY <1>2
<1> QED
    BY <1>7, <1>8 DEF g, h, end

\* The cleanup, whatever there is.
LEMMA CleanLeads ==
    ASSUME DefaultMark, NEW o \in Objects, NEW a
    PROVE  (\E S : CleanStaleLinux \in Seq(S)) /\ Leads(CleanStaleLinux, o, a, Nothing)
<1> DEFINE s == CleanStaleLinux
           R == {i \in 1..Len(s) : Removes(s[i], o)}
<1>1. Part(s, {}, {}, Objects)
    BY CleanPart
<1> HIDE DEF s
<1>2. (\E S : s \in Seq(S)) /\ R \subseteq 1..Len(s) /\ R # {}
    BY <1>1 DEF Part, CmdList
<1>3. \A i \in 1..Len(s) : LinuxCmd(s[i]) /\ ~Makes(s[i], o) /\ (i \in R <=> Removes(s[i], o))
    BY <1>1 DEF Part, CmdList, MakesOnly
<1> HIDE DEF R
<1>4. \A i \in 1..Len(s) : \A d : Do(s[i], o, d) = IF i \in R THEN Nothing ELSE d
  <2> TAKE i \in 1..Len(s)
  <2> TAKE d
  <2> DEFINE x == s[i]
  <2>1. LinuxCmd(x) /\ ~Makes(x, o) /\ (i \in R <=> Removes(x, o))
      BY <1>3
  <2> HIDE DEF x
  <2>2. Do(x, o, d) = IF Removes(x, o) THEN Nothing ELSE d
      BY <2>1 DEF LinuxCmd, Makes, Removes, Do, Chains, Policies
  <2> QED
      BY <2>1, <2>2 DEF x
<1>5. Leads(s, o, a, Nothing)
    BY <1>2, <1>4, LeadsNowhere
<1> QED
    BY <1>2, <1>5 DEF s

\* What Setup is to leave behind.
Wanted(m, c, o) ==
    CASE o = "table" /\ m = "nft" -> At(BuildNftRules(c), 0)
      [] o = "table" /\ m = "tproxy-nft" -> At(BuildTproxyRules(c), 0)
      [] o = "nat4" /\ m = "iptables" -> At(ChainRules(LocalHead, c, 4, "proxy", "dns"), 1)
      [] o = "nat6" /\ m = "iptables" /\ UsesIPv6(c) -> At(ChainRules(LocalHead, c, 6, "proxy", "dns"), 1)
      [] o = "pre4" /\ m = "tproxy-ipt" -> At(ChainRules(<<>>, c, 4, "proxy", "dns"), 1)
      [] o = "out4" /\ m = "tproxy-ipt" -> At(ChainRules(LocalHead, c, 4, "mark", "mark"), 1)
      [] o = "pre6" /\ m = "tproxy-ipt" /\ UsesIPv6(c) -> At(ChainRules(<<>>, c, 6, "proxy", "dns"), 1)
      [] o = "out6" /\ m = "tproxy-ipt" /\ UsesIPv6(c) -> At(ChainRules(LocalHead, c, 6, "mark", "mark"), 1)
      [] o = "block6" /\ m \in {"iptables", "tproxy-ipt"} /\ c.blockIPv6 -> At(BlockIPv6, 1)
      [] o \in {"rule4", "route4"} /\ m \in {"tproxy-nft", "tproxy-ipt"} -> At(Gone, 1)
      [] o \in {"rule6", "route6"} /\ m \in {"tproxy-nft", "tproxy-ipt"} /\ SplitByFamily(c.subnets, 6) # <<>> -> At(Gone, 1)
      [] OTHER -> Nothing

LEMMA SetupLeads ==
    ASSUME NEW m \in Methods, m # "pf", NEW c \in Config, NEW o \in Objects
    PROVE  (\E S : Setup(m, c) \in Seq(S)) /\ Leads(Setup(m, c), o, Nothing, Wanted(m, c, o))
<1>0. /\ {"nat4", "nat6", "pre4", "out4", "pre6", "out6", "block6"} \subseteq Chains
      /\ LocalHead \in {<<>>, LocalHead} /\ <<>> \in {<<>>, LocalHead} /\ 4 \in {4, 6} /\ 6 \in {4, 6}
      /\ "proxy" \in Acts /\ "dns" \in Acts /\ "mark" \in Acts
    BY DEF Chains, Acts
<1>b. UsesIPv6(c) \in BOOLEAN
    BY DEF UsesIPv6
<1>1. CASE m = "nft"
  <2>1. Wanted(m, c, o) = IF o = "table" THEN At(BuildNftRules(c), 0) ELSE Nothing
      BY <1>1 DEF Wanted
  <2>2. Setup(m, c) = <<Cmd("tableDel", ""), Load("tableLoad", BuildNftRules(c))>>
      BY <1>1 DEF Setup, NftSetup
  <2> QED
      BY <2>1, <2>2, TableLeads
<1>2. CASE m = "iptables"
  <2> DEFINE r4 == At(ChainRules(LocalHead, c, 4, "proxy", "dns"), 1)
             r6 == At(ChainRules(LocalHead, c, 6, "proxy", "dns"), 1)
             rb == At(BlockIPv6, 1)
             u == ChainScript("nat4", LocalHead, c, 4, "proxy", "dns")
             v == ChainScript("nat6", LocalHead, c, 6, "proxy", "dns")
             w == BlockScript(c)
             six == UsesIPv6(c)
             a1 == IF o = "nat4" THEN r4 ELSE Nothing
             a2 == IF o = "nat6" /\ six THEN r6 ELSE a1
             a3 == IF o = "block6" /\ c.blockIPv6 THEN rb ELSE a2
  <2>1. Wanted(m, c, o) = a3
      BY <1>2 DEF Wanted
  <2>2. Setup(m, c) = (u \o If(six, v)) \o w
      BY <1>2 DEF Setup, IptSetup
  <2>3. (\E S : u \in Seq(S)) /\ Leads(u, o, Nothing, a1)
      BY <1>0, ChainLeads
  <2>4. (\E S : v \in Seq(S)) /\ Leads(v, o, a1, IF o = "nat6" THEN r6 ELSE a1)
    <3>1. o = "nat6" => a1 = Nothing
        OBVIOUS
    <3> HIDE DEF a1
    <3> QED
        BY <1>0, <3>1, ChainLeads
  <2>5. (\E S : w \in Seq(S)) /\ Leads(w, o, a2, a3)
    <3>1. o = "block6" => a2 = Nothing
        OBVIOUS
    <3> HIDE DEF a2
    <3> QED
        BY <3>1, BlockLeads
  <2> HIDE DEF r4, r6, rb, u, v, w, six, a1
  <2>6. Leads(If(six, v), o, a1, IF six THEN IF o = "nat6" THEN r6 ELSE a1 ELSE a1) /\ \E S : If(six, v) \in Seq(S)
      BY <1>b, <2>4, LeadsIf DEF six
  <2>7. Leads(If(six, v), o, a1, a2)
      BY <1>b, <2>6 DEF six
  <2> HIDE DEF a2, a3
  <2> DEFINE iv == If(six, v)
             uv == u \o iv
  <2>8. \E S : iv \in Seq(S)
      BY <2>6
  <2> HIDE DEF iv
  <2>9. Leads(uv, o, Nothing, a2) /\ \E S : uv \in Seq(S)
      BY <2>3, <2>7, <2>8, LeadsJoin, Lists DEF iv
  <2> HIDE DEF uv
  <2>10. Leads(uv \o w, o, Nothing, a3) /\ \E S : uv \o w \in Seq(S)
      BY <2>5, <2>9, LeadsJoin, Lists
  <2> QED
      BY <2>1, <2>2, <2>10 DEF uv, iv
<1>3. CASE m = "tproxy-nft"
  <2> DEFINE s == PolicyScript(c)
             t == TproxyNft(c)
             six == SplitByFamily(c.subnets, 6) # <<>>
             a1 == IF o \in {"rule4", "route4"} \/ (o \in {"rule6", "route6"} /\ six) THEN At(Gone, 1) ELSE Nothing
             a2 == IF o = "table" THEN At(BuildTproxyRules(c), 0) ELSE a1
  <2>1. Wanted(m, c, o) = a2
      BY <1>3 DEF Wanted
  <2>2. Setup(m, c) = s \o t
      BY <1>3 DEF Setup, TproxySetup
  <2>3. (\E S : s \in Seq(S)) /\ Leads(s, o, Nothing, a1)
      BY PolicyLeads
  <2>4. (\E S : t \in Seq(S)) /\ Leads(t, o, a1, a2)
    <3> HIDE DEF a1
    <3> QED
        BY TableLeads DEF TproxyNft
  <2> HIDE DEF s, t, a1, a2
  <2> QED
      BY <2>1, <2>2, <2>3, <2>4, LeadsJoin, Lists
<1>4. CASE m = "tproxy-ipt"
  <2> DEFINE p4 == At(ChainRules(<<>>, c, 4, "proxy", "dns"), 1)
             o4 == At(ChainRules(LocalHead, c, 4, "mark", "mark"), 1)
             p6 == At(ChainRules(<<>>, c, 6, "proxy", "dns"), 1)
             o6 == At(ChainRules(LocalHead, c, 6, "mark", "mark"), 1)
             rb == At(BlockIPv6, 1)
             s == PolicyScript(c)
             u == ChainScript("pre4", <<>>, c, 4, "proxy", "dns")
             v == ChainScript("out4", LocalHead, c, 4, "mark", "mark")
             x == ChainScript("pre6", <<>>, c, 6, "proxy", "dns")
             y == ChainScript("out6", LocalHead, c, 6, "mark", "mark")
             w == BlockScript(c)
             six == UsesIPv6(c)
             nets == SplitByFamily(c.subnets, 6) # <<>>
             a1 == IF o \in {"rule4", "route4"} \/ (o \in {"rule6", "route6"} /\ nets) THEN At(Gone, 1) ELSE Nothing
             a2 == IF o = "pre4" THEN p4 ELSE a1
             a3 == IF o = "out4" THEN o4 ELSE a2
             b4 == IF o = "pre6" THEN p6 ELSE a3
             b5 == IF o = "out6" THEN o6 ELSE b4
             a5 == IF six THEN b5 ELSE a3
             a6 == IF o = "block6" /\ c.blockIPv6 THEN rb ELSE a5
  <2>1. Wanted(m, c, o) = a6
      BY <1>4 DEF Wanted
  <2>2. Setup(m, c) = s \o (((u \o v) \o If(six, x \o y)) \o w)
      BY <1>4 DEF Setup, TproxySetup, TproxyIpt, TproxyIpt4, TproxyIpt6
  <2>3. (\E S : s \in Seq(S)) /\ Leads(s, o, Nothing, a1)
      BY PolicyLeads
  <2>4. (\E S : u \in Seq(S)) /\ Leads(u, o, a1, a2)
    <3>1. o = "pre4" => a1 = Nothing
        OBVIOUS
    <3> HIDE DEF a1
    <3> QED
        BY <1>0, <3>1, ChainLeads
  <2>5. (\E S : v \in Seq(S)) /\ Leads(v, o, a2, a3)
    <3>1. o = "out4" => a2 = Nothing
        OBVIOUS
    <3> HIDE DEF a2
    <3> QED
        BY <1>0, <3>1, ChainLeads
  <2>6. (\E S : x \in Seq(S)) /\ Leads(x, o, a3, b4)
    <3>1. o = "pre6" => a3 = Nothing
        OBVIOUS
    <3> HIDE DEF a3
    <3> QED
        BY <1>0, <3>1, ChainLeads
  <2>7. (\E S : y \in Seq(S)) /\ Leads(y, o, b4, b5)
    <3>1. o = "out6" => b4 = Nothing
        OBVIOUS
    <3> HIDE DEF b4
    <3> QED
        BY <1>0, <3>1, ChainLeads
  <2>8. (\E S : w \in Seq(S)) /\ Leads(w, o, a5, a6)
    <3>1. o = "block6" => a5 = Nothing
        OBVIOUS
    <3> HIDE DEF a5
    <3> QED
        BY <3>1, BlockLeads
  <2>9. six \in BOOLEAN
      BY <1>b
  <2> HIDE DEF s, u, v, x, y, w, six, a1, a2, a3, b4, b5, a6
  <2> DEFINE xy == x \o y
  <2>10. Leads(xy, o, a3, b5) /\ \E S : xy \in Seq(S)
      BY <2>6, <2>7, LeadsJoin, Lists
  <2> HIDE DEF xy
  <2>11. Leads(If(six, xy), o, a3, a5) /\ \E S : If(six, xy) \in Seq(S)
      BY <2>9, <2>10, LeadsIf
  <2> HIDE DEF a5
  <2> DEFINE i6 == If(six, xy)
  <2>12. Leads(i6, o, a3, a5) /\ \E S : i6 \in Seq(S)
      BY <2>11
  <2> HIDE DEF i6
  <2> DEFINE uv == u \o v
  <2>13. Leads(uv, o, a1, a3) /\ \E S : uv \in Seq(S)
      BY <2>4, <2>5, LeadsJoin, Lists
  <2> HIDE DEF uv
  <2> DEFINE uv6 == uv \o i6
  <2>14. Leads(uv6, o, a1, a5) /\ \E S : uv6 \in Seq(S)
      BY <2>12, <2>13, LeadsJoin, Lists
  <2> HIDE DEF uv6
  <2> DEFINE all == uv6 \o w
  <2>15. Leads(all, o, a1, a6) /\ \E S : all \in Seq(S)
      BY <2>8, <2>14, LeadsJoin, Lists
  <2> HIDE DEF all
  <2>16. Leads(s \o all, o, Nothing, a6) /\ \E S : s \o all \in Seq(S)
      BY <2>3, <2>15, LeadsJoin, Lists
  <2> QED
      BY <2>1, <2>2, <2>16 DEF all, uv6, uv, i6, xy
<1> QED
    BY <1>1, <1>2, <1>3, <1>4, FirewallAssumption

LEMMA EffectDoes ==
    ASSUME HostShape, NEW x, LinuxCmd(x), host' = Effect(host, x), NEW o \in Objects
    PROVE  StateOf(o)' = Do(x, o, StateOf(o))
<1> DEFINE a == StateOf(o)
<1>0. o = "table" \/ o \in Chains \/ o \in Policies
    BY DEF Objects
<1>d. "table" \notin Chains /\ "table" \notin Policies /\ \A k \in Policies : k \notin Chains
    BY DEF Chains, Policies
<1>a. a = (CASE o = "table" -> At(host.table, 0)
             [] o \in Chains -> At(host.chain[o], host.jumps[o])
             [] o \in Policies -> At(Gone, IF o \in host.policy THEN 1 ELSE 0))
    BY DEF StateOf
<1>b. StateOf(o)' = (CASE o = "table" -> At(host'.table, 0)
                       [] o \in Chains -> At(host'.chain[o], host'.jumps[o])
                       [] o \in Policies -> At(Gone, IF o \in host'.policy THEN 1 ELSE 0))
    BY DEF StateOf, At
<1>c. /\ o = "table" => a.rules = host.table /\ a.count = 0
      /\ o \in Chains => a.rules = host.chain[o] /\ a.count = host.jumps[o]
      /\ o \in Policies => a.rules = Gone
    BY <1>0, <1>a, <1>d DEF At
<1> HIDE DEF a
<1>1. CASE x.op \in {"tableDel", "tableLoad"}
  <2> DEFINE v == IF host.table = Gone THEN x.arg ELSE [k \in DOMAIN host.table |-> host.table[k] \o x.arg[k]]
             w == IF x.op = "tableDel" THEN Gone ELSE v
  <2>1. host' = [host EXCEPT !.table = w]
      BY <1>1 DEF Effect
  <2>2. o = "table" => Do(x, o, a) = At(w, 0)
      BY <1>1, <1>c DEF Do, Nothing
  <2> HIDE DEF v, w
  <2>3. host'.table = w /\ host'.chain = host.chain /\ host'.jumps = host.jumps /\ host'.policy = host.policy
      BY <2>1 DEF HostShape
  <2>4. o # "table" => Do(x, o, a) = a
      BY <1>1 DEF Do
  <2> QED
      BY <1>0, <1>a, <1>b, <1>d, <2>2, <2>3, <2>4 DEF a
<1>2. CASE x.op \in {"newChain", "append"}
  <2>0. x.obj \in Chains
      BY <1>2 DEF LinuxCmd
  <2> DEFINE v == IF x.op = "newChain" THEN IF host.chain[x.obj] = Gone THEN <<>> ELSE host.chain[x.obj]
                  ELSE IF host.chain[x.obj] = Gone THEN Gone ELSE Append(host.chain[x.obj], x.arg)
  <2>1. host' = [host EXCEPT !.chain[x.obj] = v]
    <3>1. CASE x.op = "newChain"
        BY <3>1 DEF Effect
    <3>2. CASE x.op = "append"
      <4>1. host' = [host EXCEPT !.chain[x.obj] = IF @ = Gone THEN @ ELSE Append(@, x.arg)]
          BY <3>2 DEF Effect
      <4>2. v = IF host.chain[x.obj] = Gone THEN host.chain[x.obj] ELSE Append(host.chain[x.obj], x.arg)
          BY <3>2
      <4> QED
          BY <4>1, <4>2
    <3> QED
        BY <1>2, <3>1, <3>2
  <2>2. o = x.obj => Do(x, o, a) = At(v, host.jumps[o])
      BY <1>2, <1>c, <1>d, <2>0 DEF Do
  <2> HIDE DEF v
  <2>3. /\ host'.table = host.table /\ host'.jumps = host.jumps /\ host'.policy = host.policy
        /\ host'.chain = [host.chain EXCEPT ![x.obj] = v]
      BY <2>1 DEF HostShape
  <2>4. host'.chain[x.obj] = v /\ \A k \in Chains : k # x.obj => host'.chain[k] = host.chain[k]
      BY <2>0, <2>3 DEF HostShape
  <2>5. o # x.obj => Do(x, o, a) = a
      BY <1>2 DEF Do
  <2> QED
      BY <1>0, <1>a, <1>b, <1>d, <2>0, <2>2, <2>3, <2>4, <2>5 DEF a
<1>3. CASE x.op = "jump"
  <2>0. x.obj \in Chains
      BY <1>3 DEF LinuxCmd
  <2> DEFINE v == IF host.chain[x.obj] = Gone THEN host.jumps[x.obj] ELSE host.jumps[x.obj] + 1
  <2>1. host' = [host EXCEPT !.jumps[x.obj] = v]
      BY <1>3 DEF Effect
  <2>2. o = x.obj => Do(x, o, a) = At(host.chain[o], v)
      BY <1>3, <1>c, <1>d, <2>0 DEF Do
  <2> HIDE DEF v
  <2>3. /\ host'.table = host.table /\ host'.chain = host.chain /\ host'.policy = host.policy
        /\ host'.jumps = [host.jumps EXCEPT ![x.obj] = v]
      BY <2>1 DEF HostShape
  <2>4. host'.jumps[x.obj] = v /\ \A k \in Chains : k # x.obj => host'.jumps[k] = host.jumps[k]
      BY <2>0, <2>3 DEF HostShape
  <2>5. o # x.obj => Do(x, o, a) = a
      BY <1>3 DEF Do
  <2> QED
      BY <1>0, <1>a, <1>b, <1>d, <2>0, <2>2, <2>3, <2>4, <2>5 DEF a
<1>4. CASE x.op = "dropChain"
  <2>0. x.obj \in Chains /\ host.jumps[x.obj] \in {0, 1}
      BY <1>4 DEF LinuxCmd, HostShape
  <2>1. host' = [host EXCEPT !.jumps[x.obj] = 0, !.chain[x.obj] = Gone]
    <3> DEFINE left == IF host.jumps[x.obj] = 0 THEN 0 ELSE host.jumps[x.obj] - 1
    <3>1. left = 0
        BY <2>0
    <3>2. host' = [host EXCEPT !.jumps[x.obj] = left,
                               !.chain[x.obj] = IF left = 0 \/ @ = Gone THEN Gone ELSE <<>>]
        BY <1>4 DEF Effect
    <3> HIDE DEF left
    <3> QED
        BY <3>1, <3>2
  <2>2. o = x.obj => Do(x, o, a) = At(Gone, 0)
      BY <1>4 DEF Do, Nothing
  <2>3. /\ host'.table = host.table /\ host'.policy = host.policy
        /\ host'.chain = [host.chain EXCEPT ![x.obj] = Gone] /\ host'.jumps = [host.jumps EXCEPT ![x.obj] = 0]
      BY <2>1 DEF HostShape
  <2>4. /\ host'.chain[x.obj] = Gone /\ host'.jumps[x.obj] = 0
        /\ \A k \in Chains : k # x.obj => host'.jumps[k] = host.jumps[k] /\ host'.chain[k] = host.chain[k]
      BY <2>0, <2>3 DEF HostShape
  <2>5. o # x.obj => Do(x, o, a) = a
      BY <1>4 DEF Do
  <2> QED
      BY <1>0, <1>a, <1>b, <1>d, <2>0, <2>2, <2>3, <2>4, <2>5 DEF a
<1>5. CASE x.op \in {"policyAdd", "policyDel"}
  <2>0. x.obj \in Policies
      BY <1>5 DEF LinuxCmd
  <2>1. PICK v : /\ host' = [host EXCEPT !.policy = v]
                 /\ x.op = "policyAdd" => v = host.policy \union {x.obj}
                 /\ x.op = "policyDel" => v = host.policy \ {x.obj}
    <3>1. CASE x.op = "policyAdd"
        BY <3>1 DEF Effect
    <3>2. CASE x.op = "policyDel"
        BY <3>2 DEF Effect
    <3> QED
        BY <1>5, <3>1, <3>2
  <2>2. o = x.obj => Do(x, o, a) = At(Gone, IF o \in v THEN 1 ELSE 0)
      BY <1>5, <1>c, <2>0, <2>1 DEF Do, Nothing
  <2>3. host'.table = host.table /\ host'.chain = host.chain /\ host'.jumps = host.jumps /\ host'.policy = v
      BY <2>1 DEF HostShape
  <2>4. o # x.obj => Do(x, o, a) = a /\ (o \in v <=> o \in host.policy)
      BY <1>5, <2>1 DEF Do
  <2> QED
      BY <1>0, <1>a, <1>b, <1>d, <2>0, <2>2, <2>3, <2>4 DEF a
<1> QED
    BY <1>1, <1>2, <1>3, <1>4, <1>5 DEF LinuxCmd

\* While a Setup without an error is at work, what is left of it leads to what it is to leave.
LinuxLeads ==
    (phase = "starting" /\ err = "none") \/ phase = "up" =>
        \A o \in Objects : Leads(script, o, StateOf(o), Wanted(method, cfg, o))
\* Until a process is killed between the two hooks, pf has both or none.
Hooks == {"rdr", "filter"}
HooksLead(n) ==
    IF n = 2 THEN host.hooks = IF listed = {} THEN {"rdr"} ELSE Hooks
    ELSE host.hooks \in {{}, Hooks} /\ (n = 3 => listed = host.hooks)
                                   /\ (n <= 1 /\ err = "none" => host.hooks = Hooks)
PfLeads ==
    /\ ~halved => IF phase = "starting" THEN HooksLead(Len(script)) ELSE host.hooks \in {{}, Hooks}
    /\ phase = "starting" /\ err = "none" /\ Len(script) <= 4 => host.main # "skip"
    /\ phase = "starting" /\ err = "none" /\ script = <<>> => host.anchor = BuildPfRules(cfg)
    /\ phase = "up" => /\ ~halved => host.hooks = Hooks
                       /\ host.main # "skip" /\ host.anchor = BuildPfRules(cfg)
LeadsInv == IF method = "pf" THEN PfLeads ELSE LinuxLeads

LEMMA LinuxLeadsOn ==
    ASSUME FirewallInv, DefaultMark, ~SilentFaults, method # "pf", LinuxLeads, FNext
    PROVE  method' # "pf" /\ LinuxLeads'
<1>0. LinuxInv /\ HostShape /\ method \in Methods
    BY DEF FirewallInv
<1>1. ASSUME NEW m \in Methods, NEW c \in Configs, Start(m, c) PROVE method' # "pf" /\ LinuxLeads'
  <2> DEFINE d == Arguments(c)
  <2>1. d \in Config
      BY GivenFine DEF Given
  <2>2. m # "pf" /\ method' = m /\ cfg' = d /\ host' = host /\ script' = CleanStaleLinux \o Setup(m, d)
      BY <1>1 DEF Start, CleanStale
  <2> HIDE DEF d
  <2>3. ASSUME NEW o \in Objects PROVE Leads(script', o, StateOf(o)', Wanted(method, cfg, o)')
    <3>1. Wanted(method, cfg, o)' = Wanted(m, d, o)
        BY <2>2 DEF Wanted, BuildNftRules, BuildTproxyRules
    <3>2. (\E S : CleanStaleLinux \in Seq(S)) /\ \A a : Leads(CleanStaleLinux, o, a, Nothing)
        BY CleanLeads
    <3>3. (\E S : Setup(m, d) \in Seq(S)) /\ Leads(Setup(m, d), o, Nothing, Wanted(m, d, o))
        BY <2>1, <2>2, SetupLeads
    <3>4. PICK a : a = StateOf(o)'
        OBVIOUS
    <3>5. Leads(CleanStaleLinux \o Setup(m, d), o, a, Wanted(m, d, o))
        BY <3>2, <3>3, LeadsJoin
    <3> QED
        BY <2>2, <3>1, <3>4, <3>5
  <2> QED
      BY <2>2, <2>3 DEF LinuxLeads
<1>2. CASE RunCommand
  <2> DEFINE x == Head(script)
  <2>1. /\ script # <<>> /\ host' = Effect(host, x) /\ script' = Tail(script)
        /\ UNCHANGED <<phase, method, cfg, err>>
      BY <1>2 DEF RunCommand
  <2>2. (\E S : script \in Seq(S)) /\ x = script[1] /\ 1 \in 1..Len(script) /\ LinuxCmd(x)
    <3>1. \E S : script \in Seq(S)
        BY <1>0 DEF LinuxInv, CmdList
    <3>2. Len(script) \in Nat /\ Len(script) > 0 /\ x = script[1]
        BY <2>1, <3>1, HeadTail
    <3> QED
        BY <1>0, <3>1, <3>2 DEF LinuxInv, CmdList
  <2>3. ASSUME NEW o \in Objects, Leads(script, o, StateOf(o), Wanted(method, cfg, o))
        PROVE  Leads(script', o, StateOf(o)', Wanted(method, cfg, o)')
    <3>1. Leads(Tail(script), o, Do(x, o, StateOf(o)), Wanted(method, cfg, o))
        BY <2>1, <2>2, <2>3, LeadsTail
    <3>2. StateOf(o)' = Do(x, o, StateOf(o))
        BY <1>0, <2>1, <2>2, EffectDoes
    <3>3. Wanted(method, cfg, o)' = Wanted(method, cfg, o)
        BY <2>1 DEF Wanted
    <3> QED
        BY <2>1, <3>1, <3>2, <3>3
  <2> QED
      BY <2>1, <2>3 DEF LinuxLeads
<1>3. CASE CommandFails
  <2>1. phase' = phase /\ method' = method
      BY <1>3 DEF CommandFails
  <2>2. phase # "up"
      BY <1>0, <1>3 DEF LinuxInv, CommandFails
  <2>3. err' # "none"
    <3> DEFINE x == Head(script)
    <3>1. LinuxCmd(x)
      <4>1. script # <<>> /\ \E S : script \in Seq(S)
          BY <1>0, <1>3 DEF LinuxInv, CmdList, CommandFails
      <4>2. Len(script) \in Nat /\ Len(script) > 0 /\ x = script[1]
          BY <4>1, HeadTail
      <4>3. 1 \in 1..Len(script)
          BY <4>2
      <4> QED
          BY <1>0, <4>2, <4>3 DEF LinuxInv, CmdList
    <3>2. x.checked
        BY <1>3, <3>1 DEF CommandFails, LinuxCmd, Exists
    <3> QED
        BY <1>3, <3>2 DEF CommandFails
  <2> QED
      BY <1>0, <2>1, <2>2, <2>3 DEF LinuxLeads
<1>4. CASE Finish
  <2>1. UNCHANGED <<host, script, method, cfg, err>> /\ (phase' = "up" => phase = "starting" /\ err = "none")
        /\ phase' # "starting"
      BY <1>4 DEF Finish, FirewallInv
  <2>2. \A o : StateOf(o)' = StateOf(o) /\ Wanted(method, cfg, o)' = Wanted(method, cfg, o)
      BY <2>1 DEF StateOf, Wanted
  <2> QED
      BY <2>1, <2>2 DEF LinuxLeads
<1>5. CASE FStop \/ FCrash \/ \E n \in BOOLEAN : ReconnectExit(n)
    BY <1>5 DEF FStop, FCrash, ReconnectExit, LinuxLeads
<1> QED
    BY <1>1, <1>2, <1>3, <1>4, <1>5 DEF FNext

\* The commands of an exit and of a stop.
LEMMA PfOthers ==
    ASSUME FirewallInv, method = "pf", phase # "starting", RunCommand
    PROVE  Head(script).op \in {"loadAnchor", "flushAnchor", "releaseOwn"}
<1> DEFINE x == Head(script)
<1>0. PfInv /\ script # <<>>
    BY DEF FirewallInv, RunCommand
<1>1. ASSUME NEW s, NEW S, s \in Seq(S), NEW n \in 0..Len(s), LeftOf(n, s)
      PROVE  \E i \in 1..Len(s) : x = s[i]
  <2>1. n # 0
      BY <1>0, <1>1, NoneLeft
  <2>2. n \in 1..Len(s) /\ (Len(s) - n) + 1 \in 1..Len(s)
      BY <1>1, <2>1
  <2> QED
      BY <1>1, <2>2, LeftTail
<1> HIDE DEF x
<1>2. CASE phase = "leaving"
  <2>a. PICK y, s : y = Load("loadAnchor", BuildPfRules(cfg)) /\ s = <<y>>
      OBVIOUS
  <2>1. PICK n \in 0..1 : LeftOf(n, s)
      BY <1>0, <1>2, <2>a DEF PfInv
  <2>2. s \in Seq({y}) /\ Len(s) = 1 /\ s[1] = y
      BY <2>a
  <2>3. \E i \in 1..1 : x = s[i]
    <3> PICK S : S = {y}
        OBVIOUS
    <3>1. s \in Seq(S) /\ n \in 0..Len(s)
        BY <2>2
    <3> QED
        BY <1>1, <2>1, <2>2, <3>1
  <2>4. x = y
      BY <2>2, <2>3
  <2>5. x.op = "loadAnchor"
      BY <2>4, <2>a DEF Load, Cmd
  <2> QED
      BY <2>5 DEF x
<1>3. CASE phase = "stopping"
  <2>a. PICK s : s = PfRestore
      OBVIOUS
  <2>1. PICK n \in 0..2 : LeftOf(n, s)
      BY <1>0, <1>3, <2>a DEF PfInv
  <2>2. (\E S : s \in Seq(S)) /\ Len(s) = 2 /\ s[1].op = "flushAnchor" /\ s[2].op = "releaseOwn"
    <3>1. \A y, z : Len(<<y, z>>) = 2 /\ <<y, z>> \in Seq({y, z}) /\ <<y, z>>[1] = y /\ <<y, z>>[2] = z
        OBVIOUS
    <3>2. \A op : Cmd(op, "").op = op
        BY DEF Cmd
    <3> QED
        BY <2>a, <3>1, <3>2 DEF PfRestore
  <2>3. \E i \in 1..2 : x = s[i]
    <3> PICK S : s \in Seq(S)
        BY <2>2
    <3>1. n \in 0..Len(s)
        BY <2>2
    <3> QED
        BY <1>1, <2>1, <2>2, <3>1
  <2>4. x.op \in {"flushAnchor", "releaseOwn"}
      BY <2>2, <2>3
  <2> QED
      BY <2>4 DEF x
<1> QED
    BY <1>0, <1>2, <1>3 DEF PfInv, FirewallInv

LEMMA PfLeadsOn ==
    ASSUME FirewallInv, ~SilentFaults, method = "pf", PfLeads, FNext
    PROVE  method' = "pf" /\ PfLeads'
<1>0. PfInv /\ HostShape
    BY DEF FirewallInv
<1>1. ASSUME NEW m \in Methods, NEW c \in Configs, Start(m, c) PROVE method' = "pf" /\ PfLeads'
  <2>1. /\ m = "pf" /\ method' = m /\ phase' = "starting" /\ phase # "starting"
        /\ UNCHANGED <<host, listed, halved>>
      BY <1>1 DEF Start
  <2>2. script' = PfStart(Arguments(c))
      BY <1>1, <2>1 DEF Start, CleanStale, Setup, PfStart
  <2>3. PICK k : k = Len(script')
      OBVIOUS
  <2>4. k = 9 /\ k # 2 /\ k # 3 /\ ~(k <= 1) /\ ~(k <= 4)
    <3>1. Len(PfStart(Arguments(c))) = 9
        BY PfLength
    <3>2. k = 9
        BY <2>2, <2>3, <3>1
    <3> QED
        BY <3>2
  <2>5. script' # <<>>
    <3>1. Len(<<>>) = 0
        OBVIOUS
    <3>2. script' = <<>> => k = 0
        BY <2>3, <3>1
    <3> QED
        BY <2>4, <3>2
  <2>6. ~halved' => HooksLead(Len(script))'
      BY <2>1, <2>3, <2>4 DEF PfLeads, HooksLead
  <2> QED
      BY <2>1, <2>3, <2>4, <2>5, <2>6 DEF PfLeads
<1>2. CASE RunCommand
  <2> DEFINE x == Head(script)
  <2>1. /\ script # <<>> /\ host' = Effect(host, x) /\ script' = Tail(script)
        /\ UNCHANGED <<phase, method, cfg, err, halved>>
      BY <1>2 DEF RunCommand
  <2>2. phase # "up"
      BY <1>0, <2>1 DEF PfInv
  <2>3. CASE phase # "starting"
    <3>1. x.op \in {"loadAnchor", "flushAnchor", "releaseOwn"}
        BY <1>2, <2>2, <2>3, PfOthers
    <3>2. host'.hooks = host.hooks
        BY <1>0, <2>1, <3>1, PfEffect
    <3> QED
        BY <2>1, <2>2, <2>3, <3>2 DEF PfLeads
  <2>4. CASE phase = "starting"
    <3>a. PICK s : s = PfStart(cfg)
        OBVIOUS
    <3>1. PICK n \in 0..9 : LeftOf(n, s)
        BY <1>0, <2>4, <3>a DEF PfInv
    <3>2. PfIs(s, cfg) /\ Len(s) = 9 /\ \E S : s \in Seq(S)
      <4>1. PfIs(s, cfg)
          BY <3>a, PfLists
      <4> QED
          BY <4>1 DEF PfIs
    <3>3. n # 0
        BY <2>1, <3>1, NoneLeft
    <3>4. /\ x = s[(9 - n) + 1] /\ script' = [i \in 1..(n - 1) |-> s[(9 - (n - 1)) + i]]
          /\ Len(script) = n /\ Len(script') = n - 1 /\ n \in 1..9 /\ (script' = <<>> => n = 1)
      <4>0. \E S : s \in Seq(S)
          BY <3>2
      <4> PICK S : s \in Seq(S)
          BY <4>0
      <4>1. n \in 1..Len(s) /\ n \in Nat /\ n > 0
        <5>1. n \in 1..9 /\ n \in Nat /\ n > 0
            BY <3>3
        <5> QED
            BY <3>2, <5>1
      <4>2. Head(script) = s[(Len(s) - n) + 1] /\ Tail(script) = [i \in 1..(n - 1) |-> s[(Len(s) - (n - 1)) + i]]
          BY <3>1, <4>1, LeftTail
      <4>3. script \in [1..n -> S]
        <5>1. n \in 1..9 /\ Len(s) = 9
          <6>1. n \in 1..9
              BY <3>3
          <6>2. Len(s) = 9
              BY <3>2
          <6> QED
              BY <6>1, <6>2
        <5>2. \A i \in 1..n : (9 - n) + i \in 1..9
            BY <5>1
        <5>3. \A i \in 1..9 : s[i] \in S
          <6>1. \A i \in 1..Len(s) : s[i] \in S
              OBVIOUS
          <6> QED
              BY <5>1, <6>1
        <5>4. script = [i \in 1..n |-> s[(9 - n) + i]]
            BY <3>1, <5>1 DEF LeftOf
        <5>5. \A i \in 1..n : s[(9 - n) + i] \in S
            BY <5>2, <5>3
        <5> QED
            BY <5>4, <5>5
      <4>4. script \in Seq(S) /\ Len(script) = n
          BY <4>1, <4>3
      <4>5. Len(Tail(script)) = n - 1
          BY <2>1, <4>4
      <4>6. Tail(script) = <<>> => n = 1
        <5>1. Len(<<>>) = 0
            OBVIOUS
        <5>2. PICK k : k = Len(Tail(script))
            OBVIOUS
        <5>3. Tail(script) = <<>> => k = 0
            BY <5>1, <5>2
        <5>4. k = n - 1 /\ n \in Nat
            BY <4>1, <4>5, <5>2
        <5> QED
            BY <5>3, <5>4
      <4>7. Len(s) = 9
          BY <3>2
      <4> QED
          BY <2>1, <4>2, <4>4, <4>5, <4>6, <4>7
    <3> HIDE DEF x
    <3>5. /\ n = 5 => x.op = "fixSkip"
          /\ n = 4 => x.op = "listHooks"
          /\ n = 3 => x.op = "hookRdr"
          /\ n = 2 => x.op = "hookFilter"
          /\ n = 1 => x.op = "loadAnchor" /\ x.arg = BuildPfRules(cfg)
          /\ n \in 6..9 => x.op \in {"flushHooked", "releaseStale", "enable", "saveToken"}
      <4>1. /\ s[1].op = "flushHooked" /\ s[2].op = "releaseStale" /\ s[3].op = "enable"
            /\ s[4].op = "saveToken" /\ s[5].op = "fixSkip" /\ s[6].op = "listHooks"
            /\ s[7].op = "hookRdr" /\ s[8].op = "hookFilter" /\ s[9].op = "loadAnchor"
          BY <3>2, PfOps
      <4>2. s[9].arg = BuildPfRules(cfg)
          BY <3>2 DEF PfIs, Load, Cmd
      <4>3. n \in 1..9 /\ x = s[(9 - n) + 1]
          BY <3>4
      <4> QED
          BY <4>1, <4>2, <4>3
    <3>6. /\ x.op \notin {"fixSkip", "hookRdr", "hookFilter"} =>
               host'.hooks = host.hooks /\ host'.main = host.main
          /\ x.op = "fixSkip" => host'.main # "skip" /\ host'.hooks \in {host.hooks, {}}
          /\ x.op = "hookRdr" =>
               /\ host'.main = host.main
               /\ host'.hooks = IF "rdr" \in listed THEN host.hooks ELSE host.hooks \union {"rdr"}
          /\ x.op = "hookFilter" =>
               /\ host'.main = host.main
               /\ host'.hooks = IF listed # {} THEN host.hooks ELSE host.hooks \union {"filter"}
          /\ x.op = "loadAnchor" => host'.anchor = x.arg
      <4>1. x.op \in {"flushHooked", "releaseStale", "enable", "saveToken", "fixSkip", "listHooks",
                      "hookRdr", "hookFilter", "loadAnchor"}
        <5>1. n \in {1, 2, 3, 4, 5} \/ n \in 6..9
            BY <3>4
        <5> QED
            BY <3>5, <5>1
      <4> QED
          BY <1>0, <2>1, <4>1, PfEffect
    <3>7. listed' = IF x.op = "listHooks" THEN host.hooks ELSE listed
        BY <1>2 DEF RunCommand, x
    <3>8. ~halved => HooksLead(n)
        BY <2>4, <3>4 DEF PfLeads
    <3>9. ~halved => HooksLead(n - 1)'
      <4> SUFFICES ASSUME ~halved PROVE HooksLead(n - 1)'
          OBVIOUS
      <4>1. CASE n \in 6..9
          BY <2>1, <3>5, <3>6, <3>8, <4>1 DEF HooksLead
      <4>2. CASE n = 5
          BY <2>1, <3>5, <3>6, <3>8, <4>2 DEF HooksLead
      <4>3. CASE n = 4
          BY <2>1, <3>5, <3>6, <3>7, <3>8, <4>3 DEF HooksLead
      <4>4. CASE n = 3
        <5>1. /\ x.op = "hookRdr" /\ listed = host.hooks /\ listed' = listed
              /\ listed = {} \/ (listed = Hooks /\ listed # {})
            BY <3>5, <3>7, <3>8, <4>4 DEF HooksLead, Hooks
        <5>2. host'.hooks = IF listed' = {} THEN {"rdr"} ELSE Hooks
            BY <3>6, <5>1 DEF Hooks
        <5>3. n - 1 = 2
            BY <4>4
        <5> QED
            BY <5>2, <5>3 DEF HooksLead
      <4>5. CASE n = 2
        <5>1. x.op = "hookFilter" /\ host.hooks = (IF listed = {} THEN {"rdr"} ELSE Hooks)
            BY <3>5, <3>8, <4>5 DEF HooksLead
        <5>2. host'.hooks = Hooks
            BY <3>6, <5>1 DEF Hooks
        <5>3. n - 1 = 1 /\ 1 # 2 /\ 1 # 3
            BY <4>5
        <5> QED
            BY <5>2, <5>3 DEF HooksLead
      <4>6. CASE n = 1
          BY <2>1, <3>5, <3>6, <3>8, <4>6 DEF HooksLead
      <4> QED
          BY <3>4, <4>1, <4>2, <4>3, <4>4, <4>5, <4>6
    <3>10. err = "none" /\ n - 1 <= 4 => host'.main # "skip"
      <4>1. n <= 4 /\ err = "none" => host.main # "skip"
          BY <2>4, <3>4 DEF PfLeads
      <4>2. n - 1 <= 4 => n <= 4 \/ n = 5
          BY <3>4
      <4>3. n <= 4 => x.op \notin {"fixSkip"}
          BY <3>4, <3>5
      <4>4. x.op # "fixSkip" => host'.main = host.main
          BY <3>6
      <4> QED
          BY <3>5, <3>6, <4>1, <4>2, <4>3, <4>4
    <3>11. script' = <<>> => host'.anchor = BuildPfRules(cfg)'
      <4>1. BuildPfRules(cfg)' = BuildPfRules(cfg)
          BY <2>1
      <4> QED
          BY <3>4, <3>5, <3>6, <4>1
    <3>12. ~halved' => HooksLead(Len(script))'
      <4>1. HooksLead(Len(script))' <=> HooksLead(n - 1)'
          BY <3>4 DEF HooksLead
      <4> QED
          BY <2>1, <3>9, <4>1
    <3> QED
        BY <2>1, <2>4, <3>4, <3>10, <3>11, <3>12 DEF PfLeads
  <2> QED
      BY <2>3, <2>4
<1>3. CASE CommandFails
  <2>1. /\ phase' = phase /\ method' = method /\ script # <<>> /\ host' = host /\ halved' = halved
        /\ host.policy = {}
      BY <1>0, <1>3 DEF CommandFails, PfInv
  <2>2. phase # "up"
      BY <1>0, <2>1 DEF PfInv
  <2>3. Head(script).checked /\ script' = Head(script).undo /\ err' # "none"
      BY <1>3, <2>1 DEF CommandFails, Exists
  <2>4. CASE phase # "starting"
      BY <2>1, <2>2, <2>4 DEF PfLeads
  <2>5. CASE phase = "starting"
    <3>a. PICK s : s = PfStart(cfg)
        OBVIOUS
    <3>1. PICK n \in 0..9 : LeftOf(n, s)
        BY <1>0, <2>5, <3>a DEF PfInv
    <3>2. PfIs(s, cfg) /\ Len(s) = 9 /\ \E S : s \in Seq(S)
      <4>1. PfIs(s, cfg)
          BY <3>a, PfLists
      <4> QED
          BY <4>1 DEF PfIs
    <3>3. n # 0
        BY <2>1, <3>1, NoneLeft
    <3>4. Head(script) = s[(9 - n) + 1] /\ n \in 1..9
      <4> PICK S : s \in Seq(S)
          BY <3>2
      <4>1. n \in 1..Len(s) /\ n \in 1..9
          BY <3>2, <3>3
      <4>2. Head(script) = s[(Len(s) - n) + 1]
          BY <3>1, <4>1, LeftTail
      <4> QED
          BY <3>2, <4>1, <4>2
    <3>5. script' = <<>> /\ n \in {1, 7}
      <4>1. \A i \in 1..9 : s[i].undo = <<>> /\ (s[i].checked => i \in {3, 9})
          BY <3>2, PfOps
      <4>2. (9 - n) + 1 \in 1..9
          BY <3>4
      <4> QED
          BY <2>3, <3>4, <4>1, <4>2
    <3>6. Len(script) = n
      <4>1. script = [i \in 1..n |-> s[(9 - n) + i]]
          BY <3>1, <3>2 DEF LeftOf
      <4>2. \A t, k : k \in Nat /\ t = [i \in 1..k |-> s[(9 - n) + i]] => Len(t) = k
          OBVIOUS
      <4> QED
          BY <4>1, <4>2
    <3>7. ~halved => host.hooks \in {{}, Hooks}
        BY <2>5, <3>5, <3>6 DEF PfLeads, HooksLead
    <3>8. ~halved' => HooksLead(Len(script))'
      <4>1. Len(<<>>) = 0
          OBVIOUS
      <4> QED
          BY <2>1, <2>3, <3>5, <3>7, <4>1 DEF HooksLead
    <3> QED
        BY <2>1, <2>3, <2>5, <3>8 DEF PfLeads
  <2> QED
      BY <2>4, <2>5
<1>4. CASE Finish
  <2>1. UNCHANGED <<host, script, method, cfg, err, halved>> /\ (phase' = "up" => phase = "starting" /\ err = "none")
        /\ phase' # "starting" /\ script = <<>>
      BY <1>4 DEF Finish, FirewallInv
  <2>2. BuildPfRules(cfg)' = BuildPfRules(cfg)
      BY <2>1
  <2>3. PICK k : k = Len(script)
      OBVIOUS
  <2>4. k <= 1 /\ k # 2 /\ k <= 4
    <3>1. Len(<<>>) = 0
        OBVIOUS
    <3> QED
        BY <2>1, <2>3, <3>1
  <2>5. ~halved => host.hooks \in {{}, Hooks} /\ (phase' = "up" => host.hooks = Hooks)
      BY <2>1, <2>3, <2>4 DEF PfLeads, HooksLead
  <2> QED
      BY <2>1, <2>2, <2>3, <2>4, <2>5 DEF PfLeads
<1>5. CASE FStop \/ \E n \in BOOLEAN : ReconnectExit(n)
  <2>1. phase \in {"up", "kept"} /\ phase' \notin {"starting", "up"} /\ UNCHANGED <<host, method, halved>>
      BY <1>5 DEF FStop, ReconnectExit
  <2> QED
      BY <2>1 DEF PfLeads
<1>6. CASE FCrash
  <2>1. phase' = "crashed" /\ UNCHANGED <<host, method>> /\ halved' = (halved \/ host.hooks = {"rdr"})
      BY <1>6 DEF FCrash
  <2>2. ~halved' => host.hooks \in {{}, Hooks}
      BY <2>1 DEF PfLeads, HooksLead
  <2> QED
      BY <2>1, <2>2 DEF PfLeads
<1> QED
    BY <1>1, <1>2, <1>3, <1>4, <1>5, <1>6 DEF FNext

LEMMA LeadsAlways == DefaultMark /\ ~SilentFaults => (FSpec => [](FirewallInv /\ LeadsInv))
<1> SUFFICES ASSUME DefaultMark, ~SilentFaults PROVE FSpec => [](FirewallInv /\ LeadsInv)
    OBVIOUS
<1>1. FInit => FirewallInv /\ LeadsInv
  <2> SUFFICES ASSUME FInit PROVE LeadsInv
      BY FirewallInit
  <2>1. phase = "off"
      BY DEF FInit
  <2>1a. host.hooks = {}
      BY DEF FInit, Clean
  <2> QED
      BY <2>1, <2>1a DEF LeadsInv, PfLeads, LinuxLeads
<1>2. FirewallInv /\ LeadsInv /\ [FNext]_fvars => (FirewallInv /\ LeadsInv)'
  <2> SUFFICES ASSUME FirewallInv, LeadsInv, [FNext]_fvars PROVE LeadsInv'
      BY FirewallStep
  <2>1. CASE UNCHANGED fvars
    <3>1. UNCHANGED <<host, phase, script, method, cfg, listed, err, halved>>
        BY <2>1 DEF fvars
    <3>2. \A o : StateOf(o)' = StateOf(o) /\ Wanted(method, cfg, o)' = Wanted(method, cfg, o)
        BY <3>1 DEF StateOf, Wanted
    <3>3. BuildPfRules(cfg)' = BuildPfRules(cfg)
        BY <3>1
    <3>4. LinuxLeads => LinuxLeads'
        BY <3>1, <3>2 DEF LinuxLeads
    <3>5. PfLeads => PfLeads'
        BY <3>1, <3>3 DEF PfLeads, HooksLead
    <3> QED
        BY <3>1, <3>4, <3>5 DEF LeadsInv
  <2>2. CASE FNext
      BY <2>2, LinuxLeadsOn, PfLeadsOn DEF LeadsInv
  <2> QED
      BY <2>1, <2>2
<1> QED
    BY <1>1, <1>2, PTL DEF FSpec

LEMMA FamilyUsed ==
    ASSUME NEW c \in Config, NEW p \in Packets, Fam[p.dst] = 6
    PROVE  /\ Served(c, p) => SplitByFamily(c.subnets, 6) # <<>>
           /\ ~UsesIPv6(c) => ~Served(c, p) /\ ~Asked(c, p)
<1> DEFINE rules == Subnets(c, 6, "proxy")
<1>0. 6 \in {4, 6} /\ "proxy" \in Acts
    BY DEF Acts
<1>1. Anyone \in SUBSET BOOLEAN
    BY RuleSets
<1>2. rules \in Seq(Rule) /\ Len(rules) = Len(SplitByFamily(c.subnets, 6))
    BY <1>0, <1>1, ImageIs DEF Alike
<1>3. Served(c, p) => Caught(rules, p)
    BY <1>0, SubnetsIs
<1> HIDE DEF rules
<1>4. Served(c, p) => SplitByFamily(c.subnets, 6) # <<>>
  <2> SUFFICES ASSUME Served(c, p), SplitByFamily(c.subnets, 6) = <<>> PROVE FALSE
      OBVIOUS
  <2>1. PICK i \in DOMAIN rules : Matches(rules[i], p)
      BY <1>3 DEF Caught
  <2>2. PICK k : k = Len(rules)
      OBVIOUS
  <2>3. Len(<<>>) = 0
      OBVIOUS
  <2>4. k = 0
      BY <1>2, <2>2, <2>3
  <2>5. i \in 1..k /\ k \in Nat
      BY <1>2, <2>1, <2>2
  <2> QED
      BY <2>4, <2>5
<1>5. Asked(c, p) => HasDNS(c, 6)
  <2> SUFFICES ASSUME Asked(c, p) PROVE HasDNS(c, 6)
      OBVIOUS
  <2>1. p.dst \in OfFamily(c.dns, 6)
      BY DEF Asked, OfFamily
  <2> QED
      BY <2>1 DEF HasDNS
<1> QED
    BY <1>4, <1>5 DEF UsesIPv6

\* What the table and a chain say about a packet.
TableSays(k, p) == IF host.table = Gone THEN "return" ELSE FirstMatch(host.table[k], p)
ChainSays(ch, p) == IF host.jumps[ch] = 0 THEN "return" ELSE FirstMatch(host.chain[ch], p)

LEMMA UpHolds ==
    ASSUME FirewallInv, LinuxLeads, method # "pf", phase = "up"
    PROVE  \A o \in Objects : StateOf(o) = Wanted(method, cfg, o)
<1> TAKE o \in Objects
<1>1. script = <<>>
    BY DEF FirewallInv, LinuxInv
<1>2. Leads(<<>>, o, StateOf(o), Wanted(method, cfg, o))
    BY <1>1 DEF LinuxLeads
<1> QED
    BY <1>2, LeadsDone

LEMMA ChainHeld ==
    ASSUME NEW ch \in Chains, NEW a, StateOf(ch) = a, NEW p
    PROVE  /\ a = Nothing => ChainSays(ch, p) = "return"
           /\ \A rules : a = At(rules, 1) => ChainSays(ch, p) = FirstMatch(rules, p)
<1>1. ch # "table" /\ ch \notin Policies
    BY DEF Chains, Policies
<1>2. a = At(host.chain[ch], host.jumps[ch])
    BY <1>1 DEF StateOf
<1>3. a = Nothing => host.jumps[ch] = 0
    BY <1>2 DEF At, Nothing
<1>4. \A rules : a = At(rules, 1) => host.jumps[ch] = 1 /\ host.chain[ch] = rules
    BY <1>2 DEF At
<1>5. 1 # 0
    OBVIOUS
<1> QED
    BY <1>3, <1>4, <1>5 DEF ChainSays

LEMMA TableHeld ==
    ASSUME NEW a, StateOf("table") = a, NEW k, NEW p
    PROVE  /\ a = Nothing => TableSays(k, p) = "return"
           /\ \A rules : a = At(rules, 0) /\ rules # Gone => TableSays(k, p) = FirstMatch(rules[k], p)
<1>0. "table" \notin Chains /\ "table" \notin Policies
    BY DEF Chains, Policies
<1>1. a = At(host.table, 0)
  <2> PICK o : o = "table"
      OBVIOUS
  <2>1. StateOf(o) = At(host.table, 0)
      BY <1>0 DEF StateOf
  <2> QED
      BY <2>1
<1>2. a = Nothing => host.table = Gone
    BY <1>1 DEF At, Nothing
<1>3. \A rules : a = At(rules, 0) => host.table = rules
    BY <1>1 DEF At
<1> QED
    BY <1>2, <1>3 DEF TableSays

LEMMA RouteHeld ==
    ASSUME NEW o \in Policies, NEW x, StateOf(o) = At(x, 1)
    PROVE  o \in host.policy
<1>1. o # "table" /\ o \notin Chains
    BY DEF Policies, Chains
<1>2. PICK n : n = IF o \in host.policy THEN 1 ELSE 0
    OBVIOUS
<1>3. StateOf(o) = At(Gone, n)
    BY <1>1, <1>2 DEF StateOf
<1>4. n = 1
    BY <1>3 DEF At
<1> QED
    BY <1>2, <1>4

\* The verdict, of what the tables and chains say.
SaysAll(p, table, nat, out, block) ==
    /\ TableSays("out", p) = table
    /\ ChainSays(IF Fam[p.dst] = 6 THEN "nat6" ELSE "nat4", p) = nat
    /\ ChainSays(IF Fam[p.dst] = 6 THEN "out6" ELSE "out4", p) = out
    /\ (Fam[p.dst] = 6 /\ "reject" \in {TableSays("block", p), ChainSays("block6", p)}) <=> block
RoutesOf(p) == IF Fam[p.dst] = 6 THEN {"rule6", "route6"} ELSE {"rule4", "route4"}
PreSays(p) == {TableSays("pre", p), ChainSays(IF Fam[p.dst] = 6 THEN "pre6" ELSE "pre4", p)} \ {"return"}

LEMMA VerdictIs ==
    ASSUME NEW p \in Packets, NEW table, NEW nat, NEW out, NEW block \in BOOLEAN, SaysAll(p, table, nat, out, block)
    PROVE  LinuxVerdict(p) =
             LET said == {table, nat, out} IN
             IF said \intersect {"proxy", "dns"} # {} THEN CHOOSE v \in said : v \in {"proxy", "dns"}
               ELSE IF block THEN "reject"
               ELSE IF "mark" \in said /\ RoutesOf(p) \subseteq host.policy THEN IF PreSays(p) = {} THEN "lost" ELSE CHOOSE v \in PreSays(p) : TRUE
               ELSE "direct"
<1> DEFINE six == Fam[p.dst] = 6
<1>1. LinuxVerdict(p) =
        LET o == {TableSays("out", p), ChainSays(IF six THEN "nat6" ELSE "nat4", p),
                                       ChainSays(IF six THEN "out6" ELSE "out4", p)} IN
        IF o \intersect {"proxy", "dns"} # {} THEN CHOOSE v \in o : v \in {"proxy", "dns"}
          ELSE IF six /\ "reject" \in {TableSays("block", p), ChainSays("block6", p)} THEN "reject"
          ELSE IF "mark" \in o /\ RoutesOf(p) \subseteq host.policy THEN IF PreSays(p) = {} THEN "lost" ELSE CHOOSE v \in PreSays(p) : TRUE
          ELSE "direct"
    BY Zenon DEF LinuxVerdict, TableSays, ChainSays, RoutesOf, PreSays
<1> QED
    BY <1>1 DEF SaysAll

LEMMA Redirected ==
    ASSUME NEW p \in Packets, NEW table, NEW nat, NEW out, NEW block \in BOOLEAN, SaysAll(p, table, nat, out, block),
           NEW t \in {"proxy", "dns", "return"}, t \in {table, nat, out}, {table, nat, out} \subseteq {t, "return"}
    PROVE  LinuxVerdict(p) = IF t # "return" THEN t ELSE IF block THEN "reject" ELSE "direct"
<1> DEFINE said == {table, nat, out}
<1>1. LinuxVerdict(p) =
             IF said \intersect {"proxy", "dns"} # {} THEN CHOOSE v \in said : v \in {"proxy", "dns"}
               ELSE IF block THEN "reject"
               ELSE IF "mark" \in said /\ RoutesOf(p) \subseteq host.policy THEN IF PreSays(p) = {} THEN "lost" ELSE CHOOSE v \in PreSays(p) : TRUE
               ELSE "direct"
    BY VerdictIs
<1>2. said \subseteq {t, "return"} /\ t \in said
    OBVIOUS
<1> HIDE DEF said
<1>3. CASE t = "return"
    BY <1>1, <1>2, <1>3
<1>4. CASE t # "return"
  <2>1. t \in said /\ t \in {"proxy", "dns"} /\ \A v \in said : v \in {"proxy", "dns"} => v = t
      BY <1>2, <1>4
  <2>2. (CHOOSE v \in said : v \in {"proxy", "dns"}) = t
      BY <2>1
  <2> QED
      BY <1>1, <1>4, <2>1, <2>2
<1> QED
    BY <1>3, <1>4

LEMMA Marked ==
    ASSUME NEW p \in Packets, NEW table, NEW nat, NEW out, NEW block \in BOOLEAN, SaysAll(p, table, nat, out, block),
           NEW m \in {"mark", "return"}, m \in {table, nat, out}, {table, nat, out} \subseteq {m, "return"},
           NEW t, m = "mark" /\ ~block => RoutesOf(p) \subseteq host.policy /\ PreSays(p) = {t}
    PROVE  LinuxVerdict(p) = IF block THEN "reject" ELSE IF m = "mark" THEN t ELSE "direct"
<1> DEFINE said == {table, nat, out}
<1>1. LinuxVerdict(p) =
             IF said \intersect {"proxy", "dns"} # {} THEN CHOOSE v \in said : v \in {"proxy", "dns"}
               ELSE IF block THEN "reject"
               ELSE IF "mark" \in said /\ RoutesOf(p) \subseteq host.policy THEN IF PreSays(p) = {} THEN "lost" ELSE CHOOSE v \in PreSays(p) : TRUE
               ELSE "direct"
    BY VerdictIs
<1>2. said \subseteq {m, "return"} /\ m \in said
    OBVIOUS
<1> HIDE DEF said
<1>3. said \intersect {"proxy", "dns"} = {} /\ ("mark" \in said <=> m = "mark")
    BY <1>2
<1>4. CASE m = "mark" /\ ~block
  <2>1. PreSays(p) # {} /\ (CHOOSE v \in PreSays(p) : TRUE) = t
      BY <1>4
  <2> QED
      BY <1>1, <1>3, <1>4, <2>1
<1>5. CASE block
    BY <1>1, <1>3, <1>5
<1>6. CASE ~block /\ m # "mark"
    BY <1>1, <1>3, <1>6
<1> QED
    BY <1>4, <1>5, <1>6

\* What the methods that redirect, and those that mark, leave for a packet.
Handed(c, p) == IF p.dst \in Local \/ p.own THEN "return" ELSE Treat(c, p, "proxy", "dns")
MarkOf(c, p) == IF p.dst \in Local \/ p.own THEN "return" ELSE Treat(c, p, "mark", "mark")
Holds(m, c) == \A o \in Objects : StateOf(o) = Wanted(m, c, o)

LEMMA HandedIs ==
    ASSUME NEW c, NEW p
    PROVE  /\ Handed(c, p) \in {"proxy", "dns", "return"} /\ MarkOf(c, p) \in {"mark", "return"}
           /\ Treat(c, p, "proxy", "dns") \in {"proxy", "dns", "return"}
           /\ MarkOf(c, p) = "mark" => Handed(c, p) # "return"
           /\ Handed(c, p) # "return" => MarkOf(c, p) = "mark" /\ Handed(c, p) = Treat(c, p, "proxy", "dns")
           /\ ~Served(c, p) /\ ~Asked(c, p) => Handed(c, p) = "return" /\ MarkOf(c, p) = "return"
BY DEF Handed, MarkOf, Treat

LEMMA TablesThere ==
    ASSUME NEW c \in Config, NEW p \in Packets
    PROVE  BuildNftRules(c) # Gone /\ BuildTproxyRules(c) # Gone
<1>0. PICK net, dns, mk : net = "proxy" /\ dns = "dns" /\ mk = "mark"
    OBVIOUS
<1>1. net \in Acts /\ dns \in Acts /\ mk \in Acts
    BY <1>0 DEF Acts
<1> DEFINE T == [out : Seq(Rule), pre : Seq(Rule), block : Seq(Rule)]
<1>2. /\ <<LocalReturn, BypassReturn>> \o Body(c, net, dns) \in Seq(Rule)
      /\ <<LocalReturn, BypassReturn>> \o Body(c, mk, mk) \in Seq(Rule)
    BY <1>1, TableIs
<1>3. Body(c, net, dns) \in Seq(Rule)
    BY <1>1, BodyIs
<1>4. If(c.blockIPv6, BlockIPv6) \in Seq(Rule)
    BY BlockIs
<1>5. BuildNftRules(c) \in T
    BY <1>0, <1>2, <1>3, <1>4 DEF BuildNftRules
<1>6. BuildTproxyRules(c) \in T
    BY <1>0, <1>2, <1>3, <1>4 DEF BuildTproxyRules
<1> QED
    BY <1>5, <1>6, GoneAssumption

LEMMA NftSays ==
    ASSUME NEW c \in Config, NEW p \in Packets, Holds("nft", c)
    PROVE  SaysAll(p, Handed(c, p), "return", "return", Blocked(c, p))
<1>0. PICK m, net, dns : m = "nft" /\ net = "proxy" /\ dns = "dns"
    OBVIOUS
<1>a. net \in Acts /\ dns \in Acts
    BY <1>0 DEF Acts
<1>1. ASSUME NEW ch \in Chains PROVE ChainSays(ch, p) = "return"
  <2>1. ch \in Objects /\ Wanted(m, c, ch) = Nothing
      BY <1>0 DEF Objects, Chains, Wanted
  <2> QED
      BY <1>0, <2>1, ChainHeld DEF Holds
<1>2. ASSUME NEW k PROVE TableSays(k, p) = FirstMatch(BuildNftRules(c)[k], p)
  <2>1. "table" \in Objects
      BY DEF Objects
  <2>2. Wanted(m, c, "table") = At(BuildNftRules(c), 0)
    <3> PICK o : o = "table"
        OBVIOUS
    <3>1. Wanted(m, c, o) = At(BuildNftRules(c), 0)
        BY <1>0 DEF Wanted
    <3> QED
        BY <3>1
  <2> QED
      BY <1>0, <2>1, <2>2, TablesThere, TableHeld DEF Holds
<1>3. FirstMatch(BuildNftRules(c).out, p) = Handed(c, p)
  <2>1. BuildNftRules(c).out = <<LocalReturn, BypassReturn>> \o Body(c, net, dns)
      BY <1>0 DEF BuildNftRules
  <2>2. FirstMatch(<<LocalReturn, BypassReturn>> \o Body(c, net, dns), p)
          = IF p.dst \in Local \/ p.own THEN "return" ELSE Treat(c, p, net, dns)
      BY <1>a, TableIs
  <2> QED
      BY <1>0, <2>1, <2>2 DEF Handed
<1>4. FirstMatch(BuildNftRules(c).block, p) = IF Blocked(c, p) THEN "reject" ELSE "return"
  <2>1. BuildNftRules(c).block = If(c.blockIPv6, BlockIPv6)
      BY DEF BuildNftRules
  <2> QED
      BY <2>1, BlockIs
<1>5. \A ch \in {"nat4", "nat6", "out4", "out6", "block6"} : ChainSays(ch, p) = "return"
    BY <1>1 DEF Chains
<1>6. Blocked(c, p) => Fam[p.dst] = 6
    BY DEF Blocked
<1>7. TableSays("out", p) = Handed(c, p)
    BY <1>2, <1>3
<1>8. TableSays("block", p) = IF Blocked(c, p) THEN "reject" ELSE "return"
    BY <1>2, <1>4
<1> QED
    BY <1>5, <1>6, <1>7, <1>8 DEF SaysAll

LEMMA IptSays ==
    ASSUME NEW c \in Config, NEW p \in Packets, Holds("iptables", c)
    PROVE  SaysAll(p, "return", Handed(c, p), "return", Blocked(c, p))
<1>0. PICK m, net, dns : m = "iptables" /\ net = "proxy" /\ dns = "dns"
    OBVIOUS
<1>a. net \in Acts /\ dns \in Acts /\ LocalHead \in {<<>>, LocalHead} /\ Fam[p.dst] \in {4, 6}
    BY <1>0, PacketIs DEF Acts
<1>1. ASSUME NEW k PROVE TableSays(k, p) = "return"
  <2>1. "table" \in Objects /\ Wanted(m, c, "table") = Nothing
    <3> PICK o : o = "table"
        OBVIOUS
    <3>1. o \in Objects /\ Wanted(m, c, o) = Nothing
        BY <1>0 DEF Wanted, Objects
    <3> QED
        BY <3>1
  <2> QED
      BY <1>0, <2>1, TableHeld DEF Holds
<1>2. ASSUME NEW ch \in {"out4", "out6"} PROVE ChainSays(ch, p) = "return"
  <2>1. ch \in Objects /\ Wanted(m, c, ch) = Nothing /\ ch \in Chains
      BY <1>0 DEF Objects, Chains, Wanted
  <2> QED
      BY <1>0, <2>1, ChainHeld DEF Holds
<1>3. ASSUME NEW f \in {4, 6}, Fam[p.dst] = f, NEW ch, ch = IF f = 6 THEN "nat6" ELSE "nat4"
      PROVE  ChainSays(ch, p) = Handed(c, p)
  <2>0. ch \in Chains /\ ch \in Objects
      BY <1>3 DEF Objects, Chains
  <2>1. CASE f = 6 /\ ~UsesIPv6(c)
    <3>1. Wanted(m, c, ch) = Nothing
        BY <1>0, <1>3, <2>1 DEF Wanted
    <3>2. Handed(c, p) = "return"
        BY <1>3, <2>1, FamilyUsed, HandedIs
    <3> QED
        BY <1>0, <2>0, <3>1, <3>2, ChainHeld DEF Holds
  <2>2. CASE f = 4 \/ UsesIPv6(c)
    <3>1. Wanted(m, c, ch) = At(ChainRules(LocalHead, c, f, net, dns), 1)
        BY <1>0, <1>3, <2>2 DEF Wanted
    <3>2. FirstMatch(ChainRules(LocalHead, c, f, net, dns), p)
            = IF LocalHead # <<>> /\ (p.dst \in Local \/ p.own) THEN "return" ELSE Treat(c, p, net, dns)
        BY <1>3, <1>a, ChainIs
    <3>3. LocalHead # <<>>
      <4>1. <<LocalReturn, BypassReturn>> # <<>>
          OBVIOUS
      <4> QED
          BY <4>1 DEF LocalHead
    <3>4. StateOf(ch) = At(ChainRules(LocalHead, c, f, net, dns), 1)
        BY <1>0, <2>0, <3>1 DEF Holds
    <3>5. ChainSays(ch, p) = FirstMatch(ChainRules(LocalHead, c, f, net, dns), p)
        BY <2>0, <3>4, ChainHeld
    <3> QED
        BY <1>0, <3>2, <3>3, <3>5 DEF Handed
  <2> QED
      BY <2>1, <2>2
<1>4. ChainSays("block6", p) = IF Blocked(c, p) THEN "reject" ELSE "return"
  <2>0. PICK o : o = "block6"
      OBVIOUS
  <2>1. o \in Chains /\ o \in Objects
      BY <2>0 DEF Objects, Chains
  <2>2. CASE c.blockIPv6
    <3>1. Wanted(m, c, o) = At(BlockIPv6, 1)
        BY <1>0, <2>0, <2>2 DEF Wanted
    <3>2. FirstMatch(BlockIPv6, p) = IF Blocked(c, p) THEN "reject" ELSE "return"
      <4>1. If(c.blockIPv6, BlockIPv6) = BlockIPv6
          BY <2>2 DEF If
      <4> QED
          BY <4>1, BlockIs
    <3>3. StateOf(o) = At(BlockIPv6, 1)
        BY <1>0, <2>1, <3>1 DEF Holds
    <3> QED
        BY <2>0, <2>1, <3>2, <3>3, ChainHeld
  <2>3. CASE ~c.blockIPv6
    <3>1. Wanted(m, c, o) = Nothing /\ ~Blocked(c, p)
        BY <1>0, <2>0, <2>3 DEF Wanted, Blocked
    <3> QED
        BY <1>0, <2>0, <2>1, <3>1, ChainHeld DEF Holds
  <2> QED
      BY <2>2, <2>3
<1>5. ChainSays(IF Fam[p.dst] = 6 THEN "nat6" ELSE "nat4", p) = Handed(c, p)
    BY <1>a, <1>3
<1>6. ChainSays(IF Fam[p.dst] = 6 THEN "out6" ELSE "out4", p) = "return"
    BY <1>2
<1>7. Blocked(c, p) => Fam[p.dst] = 6
    BY DEF Blocked
<1> QED
    BY <1>1, <1>4, <1>5, <1>6, <1>7 DEF SaysAll

\* The policy routes of TPROXY, for the packets it marks.
LEMMA RoutesThere ==
    ASSUME NEW m \in {"tproxy-nft", "tproxy-ipt"}, m \in Methods, NEW c \in Given, NEW p \in Packets, NamesRouted,
           c \in Config, Holds(m, c), MarkOf(c, p) = "mark", ~Blocked(c, p)
    PROVE  RoutesOf(p) \subseteq host.policy
<1>1. ASSUME NEW o \in Policies, o \in {"rule4", "route4"} \/ SplitByFamily(c.subnets, 6) # <<>>
      PROVE  o \in host.policy
  <2>1. Wanted(m, c, o) = At(Gone, 1)
    <3>1. CASE o \in {"rule4", "route4"}
        BY <3>1 DEF Wanted
    <3>2. CASE o \in {"rule6", "route6"} /\ SplitByFamily(c.subnets, 6) # <<>>
        BY <3>2 DEF Wanted
    <3> QED
        BY <1>1, <3>1, <3>2 DEF Policies
  <2>2. StateOf(o) = At(Gone, 1)
      BY <2>1 DEF Holds, Objects
  <2> QED
      BY <2>2, RouteHeld
<1>2. CASE Fam[p.dst] # 6
    BY <1>1, <1>2 DEF RoutesOf, Policies
<1>3. CASE Fam[p.dst] = 6
  <2>1. Served(c, p) \/ Asked(c, p)
      BY HandedIs
  <2>2. SplitByFamily(c.subnets, 6) # <<>>
    <3>1. CASE Served(c, p)
        BY <1>3, <3>1, FamilyUsed
    <3>2. CASE Asked(c, p)
      <4>1. p.dst \in c.dns /\ p.dst \in OfFamily(c.dns, 6)
        <5>1. p.dst \in c.dns
            BY <3>2 DEF Asked
        <5> QED
            BY <1>3, <5>1 DEF OfFamily
      <4>2. ~c.blockIPv6
          BY <1>3, <4>1 DEF NamesRouted, Blocked
      <4>3. Methods \intersect {"tproxy-nft", "tproxy-ipt"} # {}
          OBVIOUS
      <4>4. OfFamily(c.dns, 6) # {}
          BY <4>1
      <4> QED
          BY <4>2, <4>3, <4>4 DEF NamesRouted
    <3> QED
        BY <2>1, <3>1, <3>2
  <2> QED
      BY <1>1, <1>3, <2>2 DEF RoutesOf, Policies
<1> QED
    BY <1>2, <1>3

LEMMA TproxyNftSays ==
    ASSUME NEW c \in Config, NEW p \in Packets, Holds("tproxy-nft", c)
    PROVE  /\ SaysAll(p, MarkOf(c, p), "return", "return", Blocked(c, p))
           /\ PreSays(p) = {Treat(c, p, "proxy", "dns")} \ {"return"}
<1>0. PICK m, net, dns, mk : m = "tproxy-nft" /\ net = "proxy" /\ dns = "dns" /\ mk = "mark"
    OBVIOUS
<1>a. net \in Acts /\ dns \in Acts /\ mk \in Acts
    BY <1>0 DEF Acts
<1>1. ASSUME NEW ch \in Chains PROVE ChainSays(ch, p) = "return"
  <2>1. ch \in Objects /\ Wanted(m, c, ch) = Nothing
      BY <1>0 DEF Objects, Chains, Wanted
  <2> QED
      BY <1>0, <2>1, ChainHeld DEF Holds
<1>2. ASSUME NEW k PROVE TableSays(k, p) = FirstMatch(BuildTproxyRules(c)[k], p)
  <2>1. "table" \in Objects
      BY DEF Objects
  <2>2. Wanted(m, c, "table") = At(BuildTproxyRules(c), 0)
    <3> PICK o : o = "table"
        OBVIOUS
    <3>1. Wanted(m, c, o) = At(BuildTproxyRules(c), 0)
        BY <1>0 DEF Wanted
    <3> QED
        BY <3>1
  <2> QED
      BY <1>0, <2>1, <2>2, TablesThere, TableHeld DEF Holds
<1>3. FirstMatch(BuildTproxyRules(c).out, p) = MarkOf(c, p)
  <2>1. BuildTproxyRules(c).out = <<LocalReturn, BypassReturn>> \o Body(c, mk, mk)
      BY <1>0 DEF BuildTproxyRules
  <2>2. FirstMatch(<<LocalReturn, BypassReturn>> \o Body(c, mk, mk), p)
          = IF p.dst \in Local \/ p.own THEN "return" ELSE Treat(c, p, mk, mk)
      BY <1>a, TableIs
  <2> QED
      BY <1>0, <2>1, <2>2 DEF MarkOf
<1>4. FirstMatch(BuildTproxyRules(c).pre, p) = Treat(c, p, "proxy", "dns")
  <2>1. BuildTproxyRules(c).pre = Body(c, net, dns)
      BY <1>0 DEF BuildTproxyRules
  <2>2. FirstMatch(Body(c, net, dns), p) = Treat(c, p, net, dns)
      BY <1>a, BodyIs
  <2> QED
      BY <1>0, <2>1, <2>2
<1>5. FirstMatch(BuildTproxyRules(c).block, p) = IF Blocked(c, p) THEN "reject" ELSE "return"
  <2>1. BuildTproxyRules(c).block = If(c.blockIPv6, BlockIPv6)
      BY DEF BuildTproxyRules
  <2> QED
      BY <2>1, BlockIs
<1>6. \A ch \in {"nat4", "nat6", "out4", "out6", "pre4", "pre6", "block6"} : ChainSays(ch, p) = "return"
    BY <1>1 DEF Chains
<1>7. Blocked(c, p) => Fam[p.dst] = 6
    BY DEF Blocked
<1>8. TableSays("out", p) = MarkOf(c, p) /\ TableSays("pre", p) = Treat(c, p, "proxy", "dns")
    BY <1>2, <1>3, <1>4
<1>9. TableSays("block", p) = IF Blocked(c, p) THEN "reject" ELSE "return"
    BY <1>2, <1>5
<1>10. SaysAll(p, MarkOf(c, p), "return", "return", Blocked(c, p))
    BY <1>6, <1>7, <1>8, <1>9 DEF SaysAll
<1>11. PreSays(p) = {Treat(c, p, "proxy", "dns")} \ {"return"}
    BY <1>6, <1>8 DEF PreSays
<1> QED
    BY <1>10, <1>11

LEMMA TproxyIptSays ==
    ASSUME NEW c \in Config, NEW p \in Packets, Holds("tproxy-ipt", c)
    PROVE  /\ SaysAll(p, "return", "return", MarkOf(c, p), Blocked(c, p))
           /\ MarkOf(c, p) = "mark" => PreSays(p) = {Treat(c, p, "proxy", "dns")} \ {"return"}
<1>0. PICK m, net, dns, mk : m = "tproxy-ipt" /\ net = "proxy" /\ dns = "dns" /\ mk = "mark"
    OBVIOUS
<1>a. /\ net \in Acts /\ dns \in Acts /\ mk \in Acts /\ LocalHead \in {<<>>, LocalHead}
      /\ <<>> \in {<<>>, LocalHead} /\ Fam[p.dst] \in {4, 6}
    BY <1>0, PacketIs DEF Acts
<1>1. ASSUME NEW k PROVE TableSays(k, p) = "return"
  <2>1. "table" \in Objects /\ Wanted(m, c, "table") = Nothing
    <3> PICK o : o = "table"
        OBVIOUS
    <3>1. o \in Objects /\ Wanted(m, c, o) = Nothing
        BY <1>0 DEF Wanted, Objects
    <3> QED
        BY <3>1
  <2> QED
      BY <1>0, <2>1, TableHeld DEF Holds
<1>2. ASSUME NEW ch \in {"nat4", "nat6"} PROVE ChainSays(ch, p) = "return"
  <2>1. ch \in Objects /\ Wanted(m, c, ch) = Nothing /\ ch \in Chains
      BY <1>0 DEF Objects, Chains, Wanted
  <2> QED
      BY <1>0, <2>1, ChainHeld DEF Holds
<1>3. ASSUME NEW f \in {4, 6}, Fam[p.dst] = f, NEW ch, ch = IF f = 6 THEN "out6" ELSE "out4"
      PROVE  ChainSays(ch, p) = MarkOf(c, p)
  <2>0. ch \in Chains /\ ch \in Objects
      BY <1>3 DEF Objects, Chains
  <2>1. CASE f = 6 /\ ~UsesIPv6(c)
    <3>1. Wanted(m, c, ch) = Nothing
        BY <1>0, <1>3, <2>1 DEF Wanted
    <3>2. MarkOf(c, p) = "return"
        BY <1>3, <2>1, FamilyUsed, HandedIs
    <3> QED
        BY <1>0, <2>0, <3>1, <3>2, ChainHeld DEF Holds
  <2>2. CASE f = 4 \/ UsesIPv6(c)
    <3>1. Wanted(m, c, ch) = At(ChainRules(LocalHead, c, f, mk, mk), 1)
        BY <1>0, <1>3, <2>2 DEF Wanted
    <3>2. FirstMatch(ChainRules(LocalHead, c, f, mk, mk), p)
            = IF LocalHead # <<>> /\ (p.dst \in Local \/ p.own) THEN "return" ELSE Treat(c, p, mk, mk)
      <4>1. f \in {4, 6} /\ Fam[p.dst] = f /\ mk \in Acts /\ LocalHead \in {<<>>, LocalHead}
          BY <1>3, <1>a
      <4>2. PICK head \in {<<>>, LocalHead} : head = LocalHead
          BY <4>1
      <4>3. FirstMatch(ChainRules(head, c, f, mk, mk), p)
              = IF head # <<>> /\ (p.dst \in Local \/ p.own) THEN "return" ELSE Treat(c, p, mk, mk)
          BY <4>1, ChainIs
      <4> QED
          BY <4>2, <4>3
    <3>3. LocalHead # <<>>
      <4>1. <<LocalReturn, BypassReturn>> # <<>>
          OBVIOUS
      <4> QED
          BY <4>1 DEF LocalHead
    <3>4. StateOf(ch) = At(ChainRules(LocalHead, c, f, mk, mk), 1)
        BY <1>0, <2>0, <3>1 DEF Holds
    <3>5. ChainSays(ch, p) = FirstMatch(ChainRules(LocalHead, c, f, mk, mk), p)
        BY <2>0, <3>4, ChainHeld
    <3> QED
        BY <1>0, <3>2, <3>3, <3>5 DEF MarkOf
  <2> QED
      BY <2>1, <2>2
<1>4. ASSUME NEW f \in {4, 6}, Fam[p.dst] = f, NEW ch, ch = IF f = 6 THEN "pre6" ELSE "pre4", MarkOf(c, p) = "mark"
      PROVE  ChainSays(ch, p) = Treat(c, p, "proxy", "dns")
  <2>0. ch \in Chains /\ ch \in Objects
      BY <1>4 DEF Objects, Chains
  <2>1. f = 4 \/ UsesIPv6(c)
      BY <1>4, FamilyUsed, HandedIs
  <2>2. Wanted(m, c, ch) = At(ChainRules(<<>>, c, f, net, dns), 1)
      BY <1>0, <1>4, <2>1 DEF Wanted
  <2>3. PICK none : none = <<>>
      OBVIOUS
  <2>4. FirstMatch(ChainRules(none, c, f, net, dns), p)
          = IF none # <<>> /\ (p.dst \in Local \/ p.own) THEN "return" ELSE Treat(c, p, net, dns)
      BY <1>4, <1>a, <2>3, ChainIs
  <2>5. StateOf(ch) = At(ChainRules(none, c, f, net, dns), 1)
      BY <1>0, <2>0, <2>2, <2>3 DEF Holds
  <2>6. ChainSays(ch, p) = FirstMatch(ChainRules(none, c, f, net, dns), p)
      BY <2>0, <2>5, ChainHeld
  <2> QED
      BY <1>0, <2>3, <2>4, <2>6
<1>5. ChainSays("block6", p) = IF Blocked(c, p) THEN "reject" ELSE "return"
  <2>0. PICK o : o = "block6"
      OBVIOUS
  <2>1. o \in Chains /\ o \in Objects
      BY <2>0 DEF Objects, Chains
  <2>2. CASE c.blockIPv6
    <3>1. Wanted(m, c, o) = At(BlockIPv6, 1)
        BY <1>0, <2>0, <2>2 DEF Wanted
    <3>2. FirstMatch(BlockIPv6, p) = IF Blocked(c, p) THEN "reject" ELSE "return"
      <4>1. If(c.blockIPv6, BlockIPv6) = BlockIPv6
          BY <2>2 DEF If
      <4> QED
          BY <4>1, BlockIs
    <3>3. StateOf(o) = At(BlockIPv6, 1)
        BY <1>0, <2>1, <3>1 DEF Holds
    <3> QED
        BY <2>0, <2>1, <3>2, <3>3, ChainHeld
  <2>3. CASE ~c.blockIPv6
    <3>1. Wanted(m, c, o) = Nothing /\ ~Blocked(c, p)
        BY <1>0, <2>0, <2>3 DEF Wanted, Blocked
    <3> QED
        BY <1>0, <2>0, <2>1, <3>1, ChainHeld DEF Holds
  <2> QED
      BY <2>2, <2>3
<1>6. ChainSays(IF Fam[p.dst] = 6 THEN "out6" ELSE "out4", p) = MarkOf(c, p)
    BY <1>a, <1>3
<1>7. ChainSays(IF Fam[p.dst] = 6 THEN "nat6" ELSE "nat4", p) = "return"
    BY <1>2
<1>8. Blocked(c, p) => Fam[p.dst] = 6
    BY DEF Blocked
<1>9. SaysAll(p, "return", "return", MarkOf(c, p), Blocked(c, p))
    BY <1>1, <1>5, <1>6, <1>7, <1>8 DEF SaysAll
<1>10. MarkOf(c, p) = "mark" => PreSays(p) = {Treat(c, p, "proxy", "dns")} \ {"return"}
  <2> SUFFICES ASSUME MarkOf(c, p) = "mark" PROVE PreSays(p) = {Treat(c, p, "proxy", "dns")} \ {"return"}
      OBVIOUS
  <2>1. ChainSays(IF Fam[p.dst] = 6 THEN "pre6" ELSE "pre4", p) = Treat(c, p, "proxy", "dns")
      BY <1>a, <1>4
  <2> QED
      BY <1>1, <2>1 DEF PreSays
<1> QED
    BY <1>9, <1>10

\* Where a packet goes, once the objects of the method are there.
LEMMA LinuxGoes ==
    ASSUME NamesRouted, NEW m \in Methods, m # "pf", NEW c \in Given, NEW p \in Packets, Holds(m, c)
    PROVE  LinuxVerdict(p) = IF m \in {"tproxy-nft", "tproxy-ipt"}
                             THEN IF Blocked(c, p) THEN "reject" ELSE IF Handed(c, p) = "return" THEN "direct" ELSE Handed(c, p)
                             ELSE IF Handed(c, p) # "return" THEN Handed(c, p)
                             ELSE IF Blocked(c, p) THEN "reject" ELSE "direct"
<1>0. c \in Config
    BY GivenServes
<1>b. PICK b \in BOOLEAN : b = Blocked(c, p)
    BY DEF Blocked
<1>r. PICK none : none = "return"
    OBVIOUS
<1>t. PICK t \in {"proxy", "dns", "return"} : t = Handed(c, p)
    BY HandedIs
<1>m. PICK mk \in {"mark", "return"} : mk = MarkOf(c, p)
    BY HandedIs
<1>1. CASE m = "nft"
  <2>1. SaysAll(p, t, none, none, b)
      BY <1>0, <1>1, <1>b, <1>r, <1>t, NftSays
  <2>2. t \in {t, none, none} /\ {t, none, none} \subseteq {t, "return"}
      BY <1>r
  <2>3. LinuxVerdict(p) = IF t # "return" THEN t ELSE IF b THEN "reject" ELSE "direct"
      BY <2>1, <2>2, Redirected
  <2> QED
      BY <1>1, <1>b, <1>t, <2>3
<1>2. CASE m = "iptables"
  <2>1. SaysAll(p, none, t, none, b)
      BY <1>0, <1>2, <1>b, <1>r, <1>t, IptSays
  <2>2. t \in {none, t, none} /\ {none, t, none} \subseteq {t, "return"}
      BY <1>r
  <2>3. LinuxVerdict(p) = IF t # "return" THEN t ELSE IF b THEN "reject" ELSE "direct"
      BY <2>1, <2>2, Redirected
  <2> QED
      BY <1>2, <1>b, <1>t, <2>3
<1>3. CASE m \in {"tproxy-nft", "tproxy-ipt"}
  <2>1. PICK out, back \in {mk, none} : SaysAll(p, out, none, back, b) /\ mk \in {out, none, back}
    <3>1. CASE m = "tproxy-nft"
      <4>1. SaysAll(p, mk, none, none, b)
          BY <1>0, <1>b, <1>r, <1>m, <3>1, TproxyNftSays
      <4> QED
          BY <4>1
    <3>2. CASE m = "tproxy-ipt"
      <4>1. SaysAll(p, none, none, mk, b)
          BY <1>0, <1>b, <1>r, <1>m, <3>2, TproxyIptSays
      <4> QED
          BY <4>1
    <3> QED
        BY <1>3, <3>1, <3>2
  <2>2. mk = "mark" => PreSays(p) = {Treat(c, p, "proxy", "dns")} \ {"return"}
      BY <1>0, <1>3, <1>m, TproxyNftSays, TproxyIptSays
  <2>3. mk = "mark" <=> t # "return"
      BY <1>m, <1>t, HandedIs
  <2>4. mk = "mark" => t = Treat(c, p, "proxy", "dns")
      BY <1>t, <2>3, HandedIs
  <2>5. mk = "mark" /\ ~b => RoutesOf(p) \subseteq host.policy
      BY <1>0, <1>3, <1>b, <1>m, RoutesThere
  <2>6. mk = "mark" /\ ~b => RoutesOf(p) \subseteq host.policy /\ PreSays(p) = {t}
      BY <2>2, <2>3, <2>4, <2>5
  <2>7. {out, none, back} \subseteq {mk, "return"}
      BY <1>r
  <2>8. LinuxVerdict(p) = IF b THEN "reject" ELSE IF mk = "mark" THEN t ELSE "direct"
      BY <2>1, <2>6, <2>7, Marked
  <2> QED
      BY <1>3, <1>b, <1>t, <2>3, <2>8
<1> QED
    BY <1>1, <1>2, <1>3, FirewallAssumption

LEMMA LinuxKeepsPromise ==
    ASSUME NamesRouted, NEW m \in Methods, m # "pf", NEW c \in Given, NEW p \in Packets, Holds(m, c)
    PROVE  Promised(m, c, p, LinuxVerdict(p))
<1> DEFINE v == LinuxVerdict(p)
           t == Handed(c, p)
<1>1. v = IF m \in {"tproxy-nft", "tproxy-ipt"}
          THEN IF Blocked(c, p) THEN "reject" ELSE IF t = "return" THEN "direct" ELSE t
          ELSE IF t # "return" THEN t ELSE IF Blocked(c, p) THEN "reject" ELSE "direct"
    BY LinuxGoes
<1> HIDE DEF v
<1>2. /\ Served(c, p) => ~Blocked(c, p) /\ (c.blockIPv6 => Fam[p.dst] = 4)
      /\ p.dst \in LinkLocal => Fam[p.dst] = 6 /\ (c.blockIPv6 \/ p.dst \in c.excludes)
    BY GivenServes
<1>3. t \in {"proxy", "dns", "return"} /\ m # "windivert"
    BY HandedIs, FirewallAssumption
<1>4. Exempt(m, c, p) => t = "return"
    BY <1>3 DEF Exempt, Handed, Treat
<1>5. ~Exempt(m, c, p) /\ Served(c, p) => t = "proxy"
    BY <1>3 DEF Exempt, Handed, Treat
<1>6. ~Exempt(m, c, p) /\ Asked(c, p) /\ ~Served(c, p) => t = "dns"
    BY <1>3 DEF Exempt, Handed, Treat
<1>7. p.proto = "udp" => ~Served(c, p)
    BY DEF Served
<1>8. p.proto = "tcp" /\ p.dst \in LinkLocal => t = "return" /\ ~Blocked(c, p)
  <2> SUFFICES ASSUME p.proto = "tcp", p.dst \in LinkLocal PROVE t = "return" /\ ~Blocked(c, p)
      OBVIOUS
  <2>1. ~Asked(c, p) /\ ~Blocked(c, p)
      BY DEF Asked, Blocked
  <2>2. p.dst \in c.excludes \/ ~Served(c, p)
      BY <1>2
  <2> QED
      BY <2>1, <2>2 DEF Handed, Treat
<1> HIDE DEF t
<1>9. p.proto = "tcp" /\ Exempt(m, c, p) => v = IF Blocked(c, p) THEN "reject" ELSE "direct"
    BY <1>1, <1>4
<1>10. p.proto = "tcp" /\ ~Exempt(m, c, p) /\ InSubnets(c, p) => v = "proxy"
  <2>1. p.proto = "tcp" /\ InSubnets(c, p) => Served(c, p)
      BY DEF Served
  <2> QED
      BY <1>1, <1>2, <1>5, <2>1
<1>11. p.proto = "udp" /\ ~Exempt(m, c, p) /\ p.dport = 53 /\ p.dst \in c.dns
         => v = "dns" \/ (v = "reject" /\ Blocked(c, p))
  <2>1. p.proto = "udp" /\ p.dport = 53 /\ p.dst \in c.dns => Asked(c, p)
      BY DEF Asked
  <2> QED
      BY <1>1, <1>6, <1>7, <2>1
<1>12. Blocked(c, p) /\ ~PassedUDP(m, c, p) => v # "direct"
    BY <1>1, <1>3
<1>13. p.proto = "tcp" /\ p.dst \in LinkLocal => v = "direct"
    BY <1>1, <1>8
<1> QED
    BY <1>9, <1>10, <1>11, <1>12, <1>13 DEF Promised, v

\* CaptureExact: once Setup of nft.go, iptables.go, tproxy.go or pf.go has
\* returned without an error, every packet of the host goes where the subnets,
\* excludes and DNS servers of Setup say, whatever earlier runs left on the
\* host and however they ended, but between the two hooks of pf.
THEOREM PacketsGoAsPromised == DefaultMark /\ ~SilentFaults /\ NamesRouted => (FSpec => []CaptureExact)
<1> SUFFICES ASSUME DefaultMark, ~SilentFaults, NamesRouted PROVE FSpec => []CaptureExact
    OBVIOUS
<1>1. FirewallInv /\ LeadsInv => CaptureExact
  <2> SUFFICES ASSUME FirewallInv, LeadsInv, phase = "up", ~halved, NEW p \in Packets
               PROVE  Promised(method, cfg, p, Verdict(p))
      BY DEF CaptureExact
  <2>1. cfg \in Given /\ method \in Methods
      BY DEF FirewallInv
  <2>2. CASE method # "pf"
    <3>1. Holds(method, cfg)
        BY <2>2, UpHolds DEF Holds, LeadsInv
    <3>2. Verdict(p) = LinuxVerdict(p)
        BY <2>2 DEF Verdict
    <3> QED
        BY <2>1, <2>2, <3>1, <3>2, LinuxKeepsPromise
  <2>3. CASE method = "pf"
    <3>1. host.hooks = Hooks /\ host.main # "skip" /\ host.anchor = BuildPfRules(cfg)
        BY <2>3 DEF LeadsInv, PfLeads
    <3>2. BuildPfRules(cfg) # Gone
      <4>1. cfg \in Config
          BY <2>1, GivenServes
      <4>2. BuildPfRules(cfg).rdr \in Seq(Rule) /\ BuildPfRules(cfg).filter \in Seq(Rule)
          BY <4>1, RdrIs, FilterIs
      <4>3. BuildPfRules(cfg) \in [rdr : Seq(Rule), filter : Seq(Rule)]
        <5>1. PICK a, b : BuildPfRules(cfg) = [rdr |-> a, filter |-> b]
            BY DEF BuildPfRules
        <5> QED
            BY <4>2, <5>1
      <4> QED
          BY <4>3, GoneAssumption
    <3>3. Verdict(p) = PfVerdict(BuildPfRules(cfg), p)
      <4>1. PICK a : a = host.anchor
          OBVIOUS
      <4>2. "rdr" \in host.hooks /\ "filter" \in host.hooks
          BY <3>1 DEF Hooks
      <4>3. [a EXCEPT !.rdr = IF "rdr" \in host.hooks /\ host.main # "skip" THEN @ ELSE <<>>] = a
        <5>1. PICK b, d : a = [rdr |-> b, filter |-> d]
            BY <3>1, <4>1 DEF BuildPfRules
        <5> QED
            BY <3>1, <4>2, <5>1
      <4> QED
          BY <2>3, <3>1, <3>2, <4>1, <4>2, <4>3 DEF Verdict, HookedVerdict
    <3> QED
        BY <2>1, <2>3, <3>3, PfKeepsPromise
  <2> QED
      BY <2>2, <2>3
<1> QED
    BY <1>1, LeadsAlways, PTL
=============================================================================
